------------------------------- MODULE Reader -------------------------------
(***************************************************************************)
(* Reading a book: the pages of a comic archive, of which a process keeps  *)
(* the list of entries and the last pages it extracted (readerService.js). *)
(***************************************************************************)
EXTENDS Integers, Sequences

CONSTANTS Readers, Pages, MaxEdits, MaxKept

VARIABLES archive,  \* the version of the file
          known,    \* the version its fingerprint in the catalogue is of
          entries,  \* indices: the fingerprint, and the version that was listed
          kept,     \* paginas, oldest first
          reader,   \* what each request has read
          page      \* the last page answered

readerVars == <<archive, known, entries, kept, reader, page>>

Blank == 0   \* 7z finds no entry of that name and prints nothing
NoIndex == [of |-> 0, listed |-> 0]
NoPage == [of |-> 0, number |-> 0, shows |-> 0]
Waiting == [at |-> "idle", index |-> NoIndex]

Init ==
  /\ archive = 1 /\ known = 1
  /\ entries = NoIndex
  /\ kept = <<>>
  /\ reader = [r \in Readers |-> Waiting]
  /\ page = NoPage

FileReplaced ==
  /\ archive < MaxEdits
  /\ archive' = archive + 1
  /\ UNCHANGED <<known, entries, kept, reader, page>>

\* The catalogue is reconciled and read again.
FileNoticed ==
  /\ known # archive
  /\ known' = archive
  /\ UNCHANGED <<archive, entries, kept, reader, page>>

\* indexarArquivo: the book comes from the catalogue, its list from memory.
Ask(r) ==
  /\ reader[r].at = "idle"
  /\ reader' = [reader EXCEPT ![r] =
       IF entries.of = known THEN [at |-> "indexed", index |-> entries]
       ELSE [at |-> "listing", index |-> [of |-> known, listed |-> 0]]]
  /\ UNCHANGED <<archive, known, entries, kept, page>>

\* 7z lists the file as it is now.
List(r) ==
  /\ reader[r].at = "listing"
  /\ entries' = [of |-> reader[r].index.of, listed |-> archive]
  /\ reader' = [reader EXCEPT ![r] = [at |-> "indexed", index |-> entries']]
  /\ UNCHANGED <<archive, known, kept, page>>

ListFails(r) ==
  /\ reader[r].at = "listing"
  /\ reader' = [reader EXCEPT ![r] = Waiting]
  /\ UNCHANGED <<archive, known, entries, kept, page>>

SameNumber(r, n, k) == k.number = n
SamePage(r, n, k) == k.number = n /\ k.of = reader[r].index.of
Kept(r, n) == {i \in DOMAIN kept : SamePage(r, n, kept[i])}

Answer(r, n, shows) ==
  /\ page' = [of |-> reader[r].index.of, number |-> n, shows |-> shows]
  /\ reader' = [reader EXCEPT ![r] = Waiting]

ServeKept(r, n) ==
  /\ reader[r].at = "indexed"
  /\ \E i \in Kept(r, n) : Answer(r, n, kept[i].shows)
  /\ UNCHANGED <<archive, known, entries, kept>>

\* 7z extracts the entry of that name from the file as it is now; a new file may
\* have an entry of that name.  Requests for one page may both extract it.
Keep(k) ==
  LET others == SelectSeq(kept, LAMBDA o : o.of # k.of \/ o.number # k.number)
      all == IF others = kept THEN Append(kept, k)
             ELSE [i \in DOMAIN kept |->
                     IF kept[i].of = k.of /\ kept[i].number = k.number THEN k ELSE kept[i]]
  IN  IF Len(all) > MaxKept THEN Tail(all) ELSE all

Extract(r, n) ==
  /\ reader[r].at = "indexed"
  /\ \E shows \in {archive} \cup (IF reader[r].index.listed = archive THEN {} ELSE {Blank}) :
       /\ Answer(r, n, shows)
       /\ kept' = Keep([of |-> reader[r].index.of, number |-> n, shows |-> shows])
  /\ UNCHANGED <<archive, known, entries>>

\* No such page, too large, or 7z fails.
GiveUp(r) ==
  /\ reader[r].at = "indexed"
  /\ reader' = [reader EXCEPT ![r] = Waiting]
  /\ UNCHANGED <<archive, known, entries, kept, page>>

Next ==
  \/ FileReplaced \/ FileNoticed
  \/ \E r \in Readers :
       \/ Ask(r) \/ List(r) \/ ListFails(r) \/ GiveUp(r)
       \/ \E n \in Pages : ServeKept(r, n) \/ Extract(r, n)

Spec == Init /\ [][Next]_readerVars

Versions == 0..MaxEdits
Index == [of : Versions, listed : Versions]
Page == [of : Versions, number : Pages \cup {0}, shows : Versions]
TypeOK ==
  /\ archive \in 1..MaxEdits /\ known \in 1..MaxEdits
  /\ entries \in Index
  /\ kept \in Seq(Page) /\ Len(kept) <= MaxKept
  /\ reader \in [Readers -> [at : {"idle", "listing", "indexed"}, index : Index]]
  /\ page \in Page

\* A page that is answered for the file as it is shows that file, whatever was
\* listed, extracted and kept while an older file was there or the catalogue had
\* not noticed the new one (readerService.js:31-36, 74-89).
PageIsOfTheFile == (page.of > 0 /\ page.of = archive) => page.shows = archive
=============================================================================
