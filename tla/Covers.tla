------------------------------- MODULE Covers -------------------------------
(***************************************************************************)
(* The covers: extracted from a book's file by a job, kept as a file of    *)
(* the cover directory with a row of cache_entries, recorded in livros,    *)
(* kept in memory and served (driveService.js, cacheService.js), by any    *)
(* number of processes.  Several jobs may work for one book: jobs of two   *)
(* processes, under the book's id and its file's, or one that has timed    *)
(* out beside its retry.  The contents of a book and its cover are version *)
(* numbers; the fingerprint of a version is the version.  Every cover has  *)
(* the size 1.                                                             *)
(***************************************************************************)
EXTENDS Integers, Sequences, SequencesExt

CONSTANTS Books,
          Jobs,        \* cover jobs at a time
          MaxVersion,  \* how often each book's file may change
          MaxExtractions, \* how many jobs may begin
          Capacity,    \* env.cacheMaxBytes
          Archives     \* the entries of each version's archive

VARIABLES content,   \* version of each book's file
          indexed,   \* version in the catalog (obterLivros)
          coverFile, \* version of the picture on disk, 0: none, Half: half written
          entries,   \* cache_entries, least recently accessed first
          recorded,  \* livros.cover_fingerprint, or NoRow
          memory,    \* what the processes have in memory, under `capa:id:fingerprint`
          job,       \* the cover jobs
          extractions, \* how many jobs have begun (bound)
          overtaken  \* books for which a job began from a newer file before one from
                     \* an older had ended (history)

history == <<extractions, overtaken>>
coverVars == <<content, indexed, coverFile, entries, recorded, memory, job, history>>

None == 0
Half == -1
NoRow == -1
NoBook == ""
Idle == [at |-> "idle", book |-> NoBook, fp |-> 0, picture |-> 0,
         rows |-> <<>>, total |-> 0, victims |-> <<>>]

\* extrairCapaArquivoCompactado: the cover an EPUB's manifest names, else the
\* first picture by name; a picture too large is an error.
Pictures(es) == {e \in es : e.picture}
First(es) == CHOOSE e \in es : \A o \in es : e.name <= o.name
CoverEntry(es) ==
  LET named == {e \in Pictures(es) : e.manifest}
  IN  IF Pictures(es) = {} THEN {}
      ELSE {e \in {First(IF named # {} THEN named ELSE Pictures(es))} : ~e.large}

\* The server may have worked before, and may have kept the cover of a book.
Init ==
  /\ content = [b \in Books |-> 1] /\ indexed = [b \in Books |-> 1]
  /\ entries \in {<<>>} \cup {<<b>> : b \in Books}
  /\ coverFile = [b \in Books |-> IF Contains(entries, b) THEN 1 ELSE None]
  /\ recorded = [b \in Books |-> IF Contains(entries, b) THEN 1 ELSE NoRow]
  /\ memory = {}
  /\ job = [j \in Jobs |-> Idle]
  /\ extractions = 0 /\ overtaken = {}

Goto(j, place) == job' = [job EXCEPT ![j].at = place]
Idles(j) == job' = [job EXCEPT ![j] = Idle]

FileChanges(b) ==
  /\ content[b] < MaxVersion[b]
  /\ content' = [content EXCEPT ![b] = @ + 1]
  /\ UNCHANGED <<indexed, coverFile, entries, recorded, memory, job, history>>

Reindex(b) ==
  /\ indexed[b] # content[b]
  /\ indexed' = [indexed EXCEPT ![b] = content[b]]
  /\ UNCHANGED <<content, coverFile, entries, recorded, memory, job, history>>

\* An enrichment inserts the row of the book without a cover.
Enrich(b) ==
  /\ recorded[b] = NoRow
  /\ recorded' = [recorded EXCEPT ![b] = None]
  /\ UNCHANGED <<content, indexed, coverFile, entries, memory, job, history>>

\* lerCapaPersistida: the picture on disk, if it is recorded for this version.
Persisted(b) == recorded[b] = indexed[b] /\ coverFile[b] # None

Keep(b, fp, picture) ==
  memory' = memory \cup {[book |-> b, fp |-> fp, picture |-> picture]}

\* resolverCapaLivro: memory, then disk, then a new picture.  What one process has in
\* memory does not keep another from the rest.
ReadPersisted(b) ==
  /\ Persisted(b)
  /\ Keep(b, indexed[b], coverFile[b])
  /\ UNCHANGED <<content, indexed, coverFile, entries, recorded, job, history>>

Working(b) == {j \in Jobs : job[j].book = b}

Extract(j, b) ==
  /\ job[j].at = "idle" /\ ~Persisted(b) /\ extractions < MaxExtractions
  /\ CoverEntry(Archives[content[b]]) # {}
  /\ job' = [job EXCEPT ![j] = [Idle EXCEPT !.at = "making room", !.book = b,
                                            !.fp = indexed[b], !.picture = content[b]]]
  /\ extractions' = extractions + 1
  /\ overtaken' = overtaken \cup
       {o \in {b} : \E i \in Working(b) : job[i].picture # content[b]}
  /\ UNCHANGED <<content, indexed, coverFile, entries, recorded, memory>>

\* ensureCacheCapacity: only if the new cover finds no room, the rows are read.
MakeRoom(j) ==
  /\ job[j].at = "making room"
  /\ Goto(j, IF Len(entries) + 1 <= Capacity THEN "evicting" ELSE "selecting")
  /\ UNCHANGED <<content, indexed, coverFile, entries, recorded, memory, history>>

\* cleanupCaches: the oldest rows beyond the capacity that the new cover leaves, and
\* the rows without a file, found by one access to the disk after the other.
Select(j) ==
  /\ job[j].at = "selecting"
  /\ job' = [job EXCEPT ![j] = [@ EXCEPT !.at = "evicting", !.rows = entries,
                                          !.total = Len(entries)]]
  /\ UNCHANGED <<content, indexed, coverFile, entries, recorded, memory, history>>

IsVictim(j, o) == coverFile[o] = None \/ job[j].total + 1 > Capacity
Examine(j) ==
  /\ job[j].at = "evicting" /\ job[j].rows # <<>>
  /\ LET o == Head(job[j].rows)
         rest == [job[j] EXCEPT !.rows = Tail(@)]
     IN  job' = [job EXCEPT ![j] = IF IsVictim(j, o)
                   THEN [rest EXCEPT !.total = @ - 1, !.victims = Append(@, o)] ELSE rest]
  /\ UNCHANGED <<content, indexed, coverFile, entries, recorded, memory, history>>

\* The victims go when all rows are examined, a file first and then its row.
Unlink(j) ==
  /\ job[j].at = "evicting" /\ job[j].rows = <<>> /\ job[j].victims # <<>>
  /\ coverFile' = [coverFile EXCEPT ![Head(job[j].victims)] = None]
  /\ Goto(j, "dropping")
  /\ UNCHANGED <<content, indexed, entries, recorded, memory, history>>

DropRow(j) ==
  /\ job[j].at = "dropping"
  /\ entries' = RemoveFirst(entries, Head(job[j].victims))
  /\ job' = [job EXCEPT ![j] = [@ EXCEPT !.at = "evicting",
                                          !.victims = Tail(job[j].victims)]]
  /\ UNCHANGED <<content, indexed, coverFile, recorded, memory, history>>

\* Every victim is gone.
HasRoom(j) == job[j].at = "evicting" /\ job[j].rows = <<>> /\ job[j].victims = <<>>
Writes(j, picture) == coverFile' = [coverFile EXCEPT ![job[j].book] = picture]

\* A slip: the file is written where it is read.
WriteInPlace(j) ==
  /\ HasRoom(j)
  /\ IF coverFile[job[j].book] = Half
     THEN Writes(j, job[j].picture) /\ Goto(j, "registering")
     ELSE Writes(j, Half) /\ UNCHANGED job
  /\ UNCHANGED <<content, indexed, entries, recorded, memory, history>>

\* escreverCapaCache: a temporary file of its own, renamed when it is whole.
WriteAndRename(j) ==
  /\ HasRoom(j)
  /\ Writes(j, job[j].picture)
  /\ Goto(j, "registering")
  /\ UNCHANGED <<content, indexed, entries, recorded, memory, history>>

Register(j) ==
  /\ job[j].at = "registering"
  /\ entries' = Append(RemoveFirst(entries, job[j].book), job[j].book)
  /\ Goto(j, "recording")
  /\ UNCHANGED <<content, indexed, coverFile, recorded, memory, history>>

\* atualizarCapaCache: the upsert leaves the cover columns of a row that exists
\* (metadataRepository.js:27), so only the first insert records a cover.
Record(j) ==
  /\ job[j].at = "recording"
  /\ recorded' = [recorded EXCEPT ![job[j].book] = IF @ = NoRow THEN job[j].fp ELSE @]
  /\ Keep(job[j].book, job[j].fp, job[j].picture)
  /\ Idles(j)
  /\ UNCHANGED <<content, indexed, coverFile, entries, history>>

\* Any step may fail: no room on the disk, an unreadable archive, a death.
Fail(j) ==
  /\ job[j].at # "idle"
  /\ Idles(j)
  /\ UNCHANGED <<content, indexed, coverFile, entries, recorded, memory, history>>

\* The time to live of a memory, limparCache or a restart.
Forget ==
  /\ \E forgotten \in (SUBSET memory) \ {{}} : memory' = memory \ forgotten
  /\ UNCHANGED <<content, indexed, coverFile, entries, recorded, job, history>>

Next ==
  \/ \E b \in Books :
       \/ FileChanges(b) \/ Reindex(b) \/ Enrich(b) \/ ReadPersisted(b)
       \/ \E j \in Jobs : Extract(j, b)
  \/ \E j \in Jobs :
       \/ MakeRoom(j) \/ Select(j) \/ Examine(j) \/ Unlink(j) \/ DropRow(j)
       \/ WriteAndRename(j) \/ Register(j) \/ Record(j) \/ Fail(j)
  \/ Forget

Spec == Init /\ [][Next]_coverVars

\* The pictures a request for the cover of b may get, if it need not wait for a job.
Served(b) == {m.picture : m \in {m \in memory : m.book = b /\ m.fp = indexed[b]}}
               \cup IF Persisted(b) THEN {coverFile[b]} ELSE {}

Versions == {None} \cup UNION {0..MaxVersion[b] : b \in Books}
TypeOK ==
  /\ content \in [Books -> Versions] /\ indexed \in [Books -> Versions]
  /\ coverFile \in [Books -> Versions \cup {Half}]
  /\ entries \in Seq(Books) /\ IsInjective(entries)
  /\ recorded \in [Books -> Versions \cup {NoRow}]
  /\ memory \subseteq [book : Books, fp : Versions, picture : Versions \cup {Half}]
  /\ job \in [Jobs -> [at : {"idle", "making room", "selecting", "evicting",
                             "dropping", "registering", "recording"},
                       book : Books \cup {NoBook}, fp : Versions, picture : Versions,
                       rows : Seq(Books), total : Nat, victims : Seq(Books)]]
  /\ extractions \in Nat /\ overtaken \subseteq Books

\* A request never gets a picture half written, whatever jobs work for its book at
\* the same time, nor the picture of an older file than the one the catalog shows,
\* whatever other jobs evict meanwhile, unless a job from the older file was still
\* under way when one from the newer began: it may write last, over the picture that
\* is recorded for the newer (driveService.js:926-957, 961-1028, 1031-1038).
CoverIsCurrent ==
  \A b \in Books : \A p \in Served(b) : p # Half /\ (b \in overtaken \/ p >= indexed[b])
=============================================================================
