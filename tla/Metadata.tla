------------------------------ MODULE Metadata ------------------------------
(***************************************************************************)
(* The metadata of one book: the row of livros that enrichments, records   *)
(* of a new cover, manual edits and accepted reviews write, each as a      *)
(* whole from what it read before (metadataService.js,                     *)
(* metadataRepository.js), and the scores that decide what a provider's    *)
(* record may change (metadata/scorer.js).  A job or a request that fails  *)
(* has written nothing, like one that did not begin.  Scores and           *)
(* similarities are in thousandths.                                        *)
(***************************************************************************)
EXTENDS Integers

CONSTANTS Candidates,   \* records of providers, compared with the file
          Enrichments,  \* jobs of the book, of any process
          Recordings,   \* of its cover, at the end of a job
          Editors       \* requests of administrators

VARIABLES row,       \* the row of livros
          job,       \* what each job has read; an enrichment also where the file
                     \* names its ISBN
          editor,    \* what each request of an administrator has read
          accepted   \* uncertain titles that requests have read and accepted (history)

metadataVars == <<row, job, editor, accepted>>

Places == {"nowhere", "name", "content"}
ReviewThreshold == 650
AutoApplyThreshold == 850
Confirmed(score) == score >= 900

If(condition, points) == IF condition THEN points ELSE 0

\* scoreCandidate(local, candidate): place is where the local ISBN was found,
\* c.alike and c.author are the similarities of titles and authors.
Sum(place, c, byTitle) ==
  LET points == If(place # "nowhere" /\ c.isbn = "same", 600)
                + (c.alike * 24) \div 100 + (c.author * 11) \div 100
                + If(c.year, 25) + If(c.publisher, 15)
                + If(byTitle /\ c.alike >= 860, 300)
                + If(byTitle /\ c.alike >= 700 /\ c.author >= 700, 120)
                + If(place = "content" /\ c.isbn = "other", 120)
  IN  IF points > 1000 THEN 1000 ELSE points

\* A slip: the points for titles alone given to files with an ISBN as well.
ScoreByTitle(place, c) == Sum(place, c, TRUE)
Score(place, c) == Sum(place, c, place = "nowhere")

\* What a record of a provider can be.
Records == [isbn : {"same", "other", "none"}, alike : 0..1000, author : 0..1000,
            year : BOOLEAN, publisher : BOOLEAN]

NoMatch == [isbn |-> "none", alike |-> 0, author |-> 0, year |-> FALSE,
            publisher |-> FALSE]
\* Where a title comes from; of a match, how it compared with the file.
Title == [from : {"file", "edit"}, match : {NoMatch}, place : {"nowhere"}]
           \cup [from : {"match"}, match : Candidates, place : Places]
Plain(from) == [from |-> from, match |-> NoMatch, place |-> "nowhere"]

Uncertain(title) ==
  title.from = "match" /\ Score(title.place, title.match) < AutoApplyThreshold

NoRow == [exists |-> FALSE, title |-> Plain("file"), trusted |-> FALSE, review |-> FALSE]
Resting == [at |-> "idle", read |-> NoRow]

Init ==
  /\ row = NoRow
  /\ job = [j \in Enrichments \cup Recordings |-> Resting]
  /\ editor = [e \in Editors |-> Resting]
  /\ accepted = {}

Begin(j, at, read) ==
  /\ job[j].at = "idle"
  /\ job' = [job EXCEPT ![j] = [at |-> at, read |-> read]]
  /\ UNCHANGED <<row, editor, accepted>>

\* findBook, then the file is parsed.  A book is due when its row is missing,
\* pending, too old or of another file, and at any time with forceRefresh; the file
\* may be another one each time.
Enrich(j) == \E place \in Places : Begin(j, place, row)

\* atualizarCapaCache, findBook: without a row, the book as the catalogue lists it.
ReadForCover(j) ==
  Begin(j, "cover", IF row.exists THEN row ELSE [NoRow EXCEPT !.exists = TRUE])

\* montarLivroPipeline without an external title: the title read stays if the score
\* saved with it reached the threshold.
KeptTitle(read) == IF read.trusted THEN read.title ELSE Plain("file")

Pipeline(w, c) ==
  LET score == Score(w.at, c)
  IN  [exists |-> TRUE,
       title |-> IF score >= ReviewThreshold
                 THEN [from |-> "match", match |-> c, place |-> w.at]
                 ELSE KeptTitle(w.read),
       trusted |-> score >= ReviewThreshold,
       review |-> score < AutoApplyThreshold /\ ~Confirmed(score)]

Save(j, r) ==
  /\ row' = r
  /\ job' = [job EXCEPT ![j] = Resting]
  /\ UNCHANGED <<editor, accepted>>

\* The best of the records found, which may be any record.
SaveMatch(j) ==
  /\ job[j].at \in Places
  /\ \E c \in Candidates : Save(j, Pipeline(job[j], c))

\* Also when the providers fail: their errors are taken for empty answers.
SaveNoMatch(j) ==
  /\ job[j].at \in Places
  /\ Save(j, [exists |-> TRUE, title |-> KeptTitle(job[j].read), trusted |-> FALSE,
              review |-> TRUE])

\* The cover columns change, and all others go back to what was read.
SaveCover(j) == job[j].at = "cover" /\ Save(j, job[j].read)

\* atualizarMetadadosManuais: findBook.  What the page showed to the administrator
\* is not sent along.
Find(e) ==
  /\ editor[e].at = "idle" /\ row.exists
  /\ editor' = [editor EXCEPT ![e] = [at |-> "found", read |-> row]]
  /\ UNCHANGED <<row, job, accepted>>

Write(e, title) ==
  /\ editor[e].at = "found"
  /\ row' = [editor[e].read EXCEPT !.title = title, !.review = FALSE]
  /\ editor' = [editor EXCEPT ![e] = Resting]
  /\ accepted' = accepted \cup {t \in {title} : Uncertain(t)}
  /\ UNCHANGED job

\* A slip: an update of the flag instead of the row that was read.
AcceptFlagOnly(e) ==
  /\ editor[e].at = "found"
  /\ row' = [row EXCEPT !.review = FALSE]
  /\ editor' = [editor EXCEPT ![e] = Resting]
  /\ accepted' = accepted \cup {t \in {editor[e].read.title} : Uncertain(t)}
  /\ UNCHANGED job

Accept(e) == Write(e, editor[e].read.title)

\* A patch of the title, or of other fields.
Edit(e) == \E title \in {editor[e].read.title, Plain("edit")} : Write(e, title)

Next ==
  \/ \E j \in Enrichments : Enrich(j) \/ SaveMatch(j) \/ SaveNoMatch(j)
  \/ \E j \in Recordings : ReadForCover(j) \/ SaveCover(j)
  \/ \E e \in Editors : Find(e) \/ Accept(e) \/ Edit(e)

Spec == Init /\ [][Next]_metadataVars

Row == [exists : BOOLEAN, title : Title, trusted : BOOLEAN, review : BOOLEAN]
TypeOK ==
  /\ row \in Row
  /\ job \in [Enrichments \cup Recordings -> [at : {"idle", "cover"} \cup Places,
                                             read : Row]]
  /\ editor \in [Editors -> [at : {"idle", "found"}, read : Row]]
  /\ accepted \subseteq Title

\* A file that names an ISBN never gets the title of a record with another one;
\* a file without takes only a title that is nearly its own (scorer.js:23-26,
\* metadataService.js:440-458).
ForeignTitleMatches ==
  row.title.from = "match" =>
    LET c == row.title.match
    IN  IF row.title.place = "nowhere" THEN c.alike >= 860 ELSE c.isbn = "same"

\* A title taken from a match below the threshold for automatic use is listed for
\* review, unless some request has read this very title from the row and saved the
\* row as accepted: an enrichment between that read and that save is overwritten
\* with its match, and no late enrichment, cover or edit brings a match back that
\* nobody accepted as if it were (metadataService.js:469, 507-513, 576-616).  The
\* request need not have shown the title: the page may be of an older row.
UncertainIsReviewed == Uncertain(row.title) /\ ~row.review => row.title \in accepted
=============================================================================
