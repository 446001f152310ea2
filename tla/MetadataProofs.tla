--------------------------- MODULE MetadataProofs ---------------------------
(***************************************************************************)
(* What the scores of Metadata keep out of the catalogue, for any records  *)
(* of providers, any jobs and any administrators: a record needs its ISBN  *)
(* or nearly the title of the file to reach the threshold, and every row,  *)
(* whoever writes it back and however old it is, was built from such a     *)
(* record, and lists it for review or had it accepted.                     *)
(***************************************************************************)
EXTENDS Metadata, TLAPS

\* A title of a match is that of a record the file agrees with.
Agrees(title) ==
  title.from = "match" =>
    IF title.place = "nowhere" THEN title.match.alike >= 860
    ELSE title.match.isbn = "same"

\* A row that may be written, now or late.
Sound(r) ==
  /\ r \in Row
  /\ Agrees(r.title)
  /\ Uncertain(r.title) /\ ~r.review => r.title \in accepted

\* The row, and everything read from it to be written back.
IInv ==
  /\ TypeOK
  /\ Sound(row)
  /\ \A j \in Enrichments \cup Recordings : Sound(job[j].read)
  /\ \A e \in Editors : Sound(editor[e].read)

\* What the similarities of title and author add at most.
LEMMA SimilarityPoints ==
    ASSUME NEW x \in 0..1000
    PROVE  /\ (x * 24) \div 100 \in 0..240
           /\ (x * 11) \div 100 \in 0..110
           /\ x < 860 => (x * 24) \div 100 <= 206
  OBVIOUS

LEMMA PointsOfIf ==
    ASSUME NEW b \in BOOLEAN, NEW n \in Nat
    PROVE  If(b, n) \in {0, n} /\ (~b => If(b, n) = 0)
  BY DEF If

\* The threshold is out of reach without the ISBN, or without a title that is
\* nearly the file's where the file names no ISBN.
LEMMA ScoreNeedsAgreement ==
    ASSUME NEW c \in Records, NEW place \in Places
    PROVE  /\ Score(place, c) \in 0..1000
           /\ Score(place, c) >= ReviewThreshold =>
                IF place = "nowhere" THEN c.alike >= 860 ELSE c.isbn = "same"
  <1> DEFINE byIsbn == If(place # "nowhere" /\ c.isbn = "same", 600)
             title == (c.alike * 24) \div 100
             author == (c.author * 11) \div 100
             year == If(c.year, 25)
             publisher == If(c.publisher, 15)
             near == If(place = "nowhere" /\ c.alike >= 860, 300)
             both == If(place = "nowhere" /\ c.alike >= 700 /\ c.author >= 700, 120)
             content == If(place = "content" /\ c.isbn = "other", 120)
             points == byIsbn + title + author + year + publisher + near + both + content
  <1>1. /\ c.alike \in 0..1000 /\ c.author \in 0..1000
        /\ c.year \in BOOLEAN /\ c.publisher \in BOOLEAN
    BY DEF Records
  <1>2. Score(place, c) = IF points > 1000 THEN 1000 ELSE points
    BY Zenon DEF Score, Sum
  <1>3. title \in 0..240 /\ author \in 0..110 /\ (c.alike < 860 => title <= 206)
    <2> DEFINE x == c.alike  y == c.author
    <2>1. x \in 0..1000 /\ y \in 0..1000
      BY <1>1
    <2> HIDE DEF x, y
    <2>2. /\ (x * 24) \div 100 \in 0..240 /\ (x < 860 => (x * 24) \div 100 <= 206)
          /\ (y * 11) \div 100 \in 0..110
      BY <2>1, SimilarityPoints
    <2>3. QED
      BY <2>2 DEF x, y
  <1>4. year \in {0, 25} /\ publisher \in {0, 15}
    BY <1>1, PointsOfIf
  <1>5. /\ byIsbn \in {0, 600}
        /\ place = "nowhere" \/ c.isbn # "same" => byIsbn = 0
    BY DEF If
  <1>6. /\ near \in {0, 300} /\ both \in {0, 120}
        /\ place # "nowhere" => near = 0 /\ both = 0
        /\ ~(c.alike >= 860) => near = 0
    BY DEF If
  <1>7. content \in {0, 120} /\ (place = "nowhere" => content = 0)
    BY DEF If
  <1> HIDE DEF byIsbn, title, author, year, publisher, near, both, content
  <1>8. points \in Nat
    BY <1>3, <1>4, <1>5, <1>6, <1>7
  <1>9. CASE place = "nowhere"
    <2>1. ~(c.alike >= 860) => points <= 650 - 1
      BY <1>1, <1>3, <1>4, <1>5, <1>6, <1>7, <1>9
    <2>2. QED
      BY <1>2, <1>8, <1>9, <2>1 DEF ReviewThreshold
  <1>10. CASE place # "nowhere"
    <2>1. c.isbn # "same" => points <= 650 - 1
      BY <1>3, <1>4, <1>5, <1>6, <1>7, <1>10
    <2>2. QED
      BY <1>2, <1>8, <1>10, <2>1 DEF ReviewThreshold
  <1>11. QED
    BY <1>9, <1>10

LEMMA PlainTitles ==
    /\ \A from \in {"file", "edit"} :
         Plain(from) \in Title /\ Agrees(Plain(from)) /\ ~Uncertain(Plain(from))
    /\ \A exists \in BOOLEAN : Sound([NoRow EXCEPT !.exists = exists])
    /\ Sound(NoRow)
  <1>1. \A from \in {"file", "edit"} :
          Plain(from) \in Title /\ Agrees(Plain(from)) /\ ~Uncertain(Plain(from))
    BY DEF Plain, Title, Agrees, Uncertain
  <1>2. QED
    BY <1>1 DEF NoRow, Row, Sound

LEMMA NoTitleAtFirst == ASSUME Init PROVE IInv
  BY PlainTitles DEF Init, IInv, TypeOK, Resting, Sound

\* What is sound stays so: titles that were accepted are not forgotten.
LEMMA SoundStays ==
    ASSUME accepted \subseteq accepted', NEW r, Sound(r)
    PROVE  Sound(r)'
  BY DEF Sound

LEMMA KeptTitleAgrees ==
    ASSUME NEW read, Sound(read)
    PROVE  KeptTitle(read) \in Title /\ Agrees(KeptTitle(read))
  BY PlainTitles DEF Sound, Row, KeptTitle

\* What an enrichment saves is listed for review unless its score is high enough.
LEMMA PipelineIsSound ==
    ASSUME Candidates \subseteq Records, NEW w, Sound(w.read), w.at \in Places,
           NEW c \in Candidates
    PROVE  Sound(Pipeline(w, c))
  <1> DEFINE score == Score(w.at, c)
             match == [from |-> "match", match |-> c, place |-> w.at]
             new == Pipeline(w, c)
  <1>1. c \in Records
    OBVIOUS
  <1>2. score \in 0..1000
    BY <1>1, ScoreNeedsAgreement
  <1>3. match \in Title
    BY DEF Title
  <1>4. score >= 650 => Agrees(match)
    BY <1>1, ScoreNeedsAgreement DEF Agrees, ReviewThreshold
  <1>5. new = [exists |-> TRUE,
               title |-> IF score >= 650 THEN match ELSE KeptTitle(w.read),
               trusted |-> score >= 650,
               review |-> score < 850 /\ ~(score >= 900)]
    BY DEF Pipeline, ReviewThreshold, AutoApplyThreshold, Confirmed
  <1>6. Uncertain(match) => score < 850
    BY DEF Uncertain, AutoApplyThreshold
  <1>7. KeptTitle(w.read) \in Title /\ Agrees(KeptTitle(w.read))
    BY KeptTitleAgrees
  <1> HIDE DEF score, match, new
  <1>8. score < 850 => score < 850 /\ ~(score >= 900)
    BY <1>2
  <1>9. ~(score >= 650) => score < 850
    BY <1>2
  <1>10. new \in Row /\ Agrees(new.title)
    <2>1. new.title \in Title /\ Agrees(new.title)
      BY <1>3, <1>4, <1>5, <1>7
    <2>2. PICK trusted \in BOOLEAN, review \in BOOLEAN :
            new = [exists |-> TRUE, title |-> new.title, trusted |-> trusted,
                   review |-> review]
      <3>1. (score >= 650) \in BOOLEAN /\ (score < 850 /\ ~(score >= 900)) \in BOOLEAN
        OBVIOUS
      <3>2. QED
        BY <1>5, <3>1, Zenon
    <2>3. [exists |-> TRUE, title |-> new.title, trusted |-> trusted,
           review |-> review] \in Row
      BY <2>1 DEF Row
    <2>4. QED
      BY <2>1, <2>2, <2>3, Zenon
  <1>11. Uncertain(new.title) => new.review
    <2>1. new.review = (score < 850 /\ ~(score >= 900))
      BY <1>5
    <2>2. CASE score >= 650
      <3>1. new.title = match
        BY <1>5, <2>2
      <3>2. QED
        BY <1>6, <1>8, <2>1, <3>1, Zenon
    <2>3. CASE ~(score >= 650)
      BY <1>8, <1>9, <2>1, <2>3, Zenon
    <2>4. QED
      BY <2>2, <2>3
  <1>12. QED
    BY <1>10, <1>11 DEF Sound, new

LEMMA SavedRowIsSound ==
    ASSUME IInv, NEW j \in Enrichments \cup Recordings, NEW r, Sound(r), Save(j, r)
    PROVE  IInv'
  <1>1. accepted' = accepted /\ editor' = editor /\ row' = r
    BY DEF Save
  <1>2. job' = [job EXCEPT ![j] = Resting] /\ Resting.read = NoRow /\ Resting.at = "idle"
    BY DEF Save, Resting
  <1>3. Sound(r)' /\ Sound(NoRow)'
    BY <1>1, SoundStays, PlainTitles
  <1>4. TypeOK'
    BY <1>1, <1>2, PlainTitles DEF IInv, TypeOK, Sound, Resting
  <1>5. \A i \in Enrichments \cup Recordings : Sound(job[i].read)'
    BY <1>1, <1>2, <1>3 DEF IInv, TypeOK, Sound
  <1>6. QED
    BY <1>1, <1>3, <1>4, <1>5 DEF IInv, Sound

LEMMA BegunJobIsSound ==
    ASSUME IInv, NEW j \in Enrichments \cup Recordings, NEW at \in {"cover"} \cup Places,
           NEW read, Sound(read), Begin(j, at, read)
    PROVE  IInv'
  <1>1. UNCHANGED <<row, editor, accepted>>
        /\ job' = [job EXCEPT ![j] = [at |-> at, read |-> read]]
    BY DEF Begin
  <1>2. TypeOK'
    BY <1>1 DEF IInv, TypeOK, Sound
  <1>3. \A i \in Enrichments \cup Recordings : Sound(job[i].read)'
    BY <1>1 DEF IInv, TypeOK, Sound
  <1>4. QED
    BY <1>1, <1>2, <1>3 DEF IInv, Sound

LEMMA WrittenRowIsSound ==
    ASSUME IInv, NEW e \in Editors, NEW title \in {editor[e].read.title, Plain("edit")},
           Write(e, title)
    PROVE  IInv'
  <1> DEFINE read == editor[e].read
  <1>1. /\ row' = [read EXCEPT !.title = title, !.review = FALSE]
        /\ editor' = [editor EXCEPT ![e] = Resting]
        /\ accepted' = accepted \cup {t \in {title} : Uncertain(t)}
        /\ job' = job
    BY DEF Write
  <1>2. read \in Row /\ Agrees(read.title) /\ title \in Title /\ Agrees(title)
    BY PlainTitles DEF IInv, Sound, Row
  <1>3. row' = [exists |-> read.exists, title |-> title, trusted |-> read.trusted,
                review |-> FALSE]
    BY <1>1, <1>2 DEF Row
  <1>4. row' \in Row /\ row'.title = title
    BY <1>2, <1>3 DEF Row
  <1>5. Uncertain(title) => title \in accepted'
    BY <1>1
  <1>6. Sound(row)'
    BY <1>2, <1>4, <1>5 DEF Sound
  <1>7. \A r : Sound(r) => Sound(r)'
    BY <1>1, SoundStays
  <1>8. \A j \in Enrichments \cup Recordings : Sound(job[j].read)'
    BY <1>1, <1>7 DEF IInv, Sound
  <1>9. \A f \in Editors : Sound(editor[f].read)'
    <2>1. ASSUME NEW f \in Editors PROVE Sound(editor'[f].read)
      BY <1>1, PlainTitles DEF IInv, TypeOK, Resting
    <2>2. QED
      BY <1>7, <2>1 DEF Sound
  <1>10. TypeOK'
    BY <1>1, <1>2, <1>4, PlainTitles DEF IInv, TypeOK, Resting, Sound
  <1>11. QED
    BY <1>6, <1>8, <1>9, <1>10 DEF IInv

LEMMA StepIsSound ==
    ASSUME Candidates \subseteq Records, IInv, [Next]_metadataVars
    PROVE  IInv'
  <1>1. ASSUME NEW j \in Enrichments, Enrich(j) PROVE IInv'
    BY <1>1, BegunJobIsSound DEF Enrich, IInv
  <1>2. ASSUME NEW j \in Enrichments, SaveMatch(j) PROVE IInv'
    <2>1. PICK c \in Candidates : Save(j, Pipeline(job[j], c))
      BY <1>2 DEF SaveMatch
    <2>2. Sound(Pipeline(job[j], c))
      BY <1>2, PipelineIsSound DEF SaveMatch, IInv
    <2>3. QED
      BY <2>1, <2>2, SavedRowIsSound
  <1>3. ASSUME NEW j \in Enrichments, SaveNoMatch(j) PROVE IInv'
    <2> DEFINE r == [exists |-> TRUE, title |-> KeptTitle(job[j].read), trusted |-> FALSE,
                     review |-> TRUE]
    <2>1. Sound(r)
      BY KeptTitleAgrees DEF Row, Sound, IInv
    <2>2. Save(j, r)
      BY <1>3 DEF SaveNoMatch
    <2>3. QED
      BY <2>1, <2>2, SavedRowIsSound
  <1>4. ASSUME NEW j \in Recordings, ReadForCover(j) PROVE IInv'
    BY <1>4, PlainTitles, BegunJobIsSound DEF ReadForCover, IInv
  <1>5. ASSUME NEW j \in Recordings, SaveCover(j) PROVE IInv'
    BY <1>5, SavedRowIsSound DEF SaveCover, IInv
  <1>6. ASSUME NEW e \in Editors, Find(e) PROVE IInv'
    <2>1. UNCHANGED <<row, job, accepted>>
          /\ editor' = [editor EXCEPT ![e] = [at |-> "found", read |-> row]]
      BY <1>6 DEF Find
    <2>2. TypeOK'
      BY <2>1 DEF IInv, TypeOK, Sound
    <2>3. \A f \in Editors : Sound(editor[f].read)'
      BY <2>1 DEF IInv, TypeOK, Sound
    <2>4. QED
      BY <2>1, <2>2, <2>3 DEF IInv, Sound
  <1>7. ASSUME NEW e \in Editors, Accept(e) \/ Edit(e) PROVE IInv'
    BY <1>7, WrittenRowIsSound DEF Accept, Edit
  <1>8. CASE UNCHANGED metadataVars
    BY <1>8 DEF metadataVars, IInv, TypeOK, Sound
  <1>9. QED
    BY <1>1, <1>2, <1>3, <1>4, <1>5, <1>6, <1>7, <1>8 DEF Next

LEMMA AgreedTitleMatches == ASSUME IInv PROVE ForeignTitleMatches
  BY DEF IInv, Sound, Agrees, ForeignTitleMatches

\* No title of a foreign book comes into the catalogue, for any records whose
\* similarities are thousandths (scorer.js:23-26, metadataService.js:440-458).
THEOREM NoForeignTitle ==
    ASSUME Candidates \subseteq Records
    PROVE  Spec => []ForeignTitleMatches
  <1>1. Init => IInv
    BY NoTitleAtFirst
  <1>2. IInv /\ [Next]_metadataVars => IInv'
    BY StepIsSound
  <1>3. IInv => ForeignTitleMatches
    BY AgreedTitleMatches
  <1>4. QED
    BY <1>1, <1>2, <1>3, PTL DEF Spec

\* An uncertain match leaves the list of reviews only when a request that read it
\* accepts it, for any records, jobs and requests (metadataService.js:469, 507-513,
\* 576-616).
THEOREM ReviewsAreKept ==
    ASSUME Candidates \subseteq Records
    PROVE  Spec => []UncertainIsReviewed
  <1>1. Init => IInv
    BY NoTitleAtFirst
  <1>2. IInv /\ [Next]_metadataVars => IInv'
    BY StepIsSound
  <1>3. IInv => UncertainIsReviewed
    BY DEF IInv, Sound, UncertainIsReviewed
  <1>4. QED
    BY <1>1, <1>2, <1>3, PTL DEF Spec
=============================================================================
