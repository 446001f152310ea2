-------------------------- MODULE CatalogSyncProofs --------------------------
(***************************************************************************)
(* Proofs about CatalogSync.                                               *)
(***************************************************************************)
EXTENDS CatalogSync, TLAPS

LEMMA InitTyped == Init => TypeOK
  BY SyncAssumption DEF Init, TypeOK, StateTyped, HistoryTyped, NoBooks, Steps, Files

\* The memory of a process that is done is typed.
LEMMA FinishTyped ==
  ASSUME TypeOK, NEW p \in Procs, Finish(p)
  PROVE  /\ pc' \in [Procs -> Steps]
         /\ tok' \in [Procs -> (0..clock) \cup {None}]
         /\ nextCursor' \in [Procs -> 0..clock]
         /\ path' \in [Procs -> 0..clock]
         /\ todo' \in [Procs -> SUBSET Files]
         /\ books' \in [Procs -> [Files -> Book \cup {None}]]
         /\ found' \in [Procs -> BOOLEAN]
  <1>1. clock \in Nat /\ 0 \in 0..clock
    BY SyncAssumption DEF TypeOK, StateTyped
  <1>2. NoBooks \in [Files -> Book \cup {None}]
    BY DEF NoBooks
  <1> QED
    BY <1>1, <1>2 DEF TypeOK, StateTyped, Finish, Goto, Steps

\* The same when Drive has failed.
LEMMA UnavailableTyped ==
  ASSUME TypeOK, NEW p \in Procs, Unavailable(p)
  PROVE  /\ pc' \in [Procs -> Steps]
         /\ tok' \in [Procs -> (0..clock) \cup {None}]
         /\ nextCursor' \in [Procs -> 0..clock]
         /\ path' \in [Procs -> 0..clock]
         /\ todo' \in [Procs -> SUBSET Files]
         /\ books' \in [Procs -> [Files -> Book \cup {None}]]
         /\ found' \in [Procs -> BOOLEAN]
  <1>1. CASE Finish(p)
    BY <1>1, FinishTyped
  <1>2. CASE ~Finish(p)
    <2>1. [f \in Files |-> IF f \in DriveFiles THEN None ELSE books[p][f]]
             \in [Files -> Book \cup {None}]
      BY DEF TypeOK, StateTyped
    <2> DEFINE without == [f \in Files |-> IF f \in DriveFiles THEN None ELSE books[p][f]]
    <2>2. /\ pc' = [pc EXCEPT ![p] = "commit"]
          /\ todo' = [todo EXCEPT ![p] = {}]
          /\ books' = [books EXCEPT ![p] = without]
          /\ UNCHANGED <<tok, nextCursor, path, found>>
      BY <1>2 DEF Unavailable, Goto
    <2> HIDE DEF without
    <2>3. without \in [Files -> Book \cup {None}]
      BY <2>1 DEF without
    <2> QED
      BY <2>2, <2>3 DEF TypeOK, StateTyped, Steps
  <1> QED
    BY <1>1, <1>2

\* A book of the files as they are is typed.
LEMMA BookTyped ==
  ASSUME TypeOK, NEW p, NEW f \in Files, NEW n \in 0..clock
  PROVE  /\ [rev |-> touched[f], path |-> n] \in Book
         /\ Current(f) \in Book
         /\ Reported(p, f) \in Book \cup {None}
  <1>1. clock \in Nat /\ MaxChanges \in Nat /\ clock <= MaxChanges
    BY SyncAssumption DEF TypeOK, StateTyped
  <1>2. touched[f] \in 0..MaxChanges /\ folderAt \in 0..MaxChanges /\ n \in 0..MaxChanges
    BY <1>1 DEF TypeOK, StateTyped
  <1>3. 0 \in 0..MaxChanges
    BY <1>1
  <1> QED
    BY <1>2, <1>3 DEF Book, Current, Reported

\* Every step keeps the types of the state,
LEMMA ActTyped == TypeOK /\ Act => StateTyped'
  <1> SUFFICES ASSUME TypeOK, Act PROVE StateTyped'
    OBVIOUS
  <1>0. clock \in Nat /\ MaxChanges \in Nat /\ MaxErrors \in Nat /\ clock <= MaxChanges /\ 0 \in 0..clock
    BY SyncAssumption DEF TypeOK, StateTyped
  <1>1. ASSUME NEW f \in Files, FileChanges(f) PROVE StateTyped'
    <2>1. clock' = clock + 1 /\ clock' \in 0..MaxChanges /\ 0..clock \subseteq 0..clock'
      BY <1>0, <1>1 DEF FileChanges
    <2>2. touched' \in [Files -> 0..clock'] /\ live' \subseteq Files
      BY <1>0, <1>1, <2>1 DEF FileChanges, TypeOK, StateTyped
    <2>4. /\ UNCHANGED <<oauth, folderAt, cursor, pc, errors>>
          /\ UNCHANGED <<rowStatus, payload, tok, nextCursor, path, todo, books, found>>
      BY <1>1 DEF FileChanges, index, work
    <2> QED
      BY <2>1, <2>2, <2>4 DEF TypeOK, StateTyped
  <1>2. CASE FolderChanges
    <2>1. clock' = clock + 1 /\ clock' \in 0..MaxChanges /\ 0..clock \subseteq 0..clock'
      BY <1>0, <1>2 DEF FolderChanges
    <2>2. /\ folderAt' \in 0..clock'
          /\ UNCHANGED <<oauth, live, touched, cursor, pc, errors>>
          /\ UNCHANGED <<rowStatus, payload, tok, nextCursor, path, todo, books, found>>
      BY <1>0, <1>2, <2>1 DEF FolderChanges, index, work
    <2> QED
      BY <2>1, <2>2 DEF TypeOK, StateTyped
  <1>3. ASSUME NEW f \in Files, Expire(f) PROVE StateTyped'
    BY <1>3 DEF Expire, TypeOK, StateTyped, sources, work, history
  <1>4. ASSUME NEW p \in Procs, Begin(p) PROVE StateTyped'
    BY <1>4 DEF Begin, Goto, Steps, TypeOK, StateTyped, sources, index, Files
  <1>5. ASSUME NEW p \in Procs, NEW f \in LocalFiles, StatLocal(p, f) PROVE StateTyped'
    <2>1. f \in Files
      BY DEF Files
    <2>2. Current(f) \in Book
      BY <2>1, <1>0, BookTyped
    <2> QED
      BY <1>5, <2>1, <2>2 DEF StatLocal, TypeOK, StateTyped, sources, index, history
  <1>6. ASSUME NEW p \in Procs, NEW f \in LocalFiles, LocalVanished(p, f) PROVE StateTyped'
    BY <1>6 DEF LocalVanished, TypeOK, StateTyped, sources, index, history, NoBooks
  <1>7. ASSUME NEW p \in Procs, EndWalk(p) PROVE StateTyped'
    BY <1>7 DEF EndWalk, Goto, Steps, TypeOK, StateTyped, sources, index, history, work
  <1>8. ASSUME NEW p \in Procs, ReadState(p) PROVE StateTyped'
    BY <1>8 DEF ReadState, Goto, Steps, TypeOK, StateTyped, sources, index, history
  <1>9. ASSUME NEW p \in Procs, ListTree(p) PROVE StateTyped'
    BY <1>9 DEF ListTree, Goto, Steps, TypeOK, StateTyped, sources, index, history, Files
  <1>10. ASSUME NEW p \in Procs, NEW f \in DriveFiles, ListFile(p, f) PROVE StateTyped'
    <2>1. f \in Files
      BY DEF Files
    <2>2. path[p] \in 0..clock
      BY DEF TypeOK, StateTyped
    <2>3. [rev |-> touched[f], path |-> path[p]] \in Book
      BY <2>1, <2>2, BookTyped
    <2>4. books' \in [Procs -> [Files -> Book \cup {None}]]
      BY <1>10, <2>1, <2>3 DEF ListFile, TypeOK, StateTyped
    <2>5. todo' \in [Procs -> SUBSET Files]
      BY <1>10 DEF ListFile, TypeOK, StateTyped
    <2> QED
      BY <1>10, <2>4, <2>5 DEF ListFile, TypeOK, StateTyped, sources, index, history
  <1>11. ASSUME NEW p \in Procs, StartToken(p) PROVE StateTyped'
    BY <1>0, <1>11 DEF StartToken, Goto, Steps, TypeOK, StateTyped, sources, index, history
  <1>12. ASSUME NEW p \in Procs, ListedByKey(p) PROVE StateTyped'
    BY <1>12 DEF ListedByKey, Goto, Steps, TypeOK, StateTyped, sources, index, history
  <1>13. ASSUME NEW p \in Procs, ChangesOfFolder(p) PROVE StateTyped'
    BY <1>13 DEF ChangesOfFolder, Goto, Steps, TypeOK, StateTyped, sources, index, history, work
  <1>14. ASSUME NEW p \in Procs, NoChanges(p) PROVE StateTyped'
    BY <1>0, <1>14 DEF NoChanges, Goto, Steps, TypeOK, StateTyped, sources, index, history
  <1>15. ASSUME NEW p \in Procs, ChangesOfFiles(p) PROVE StateTyped'
    <2> DEFINE merged == [f \in Files |->
                            IF f \in Changed(p) THEN Reported(p, f) ELSE books[p][f]]
    <2>1. ASSUME NEW f \in Files PROVE Reported(p, f) \in Book \cup {None}
      BY <1>0, BookTyped
    <2>2. merged \in [Files -> Book \cup {None}]
      BY <2>1 DEF TypeOK, StateTyped
    <2>3. Changed(p) \subseteq Files
      BY DEF Changed, Files
    <2>4. books' = [books EXCEPT ![p] = merged]
      BY <1>15 DEF ChangesOfFiles
    <2> HIDE DEF merged
    <2>5. books' \in [Procs -> [Files -> Book \cup {None}]]
      BY <2>2, <2>4 DEF TypeOK, StateTyped
    <2> QED
      BY <1>0, <1>15, <2>3, <2>5 DEF ChangesOfFiles, Goto, Steps, TypeOK, StateTyped, sources, index, history
  <1>16. ASSUME NEW p \in Procs, CursorExpired(p) PROVE StateTyped'
    BY <1>0, <1>16 DEF CursorExpired, Goto, Steps, TypeOK, StateTyped, sources, index, history, work
  <1>17. ASSUME NEW p \in Procs, KeepCursor(p) PROVE StateTyped'
    BY <1>17 DEF KeepCursor, Goto, Steps, TypeOK, StateTyped, sources, index, history, work
  <1>18. ASSUME NEW p \in Procs, ReadIndexed(p) PROVE StateTyped'
    <2>1. books' \in [Procs -> [Files -> Book \cup {None}]]
      BY <1>18 DEF ReadIndexed, TypeOK, StateTyped, Indexed
    <2> QED
      BY <1>18, <2>1 DEF ReadIndexed, Goto, Steps, TypeOK, StateTyped, sources, index, history
  <1>19. ASSUME NEW p \in Procs, ReadMerged(p) PROVE StateTyped'
    <2>1. books' \in [Procs -> [Files -> Book \cup {None}]]
      BY <1>19 DEF ReadMerged, TypeOK, StateTyped, Indexed
    <2> QED
      BY <1>19, <2>1 DEF ReadMerged, Goto, Steps, TypeOK, StateTyped, sources, index, history
  <1>20. ASSUME NEW p \in Procs, NEW f \in DriveFiles, Resolve(p, f) PROVE StateTyped'
    <2>1. f \in Files
      BY DEF Files
    <2>2. folderAt \in 0..MaxChanges
      BY <1>0 DEF TypeOK, StateTyped
    <2>3. ASSUME books[p][f] # None
          PROVE  [rev |-> books[p][f].rev, path |-> folderAt] \in Book
      BY <2>1, <2>2, <2>3 DEF TypeOK, StateTyped, Book
    <2> QED
      BY <1>20, <2>1, <2>3 DEF Resolve, TypeOK, StateTyped, sources, index, history
  <1>21. ASSUME NEW p \in Procs, Resolved(p) PROVE StateTyped'
    BY <1>21 DEF Resolved, Goto, Steps, TypeOK, StateTyped, sources, index, history, work
  <1>22. ASSUME NEW p \in Procs, SaveCursor(p) PROVE StateTyped'
    BY <1>22 DEF SaveCursor, Goto, Steps, TypeOK, StateTyped, sources, index, history
  <1>23. ASSUME NEW p \in Procs, NoteError(p) PROVE StateTyped'
    BY <1>23, UnavailableTyped DEF NoteError, TypeOK, StateTyped, sources, index
  <1>24. ASSUME NEW p \in Procs, Commit(p) PROVE StateTyped'
    <2>1. /\ payload' \in [Files -> Book \cup {None}]
          /\ rowStatus' \in [Files -> {"absent", "active", "missing"}]
      BY <1>24 DEF Commit, TypeOK, StateTyped
    <2>2. \A f \in Files : payload'[f] = None <=> rowStatus'[f] = "absent"
      BY <1>24 DEF Commit, Active, TypeOK, StateTyped
    <2> QED
      BY <1>24, <2>1, <2>2, FinishTyped DEF Commit, TypeOK, StateTyped, sources
  <1>25. ASSUME NEW p \in Procs, DriveFails(p) PROVE StateTyped'
    BY <1>0, <1>25, UnavailableTyped DEF DriveFails, TypeOK, StateTyped, sources, index
  <1>26. ASSUME NEW p \in Procs, ChangesFail(p) PROVE StateTyped'
    BY <1>0, <1>26 DEF ChangesFail, Goto, Steps, TypeOK, StateTyped, sources, index, history, work
  <1>27. ASSUME NEW p \in Procs, Abort(p) PROVE StateTyped'
    BY <1>0, <1>27, FinishTyped DEF Abort, TypeOK, StateTyped, sources, index
  <1> QED
    BY <1>1, <1>2, <1>3, <1>4, <1>5, <1>6, <1>7, <1>8, <1>9, <1>10, <1>11, <1>12, <1>13,
       <1>14, <1>15, <1>16, <1>17, <1>18, <1>19, <1>20, <1>21, <1>22, <1>23, <1>24, <1>25,
       <1>26, <1>27 DEF Act, Progress, Fault

\* and what is remembered of a state has a type if the state has.
LEMMA HistoryIsTyped ==
  ASSUME TypeOK, StateTyped', Remember
  PROVE  HistoryTyped'
  <1>1. There' \subseteq Files \X (0..MaxChanges)
    <2>1. clock' \in 0..MaxChanges /\ live' \subseteq Files /\ touched' \in [Files -> 0..clock']
      BY DEF StateTyped
    <2>2. \A f \in Files : touched'[f] \in 0..MaxChanges
      BY <2>1, SyncAssumption
    <2> QED
      BY <2>1, <2>2 DEF There
  <1>2. Shown' \subseteq Files \X (0..MaxChanges)
    <2>1. \A f \in Files : Active(f)' => payload'[f] \in Book
      BY DEF StateTyped, Active
    <2> QED
      BY <2>1 DEF Shown, Book
  <1>3. Files \ live' \subseteq Files /\ {f \in Files : ~Active(f)'} \subseteq Files
    OBVIOUS
  <1> QED
    BY <1>1, <1>2, <1>3 DEF Remember, Busy, TypeOK, HistoryTyped

LEMMA NextTyped == TypeOK /\ [Next]_vars => TypeOK'
  <1>1. ASSUME TypeOK, Next PROVE TypeOK'
    BY <1>1, ActTyped, HistoryIsTyped DEF Next, TypeOK
  <1>2. ASSUME TypeOK, UNCHANGED vars PROVE TypeOK'
    BY <1>2 DEF TypeOK, StateTyped, HistoryTyped, vars, sources, index, work, history
  <1> QED
    BY <1>1, <1>2

\* TypeOK holds for any number of files, changes, failures and processes: no
\* cursor that is saved or held lies ahead of the change log.
THEOREM SyncTypeCorrect == Spec => []TypeOK
  <1> QED
    BY InitTyped, NextTyped, PTL DEF Spec

-----------------------------------------------------------------------------
(***************************************************************************)
(* The cursor is honest                                                    *)
(***************************************************************************)

LEMMA InitKnows == Init => SyncInv
  <1> SUFFICES ASSUME Init PROVE SyncInv
    OBVIOUS
  <1>1. TypeOK
    BY InitTyped
  <1>2. cursor = None /\ \A p \in Procs : pc[p] = "idle" /\ ~found[p]
    BY DEF Init
  <1>3. IndexKept /\ KeyHasNoCursor
    BY <1>2 DEF IndexKept, KeyHasNoCursor
  <1>4. ASSUME NEW p \in Procs PROVE Knows(p)
    BY <1>2 DEF Knows, KeyPath, FoundAtCommit, TokIsCursor, AtList, AtKeep, AtIndex, AtMerge,
                AtResolve, AtSave, AtCommit, Ahead
  <1> QED
    BY <1>1, <1>3, <1>4 DEF SyncInv

\* A step of the only process that leaves sources, cursor and index alone, and is
\* not the end of a reconciliation, keeps the invariant if it keeps what the
\* process knows.
LEMMA InnerStep ==
  ASSUME Calm, SyncInv, TypeOK', NEW p \in Procs, pc[p] # "commit",
         UNCHANGED <<oauth, live, touched, folderAt, clock, cursor, rowStatus, payload>>,
         Knows(p)'
  PROVE  SyncInv'
  <1>1. \A q \in Procs : q = p
    BY DEF Calm
  <1>2. \A q \in Procs : ~Ahead(q)
    BY <1>1 DEF Ahead
  <1>3. cursor # None => IndexTells(cursor)
    BY <1>2 DEF SyncInv, IndexKept
  <1>4. IndexKept'
    BY <1>3 DEF IndexKept, IndexTells, Tells, Indexed, Active
  <1>5. KeyHasNoCursor'
    BY DEF SyncInv, KeyHasNoCursor
  <1> QED
    BY <1>1, <1>4, <1>5 DEF SyncInv

\* Before its end, the index of a reconciliation tells all up to the cursor.
LEMMA IndexTellsBefore ==
  ASSUME Calm, SyncInv, NEW p \in Procs, pc[p] # "commit", cursor # None
  PROVE  IndexTells(cursor)
  <1>1. \A q \in Procs : ~Ahead(q)
    BY DEF Calm, Ahead
  <1> QED
    BY <1>1 DEF SyncInv, IndexKept

\* A process that is idle, in the walk or about to read its state knows nothing.
LEMMA NothingToKnow ==
  ASSUME NEW p \in Procs, ~found'[p],
         \/ pc'[p] \in {"idle", "walk", "tree"}
         \/ pc'[p] = "state" /\ oauth'
  PROVE  Knows(p)'
  BY DEF Knows, KeyPath, FoundAtCommit, TokIsCursor, AtList, AtKeep, AtIndex, AtMerge,
         AtResolve, AtSave, AtCommit, Ahead

\* Nor does one that is done, or goes on without Drive.
LEMMA UnavailableKnows ==
  ASSUME TypeOK, NEW p \in Procs, Unavailable(p), ~found[p]
  PROVE  Knows(p)' /\ ~Ahead(p)'
  <1>1. CASE Finish(p)
    <2>1. pc'[p] = "idle" /\ ~found'[p]
      BY <1>1 DEF Finish, Goto, TypeOK, StateTyped
    <2> QED
      BY <2>1 DEF Knows, KeyPath, FoundAtCommit, TokIsCursor, AtList, AtKeep, AtIndex, AtMerge,
                  AtResolve, AtSave, AtCommit, Ahead
  <1>2. CASE ~Finish(p)
    <2>1. pc'[p] = "commit" /\ ~found'[p]
      BY <1>2 DEF Unavailable, Goto, TypeOK, StateTyped
    <2>2. \A f \in DriveFiles : books'[p][f] = None
      BY <1>2 DEF Unavailable, TypeOK, StateTyped, Files
    <2> QED
      BY <2>1, <2>2 DEF Knows, KeyPath, FoundAtCommit, TokIsCursor, AtList, AtKeep, AtIndex,
                        AtMerge, AtResolve, AtSave, AtCommit, Ahead
  <1> QED
    BY <1>1, <1>2

\* The steps up to the files of Drive, and the listing.
LEMMA ListingKnows ==
  ASSUME Calm, SyncInv, TypeOK', NEW p \in Procs,
         \/ Begin(p) \/ EndWalk(p) \/ ReadState(p) \/ ListTree(p)
         \/ \E f \in LocalFiles : StatLocal(p, f) \/ LocalVanished(p, f)
         \/ \E f \in DriveFiles : ListFile(p, f)
         \/ StartToken(p) \/ ListedByKey(p)
  PROVE  SyncInv'
  <1> USE DEF Goto, index, sources, history
  <1>0. TypeOK /\ Knows(p) /\ (pc[p] # "commit" => ~found[p])
    BY DEF SyncInv, Knows, FoundAtCommit
  <1>1. CASE Begin(p)
    <2>1. pc[p] # "commit" /\ pc'[p] = "walk" /\ ~found'[p]
      BY <1>0, <1>1 DEF Begin, TypeOK, StateTyped
    <2> QED
      BY <1>1, <2>1, InnerStep, NothingToKnow DEF Begin
  <1>2. CASE \E f \in LocalFiles : StatLocal(p, f) \/ LocalVanished(p, f)
    <2>1. pc[p] # "commit" /\ pc'[p] = "walk" /\ ~found'[p]
      BY <1>0, <1>2 DEF StatLocal, LocalVanished, TypeOK, StateTyped
    <2> QED
      BY <1>2, <2>1, InnerStep, NothingToKnow DEF StatLocal, LocalVanished
  <1>3. CASE EndWalk(p)
    <2>1. /\ pc[p] # "commit" /\ ~found'[p]
          /\ pc'[p] = "tree" \/ (pc'[p] = "state" /\ oauth')
      BY <1>0, <1>3 DEF EndWalk, TypeOK, StateTyped, work
    <2> QED
      BY <1>3, <2>1, InnerStep, NothingToKnow DEF EndWalk
  <1>4. CASE ReadState(p)
    <2>1. pc[p] # "commit" /\ ~found'[p] /\ tok'[p] = cursor
      BY <1>0, <1>4 DEF ReadState, TypeOK, StateTyped
    <2>2. oauth
      BY <1>0, <1>4 DEF ReadState, Knows, KeyPath
    <2>3. CASE cursor = None
      <3>1. pc'[p] = "tree"
        BY <1>0, <1>4, <2>3 DEF ReadState, TypeOK, StateTyped
      <3> QED
        BY <1>4, <2>1, <3>1, InnerStep, NothingToKnow DEF ReadState
    <2>4. CASE cursor # None
      <3>1. pc'[p] = "changes" /\ cursor' = cursor /\ oauth'
        BY <1>0, <1>4, <2>2, <2>4 DEF ReadState, TypeOK, StateTyped
      <3>2. Knows(p)'
        BY <2>1, <2>4, <3>1 DEF Knows, KeyPath, FoundAtCommit, TokIsCursor, AtList, AtKeep,
                                AtIndex, AtMerge, AtResolve, AtSave, AtCommit, Ahead
      <3> QED
        BY <1>4, <2>1, <3>2, InnerStep DEF ReadState
    <2> QED
      BY <2>3, <2>4
  <1>5. CASE ListTree(p)
    <2>1. /\ pc[p] # "commit" /\ ~found'[p] /\ pc'[p] = "list"
          /\ path'[p] = folderAt' /\ todo'[p] = DriveFiles
      BY <1>0, <1>5 DEF ListTree, TypeOK, StateTyped
    <2>2. Knows(p)'
      BY <2>1 DEF Knows, KeyPath, FoundAtCommit, TokIsCursor, AtList, AtKeep, AtIndex,
                  AtMerge, AtResolve, AtSave, AtCommit, Ahead
    <2> QED
      BY <1>5, <2>1, <2>2, InnerStep DEF ListTree
  <1>6. ASSUME NEW f \in DriveFiles, ListFile(p, f) PROVE SyncInv'
    <2>1. f \in Files /\ DriveFiles \subseteq Files
      BY DEF Files
    <2>2. /\ pc[p] = "list" /\ ~found'[p] /\ pc'[p] = "list" /\ path'[p] = path[p]
          /\ UNCHANGED <<live, touched, folderAt, clock>>
          /\ todo'[p] = todo[p] \ {f}
          /\ \A g \in DriveFiles : g # f => books'[p][g] = books[p][g]
          /\ books'[p][f] = IF f \in live THEN [rev |-> touched[f], path |-> path[p]] ELSE None
      BY <1>0, <1>6, <2>1 DEF ListFile, TypeOK, StateTyped
    <2>3. path[p] = folderAt /\ \A g \in DriveFiles \ todo[p] : Tells(books[p][g], g, clock)
      BY <1>0, <2>2 DEF Knows, AtList
    <2>4. ASSUME f \in live PROVE books'[p][f] # None
      <3>1. path[p] \in 0..clock
        BY <1>0 DEF TypeOK, StateTyped
      <3>2. books'[p][f] \in Book
        BY <1>0, <2>1, <2>2, <2>4, <3>1, BookTyped
      <3> QED
        BY <3>2, SyncAssumption
    <2>5. ASSUME NEW g \in DriveFiles \ todo'[p] PROVE Tells(books[p][g], g, clock)'
      <3>1. CASE g = f
        BY <2>2, <2>3, <2>4, <3>1 DEF Tells
      <3>2. CASE g # f
        BY <2>2, <2>3, <2>5, <3>2 DEF Tells
      <3> QED
        BY <3>1, <3>2
    <2>6. Knows(p)'
      BY <2>2, <2>3, <2>5 DEF Knows, KeyPath, FoundAtCommit, TokIsCursor, AtList, AtKeep,
                  AtIndex, AtMerge, AtResolve, AtSave, AtCommit, Ahead
    <2> QED
      BY <1>6, <2>2, <2>6, InnerStep DEF ListFile
  <1>7. CASE StartToken(p)
    <2>1. /\ pc[p] = "list" /\ ~found'[p] /\ pc'[p] = "save" /\ todo[p] = {} /\ oauth'
          /\ UNCHANGED <<live, touched, folderAt, clock, books>>
          /\ nextCursor'[p] = clock
      BY <1>0, <1>7 DEF StartToken, TypeOK, StateTyped
    <2>2. \A f \in DriveFiles : Tells(books[p][f], f, clock)
      BY <1>0, <2>1 DEF Knows, AtList
    <2>3. BooksTell(p, nextCursor[p])'
      BY <2>1, <2>2 DEF BooksTell, Tells
    <2>4. Knows(p)'
      BY <2>1, <2>3 DEF Knows, KeyPath, FoundAtCommit, TokIsCursor, AtList, AtKeep,
                  AtIndex, AtMerge, AtResolve, AtSave, AtCommit, Ahead
    <2> QED
      BY <1>7, <2>1, <2>4, InnerStep DEF StartToken
  <1>8. CASE ListedByKey(p)
    <2>1. pc[p] # "commit" /\ found'[p] /\ pc'[p] = "commit" /\ cursor' = None
      BY <1>0, <1>8 DEF ListedByKey, TypeOK, StateTyped, SyncInv, KeyHasNoCursor
    <2>2. Knows(p)'
      BY <2>1 DEF Knows, KeyPath, FoundAtCommit, TokIsCursor, AtList, AtKeep,
                  AtIndex, AtMerge, AtResolve, AtSave, AtCommit, Ahead
    <2> QED
      BY <1>8, <2>1, <2>2, InnerStep DEF ListedByKey
  <1> QED
    BY <1>1, <1>2, <1>3, <1>4, <1>5, <1>6, <1>7, <1>8

\* The steps of the change log.
LEMMA ChangesKnow ==
  ASSUME Calm, SyncInv, TypeOK', NEW p \in Procs,
         \/ ChangesOfFolder(p) \/ CursorExpired(p) \/ ChangesFail(p)
         \/ NoChanges(p) \/ ChangesOfFiles(p) \/ ReadIndexed(p) \/ ReadMerged(p)
         \/ Resolved(p)
         \/ \E f \in DriveFiles : Resolve(p, f)
  PROVE  SyncInv'
  <1> USE DEF Goto, index, sources, history, work
  <1>0. /\ TypeOK /\ Knows(p) /\ (pc[p] # "commit" => ~found[p])
        /\ clock \in Nat /\ folderAt \in 0..clock
        /\ \A f \in DriveFiles : touched[f] \in 0..clock
    BY SyncAssumption DEF SyncInv, Knows, FoundAtCommit, TypeOK, StateTyped, Files
  <1>1. CASE ChangesOfFolder(p) \/ CursorExpired(p)
    <2>1. pc[p] # "commit" /\ pc'[p] = "tree" /\ ~found'[p]
      BY <1>0, <1>1 DEF ChangesOfFolder, CursorExpired, TypeOK, StateTyped
    <2> QED
      BY <1>1, <2>1, InnerStep, NothingToKnow DEF ChangesOfFolder, CursorExpired
  <1>2. CASE ChangesFail(p)
    <2>1. /\ pc[p] = "changes" /\ pc'[p] = "note" /\ ~found'[p]
          /\ UNCHANGED <<tok, cursor, oauth>>
      BY <1>0, <1>2 DEF ChangesFail, TypeOK, StateTyped
    <2>2. Knows(p)'
      BY <1>0, <2>1 DEF Knows, KeyPath, FoundAtCommit, TokIsCursor, AtList, AtKeep, AtIndex,
                        AtMerge, AtResolve, AtSave, AtCommit, Ahead
    <2> QED
      BY <1>2, <2>1, <2>2, InnerStep DEF ChangesFail
  <1>3. CASE NoChanges(p)
    <2>1. /\ pc[p] = "changes" /\ pc'[p] = "keep" /\ ~found'[p]
          /\ UNCHANGED <<tok, cursor, oauth, touched, folderAt>>
      BY <1>0, <1>3 DEF NoChanges, TypeOK, StateTyped
    <2>2. tok[p] = cursor /\ cursor # None /\ oauth /\ tok[p] \in Nat
      BY <1>0, <2>1, SyncAssumption DEF Knows, TokIsCursor, KeyPath, TypeOK, StateTyped
    <2>3. folderAt <= tok[p] /\ \A f \in DriveFiles : touched[f] <= tok[p]
      BY <1>0, <1>3, <2>2 DEF NoChanges, FolderChanged, Changed
    <2>4. Knows(p)'
      BY <2>1, <2>2, <2>3 DEF Knows, KeyPath, FoundAtCommit, TokIsCursor, AtList, AtKeep,
                  AtIndex, AtMerge, AtResolve, AtSave, AtCommit, Ahead, FolderBefore, OnlyBefore
    <2> QED
      BY <1>3, <2>1, <2>4, InnerStep DEF NoChanges
  <1>4. CASE ChangesOfFiles(p)
    <2>1. /\ pc[p] = "changes" /\ pc'[p] = "merge" /\ ~found'[p]
          /\ UNCHANGED <<tok, cursor, oauth, live, touched, folderAt>>
          /\ todo'[p] = Changed(p)
          /\ \A f \in Changed(p) : books'[p][f] = Reported(p, f)
      BY <1>0, <1>4 DEF ChangesOfFiles, TypeOK, StateTyped, Changed, Files
    <2>2. tok[p] = cursor /\ cursor # None /\ oauth /\ tok[p] \in Nat
      BY <1>0, <2>1, SyncAssumption DEF Knows, TokIsCursor, KeyPath, TypeOK, StateTyped
    <2>3. folderAt <= tok[p] /\ \A f \in DriveFiles \ Changed(p) : touched[f] <= tok[p]
      BY <1>0, <1>4, <2>2 DEF ChangesOfFiles, FolderChanged, Changed
    <2>4. ASSUME NEW f \in Changed(p) PROVE TellsFile(books'[p][f], f)
      <3>1. [rev |-> touched[f], path |-> 0] # None
        <4>1. f \in Files /\ 0 \in 0..clock
          BY <1>0 DEF Changed, Files
        <4> QED
          BY <1>0, <4>1, SyncAssumption, BookTyped
      <3>2. books'[p][f] = Reported(p, f)
        BY <2>1
      <3>3. CASE f \in live
        BY <3>1, <3>2, <3>3 DEF TellsFile, Reported
      <3>4. CASE f \notin live
        BY <3>2, <3>4 DEF TellsFile, Reported
      <3> QED
        BY <3>3, <3>4
    <2>5. Knows(p)'
      <3>1. \A f \in Changed(p) : TellsFile(books[p][f], f)'
        BY <2>1, <2>4 DEF TellsFile
      <3> QED
        BY <2>1, <2>2, <2>3, <3>1
           DEF Knows, KeyPath, FoundAtCommit, TokIsCursor, AtList, AtKeep, AtIndex, AtMerge,
               AtResolve, AtSave, AtCommit, Ahead, FolderBefore, OnlyBefore
    <2> QED
      BY <1>4, <2>1, <2>5, InnerStep DEF ChangesOfFiles
  <1>5. CASE ReadIndexed(p)
    <2>1. /\ pc[p] = "index" /\ pc'[p] = "commit" /\ found'[p]
          /\ UNCHANGED <<cursor, oauth, live, touched, folderAt>>
          /\ \A f \in DriveFiles : books'[p][f] = Indexed(f)
      BY <1>0, <1>5 DEF ReadIndexed, TypeOK, StateTyped, Files
    <2>2. oauth
      BY <1>0, <2>1 DEF Knows, KeyPath
    <2>3. cursor # None => IndexTells(cursor)
      BY <2>1, IndexTellsBefore
    <2>4. cursor # None => BooksTell(p, cursor)'
      BY <2>1, <2>3 DEF BooksTell, IndexTells, Tells
    <2>5. Knows(p)'
      BY <2>1, <2>2, <2>4 DEF Knows, KeyPath, FoundAtCommit, TokIsCursor, AtList, AtKeep,
                  AtIndex, AtMerge, AtResolve, AtSave, AtCommit, Ahead
    <2> QED
      BY <1>5, <2>1, <2>5, InnerStep DEF ReadIndexed
  <1>6. CASE ReadMerged(p)
    <2>1. /\ pc[p] = "merge" /\ pc'[p] = "resolve" /\ ~found'[p]
          /\ UNCHANGED <<tok, cursor, nextCursor, todo, oauth, live, touched, folderAt>>
          /\ \A f \in DriveFiles \ todo[p] : books'[p][f] = Indexed(f)
          /\ \A f \in DriveFiles \cap todo[p] : books'[p][f] = books[p][f]
      BY <1>0, <1>6 DEF ReadMerged, TypeOK, StateTyped, Files
    <2>2. tok[p] = cursor /\ cursor # None /\ oauth
      BY <1>0, <2>1 DEF Knows, TokIsCursor, KeyPath
    <2>3. IndexTells(cursor)
      BY <2>1, <2>2, IndexTellsBefore
    <2>4. /\ FolderBefore(p)
          /\ \A f \in DriveFiles \ todo[p] : OnlyBefore(p, f)
          /\ \A f \in DriveFiles \cap todo[p] :
               touched[f] <= nextCursor[p] => TellsFile(books[p][f], f)
      BY <1>0, <2>1 DEF Knows, AtMerge
    <2>5. ASSUME NEW f \in DriveFiles \ todo[p], touched[f] <= nextCursor[p]
          PROVE  Tells(books[p][f], f, nextCursor[p])'
      <3>1. Tells(Indexed(f), f, cursor)
        BY <2>2, <2>3, <2>4, <2>5 DEF OnlyBefore, IndexTells
      <3>2. folderAt <= nextCursor[p] => folderAt <= cursor
        BY <2>2, <2>4 DEF FolderBefore
      <3>3. books'[p][f] = Indexed(f) /\ nextCursor'[p] = nextCursor[p]
        BY <2>1, <2>5
      <3>4. Tells(books'[p][f], f, nextCursor'[p])
        BY <3>1, <3>2, <3>3 DEF Tells
      <3> QED
        BY <2>1, <3>4 DEF Tells
    <2>6. ASSUME NEW f \in DriveFiles \cap todo[p], touched[f] <= nextCursor[p]
          PROVE  TellsFile(books[p][f], f)'
      BY <2>1, <2>4, <2>6 DEF TellsFile
    <2>7. AtResolve(p)'
      BY <2>1, <2>5, <2>6 DEF AtResolve
    <2>8. Knows(p)'
      BY <2>1, <2>2, <2>7 DEF Knows, KeyPath, FoundAtCommit, TokIsCursor, AtList, AtKeep,
                  AtIndex, AtMerge, AtSave, AtCommit, Ahead
    <2> QED
      BY <1>6, <2>1, <2>8, InnerStep DEF ReadMerged
  <1>7. ASSUME NEW f \in DriveFiles, Resolve(p, f) PROVE SyncInv'
    <2>1. /\ pc[p] = "resolve" /\ pc'[p] = "resolve" /\ ~found'[p] /\ f \in todo[p]
          /\ UNCHANGED <<tok, cursor, nextCursor, oauth, live, touched, folderAt>>
          /\ todo'[p] = todo[p] \ {f}
          /\ \A g \in DriveFiles : g # f => books'[p][g] = books[p][g]
          /\ books'[p][f] = IF books[p][f] = None THEN None
                            ELSE [rev |-> books[p][f].rev, path |-> folderAt]
      BY <1>0, <1>7 DEF Resolve, TypeOK, StateTyped, Files
    <2>2. AtResolve(p) /\ TokIsCursor(p) /\ oauth
      BY <1>0, <2>1 DEF Knows, KeyPath
    <2>3. ASSUME books[p][f] # None PROVE books'[p][f] # None
      <3>1. books[p][f] \in Book
        BY <1>0, <2>3 DEF TypeOK, StateTyped, Files
      <3>2. folderAt \in 0..MaxChanges
        BY <1>0, SyncAssumption DEF TypeOK, StateTyped
      <3>3. books'[p][f] \in Book
        BY <2>1, <2>3, <3>1, <3>2 DEF Book
      <3> QED
        BY <3>3, SyncAssumption
    <2>4. ASSUME NEW g \in DriveFiles, touched[g] <= nextCursor[p]
          PROVE  (IF g \in todo[p] THEN TellsFile(books[p][g], g)
                                   ELSE Tells(books[p][g], g, nextCursor[p]))'
      <3>1. CASE g = f
        <4>1. TellsFile(books[p][f], f)
          BY <2>1, <2>2, <2>4, <3>1 DEF AtResolve
        <4>2. Tells(books[p][f], f, nextCursor[p])'
          BY <2>1, <2>3, <4>1 DEF Tells, TellsFile
        <4> QED
          BY <2>1, <3>1, <4>2
      <3>2. CASE g # f
        BY <2>1, <2>2, <2>4, <3>2 DEF AtResolve, Tells, TellsFile
      <3> QED
        BY <3>1, <3>2
    <2>5. AtResolve(p)'
      BY <2>1, <2>4 DEF AtResolve
    <2>6. Knows(p)'
      BY <2>1, <2>2, <2>5 DEF Knows, KeyPath, FoundAtCommit, TokIsCursor, AtList, AtKeep,
                  AtIndex, AtMerge, AtSave, AtCommit, Ahead
    <2> QED
      BY <1>7, <2>1, <2>6, InnerStep DEF Resolve
  <1>8. CASE Resolved(p)
    <2>1. /\ pc[p] = "resolve" /\ pc'[p] = "save" /\ ~found'[p] /\ todo[p] = {}
          /\ UNCHANGED <<nextCursor, books, oauth, live, touched, folderAt>>
      BY <1>0, <1>8 DEF Resolved, TypeOK, StateTyped
    <2>2. AtResolve(p) /\ oauth
      BY <1>0, <2>1 DEF Knows, KeyPath
    <2>3. BooksTell(p, nextCursor[p])'
      BY <2>1, <2>2 DEF AtResolve, BooksTell, Tells
    <2>4. Knows(p)'
      BY <2>1, <2>2, <2>3 DEF Knows, KeyPath, FoundAtCommit, TokIsCursor, AtList, AtKeep,
                  AtIndex, AtMerge, AtResolve, AtSave, AtCommit, Ahead
    <2> QED
      BY <1>8, <2>1, <2>4, InnerStep DEF Resolved
  <1> QED
    BY <1>1, <1>2, <1>3, <1>4, <1>5, <1>6, <1>7, <1>8

\* The steps that save a cursor, and the failures of Drive.
LEMMA CursorKnows ==
  ASSUME Calm, SyncInv, TypeOK', NEW p \in Procs,
         KeepCursor(p) \/ SaveCursor(p) \/ NoteError(p) \/ DriveFails(p)
  PROVE  SyncInv'
  <1> USE DEF Goto, index, sources, history, work
  <1>0. /\ TypeOK /\ Knows(p) /\ (pc[p] # "commit" => ~found[p])
        /\ \A q \in Procs : q = p
    BY DEF SyncInv, Knows, FoundAtCommit, Calm
  <1>1. CASE KeepCursor(p)
    <2>1. /\ pc[p] = "keep" /\ pc'[p] = "index" /\ ~found'[p]
          /\ UNCHANGED <<oauth, live, touched, folderAt, rowStatus, payload, nextCursor>>
          /\ cursor' = nextCursor[p]
      BY <1>0, <1>1 DEF KeepCursor, TypeOK, StateTyped
    <2>2. tok[p] = cursor /\ cursor # None /\ oauth
      BY <1>0, <2>1 DEF Knows, TokIsCursor, KeyPath
    <2>3. FolderBefore(p) /\ \A f \in DriveFiles : OnlyBefore(p, f)
      BY <1>0, <2>1 DEF Knows, AtKeep
    <2>4. IndexTells(cursor)
      BY <2>1, <2>2, IndexTellsBefore
    <2>5. ASSUME NEW f \in DriveFiles, touched[f] <= nextCursor[p]
          PROVE  Tells(Indexed(f), f, nextCursor[p])
      <3>1. Tells(Indexed(f), f, cursor)
        BY <2>2, <2>3, <2>4, <2>5 DEF OnlyBefore, IndexTells
      <3>2. folderAt <= nextCursor[p] => folderAt <= cursor
        BY <2>2, <2>3 DEF FolderBefore
      <3> QED
        BY <3>1, <3>2 DEF Tells
    <2>6. IndexTells(cursor)'
      BY <2>1, <2>5 DEF IndexTells, Tells, Indexed, Active
    <2>7. Knows(p)'
      BY <2>1, <2>2 DEF Knows, KeyPath, FoundAtCommit, TokIsCursor, AtList, AtKeep, AtIndex,
                        AtMerge, AtResolve, AtSave, AtCommit, Ahead
    <2> QED
      BY <1>0, <2>1, <2>2, <2>6, <2>7 DEF SyncInv, IndexKept, KeyHasNoCursor
  <1>2. CASE SaveCursor(p)
    <2>1. /\ pc[p] = "save" /\ pc'[p] = "commit" /\ found'[p]
          /\ UNCHANGED <<oauth, live, touched, folderAt, books, nextCursor>>
          /\ cursor' = nextCursor[p]
      BY <1>0, <1>2 DEF SaveCursor, TypeOK, StateTyped
    <2>2. BooksTell(p, nextCursor[p]) /\ oauth
      BY <1>0, <2>1 DEF Knows, AtSave, KeyPath
    <2>3. BooksTell(p, cursor)'
      BY <2>1, <2>2 DEF BooksTell, Tells
    <2>4. Ahead(p)'
      BY <2>1 DEF Ahead
    <2>5. Knows(p)'
      BY <2>1, <2>2, <2>3 DEF Knows, KeyPath, FoundAtCommit, TokIsCursor, AtList, AtKeep,
                        AtIndex, AtMerge, AtResolve, AtSave, AtCommit, Ahead
    <2> QED
      BY <1>0, <2>1, <2>2, <2>4, <2>5 DEF SyncInv, IndexKept, KeyHasNoCursor
  <1>3. CASE NoteError(p)
    <2>1. /\ pc[p] # "commit" /\ Unavailable(p) /\ cursor' = tok[p]
          /\ UNCHANGED <<oauth, live, touched, folderAt, clock, rowStatus, payload>>
          /\ tok[p] = cursor
      BY <1>0, <1>3 DEF NoteError, Knows, TokIsCursor
    <2>2. Knows(p)'
      BY <1>0, <2>1, UnavailableKnows
    <2> QED
      BY <2>1, <2>2, InnerStep
  <1>4. CASE DriveFails(p)
    <2>1. /\ pc[p] # "commit" /\ Unavailable(p)
          /\ UNCHANGED <<oauth, live, touched, folderAt, clock, cursor, rowStatus, payload>>
      BY <1>4 DEF DriveFails
    <2>2. Knows(p)'
      BY <1>0, <2>1, UnavailableKnows
    <2> QED
      BY <2>1, <2>2, InnerStep
  <1> QED
    BY <1>1, <1>2, <1>3, <1>4

\* The transaction brings the index up to the cursor.
LEMMA CommitKnows ==
  ASSUME Calm, SyncInv, TypeOK', NEW p \in Procs, Commit(p)
  PROVE  SyncInv'
  <1>0. TypeOK /\ Knows(p) /\ \A q \in Procs : q = p
    BY DEF SyncInv, Calm
  <1>1. /\ pc[p] = "commit" /\ pc'[p] = "idle" /\ ~found'[p]
        /\ UNCHANGED <<oauth, live, touched, folderAt, cursor>>
    BY <1>0 DEF Commit, Finish, Goto, sources, TypeOK, StateTyped
  <1>2. ASSUME NEW f \in DriveFiles, books[p][f] # None
        PROVE  Indexed(f)' = books[p][f]
    BY <1>2 DEF Commit, Indexed, Active, Files
  <1>3. ASSUME NEW f \in DriveFiles, books[p][f] = None, ~found[p]
        PROVE  Indexed(f)' = Indexed(f)
    <2>1. Provider(f) \notin Reconciled(p)
      BY <1>3 DEF Provider, Reconciled
    <2> QED
      BY <1>3, <2>1 DEF Commit, Indexed, Active, Files
  <1>4. ASSUME NEW f \in DriveFiles, books[p][f] = None, found[p], "drive" \in Whole
        PROVE  Indexed(f)' = None
    <2>1. Provider(f) \in Reconciled(p)
      BY <1>4 DEF Provider, Reconciled
    <2> QED
      BY <1>4, <2>1 DEF Commit, Indexed, Active, Files
  <1>5. ASSUME cursor # None PROVE IndexTells(cursor)'
    <2>1. CASE found[p]
      <3>1. BooksTell(p, cursor)
        BY <1>0, <1>1, <1>5, <2>1 DEF Knows, AtCommit, Ahead
      <3>2. ASSUME NEW f \in DriveFiles, touched[f] <= cursor
            PROVE  Tells(Indexed(f)', f, cursor)
        <4>1. Tells(books[p][f], f, cursor)
          BY <3>1, <3>2 DEF BooksTell
        <4>2. CASE books[p][f] # None
          BY <4>1, <4>2, <1>2
        <4>3. CASE books[p][f] = None
          BY <4>1, <4>3, <1>4, <2>1 DEF Tells
        <4> QED
          BY <4>2, <4>3
      <3> QED
        BY <1>1, <3>2 DEF IndexTells, Tells
    <2>2. CASE ~found[p]
      <3>1. IndexTells(cursor)
        BY <1>0, <1>5, <2>2 DEF SyncInv, IndexKept, Ahead
      <3>2. \A f \in DriveFiles : books[p][f] = None
        BY <1>0, <1>1, <2>2 DEF Knows, FoundAtCommit
      <3>3. \A f \in DriveFiles : Indexed(f)' = Indexed(f)
        BY <1>3, <2>2, <3>2
      <3> QED
        BY <1>1, <3>1, <3>3 DEF IndexTells, Tells
    <2> QED
      BY <2>1, <2>2
  <1>6. Knows(p)'
    BY <1>1, NothingToKnow
  <1> QED
    BY <1>0, <1>1, <1>5, <1>6 DEF SyncInv, IndexKept, KeyHasNoCursor

\* What a book says of the past is not touched by a change of today.
LEMMA PastIsKept ==
  ASSUME NEW f, NEW c, NEW b, Tells(b, f, c) \/ ~(touched[f] <= c),
         touched'[f] <= c => touched'[f] = touched[f] /\ (f \in live' <=> f \in live),
         folderAt' <= c => folderAt' = folderAt
  PROVE  touched'[f] <= c =>
           (IF f \in live'
            THEN b # None /\ b.rev = touched'[f] /\ (folderAt' <= c => b.path = folderAt')
            ELSE "drive" \in Whole => b = None)
  BY DEF Tells

LEMMA SourcesKnow ==
  ASSUME Calm, SyncInv, TypeOK', FolderChanges \/ \E f \in Files : FileChanges(f)
  PROVE  SyncInv'
  <1>0. /\ TypeOK /\ clock \in Nat /\ folderAt \in 0..clock /\ (cursor # None => cursor \in 0..clock)
        /\ \A f \in DriveFiles : touched[f] \in 0..clock
        /\ \A p \in Procs : nextCursor[p] \in 0..clock
    BY SyncAssumption DEF SyncInv, TypeOK, StateTyped, Files
  <1>1. /\ \A p \in Procs : pc[p] # "list"
        /\ UNCHANGED <<oauth, cursor, rowStatus, payload, pc, tok, nextCursor, path, todo, books, found>>
    BY DEF FolderChanges, FileChanges, Quiet, Listing, Calm, index, work
  <1>2. ASSUME NEW c \in 0..clock
        PROVE  /\ folderAt' <= c => folderAt' = folderAt
               /\ \A f \in DriveFiles :
                    touched'[f] <= c => touched'[f] = touched[f] /\ (f \in live' <=> f \in live)
    <2>1. CASE FolderChanges
      BY <1>0, <2>1 DEF FolderChanges
    <2>2. CASE \E f \in Files : FileChanges(f)
      <3>1. PICK g \in Files : FileChanges(g)
        BY <2>2
      <3>2. /\ folderAt' = folderAt /\ touched'[g] = clock + 1
            /\ \A f \in DriveFiles : f # g => touched'[f] = touched[f] /\ (f \in live' <=> f \in live)
        BY <1>0, <3>1 DEF FileChanges, TypeOK, StateTyped, Files
      <3>3. ~(touched'[g] <= c)
        BY <1>0, <3>2
      <3> QED
        BY <3>2, <3>3
    <2> QED
      BY <2>1, <2>2
  <1>3. ASSUME cursor # None, IndexTells(cursor) PROVE IndexTells(cursor)'
    <2>1. ASSUME NEW f \in DriveFiles, (touched[f] <= cursor)' PROVE Tells(Indexed(f), f, cursor)'
      <3>1. Indexed(f)' = Indexed(f) /\ cursor' = cursor
        BY <1>1 DEF Indexed, Active
      <3>2. Tells(Indexed(f), f, cursor) \/ ~(touched[f] <= cursor)
        BY <1>3 DEF IndexTells
      <3> QED
        BY <1>0, <1>2, <1>3, <2>1, <3>1, <3>2, PastIsKept DEF Tells
    <2> QED
      BY <2>1 DEF IndexTells
  <1>4. IndexKept'
    BY <1>1, <1>3 DEF SyncInv, IndexKept, Ahead
  <1>5. ASSUME NEW p \in Procs, NEW c \in 0..clock, BooksTell(p, c)
        PROVE  \A f \in DriveFiles : (touched[f] <= c)' => Tells(books[p][f], f, c)'
    <2>1. ASSUME NEW f \in DriveFiles, touched'[f] <= c PROVE Tells(books[p][f], f, c)'
      BY <1>1, <1>2, <1>5, <2>1 DEF BooksTell, Tells
    <2> QED
      BY <2>1
  <1>6. ASSUME NEW p \in Procs PROVE Knows(p)'
    <2>0. Knows(p) /\ nextCursor[p] \in 0..clock /\ pc[p] # "list"
      BY <1>0, <1>1 DEF SyncInv
    <2>1. KeyPath(p)' /\ FoundAtCommit(p)' /\ TokIsCursor(p)' /\ AtIndex(p)' /\ AtList(p)'
      BY <1>1, <2>0 DEF Knows, KeyPath, FoundAtCommit, TokIsCursor, AtIndex, AtList
    <2>2. AtKeep(p)'
      BY <1>1, <1>2, <2>0 DEF Knows, AtKeep, FolderBefore, OnlyBefore
    <2>3. AtMerge(p)'
      BY <1>1, <1>2, <2>0 DEF Knows, AtMerge, FolderBefore, OnlyBefore, TellsFile
    <2>4. AtResolve(p)'
      BY <1>1, <1>2, <2>0 DEF Knows, AtResolve, Tells, TellsFile
    <2>5. AtSave(p)'
      BY <1>1, <1>5, <2>0 DEF Knows, AtSave, BooksTell
    <2>6. AtCommit(p)'
      BY <1>0, <1>1, <1>5, <2>0 DEF Knows, AtCommit, BooksTell, Ahead
    <2> QED
      BY <2>1, <2>2, <2>3, <2>4, <2>5, <2>6 DEF Knows
  <1>7. KeyHasNoCursor'
    BY <1>1 DEF SyncInv, KeyHasNoCursor
  <1> QED
    BY <1>4, <1>6, <1>7 DEF SyncInv

LEMMA NextKnows == Calm /\ SyncInv /\ [Next]_vars => SyncInv'
  <1> SUFFICES ASSUME Calm, SyncInv, [Next]_vars PROVE SyncInv'
    OBVIOUS
  <1>0. TypeOK'
    BY NextTyped DEF SyncInv
  <1>1. ASSUME NEW p \in Procs, Progress(p) PROVE SyncInv'
    BY <1>0, <1>1, ListingKnows, ChangesKnow, CursorKnows, CommitKnows DEF Progress
  <1>2. ASSUME NEW p \in Procs, Fault(p) PROVE SyncInv'
    BY <1>0, <1>2, ChangesKnow, CursorKnows DEF Fault, Abort, Calm
  <1>3. CASE FolderChanges \/ \E f \in Files : FileChanges(f)
    BY <1>0, <1>3, SourcesKnow
  <1>4. ASSUME NEW f \in Files, Expire(f) PROVE SyncInv'
    <2>1. UNCHANGED <<oauth, live, touched, folderAt, clock, cursor, pc, tok, nextCursor,
                      path, todo, books, found>>
      BY <1>4 DEF Expire, sources, work
    <2>2. ASSUME NEW g \in DriveFiles PROVE Indexed(g)' = Indexed(g)
      BY <1>4 DEF Expire, Indexed, Active, SyncInv, TypeOK, StateTyped, Files
    <2>3. IndexKept' /\ KeyHasNoCursor'
      BY <2>1, <2>2 DEF SyncInv, IndexKept, IndexTells, Tells, KeyHasNoCursor, Ahead
    <2>4. \A p \in Procs : Knows(p)'
      BY <2>1 DEF SyncInv, Knows, KeyPath, FoundAtCommit, TokIsCursor, AtList, AtKeep, AtIndex,
                  AtMerge, AtResolve, AtSave, AtCommit, Ahead, BooksTell, Tells, TellsFile,
                  FolderBefore, OnlyBefore
    <2> QED
      BY <1>0, <2>3, <2>4 DEF SyncInv
  <1>5. CASE UNCHANGED vars
    <2>1. UNCHANGED <<oauth, live, touched, folderAt, clock, cursor, pc, tok, nextCursor,
                      path, todo, books, found, rowStatus, payload>>
      BY <1>5 DEF vars, sources, work, index
    <2>2. IndexKept' /\ KeyHasNoCursor'
      BY <2>1 DEF SyncInv, IndexKept, IndexTells, Tells, KeyHasNoCursor, Ahead, Indexed, Active
    <2>3. \A p \in Procs : Knows(p)'
      BY <2>1 DEF SyncInv, Knows, KeyPath, FoundAtCommit, TokIsCursor, AtList, AtKeep, AtIndex,
                  AtMerge, AtResolve, AtSave, AtCommit, Ahead, BooksTell, Tells, TellsFile,
                  FolderBefore, OnlyBefore
    <2> QED
      BY <1>0, <2>2, <2>3 DEF SyncInv
  <1> QED
    BY <1>1, <1>2, <1>3, <1>4, <1>5 DEF Next, Act

\* One process whose reconciliations end, over sources that are at rest while they
\* are listed: whatever calls fail and cursors expire, between reconciliations the
\* index holds every change of Drive up to the saved cursor.
THEOREM CursorHonest ==
  ASSUME Calm
  PROVE  Spec => []CursorIsHonest
  <1>1. SyncInv => CursorIsHonest
    BY DEF SyncInv, IndexKept, CursorIsHonest, Ahead
  <1>2. SyncInv /\ [Next]_vars => SyncInv'
    BY NextKnows
  <1> QED
    BY InitKnows, <1>1, <1>2, PTL DEF Spec

-----------------------------------------------------------------------------
(***************************************************************************)
(* The catalogue is a mirror                                               *)
(***************************************************************************)

\* A step of p leaves the reconciliations of the others alone.
OthersRest(p) ==
    \A q \in Procs \ {p} : /\ pc'[q] = pc[q] /\ books'[q] = books[q]
                           /\ todo'[q] = todo[q] /\ found'[q] = found[q]

SameCatalogue == UNCHANGED <<live, touched, rowStatus, payload>>

\* The revision of f that p has comes from where it had it, from the sources or from
\* the index.
GetsBook(p, f) == books'[p][f] # None =>
    \/ books[p][f] # None /\ books'[p][f].rev = books[p][f].rev
    \/ <<f, books'[p][f].rev>> \in There \cup Shown

\* A step in the middle of the reconciliation of p.
Works(p) ==
    /\ SameCatalogue
    /\ pc[p] # "idle" /\ pc'[p] # "idle"
    /\ \A f \in Files : GetsBook(p, f)

\* A step of p starts a reconciliation, goes on with it, or ends it, with the
\* transaction or without.
LEMMA StepOfOne ==
  ASSUME TypeOK, NEW p \in Procs, Progress(p) \/ Fault(p)
  PROVE  /\ OthersRest(p)
         /\ \/ Begin(p) /\ SameCatalogue
            \/ Works(p)
            \/ Finish(p) /\ pc[p] # "idle" /\ SameCatalogue
            \/ Commit(p)
  <1> DEFINE Goal == /\ OthersRest(p)
                     /\ \/ Begin(p) /\ SameCatalogue
                        \/ Works(p)
                        \/ Finish(p) /\ pc[p] # "idle" /\ SameCatalogue
                        \/ Commit(p)
  <1> USE DEF sources, index, work
  <1>0. \A f \in Files : f \in live => <<f, touched[f]>> \in There
    BY DEF There
  <1>1. ASSUME Unavailable(p), SameCatalogue, pc[p] # "idle"
        PROVE  Goal
    <2>1. CASE Finish(p)
      BY <1>1, <2>1 DEF Finish, OthersRest, Goto, TypeOK, StateTyped
    <2>2. CASE ~Finish(p)
      <3>1. /\ pc' = [pc EXCEPT ![p] = "commit"] /\ todo' = [todo EXCEPT ![p] = {}]
            /\ books' = [books EXCEPT ![p] =
                          [f \in Files |-> IF f \in DriveFiles THEN None ELSE books[p][f]]]
            /\ found' = found
        BY <1>1, <2>2 DEF Unavailable, Goto
      <3>2. OthersRest(p) /\ pc'[p] # "idle"
        BY <3>1 DEF OthersRest, TypeOK, StateTyped
      <3>3. \A f \in Files : books'[p][f] = None \/ books'[p][f] = books[p][f]
        BY <3>1 DEF TypeOK, StateTyped
      <3> QED
        BY <1>1, <3>2, <3>3 DEF Works, GetsBook
    <2> QED
      BY <2>1, <2>2
  <1>2. CASE \/ EndWalk(p) \/ ReadState(p) \/ ListTree(p) \/ StartToken(p) \/ ListedByKey(p)
             \/ ChangesOfFolder(p) \/ NoChanges(p) \/ KeepCursor(p) \/ Resolved(p)
             \/ SaveCursor(p) \/ CursorExpired(p) \/ ChangesFail(p)
    <2>1. SameCatalogue /\ books' = books /\ OthersRest(p) /\ pc[p] # "idle" /\ pc'[p] # "idle"
      BY <1>2 DEF EndWalk, ReadState, ListTree, StartToken, ListedByKey, ChangesOfFolder, NoChanges,
                  KeepCursor, Resolved, SaveCursor, CursorExpired, ChangesFail, SameCatalogue,
                  OthersRest, Goto, TypeOK, StateTyped
    <2> QED
      BY <2>1 DEF Works, GetsBook
  <1>3. CASE \E f \in LocalFiles : StatLocal(p, f) \/ LocalVanished(p, f)
    <2>1. SameCatalogue /\ OthersRest(p) /\ pc[p] # "idle" /\ pc'[p] # "idle"
      BY <1>3 DEF StatLocal, LocalVanished, SameCatalogue, OthersRest, TypeOK, StateTyped
    <2>2. \A f \in Files : GetsBook(p, f)
      BY <1>0, <1>3 DEF StatLocal, LocalVanished, GetsBook, Current, TypeOK, StateTyped, NoBooks, Files
    <2> QED
      BY <2>1, <2>2 DEF Works
  <1>4. CASE \E f \in DriveFiles : ListFile(p, f) \/ Resolve(p, f)
    <2>1. SameCatalogue /\ OthersRest(p) /\ pc[p] # "idle" /\ pc'[p] # "idle"
      BY <1>4 DEF ListFile, Resolve, SameCatalogue, OthersRest, TypeOK, StateTyped
    <2>2. \A f \in Files : GetsBook(p, f)
      BY <1>0, <1>4 DEF ListFile, Resolve, GetsBook, TypeOK, StateTyped, Files
    <2> QED
      BY <2>1, <2>2 DEF Works
  <1>5. CASE ChangesOfFiles(p)
    <2>1. SameCatalogue /\ OthersRest(p) /\ pc[p] # "idle" /\ pc'[p] # "idle"
      BY <1>5 DEF ChangesOfFiles, SameCatalogue, OthersRest, Goto, TypeOK, StateTyped
    <2>2. \A f \in Files : GetsBook(p, f)
      BY <1>0, <1>5 DEF ChangesOfFiles, Reported, GetsBook, TypeOK, StateTyped
    <2> QED
      BY <2>1, <2>2 DEF Works
  <1>6. CASE ReadIndexed(p) \/ ReadMerged(p)
    <2>1. SameCatalogue /\ OthersRest(p) /\ pc[p] # "idle" /\ pc'[p] # "idle"
      BY <1>6 DEF ReadIndexed, ReadMerged, SameCatalogue, OthersRest, Goto, TypeOK, StateTyped
    <2>2. \A f \in Files : books'[p][f] = books[p][f] \/ books'[p][f] = Indexed(f)
      BY <1>6 DEF ReadIndexed, ReadMerged, TypeOK, StateTyped
    <2>3. \A f \in Files : Indexed(f) # None => <<f, Indexed(f).rev>> \in Shown
      BY DEF Indexed, Shown
    <2> QED
      BY <2>1, <2>2, <2>3 DEF Works, GetsBook
  <1>7. CASE NoteError(p) \/ DriveFails(p)
    BY <1>1, <1>7 DEF NoteError, DriveFails, SameCatalogue
  <1>8. CASE Abort(p)
    BY <1>8 DEF Abort, Finish, OthersRest, SameCatalogue, Goto, TypeOK, StateTyped
  <1>9. CASE Begin(p)
    BY <1>9 DEF Begin, OthersRest, SameCatalogue, Goto, TypeOK, StateTyped
  <1>10. CASE Commit(p)
    BY <1>10 DEF Commit, Finish, OthersRest, Goto, TypeOK, StateTyped
  <1> HIDE DEF Goal
  <1> QED
    <2>1. Goal
      BY <1>2, <1>3, <1>4, <1>5, <1>6, <1>7, <1>8, <1>9, <1>10 DEF Progress, Fault, Goal
    <2> QED
      BY <2>1 DEF Goal

\* The history of a reconciliation covers it,
LEMMA HistoryCovers ==
  ASSUME Remember, NEW p \in Procs, pc'[p] = "idle" => books'[p] = NoBooks
  PROVE  Remembers(p)'
  BY DEF Remember, Busy, Remembers

\* and grows while it goes on.
LEMMA HistoryGrows ==
  ASSUME Remember, NEW p \in Procs, pc'[p] # "idle"
  PROVE  /\ seen[p] \subseteq seen'[p] /\ gone[p] \subseteq gone'[p]
         /\ shown[p] \subseteq shown'[p] /\ hidden[p] \subseteq hidden'[p]
  BY DEF Remember, Busy

\* What a process knows of its books stays true while others work.
LEMMA KnownStays ==
  ASSUME ShownInv, Remember, NEW p \in Procs, pc'[p] = pc[p], books'[p] = books[p]
  PROVE  Remembers(p)' /\ \A f \in Files : BookIsKnown(p, f)'
  <1>1. Remembers(p) /\ \A f \in Files : BookIsKnown(p, f)
    BY DEF ShownInv
  <1>2. Remembers(p)'
    BY <1>1, HistoryCovers DEF Remembers
  <1>3. CASE pc[p] = "idle"
    BY <1>1, <1>2, <1>3 DEF Remembers, BookIsKnown, NoBooks
  <1>4. CASE pc[p] # "idle"
    BY <1>1, <1>2, <1>4, HistoryGrows DEF BookIsKnown
  <1> QED
    BY <1>3, <1>4, <1>2

\* The four forms of a step keep what p knows of its books.
LEMMA OneShows ==
  ASSUME ShownInv, Remember, NEW p \in Procs, Progress(p) \/ Fault(p)
  PROVE  Remembers(p)' /\ \A f \in Files : BookIsKnown(p, f)'
  <1>0. TypeOK /\ Remembers(p) /\ \A f \in Files : BookIsKnown(p, f)
    BY DEF ShownInv
  <1>1. CASE Begin(p)
    <2>1. books'[p] = NoBooks
      BY <1>0, <1>1 DEF Begin, Remembers
    <2> QED
      BY <2>1, HistoryCovers DEF BookIsKnown, NoBooks
  <1>2. CASE Works(p)
    <2>1. There \cup Shown \subseteq seen[p] \cup shown[p]
      BY <1>0, <1>2 DEF Works, Remembers
    <2>2. \A f \in Files : books'[p][f] # None => <<f, books'[p][f].rev>> \in seen[p] \cup shown[p]
      BY <1>0, <1>2, <2>1 DEF Works, GetsBook, BookIsKnown
    <2> QED
      BY <1>2, <2>2, HistoryCovers, HistoryGrows DEF Works, BookIsKnown
  <1>3. CASE Finish(p) \/ Commit(p)
    <2>1. books'[p] = NoBooks
      BY <1>0, <1>3 DEF Finish, Commit, TypeOK, StateTyped
    <2> QED
      BY <2>1, HistoryCovers DEF BookIsKnown, NoBooks
  <1> QED
    BY <1>0, <1>1, <1>2, <1>3, StepOfOne

\* At first nothing is remembered.
LEMMA ShownInit == Init => ShownInv
  <1> SUFFICES ASSUME Init PROVE ShownInv
    OBVIOUS
  <1>1. TypeOK
    BY InitTyped
  <1>2. \A p \in Procs : /\ pc[p] = "idle" /\ books[p] = NoBooks
                         /\ {seen[p], gone[p], shown[p], hidden[p]} = {{}}
    BY DEF Init
  <1> QED
    BY <1>1, <1>2 DEF ShownInv, Remembers, BookIsKnown, NoBooks

\* A step of the environment leaves every reconciliation alone.
LEMMA EnvironmentOnly ==
  ASSUME FolderChanges \/ \E f \in Files : FileChanges(f) \/ Expire(f)
  PROVE  UNCHANGED <<pc, todo, books, found>>
  BY DEF FolderChanges, FileChanges, Expire, work

LEMMA ShownNext == ShownInv /\ [Next]_vars => ShownInv'
  <1> SUFFICES ASSUME ShownInv, [Next]_vars PROVE ShownInv'
    OBVIOUS
  <1>0. TypeOK /\ TypeOK'
    BY NextTyped DEF ShownInv
  <1>1. ASSUME Next, NEW p \in Procs PROVE Remembers(p)' /\ \A f \in Files : BookIsKnown(p, f)'
    <2>0. Act /\ Remember
      BY <1>1 DEF Next
    <2>1. ASSUME NEW q \in Procs, Progress(q) \/ Fault(q)
          PROVE  Remembers(p)' /\ \A f \in Files : BookIsKnown(p, f)'
      <3>1. CASE q = p
        BY <2>0, <2>1, <3>1, OneShows
      <3>2. CASE q # p
        BY <1>0, <2>0, <2>1, <3>2, StepOfOne, KnownStays DEF OthersRest
      <3> QED
        BY <3>1, <3>2
    <2>2. CASE FolderChanges \/ \E f \in Files : FileChanges(f) \/ Expire(f)
      BY <2>0, <2>2, EnvironmentOnly, KnownStays
    <2> QED
      BY <2>0, <2>1, <2>2 DEF Act
  <1>2. CASE UNCHANGED vars
    <2>1. UNCHANGED <<live, touched, rowStatus, payload, pc, books, seen, gone, shown, hidden>>
      BY <1>2 DEF vars, sources, index, work, history
    <2>2. ASSUME NEW p \in Procs PROVE Remembers(p)' /\ \A f \in Files : BookIsKnown(p, f)'
      BY <2>1 DEF ShownInv, Remembers, BookIsKnown, There, Shown, Active
    <2> QED
      BY <1>0, <2>2 DEF ShownInv
  <1> QED
    BY <1>0, <1>1, <1>2 DEF ShownInv

-----------------------------------------------------------------------------
(***************************************************************************)
(* What a reconciliation has no book of                                    *)
(***************************************************************************)

\* A file that is away, or that the catalogue does not show, is remembered as such.
LEMMA AwayIsKnown ==
  ASSUME NEW p \in Procs, Remembers(p), pc[p] # "idle", NEW f \in Files, f \notin live \/ ~Active(f)
  PROVE  f \in gone[p] \cup hidden[p]
  BY DEF Remembers

\* What p knows of its absent books stays true while others work.
LEMMA AbsenceStays ==
  ASSUME Remember, NEW p \in Procs, UNCHANGED <<pc[p], todo[p], books[p], found[p]>>,
         LocalWasAway(p), DriveWasAway(p),
         "local" \in Whole /\ pc[p] = "walk" => live' = live
  PROVE  LocalWasAway(p)' /\ DriveWasAway(p)'
  <1>1. ASSUME NEW f, AbsenceIsKnown(p, f), pc[p] # "idle" PROVE AbsenceIsKnown(p, f)'
    BY <1>1, HistoryGrows DEF AbsenceIsKnown
  <1>2. LocalWasAway(p)'
    BY <1>1 DEF LocalWasAway
  <1>3. Settled(p)' = Settled(p) /\ (Settled(p) # {} => pc[p] # "idle")
    BY DEF Settled
  <1> QED
    BY <1>1, <1>2, <1>3 DEF DriveWasAway

\* A step of the reconciliation settles a file of Drive that had been settled, that
\* is not there, or that the index does not show.
LEMMA SettledByWork ==
  ASSUME Remember, NEW p \in Procs, Works(p), Remembers(p), DriveWasAway(p),
         \A f \in Settled(p)' : books'[p][f] = None =>
             \/ f \in Settled(p) /\ books[p][f] = None
             \/ f \notin live
             \/ ~Active(f)
  PROVE  DriveWasAway(p)'
  <1>1. pc[p] # "idle" /\ pc'[p] # "idle"
    BY DEF Works
  <1>2. gone[p] \subseteq gone'[p] /\ hidden[p] \subseteq hidden'[p]
    BY <1>1, HistoryGrows
  <1>3. ASSUME NEW f \in Settled(p)', books'[p][f] = None
        PROVE  f \in gone[p] \cup hidden[p]
    <2>1. f \in Files
      BY <1>3 DEF Settled, Files
    <2>2. CASE f \in Settled(p) /\ books[p][f] = None
      BY <2>2 DEF DriveWasAway, AbsenceIsKnown
    <2>3. CASE f \notin live \/ ~Active(f)
      BY <1>1, <2>1, <2>3, AwayIsKnown
    <2> QED
      BY <1>3, <2>2, <2>3
  <1> QED
    BY <1>2, <1>3 DEF DriveWasAway, AbsenceIsKnown

\* After the walk, the local books stay as they are.
LEMMA LocalByWork ==
  ASSUME Remember, NEW p \in Procs, Works(p), LocalWasAway(p), pc[p] # "walk", pc'[p] # "walk",
         \A f \in LocalFiles : books'[p][f] = books[p][f]
  PROVE  LocalWasAway(p)'
  <1>1. pc[p] # "idle" /\ gone[p] \subseteq gone'[p] /\ hidden[p] \subseteq hidden'[p]
    BY HistoryGrows DEF Works
  <1> QED
    BY <1>1 DEF LocalWasAway, AbsenceIsKnown

\* The walk: every name it has not looked at is there.
LEMMA WalkHides ==
  ASSUME MirrorInv, LocalAtRest, Remember, NEW p \in Procs,
         EndWalk(p) \/ \E f \in LocalFiles : StatLocal(p, f) \/ LocalVanished(p, f)
  PROVE  LocalWasAway(p)' /\ Settled(p)' = {} /\ ~found'[p]
  <1> USE DEF sources, index, work
  <1>0. TypeOK /\ LocalWasAway(p) /\ pc[p] = "walk" /\ ~found[p]
    BY DEF MirrorInv, ShownInv, EndWalk, StatLocal, LocalVanished
  <1>g. pc'[p] # "idle" => gone[p] \subseteq gone'[p] /\ hidden[p] \subseteq hidden'[p]
    BY HistoryGrows
  <1>1. CASE EndWalk(p)
    <2>1. /\ pc'[p] \in {"state", "tree"} /\ todo[p] = {}
          /\ UNCHANGED <<books, found>>
      BY <1>0, <1>1 DEF EndWalk, Goto, TypeOK, StateTyped
    <2> QED
      BY <1>0, <1>g, <2>1 DEF LocalWasAway, AbsenceIsKnown, Settled
  <1>2. ASSUME NEW f \in LocalFiles, StatLocal(p, f)
        PROVE  LocalWasAway(p)' /\ Settled(p)' = {} /\ ~found'[p]
    <2>1. /\ UNCHANGED <<live, pc, found>>
          /\ todo'[p] = todo[p] \ {f}
          /\ \A g \in LocalFiles : g # f => books'[p][g] = books[p][g]
          /\ books'[p][f] = Current(f)
      BY <1>0, <1>2 DEF StatLocal, TypeOK, StateTyped, Files
    <2>2. Current(f) # None
      <3>1. f \in Files /\ 0 \in 0..clock
        BY <1>0, SyncAssumption DEF Files, TypeOK, StateTyped
      <3> QED
        BY <1>0, <3>1, BookTyped, SyncAssumption
    <2> QED
      BY <1>0, <1>g, <2>1, <2>2 DEF LocalWasAway, AbsenceIsKnown, Settled
  <1>3. ASSUME NEW f \in LocalFiles, LocalVanished(p, f)
        PROVE  LocalWasAway(p)' /\ Settled(p)' = {} /\ ~found'[p]
    <2>1. UNCHANGED <<pc, found>> /\ f \in todo[p] /\ f \notin live
      BY <1>3 DEF LocalVanished
    <2> QED
      BY <1>0, <2>1 DEF LocalWasAway, Settled
  <1> QED
    BY <1>1, <1>2, <1>3

\* The other steps of a reconciliation.
LEMMA DriveHides ==
  ASSUME MirrorInv, NEW p \in Procs, Works(p), Progress(p) \/ Fault(p),
         ~EndWalk(p), ~\E f \in LocalFiles : StatLocal(p, f) \/ LocalVanished(p, f)
  PROVE  /\ pc[p] # "walk" /\ pc'[p] # "walk"
         /\ found'[p] => pc'[p] = "commit"
         /\ \A f \in LocalFiles : books'[p][f] = books[p][f]
         /\ \A f \in Settled(p)' : books'[p][f] = None =>
                \/ f \in Settled(p) /\ books[p][f] = None
                \/ f \notin live
                \/ ~Active(f)
  <1> DEFINE Goal == /\ pc[p] # "walk" /\ pc'[p] # "walk"
                     /\ found'[p] => pc'[p] = "commit"
                     /\ \A f \in LocalFiles : books'[p][f] = books[p][f]
                     /\ \A f \in Settled(p)' : books'[p][f] = None =>
                            \/ f \in Settled(p) /\ books[p][f] = None
                            \/ f \notin live
                            \/ ~Active(f)
  <1> SUFFICES Goal
    OBVIOUS
  <1> USE DEF sources, index, work
  <1>0. /\ TypeOK /\ (found[p] => pc[p] = "commit")
        /\ \A f \in LocalFiles : f \in Files /\ f \notin DriveFiles
        /\ \A f \in Files : Active(f) => payload[f] # None
    BY SyncAssumption DEF MirrorInv, ShownInv, Files, TypeOK, StateTyped, Active
  <1>1. CASE \/ ReadState(p) \/ ListTree(p) \/ ChangesOfFolder(p) \/ NoChanges(p) \/ KeepCursor(p)
             \/ CursorExpired(p) \/ ChangesFail(p)
    <2>1. /\ pc[p] # "walk" /\ pc[p] # "commit"
          /\ pc'[p] \in {"state", "tree", "changes", "keep", "index", "note"} \/ ListTree(p)
          /\ UNCHANGED <<found, books>>
      BY <1>0, <1>1 DEF ReadState, ListTree, ChangesOfFolder, NoChanges, KeepCursor, CursorExpired,
                        ChangesFail, Goto, TypeOK, StateTyped
    <2>2. ListTree(p) => pc'[p] = "list" /\ todo'[p] = DriveFiles
      BY <1>0 DEF ListTree, Goto, TypeOK, StateTyped
    <2> QED
      BY <1>0, <2>1, <2>2 DEF Settled
  <1>2. ASSUME NEW f \in DriveFiles, ListFile(p, f) PROVE Goal
    <2>1. /\ pc[p] = "list" /\ UNCHANGED <<pc, found>>
          /\ todo'[p] = todo[p] \ {f}
          /\ \A g \in Files : g # f => books'[p][g] = books[p][g]
          /\ f \in live => books'[p][f] = [rev |-> touched[f], path |-> path[p]]
      BY <1>0, <1>2 DEF ListFile, TypeOK, StateTyped, Files
    <2>2. [rev |-> touched[f], path |-> path[p]] # None
      <3>1. f \in Files /\ path[p] \in 0..clock
        BY <1>0 DEF Files, TypeOK, StateTyped
      <3> QED
        BY <1>0, <3>1, BookTyped, SyncAssumption
    <2> QED
      BY <1>0, <2>1, <2>2 DEF Settled, Files
  <1>3. CASE StartToken(p) \/ ListedByKey(p)
    <2>1. /\ pc[p] = "list" /\ todo[p] = {}
          /\ pc'[p] = "commit" \/ (pc'[p] = "save" /\ found' = found)
          /\ books' = books
      BY <1>0, <1>3 DEF StartToken, ListedByKey, Goto, TypeOK, StateTyped
    <2> QED
      BY <1>0, <2>1 DEF Settled
  <1>4. CASE ChangesOfFiles(p)
    <2>1. /\ pc[p] = "changes" /\ pc'[p] = "merge" /\ found' = found
          /\ todo'[p] = Changed(p)
          /\ \A f \in Files : books'[p][f] = IF f \in Changed(p) THEN Reported(p, f) ELSE books[p][f]
      BY <1>0, <1>4 DEF ChangesOfFiles, Goto, TypeOK, StateTyped
    <2>2. \A f \in DriveFiles : f \in live => Reported(p, f) # None
      <3> SUFFICES ASSUME NEW f \in DriveFiles, f \in live
                   PROVE  [rev |-> touched[f], path |-> 0] # None
        BY DEF Reported
      <3>1. 0 \in 0..clock
        BY <1>0, SyncAssumption DEF TypeOK, StateTyped
      <3> QED
        BY <1>0, <3>1, BookTyped, SyncAssumption DEF Files
    <2> QED
      BY <1>0, <2>1, <2>2 DEF Settled, Files, Changed
  <1>5. CASE ReadIndexed(p)
    <2>1. /\ pc[p] = "index" /\ pc'[p] = "commit"
          /\ \A f \in Files : books'[p][f] = IF f \in DriveFiles THEN Indexed(f) ELSE books[p][f]
      BY <1>0, <1>5 DEF ReadIndexed, Goto, TypeOK, StateTyped
    <2> QED
      BY <1>0, <2>1 DEF Settled, Files, Indexed
  <1>6. CASE ReadMerged(p)
    <2>1. /\ pc[p] = "merge" /\ pc'[p] = "resolve" /\ found' = found
          /\ \A f \in Files : books'[p][f] = IF f \in DriveFiles \ todo[p] THEN Indexed(f)
                                                                           ELSE books[p][f]
      BY <1>0, <1>6 DEF ReadMerged, Goto, TypeOK, StateTyped
    <2> QED
      BY <1>0, <2>1 DEF Settled, Files, Indexed
  <1>7. ASSUME NEW f \in DriveFiles, Resolve(p, f) PROVE Goal
    <2>1. /\ pc[p] = "resolve" /\ UNCHANGED <<pc, found>>
          /\ \A g \in Files : g # f => books'[p][g] = books[p][g]
          /\ books[p][f] # None => books'[p][f] = [rev |-> books[p][f].rev, path |-> folderAt]
      BY <1>0, <1>7 DEF Resolve, TypeOK, StateTyped, Files
    <2>2. books[p][f] # None => [rev |-> books[p][f].rev, path |-> folderAt] # None
      BY <1>0, SyncAssumption DEF TypeOK, StateTyped, Book, Files
    <2> QED
      BY <1>0, <2>1, <2>2 DEF Settled, Files
  <1>8. CASE Resolved(p) \/ SaveCursor(p)
    <2>1. /\ pc[p] \in {"resolve", "save"}
          /\ pc'[p] = "commit" \/ (pc'[p] = "save" /\ found' = found)
          /\ books' = books
      BY <1>0, <1>8 DEF Resolved, SaveCursor, Goto, TypeOK, StateTyped
    <2> QED
      BY <1>0, <2>1 DEF Settled
  <1>9. CASE NoteError(p) \/ DriveFails(p)
    <2>1. Unavailable(p) /\ pc[p] # "walk" /\ pc[p] # "commit"
      BY <1>9 DEF NoteError, DriveFails
    <2>2. ~Finish(p)
      BY <1>0 DEF Works, Finish, Goto, TypeOK, StateTyped
    <2>3. /\ pc'[p] = "commit" /\ found' = found
          /\ \A f \in LocalFiles : books'[p][f] = books[p][f]
      BY <1>0, <2>1, <2>2 DEF Unavailable, Goto, TypeOK, StateTyped
    <2> QED
      BY <1>0, <2>1, <2>3 DEF Settled
  <1>10. ~Begin(p) /\ ~Commit(p) /\ ~Abort(p)
    BY <1>0 DEF Works, Begin, Commit, Abort, Finish, Goto, TypeOK, StateTyped
  <1> HIDE DEF Goal
  <1> QED
    BY <1>1, <1>2, <1>3, <1>4, <1>5, <1>6, <1>7, <1>8, <1>9, <1>10 DEF Progress, Fault

\* Every step of p keeps what it knows of the files it has no book of,
LEMMA OneHides ==
  ASSUME MirrorInv, LocalAtRest, Remember, NEW p \in Procs, Progress(p) \/ Fault(p)
  PROVE  /\ found'[p] => pc'[p] = "commit"
         /\ LocalWasAway(p)'
         /\ DriveWasAway(p)'
  <1>0. TypeOK /\ Remembers(p) /\ LocalWasAway(p) /\ DriveWasAway(p) /\ (found[p] => pc[p] = "commit")
    BY DEF MirrorInv, ShownInv
  <1>1. CASE Begin(p)
    <2>1. /\ pc[p] = "idle" /\ pc'[p] = "walk" /\ UNCHANGED <<live, found>>
          /\ todo'[p] = LocalFiles \cap live /\ Files \ live' \subseteq gone'[p]
      BY <1>0, <1>1 DEF Begin, Goto, TypeOK, StateTyped, sources, Remember, Busy
    <2> QED
      BY <1>0, <2>1 DEF LocalWasAway, DriveWasAway, Settled, AbsenceIsKnown, Files
  <1>2. CASE Works(p)
    <2>1. CASE EndWalk(p) \/ \E f \in LocalFiles : StatLocal(p, f) \/ LocalVanished(p, f)
      BY <2>1, WalkHides DEF DriveWasAway
    <2>2. CASE ~(EndWalk(p) \/ \E f \in LocalFiles : StatLocal(p, f) \/ LocalVanished(p, f))
      BY <1>0, <1>2, <2>2, DriveHides, LocalByWork, SettledByWork
    <2> QED
      BY <2>1, <2>2
  <1>3. CASE Finish(p) \/ Commit(p)
    <2>1. pc'[p] = "idle" /\ ~found'[p]
      BY <1>0, <1>3 DEF Finish, Commit, Goto, TypeOK, StateTyped
    <2> QED
      BY <2>1 DEF LocalWasAway, DriveWasAway, Settled
  <1> QED
    BY <1>0, <1>1, <1>2, <1>3, StepOfOne

\* A step of one process, or of the expiry, leaves the sources alone.
LEMMA SourcesRest ==
  ASSUME TypeOK, Act
  PROVE  UNCHANGED <<live, touched>> \/ FolderChanges \/ \E f \in Files : FileChanges(f)
  <1>1. ASSUME NEW p \in Procs, Progress(p) \/ Fault(p) PROVE UNCHANGED <<live, touched>>
    BY <1>1, StepOfOne DEF SameCatalogue, Works, Commit, sources
  <1> QED
    BY <1>1 DEF Act, Expire, sources

\* and every step preserves MirrorInv, however many processes reconcile.
LEMMA MirrorInvNext == LocalAtRest /\ MirrorInv /\ [Next]_vars => MirrorInv'
  <1> SUFFICES ASSUME LocalAtRest, MirrorInv, [Next]_vars PROVE MirrorInv'
    OBVIOUS
  <1>0. ShownInv /\ ShownInv' /\ TypeOK
    BY ShownNext DEF MirrorInv, ShownInv
  <1> DEFINE Hides(p) == (found[p] => pc[p] = "commit") /\ LocalWasAway(p) /\ DriveWasAway(p)
  <1>1. ASSUME Next, NEW p \in Procs PROVE Hides(p)'
    <2>0. Act /\ Remember /\ Hides(p)
      BY <1>1 DEF Next, MirrorInv
    <2>1. ASSUME NEW q \in Procs, Progress(q) \/ Fault(q) PROVE Hides(p)'
      <3>1. CASE q = p
        BY <2>0, <2>1, <3>1, OneHides
      <3>2. CASE q # p
        <4>1. UNCHANGED <<pc[p], todo[p], books[p], found[p]>> /\ live' = live
          BY <1>0, <2>1, <3>2, StepOfOne DEF OthersRest, SameCatalogue, Works, Commit, sources
        <4> QED
          BY <2>0, <4>1, AbsenceStays
      <3> QED
        BY <3>1, <3>2
    <2>2. CASE FolderChanges \/ \E f \in Files : FileChanges(f) \/ Expire(f)
      <3>1. UNCHANGED <<pc, todo, books, found>>
        BY <2>2, EnvironmentOnly
      <3>2. "local" \in Whole /\ pc[p] = "walk" => live' = live
        BY <2>2 DEF FolderChanges, FileChanges, Expire, Quiet, Listing, LocalAtRest, sources
      <3> QED
        BY <2>0, <3>1, <3>2, AbsenceStays
    <2> QED
      BY <2>0, <2>1, <2>2 DEF Act
  <1>2. ASSUME UNCHANGED vars, NEW p \in Procs PROVE Hides(p)'
    <2>1. UNCHANGED <<live, rowStatus, pc, todo, books, found, gone, hidden>> /\ Hides(p)
      BY <1>2 DEF vars, sources, index, work, history, MirrorInv
    <2> QED
      BY <2>1 DEF LocalWasAway, DriveWasAway, AbsenceIsKnown, Settled
  <1> HIDE DEF Hides
  <1>3. \A p \in Procs : Hides(p)'
    BY <1>1, <1>2
  <1> QED
    BY <1>0, <1>3 DEF MirrorInv, Hides

\* At first no reconciliation is at work.
LEMMA MirrorInvInit == Init => MirrorInv
  <1> SUFFICES ASSUME Init PROVE MirrorInv
    OBVIOUS
  <1>1. ShownInv
    BY ShownInit
  <1>2. \A p \in Procs : pc[p] = "idle" /\ ~found[p]
    BY DEF Init
  <1> QED
    BY <1>1, <1>2 DEF MirrorInv, LocalWasAway, DriveWasAway, Settled

-----------------------------------------------------------------------------
(***************************************************************************)
(* CatalogSync implements Mirror                                           *)
(***************************************************************************)

\* What Mirror calls there, shown and away is what is so called here, and every
\* step is watched.
LEMMA Watched == ASSUME TypeOK', Remember PROVE TheMirror!Watch
  <1>1. \A f \in Files : Active(f)' => Copy'[f] = payload'[f].rev
    BY DEF Active, Copy, TypeOK, StateTyped
  <1>2. (TheMirror!Shown)' = Shown'
    BY <1>1 DEF TheMirror!Shown, Shown, Active
  <1>3. (TheMirror!There)' = There'
    BY DEF TheMirror!There, There
  <1>4. (TheMirror!Away)' = (Files \ live') \cup {f \in Files : ~Active(f)'}
    BY DEF TheMirror!Away, Active
  <1>5. Window' = [p \in Procs |-> IF p \in Busy' THEN Window[p] \cup (There \cup Shown)' ELSE {}]
    BY DEF Window, Remember
  <1>6. Absent' = [p \in Procs |-> IF p \in Busy'
                      THEN Absent[p] \cup ((Files \ live') \cup {f \in Files : ~Active(f)'}) ELSE {}]
    BY DEF Absent, Remember
  <1> QED
    BY <1>2, <1>3, <1>4, <1>5, <1>6 DEF TheMirror!Watch

\* A step in the middle of a reconciliation, or one that renames a folder, shows
\* nothing new to anybody.
LEMMA NothingNew ==
  ASSUME MirrorInv, Remember, SameCatalogue,
         \A p \in Procs : pc'[p] = "idle" <=> pc[p] = "idle"
  PROVE  UNCHANGED TheMirror!mirror
  <1>1. There' = There /\ Shown' = Shown /\ Copy' = Copy /\ Busy' = Busy
        /\ \A f \in Files : Active(f)' <=> Active(f)
    BY DEF SameCatalogue, There, Shown, Active, Copy, Busy
  <1>2. ASSUME NEW p \in Procs
        PROVE  seen'[p] = seen[p] /\ gone'[p] = gone[p] /\ shown'[p] = shown[p] /\ hidden'[p] = hidden[p]
    <2>1. Remembers(p) /\ live' = live
      BY DEF MirrorInv, ShownInv, SameCatalogue
    <2> QED
      BY <1>1, <2>1 DEF Remember, Remembers, Busy
  <1>3. Window' = Window /\ Absent' = Absent
    BY <1>2 DEF Window, Absent
  <1> QED
    BY <1>1, <1>3 DEF TheMirror!mirror, SameCatalogue

\* A file that changes, and a row that goes.
LEMMA ChangeMaps ==
  ASSUME TypeOK, NEW f \in Files, FileChanges(f)
  PROVE  TheMirror!Change(f)
  <1>1. touched[f] \in 0..clock /\ clock \in Nat
    BY SyncAssumption DEF TypeOK, StateTyped
  <1>2. touched'[f] = clock + 1 /\ touched' = [touched EXCEPT ![f] = touched'[f]]
    BY DEF FileChanges, TypeOK, StateTyped
  <1>3. touched'[f] > touched[f]
    BY <1>1, <1>2
  <1>4. UNCHANGED <<rowStatus, Copy, Busy>>
    BY DEF FileChanges, index, Copy, Busy
  <1>5. live' \in {live \cup {f}, live \ {f}}
    BY DEF FileChanges
  <1> QED
    BY <1>2, <1>3, <1>4, <1>5 DEF TheMirror!Change

LEMMA ForgetMaps ==
  ASSUME TypeOK, NEW f \in Files, Expire(f)
  PROVE  TheMirror!Forget(f)
  <1>1. Copy' = [Copy EXCEPT ![f] = None]
    BY DEF Expire, Copy, TypeOK, StateTyped
  <1>2. Busy' = Busy
    BY DEF Expire, Busy
  <1> QED
    BY <1>1, <1>2 DEF Expire, TheMirror!Forget, sources

\* A reconciliation begins.
LEMMA StartMaps ==
  ASSUME TypeOK, NEW p \in Procs, Begin(p)
  PROVE  TheMirror!Start(p)
  <1>1. p \notin Busy /\ Busy' = Busy \cup {p}
    BY DEF Begin, Goto, Busy, TypeOK, StateTyped
  <1>2. UNCHANGED <<live, touched, rowStatus, Copy>>
    BY DEF Begin, sources, index, Copy
  <1> QED
    BY <1>1, <1>2 DEF TheMirror!Start

\* It ends without a result,
LEMMA FinishMaps ==
  ASSUME TypeOK, TypeOK', NEW p \in Procs, Finish(p), pc[p] # "idle", SameCatalogue
  PROVE  TheMirror!Publish(p)
  <1>1. p \in Busy /\ Busy' = Busy \ {p}
    BY DEF Finish, Goto, Busy, TypeOK, StateTyped
  <1>2. UNCHANGED <<live, touched, rowStatus, Copy>>
    BY DEF SameCatalogue, Copy
  <1>3. rowStatus' \in [Files -> TheMirror!Statuses]
    BY DEF TypeOK, StateTyped, TheMirror!Statuses
  <1>4. Copy' \in [Files -> Nat \cup {None}]
    BY SyncAssumption DEF Copy, TypeOK, StateTyped, Book
  <1> QED
    BY <1>1, <1>2, <1>3, <1>4 DEF TheMirror!Publish, TheMirror!Keeps

\* or with the transaction: what it marks missing was away, or was not shown,
LEMMA CommittedIsKnown ==
  ASSUME MirrorInv, NEW p \in Procs, pc[p] = "commit", NEW f \in Files, Provider(f) \in Reconciled(p)
  PROVE  AbsenceIsKnown(p, f)
  <1>1. LocalWasAway(p) /\ DriveWasAway(p)
    BY DEF MirrorInv
  <1>2. CASE f \in DriveFiles
    BY <1>1, <1>2 DEF Provider, Reconciled, DriveWasAway, Settled
  <1>3. CASE f \in LocalFiles /\ f \notin DriveFiles
    BY <1>1, <1>3 DEF Provider, Reconciled, LocalWasAway
  <1> QED
    BY <1>2, <1>3 DEF Files

\* and what it writes was there or was shown.
LEMMA CommitMaps ==
  ASSUME MirrorInv, TypeOK', NEW p \in Procs, Commit(p)
  PROVE  TheMirror!Publish(p)
  <1>0. TypeOK
    BY DEF MirrorInv, ShownInv
  <1>1. p \in Busy /\ Busy' = Busy \ {p}
    BY <1>0 DEF Commit, Finish, Goto, Busy, TypeOK, StateTyped
  <1>2. rowStatus' \in [Files -> TheMirror!Statuses]
    BY DEF TypeOK, StateTyped, TheMirror!Statuses
  <1>3. Copy' \in [Files -> Nat \cup {None}]
    BY SyncAssumption DEF Copy, TypeOK, StateTyped, Book
  <1>4. ASSUME NEW f \in Files
        PROVE  TheMirror!Keeps(f) \/ TheMirror!Shows(p, f) \/ TheMirror!Hides(p, f)
    <2>1. CASE books[p][f] # None
      <3>1. rowStatus'[f] = "active" /\ Copy'[f] = books[p][f].rev
        BY <2>1 DEF Commit, Copy
      <3>2. <<f, books[p][f].rev>> \in Window[p]
        BY <2>1 DEF MirrorInv, ShownInv, BookIsKnown, Window
      <3> QED
        BY <3>1, <3>2 DEF TheMirror!Shows
    <2>2. CASE books[p][f] = None /\ Active(f) /\ Provider(f) \in Reconciled(p)
      <3>1. /\ rowStatus[f] = "active" /\ rowStatus'[f] = "missing"
            /\ Copy'[f] = Copy[f]
        BY <2>2 DEF Commit, Copy, Active
      <3>2. AbsenceIsKnown(p, f)
        BY <2>2, CommittedIsKnown DEF Commit
      <3> QED
        BY <2>2, <3>1, <3>2 DEF TheMirror!Hides, AbsenceIsKnown, Absent
    <2>3. CASE books[p][f] = None /\ ~(Active(f) /\ Provider(f) \in Reconciled(p))
      BY <2>3 DEF Commit, Copy, TheMirror!Keeps
    <2> QED
      BY <2>1, <2>2, <2>3
  <1> QED
    BY <1>1, <1>2, <1>3, <1>4 DEF Commit, TheMirror!Publish, sources

\* The initial states agree,
LEMMA MirrorStarts == Init => TheMirror!MirrorInit
  BY DEF Init, TheMirror!MirrorInit, Copy, Busy, Window, Absent

\* and every step is one of the mirror, or none.
LEMMA MirrorSteps ==
  MirrorInv /\ MirrorInv' /\ [Next]_vars => [TheMirror!MirrorNext]_(TheMirror!mirror)
  <1> SUFFICES ASSUME MirrorInv, MirrorInv', [Next]_vars
               PROVE  [TheMirror!MirrorNext]_(TheMirror!mirror)
    OBVIOUS
  <1>0. TypeOK /\ TypeOK'
    BY DEF MirrorInv, ShownInv
  <1>1. CASE Next
    <2>0. Act /\ Remember /\ TheMirror!Watch
      BY <1>0, <1>1, Watched DEF Next
    <2>1. ASSUME NEW f \in Files, FileChanges(f) PROVE TheMirror!MirrorNext
      BY <1>0, <2>0, <2>1, ChangeMaps DEF TheMirror!MirrorNext
    <2>2. ASSUME NEW f \in Files, Expire(f) PROVE TheMirror!MirrorNext
      BY <1>0, <2>0, <2>2, ForgetMaps DEF TheMirror!MirrorNext
    <2>3. CASE FolderChanges
      <3>1. SameCatalogue /\ pc' = pc
        BY <2>3 DEF FolderChanges, SameCatalogue, index
      <3> QED
        BY <2>0, <3>1, NothingNew
    <2>4. ASSUME NEW p \in Procs, Progress(p) \/ Fault(p)
          PROVE  [TheMirror!MirrorNext]_(TheMirror!mirror)
      <3>1. CASE Begin(p)
        BY <1>0, <2>0, <3>1, StartMaps DEF TheMirror!MirrorNext
      <3>2. CASE Works(p) /\ OthersRest(p)
        <4>1. \A q \in Procs : pc'[q] = "idle" <=> pc[q] = "idle"
          BY <3>2 DEF Works, OthersRest
        <4> QED
          BY <2>0, <3>2, <4>1, NothingNew DEF Works
      <3>3. CASE Finish(p) /\ pc[p] # "idle" /\ SameCatalogue
        BY <1>0, <2>0, <3>3, FinishMaps DEF TheMirror!MirrorNext
      <3>4. CASE Commit(p)
        BY <1>0, <2>0, <3>4, CommitMaps DEF TheMirror!MirrorNext
      <3> QED
        BY <1>0, <2>4, <3>1, <3>2, <3>3, <3>4, StepOfOne
    <2> QED
      BY <2>0, <2>1, <2>2, <2>3, <2>4 DEF Act
  <1>2. CASE UNCHANGED vars
    BY <1>2 DEF vars, sources, index, work, history, TheMirror!mirror, Copy, Busy, Window, Absent
  <1> QED
    BY <1>1, <1>2

\* However many processes reconcile at once, and whatever fails and changes meanwhile,
\* the catalogue is a mirror: it shows of a file only a revision that was there, or
\* was shown, during the reconciliation that shows it, and hides a file only if it
\* was away, or not shown, at some time of that reconciliation.
THEOREM MirrorImplemented ==
  ASSUME LocalAtRest
  PROVE  Spec => MirrorSpec
  <1>1. Init => MirrorInv
    BY MirrorInvInit
  <1>2. MirrorInv /\ [Next]_vars => MirrorInv'
    BY MirrorInvNext
  <1>3. MirrorInv /\ MirrorInv' /\ [Next]_vars => [TheMirror!MirrorNext]_(TheMirror!mirror)
    BY MirrorSteps
  <1>4. Init => TheMirror!MirrorInit
    BY MirrorStarts
  <1> QED
    BY <1>1, <1>2, <1>3, <1>4, PTL DEF Spec, MirrorSpec, TheMirror!MirrorSpec

-----------------------------------------------------------------------------
(***************************************************************************)
(* One process: nobody else writes to the index while it reconciles        *)
(***************************************************************************)

\* Only the transaction shows or hides a book.
LEMMA OnlyCommitShows ==
  ASSUME TypeOK, [Next]_vars, ~\E p \in Procs : Commit(p)
  PROVE  Shown' = Shown /\ \A f \in Files : Active(f)' <=> Active(f)
  <1>1. ASSUME NEW p \in Procs, Progress(p) \/ Fault(p) PROVE UNCHANGED <<rowStatus, payload>>
    BY <1>1, StepOfOne DEF Works, SameCatalogue
  <1>2. CASE UNCHANGED <<rowStatus, payload>>
    BY <1>2 DEF Shown, Active
  <1>3. ASSUME NEW g \in Files, Expire(g)
        PROVE  /\ \A f \in Files : Active(f)' <=> Active(f)
               /\ \A f \in Files : Active(f) => payload'[f] = payload[f]
    BY <1>3 DEF Expire, Active, TypeOK, StateTyped
  <1>4. CASE \E g \in Files : Expire(g)
    BY <1>3, <1>4 DEF Shown
  <1> QED
    BY <1>1, <1>2, <1>4 DEF Next, Act, FileChanges, FolderChanges, vars, index

LEMMA MineNext == OneProcess /\ ShownInv /\ IndexIsMine /\ [Next]_vars => IndexIsMine'
  <1> SUFFICES ASSUME OneProcess, ShownInv, IndexIsMine, [Next]_vars, NEW p \in Procs
               PROVE  shown'[p] \subseteq Shown' /\ \A f \in hidden'[p] : ~Active(f)'
    BY DEF IndexIsMine
  <1>0. TypeOK /\ hidden[p] \subseteq Files
    BY DEF ShownInv, TypeOK, HistoryTyped
  <1>1. CASE \E q \in Procs : Commit(q)
    <2>1. Commit(p)
      BY <1>1 DEF OneProcess
    <2>2. pc[p] = "commit" /\ pc'[p] = "idle"
      BY <1>0, <2>1 DEF Commit, Finish, Goto, TypeOK, StateTyped
    <2>3. Next
      BY <2>2 DEF vars
    <2> QED
      BY <2>2, <2>3 DEF Next, Remember, Busy
  <1>2. CASE ~\E q \in Procs : Commit(q)
    <2>1. Shown' = Shown /\ \A f \in Files : Active(f)' <=> Active(f)
      BY <1>0, <1>2, OnlyCommitShows
    <2>2. CASE Next
      BY <1>0, <2>1, <2>2 DEF Next, Remember, IndexIsMine
    <2>3. CASE UNCHANGED vars
      BY <1>0, <2>1, <2>3 DEF vars, history, IndexIsMine
    <2> QED
      BY <2>2, <2>3
  <1> QED
    BY <1>1, <1>2

LEMMA MineInit == Init => IndexIsMine
  BY DEF Init, IndexIsMine

\* While one process reconciles, and whatever fails and changes meanwhile, a book
\* enters the catalogue only if its file was there during the reconciliation, with
\* the revision that is shown: the merge of the change log with the index brings no
\* removed file back, nor an old revision.
THEOREM ShownWasThere ==
  ASSUME OneProcess
  PROVE  Spec => ActiveWasThere
  <1> DEFINE Shows == \A f \in Files : ~Active(f) /\ (rowStatus'[f] = "active") =>
                          \E p \in Procs : pc[p] = "commit" /\ <<f, payload'[f].rev>> \in seen[p]
             Mine  == ShownInv /\ IndexIsMine
  <1>1. Init => Mine
    BY ShownInit, MineInit
  <1>2. Mine /\ [Next]_vars => Mine'
    BY ShownNext, MineNext
  <1>3. Mine /\ [Next]_vars => [Shows]_vars
    <2> SUFFICES ASSUME ShownInv, IndexIsMine, [Next]_vars,
                        NEW f \in Files, ~Active(f), rowStatus'[f] = "active"
                 PROVE  \E p \in Procs : pc[p] = "commit" /\ <<f, payload'[f].rev>> \in seen[p]
      OBVIOUS
    <2>1. TypeOK
      BY DEF ShownInv
    <2>2. PICK p \in Procs : Commit(p)
      BY <2>1, OnlyCommitShows DEF Active
    <2>3. books[p][f] # None /\ payload'[f] = books[p][f] /\ pc[p] = "commit"
      BY <2>2 DEF Commit, Active
    <2>4. <<f, books[p][f].rev>> \in seen[p] \cup shown[p]
      BY <2>3 DEF ShownInv, BookIsKnown
    <2>5. <<f, books[p][f].rev>> \notin Shown
      BY DEF Shown
    <2> QED
      BY <2>3, <2>4, <2>5 DEF IndexIsMine
  <1> HIDE DEF Shows, Mine
  <1>4. Spec => [][Shows]_vars
    BY <1>1, <1>2, <1>3, PTL DEF Spec
  <1> QED
    BY <1>4 DEF ActiveWasThere, Shows

\* While one process reconciles and no local file vanishes during a walk (or local
\* files are not marked missing), a book is marked missing only if its file was
\* away during the reconciliation: neither a failure of Drive, nor an expired
\* cursor, nor the merge of the change log with the index hides a book.
THEOREM HiddenWasAway ==
  ASSUME OneProcess, LocalAtRest
  PROVE  Spec => MissingWasAbsent
  <1> DEFINE Hides == \A f \in Files : Active(f) /\ (rowStatus'[f] = "missing") =>
                          \E p \in Procs : pc[p] = "commit" /\ f \in gone[p]
             Mine  == MirrorInv /\ IndexIsMine
  <1>1. Init => Mine
    BY MirrorInvInit, MineInit
  <1>2. Mine /\ [Next]_vars => Mine'
    BY MirrorInvNext, MineNext DEF MirrorInv
  <1>3. Mine /\ [Next]_vars => [Hides]_vars
    <2> SUFFICES ASSUME MirrorInv, IndexIsMine, [Next]_vars,
                        NEW f \in Files, Active(f), rowStatus'[f] = "missing"
                 PROVE  \E p \in Procs : pc[p] = "commit" /\ f \in gone[p]
      OBVIOUS
    <2>1. TypeOK
      BY DEF MirrorInv, ShownInv
    <2>2. PICK p \in Procs : Commit(p)
      BY <2>1, OnlyCommitShows DEF Active
    <2>3. pc[p] = "commit" /\ books[p][f] = None /\ Provider(f) \in Reconciled(p)
      BY <2>2 DEF Commit, Active
    <2>4. AbsenceIsKnown(p, f)
      BY <2>3, CommittedIsKnown
    <2> QED
      BY <2>3, <2>4 DEF AbsenceIsKnown, IndexIsMine
  <1> HIDE DEF Hides, Mine
  <1>4. Spec => [][Hides]_vars
    BY <1>1, <1>2, <1>3, PTL DEF Spec
  <1> QED
    BY <1>4 DEF MissingWasAbsent, Hides
=============================================================================
