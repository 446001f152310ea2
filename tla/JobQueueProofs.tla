--------------------------- MODULE JobQueueProofs ---------------------------
(***************************************************************************)
(* Theorems about JobQueue, for every number of processes, keys and jobs.  *)
(***************************************************************************)
EXTENDS JobQueue, FiniteSetTheorems, WellFoundedInduction, TLAPS

\* process() moves jobs from `pending` into `running` and does nothing else.
LEMMA ProcessFact ==
    ASSUME NEW w \in Workers, NEW ph \in [JobIds -> Phases]
    PROVE  /\ Process(w, ph) \in [JobIds -> Phases]
           /\ \A j \in JobIds : \/ Process(w, ph)[j] = ph[j]
                                \/ ph[j] = "pending" /\ Process(w, ph)[j] = "claim"
  <1>1. Dispatched(w, ph) \subseteq Pending(ph)
    BY DEF Dispatched
  <1>2. QED
    BY <1>1 DEF Process, Pending, Phases, RunningPhases

\* What the operators that end in process() do to a process's memory.
LEMMA ContinueType ==
    ASSUME TypeOK, NEW w \in Workers, NEW ph \in [JobIds -> Phases], Continue(w, ph)
    PROVE  phase' \in [Workers -> [JobIds -> Phases]]
  BY ProcessFact DEF Continue, TypeOK

LEMMA ReleaseType ==
    ASSUME TypeOK, NEW w \in Workers, NEW j \in JobIds, Release(w, j)
    PROVE  /\ phase' \in [Workers -> [JobIds -> Phases]]
           /\ att' \in [Workers -> [JobIds -> Nat]]
           /\ dedup' \in [Workers -> [Keys -> JobIds \cup {NoJob}]]
  <1>1. [phase[w] EXCEPT ![j] = "none"] \in [JobIds -> Phases]
    BY DEF TypeOK, Phases
  <1>2. QED
    BY <1>1, ContinueType DEF Release, TypeOK

LEMMA AdoptType ==
    ASSUME TypeOK, NEW w \in Workers, NEW ph \in [JobIds -> Phases],
           NEW dd \in [Keys -> JobIds \cup {NoJob}],
           NEW j \in JobIds, NEW n \in Nat, Adopt(w, ph, dd, j, n)
    PROVE  /\ phase' \in [Workers -> [JobIds -> Phases]]
           /\ att' \in [Workers -> [JobIds -> Nat]]
           /\ dedup' \in [Workers -> [Keys -> JobIds \cup {NoJob}]]
  <1>1. [ph EXCEPT ![j] = "pending"] \in [JobIds -> Phases]
    BY DEF Phases
  <1>2. CASE dd[keyOf[j]] # NoJob
    BY <1>2, ContinueType DEF Adopt, TypeOK
  <1>3. CASE dd[keyOf[j]] = NoJob
    <2>1. phase' \in [Workers -> [JobIds -> Phases]]
      BY <1>1, <1>3, ContinueType DEF Adopt
    <2>2. att' \in [Workers -> [JobIds -> Nat]]
      <3>1. att' = [att EXCEPT ![w][j] = n]
        BY <1>3 DEF Adopt
      <3>2. QED
        BY <3>1 DEF TypeOK
    <2>3. [dd EXCEPT ![keyOf[j]] = j] \in [Keys -> JobIds \cup {NoJob}]
      OBVIOUS
    <2>4. dedup' \in [Workers -> [Keys -> JobIds \cup {NoJob}]]
      <3>1. dedup' = [dedup EXCEPT ![w] = [dd EXCEPT ![keyOf[j]] = j]]
        BY <1>3 DEF Adopt
      <3>2. QED
        BY <2>3, <3>1 DEF TypeOK
    <2>5. QED
      BY <2>1, <2>2, <2>4
  <1>4. QED
    BY <1>2, <1>3

LEMMA SetRowType ==
    ASSUME TypeOK, NEW j \in JobIds, NEW s \in Statuses, SetRow(j, s)
    PROVE  /\ status' \in [JobIds -> Statuses]
           /\ owner' \in [JobIds -> Workers \cup {None}]
           /\ leased' \in [JobIds -> BOOLEAN]
           /\ tries' \in [JobIds -> Nat]
  BY DEF SetRow, TypeOK

LEMMA GotoType ==
    ASSUME TypeOK, NEW w \in Workers, NEW j \in JobIds, NEW p \in Phases, Goto(w, j, p)
    PROVE  /\ phase' \in [Workers -> [JobIds -> Phases]]
           /\ att' \in [Workers -> [JobIds -> Nat]]
           /\ dedup' \in [Workers -> [Keys -> JobIds \cup {NoJob}]]
  BY DEF Goto, TypeOK

LEMMA DieType ==
    ASSUME TypeOK, NEW w \in Workers, Die(w), crashes' \in 0..MaxCrashes
    PROVE  TypeOK'
  BY DEF Die, TypeOK, table, ids, Modes, Phases

LEMMA TypeInit == Init => TypeOK
  BY QueueAssumption DEF Init, TypeOK, Statuses, Modes, Phases, NoJob

LEMMA TypeJobStep ==
    ASSUME TypeOK, NEW w \in Workers, NEW j \in JobIds, JobStep(w, j)
    PROVE  TypeOK'
  <1> USE DEF table, ids, boot, memory, loose
  <1>1. CASE InsertRow(w, j)
    <2>1. [phase[w] EXCEPT ![j] = "pending"] \in [JobIds -> Phases]
      BY DEF TypeOK, Phases
    <2>2. QED
      BY <1>1, <2>1, ContinueType, SetRowType DEF InsertRow, TypeOK, Statuses
  <1>2. CASE InsertConflict(w, j)
    BY <1>2, GotoType DEF InsertConflict, TypeOK, Phases
  <1>3. CASE InsertError(w, j)
    BY <1>3 DEF InsertError, TypeOK, Phases
  <1>4. CASE ConflictAdopts(w, j)
    <2>1. PICK r \in ActiveRows(keyOf[j]) :
             Adopt(w, [phase[w] EXCEPT ![j] = "none"],
                   [dedup[w] EXCEPT ![keyOf[j]] = NoJob], r, tries[r])
      BY <1>4 DEF ConflictAdopts
    <2>2. /\ r \in JobIds
          /\ tries[r] \in Nat
          /\ [phase[w] EXCEPT ![j] = "none"] \in [JobIds -> Phases]
          /\ [dedup[w] EXCEPT ![keyOf[j]] = NoJob] \in [Keys -> JobIds \cup {NoJob}]
      BY DEF TypeOK, Phases, ActiveRows
    <2>3. QED
      BY <1>4, <2>1, <2>2, AdoptType DEF ConflictAdopts, TypeOK
  <1>5. CASE ConflictGone(w, j)
    BY <1>5 DEF ConflictGone, TypeOK, Phases
  <1>6. CASE ClaimWon(w, j)
    BY <1>6 DEF ClaimWon, TypeOK, Phases, RunningPhases, Statuses
  <1>7. CASE ClaimLost(w, j)
    BY <1>7, ReleaseType DEF ClaimLost, TypeOK
  <1>8. CASE ClaimError(w, j)
    BY <1>8, GotoType DEF ClaimError, TypeOK, Phases, RunningPhases
  <1>9. CASE HandlerDone(w, j)
    BY <1>9, GotoType DEF HandlerDone, TypeOK, Phases, RunningPhases
  <1>10. CASE HandlerFails(w, j)
    BY <1>10, GotoType DEF HandlerFails, TypeOK, Phases, RunningPhases
  <1>11. CASE HandlerTimeout(w, j)
    BY <1>11, GotoType DEF HandlerTimeout, TypeOK, Phases, RunningPhases
  <1>12. CASE PersistCompleted(w, j)
    BY <1>12, GotoType, SetRowType DEF PersistCompleted, TypeOK, Phases, RunningPhases, Statuses
  <1>13. CASE CompletedError(w, j)
    BY <1>13, GotoType DEF CompletedError, TypeOK, Phases, RunningPhases
  <1>14. CASE PersistRetry(w, j)
    BY <1>14, GotoType, SetRowType DEF PersistRetry, TypeOK, Phases, RunningPhases, Statuses
  <1>15. CASE RetryConflict(w, j)
    BY <1>15, DieType DEF RetryConflict, TypeOK
  <1>16. CASE PersistFailed(w, j)
    BY <1>16, GotoType, SetRowType DEF PersistFailed, TypeOK, Phases, RunningPhases, Statuses
  <1>17. CASE Requeue(w, j)
    <2>1. [phase[w] EXCEPT ![j] = "pending"] \in [JobIds -> Phases]
      BY DEF TypeOK, Phases
    <2>2. QED
      BY <1>17, <2>1, ContinueType DEF Requeue, TypeOK
  <1>18. CASE Close(w, j)
    BY <1>18, ReleaseType DEF Close, TypeOK
  <1>19. QED
    BY <1>1, <1>2, <1>3, <1>4, <1>5, <1>6, <1>7, <1>8, <1>9, <1>10, <1>11, <1>12,
       <1>13, <1>14, <1>15, <1>16, <1>17, <1>18 DEF JobStep

LEMMA TypeNext == TypeOK /\ [Next]_vars => TypeOK'
  <1> SUFFICES ASSUME TypeOK, [Next]_vars
               PROVE  TypeOK'
    OBVIOUS
  <1> USE DEF table, ids, boot, memory, loose
  <1>1. ASSUME NEW w \in Workers, NEW k \in Keys, Enqueue(w, k)
        PROVE  TypeOK'
    <2>1. created + 1 \in JobIds
      BY <1>1, QueueAssumption DEF Enqueue, TypeOK, JobIds
    <2>2. created' \in 0..MaxJobs
      BY <1>1, QueueAssumption DEF Enqueue, TypeOK
    <2>3. QED
      BY <1>1, <2>1, <2>2 DEF Enqueue, TypeOK, Phases
  <1>2. ASSUME NEW w \in Workers, NEW j \in JobIds, JobStep(w, j)
        PROVE  TypeOK'
    BY <1>2, TypeJobStep
  <1>3. ASSUME NEW w \in Workers, NEW j \in JobIds, AdminStep(w, j)
        PROVE  TypeOK'
    <2>1. CASE PersistCancelled(w, j)
      BY <2>1, SetRowType DEF PersistCancelled, TypeOK, Statuses
    <2>2. CASE CancelError(w, j)
      BY <2>2 DEF CancelError, TypeOK
    <2>3. CASE Readd(w, j)
      <3>1. /\ phase[w] \in [JobIds -> Phases]
            /\ dedup[w] \in [Keys -> JobIds \cup {NoJob}]
        BY DEF TypeOK
      <3>2. QED
        BY <2>3, <3>1, AdoptType DEF Readd, TypeOK
    <2>4. QED
      BY <1>3, <2>1, <2>2, <2>3 DEF AdminStep
  <1>4. ASSUME NEW w \in Workers, NEW j \in JobIds,
               Heartbeat(w, j) \/ OrphanEnds(w, j) \/ Cancel(w, j) \/ Repeat(w, j)
        PROVE  TypeOK'
    <2>1. CASE Heartbeat(w, j)
      BY <2>1 DEF Heartbeat, TypeOK
    <2>2. CASE OrphanEnds(w, j)
      BY <2>2 DEF OrphanEnds, TypeOK
    <2>3. CASE Cancel(w, j)
      BY <2>3 DEF Cancel, TypeOK, Phases
    <2>4. CASE Repeat(w, j)
      BY <2>4 DEF Repeat, TypeOK, Statuses
    <2>5. QED
      BY <1>4, <2>1, <2>2, <2>3, <2>4
  <1>5. ASSUME NEW w \in Workers, RecoverStep(w)
        PROVE  TypeOK'
    <2>1. CASE RecoverUpdate(w)
      BY <2>1 DEF RecoverUpdate, TypeOK, Modes, Statuses
    <2>2. CASE RecoverSelect(w)
      <3>1. {<<j, tries[j]>> : j \in {i \in JobIds : status[i] = "queued"}}
              \in SUBSET (JobIds \X Nat)
        BY DEF TypeOK
      <3>2. QED
        BY <2>2, <3>1 DEF RecoverSelect, TypeOK, Modes
    <2>3. CASE RecoverAdopt(w)
      <3> DEFINE new == {r \in snap[w] : /\ phase[w][r[1]] \notin RunningPhases \cup {"pending"}
                                         /\ dedup[w][keyOf[r[1]]] = NoJob}
                 rows == {r[1] : r \in new}
                 ph == [j \in JobIds |-> IF j \in rows THEN "pending" ELSE phase[w][j]]
                 at == [j \in JobIds |->
                          IF j \in rows THEN (CHOOSE r \in new : r[1] = j)[2] ELSE att[w][j]]
                 dd == [k \in Keys |-> IF \E j \in rows : keyOf[j] = k
                                         THEN CHOOSE j \in rows : keyOf[j] = k
                                         ELSE dedup[w][k]]
      <3>1. new \subseteq JobIds \X Nat /\ rows \subseteq JobIds
        BY DEF TypeOK
      <3>2. ph \in [JobIds -> Phases]
        BY DEF TypeOK, Phases
      <3>3. at \in [JobIds -> Nat]
        <4>1. ASSUME NEW j \in rows
              PROVE  (CHOOSE r \in new : r[1] = j)[2] \in Nat
          <5>1. \E r \in new : r[1] = j
            OBVIOUS
          <5>2. (CHOOSE r \in new : r[1] = j) \in new
            BY <5>1
          <5>3. QED
            BY <3>1, <5>2
        <4>2. QED
          BY <4>1 DEF TypeOK
      <3>4. dd \in [Keys -> JobIds \cup {NoJob}]
        <4>1. ASSUME NEW k \in Keys, \E j \in rows : keyOf[j] = k
              PROVE  (CHOOSE j \in rows : keyOf[j] = k) \in JobIds
          BY <3>1, <4>1
        <4>2. QED
          BY <4>1 DEF TypeOK
      <3>5. /\ Continue(w, ph)
            /\ att' = [att EXCEPT ![w] = at]
            /\ dedup' = [dedup EXCEPT ![w] = dd]
            /\ snap' = [snap EXCEPT ![w] = {}]
            /\ mode' = [mode EXCEPT ![w] = "ready"]
            /\ UNCHANGED <<table, ids, crashes, loose>>
        BY <2>3 DEF RecoverAdopt
      <3> HIDE DEF new, rows, ph, at, dd
      <3>6. QED
        BY <3>2, <3>3, <3>4, <3>5, ContinueType DEF TypeOK, Modes
    <2>4. CASE RecoverError(w)
      <3>1. phase[w] \in [JobIds -> Phases]
        BY DEF TypeOK
      <3>2. QED
        BY <2>4, <3>1, ContinueType DEF RecoverError, TypeOK, Modes
    <2>5. QED
      BY <1>5, <2>1, <2>2, <2>3, <2>4 DEF RecoverStep
  <1>6. ASSUME NEW w \in Workers, Crash(w)
        PROVE  TypeOK'
    <2>1. crashes' \in 0..MaxCrashes
      BY <1>6, QueueAssumption DEF Crash, TypeOK
    <2>2. QED
      BY <1>6, <2>1, DieType DEF Crash
  <1>7. ASSUME NEW w \in Workers, Restart(w)
        PROVE  TypeOK'
    BY <1>7 DEF Restart, TypeOK, Modes
  <1>8. ASSUME NEW j \in JobIds, LeaseLapses(j)
        PROVE  TypeOK'
    BY <1>8 DEF LeaseLapses, TypeOK
  <1>9. CASE UNCHANGED vars
    BY <1>9 DEF vars, TypeOK
  <1>10. QED
    BY <1>1, <1>2, <1>3, <1>4, <1>5, <1>6, <1>7, <1>8, <1>9 DEF Next

\* The table and the memory of every process keep their types, whatever the
\* faults.
THEOREM TypeCorrect == Spec => []TypeOK
  BY TypeInit, TypeNext, PTL DEF Spec

-----------------------------------------------------------------------------
(***************************************************************************)
(* KeyInv: the unique index and the map `deduplicated`.  A step either     *)
(* leaves the rows alone, or writes one row; and it either leaves a        *)
(* process's jobs alone, or replaces them by jobs that agree with the map. *)
(***************************************************************************)

\* The job objects ph and the map dd of a process agree.
Agrees(ph, dd) ==
    /\ \A j \in JobIds : ph[j] # "none" => keyOf[j] \in Keys /\ dd[keyOf[j]] = j
    /\ \A k \in Keys : dd[k] # NoJob =>
          dd[k] \in JobIds /\ ph[dd[k]] # "none" /\ keyOf[dd[k]] = k

RowFacts == IdsInOrder /\ SnapKeysDiffer /\ OneActiveRowPerKey

LEMMA DedupIsAgreement ==
    DedupMatchesJobs <=> \A w \in Workers : Agrees(phase[w], dedup[w])
  BY DEF DedupMatchesJobs, Agrees, Held

LEMMA MemoryReplaced ==
    ASSUME TypeOK, DedupMatchesJobs, UNCHANGED keyOf,
           NEW w \in Workers, NEW ph, NEW dd, Agrees(ph, dd),
           phase' = [phase EXCEPT ![w] = ph],
           dedup' = [dedup EXCEPT ![w] = dd]
    PROVE  DedupMatchesJobs'
  BY DEF TypeOK, DedupMatchesJobs, Agrees, Held

LEMMA MemoryContinues ==
    ASSUME TypeOK, DedupMatchesJobs, UNCHANGED keyOf,
           NEW w \in Workers, NEW ph \in [JobIds -> Phases], NEW dd, Agrees(ph, dd),
           Continue(w, ph),
           dedup' = [dedup EXCEPT ![w] = dd]
    PROVE  DedupMatchesJobs'
  <1>1. Agrees(Process(w, ph), dd)
    BY ProcessFact DEF Agrees
  <1>2. QED
    BY <1>1, MemoryReplaced DEF Continue

LEMMA MemoryMoves ==
    ASSUME TypeOK, DedupMatchesJobs, UNCHANGED keyOf,
           NEW w \in Workers, NEW j \in JobIds, phase[w][j] # "none",
           NEW p, p # "none", Goto(w, j, p)
    PROVE  DedupMatchesJobs'
  BY DEF TypeOK, DedupMatchesJobs, Held, Goto

\* A held job has a key, and its key leads to it.
LEMMA HeldFact ==
    ASSUME TypeOK, DedupMatchesJobs,
           NEW w \in Workers, NEW j \in JobIds, phase[w][j] # "none"
    PROVE  /\ keyOf[j] \in Keys
           /\ dedup[w][keyOf[j]] = j
           /\ Agrees(phase[w], dedup[w])
           /\ Agrees([phase[w] EXCEPT ![j] = "none"],
                     [dedup[w] EXCEPT ![keyOf[j]] = NoJob])
           /\ [phase[w] EXCEPT ![j] = "none"] \in [JobIds -> Phases]
           /\ [dedup[w] EXCEPT ![keyOf[j]] = NoJob] \in [Keys -> JobIds \cup {NoJob}]
  <1>1. /\ keyOf[j] \in Keys
        /\ dedup[w][keyOf[j]] = j
        /\ Agrees(phase[w], dedup[w])
    BY DedupIsAgreement DEF DedupMatchesJobs, Held
  <1>2. /\ [phase[w] EXCEPT ![j] = "none"] \in [JobIds -> Phases]
        /\ [dedup[w] EXCEPT ![keyOf[j]] = NoJob] \in [Keys -> JobIds \cup {NoJob}]
    BY DEF TypeOK, Phases
  <1>3. Agrees([phase[w] EXCEPT ![j] = "none"], [dedup[w] EXCEPT ![keyOf[j]] = NoJob])
    BY <1>1 DEF TypeOK, Agrees
  <1>4. QED
    BY <1>1, <1>2, <1>3

LEMMA MemoryReleased ==
    ASSUME TypeOK, DedupMatchesJobs, UNCHANGED keyOf,
           NEW w \in Workers, NEW j \in JobIds, phase[w][j] # "none", Release(w, j)
    PROVE  DedupMatchesJobs'
  <1>1. dedup' = [dedup EXCEPT ![w] = [dedup[w] EXCEPT ![keyOf[j]] = NoJob]]
    BY DEF Release, TypeOK
  <1>2. QED
    BY <1>1, HeldFact, MemoryContinues DEF Release

LEMMA MemoryAdopts ==
    ASSUME TypeOK, DedupMatchesJobs, UNCHANGED keyOf,
           NEW w \in Workers, NEW j \in JobIds, keyOf[j] \in Keys, NEW n \in Nat,
           NEW ph \in [JobIds -> Phases],
           NEW dd \in [Keys -> JobIds \cup {NoJob}],
           Agrees(ph, dd), Adopt(w, ph, dd, j, n)
    PROVE  DedupMatchesJobs'
  <1>1. CASE dd[keyOf[j]] # NoJob
    <2>1. Continue(w, ph) /\ dedup' = [dedup EXCEPT ![w] = dd]
      BY <1>1 DEF Adopt
    <2>2. QED
      BY <2>1, MemoryContinues
  <1>2. CASE dd[keyOf[j]] = NoJob
    <2>1. /\ Continue(w, [ph EXCEPT ![j] = "pending"])
          /\ dedup' = [dedup EXCEPT ![w] = [dd EXCEPT ![keyOf[j]] = j]]
      BY <1>2 DEF Adopt
    <2>2. Agrees([ph EXCEPT ![j] = "pending"], [dd EXCEPT ![keyOf[j]] = j])
      BY <1>2, QueueAssumption DEF Agrees, NoJob, JobIds
    <2>3. [ph EXCEPT ![j] = "pending"] \in [JobIds -> Phases]
      BY DEF Phases
    <2>4. QED
      BY <2>1, <2>2, <2>3, MemoryContinues
  <1>3. QED
    BY <1>1, <1>2

LEMMA MemoryLost ==
    ASSUME TypeOK, DedupMatchesJobs, UNCHANGED keyOf, NEW w \in Workers, Die(w)
    PROVE  DedupMatchesJobs'
  <1>1. Agrees([j \in JobIds |-> "none"], [k \in Keys |-> NoJob])
    BY DEF Agrees
  <1>2. QED
    BY <1>1, MemoryReplaced DEF Die

LEMMA DrawnFact ==
    ASSUME TypeOK, IdsInOrder, NEW j \in JobIds, keyOf[j] \in Keys
    PROVE  j <= created
  <1>1. j \in Nat /\ created \in Nat
    BY DEF JobIds, TypeOK
  <1>2. keyOf[j] # None
    BY QueueAssumption
  <1>3. QED
    BY <1>1, <1>2 DEF IdsInOrder

\* Row j is written, or none is; what recover() and the administrators have
\* heard of shrinks or gains j.
LEMMA RowWritten ==
    ASSUME TypeOK, RowFacts, UNCHANGED ids,
           NEW j \in JobIds, keyOf[j] \in Keys, NEW s,
           status' = [status EXCEPT ![j] = s],
           s \in Active => IndexAllows(j),
           \A v \in Workers : /\ snap'[v] \subseteq snap[v]
                              /\ cancelling'[v] \subseteq cancelling[v] \cup {j}
                              /\ readding'[v] \subseteq readding[v] \cup {j}
    PROVE  RowFacts'
  <1>1. j <= created
    BY DrawnFact DEF RowFacts
  <1>2. IdsInOrder'
    BY <1>1 DEF RowFacts, IdsInOrder, TypeOK, ids, JobIds
  <1>3. SnapKeysDiffer'
    BY DEF RowFacts, SnapKeysDiffer, ids
  <1>4. OneActiveRowPerKey'
    BY DEF RowFacts, OneActiveRowPerKey, IndexAllows, ActiveRows, TypeOK, ids
  <1>5. QED
    BY <1>2, <1>3, <1>4 DEF RowFacts

LEMMA RowsUntouched ==
    ASSUME TypeOK, RowFacts, UNCHANGED <<ids, status>>,
           NEW j \in JobIds, keyOf[j] \in Keys,
           \A v \in Workers : /\ snap'[v] \subseteq snap[v]
                              /\ cancelling'[v] \subseteq cancelling[v] \cup {j}
                              /\ readding'[v] \subseteq readding[v] \cup {j}
    PROVE  RowFacts'
  <1>1. j <= created
    BY DrawnFact DEF RowFacts
  <1>2. IdsInOrder'
    BY <1>1 DEF RowFacts, IdsInOrder, TypeOK, ids, JobIds
  <1>3. SnapKeysDiffer' /\ OneActiveRowPerKey'
    BY DEF RowFacts, SnapKeysDiffer, OneActiveRowPerKey, ids
  <1>4. QED
    BY <1>2, <1>3 DEF RowFacts

LEMMA KeyJobStep ==
    ASSUME KeyInv, NEW w \in Workers, NEW j \in JobIds, JobStep(w, j)
    PROVE  RowFacts' /\ DedupMatchesJobs'
  <1> USE DEF table, ids, boot, memory, loose
  <1>a. TypeOK /\ RowFacts /\ DedupMatchesJobs
    BY DEF KeyInv, RowFacts
  <1>b. phase[w][j] # "none"
    BY DEF JobStep, InsertRow, InsertConflict, InsertError, ConflictAdopts, ConflictGone,
           ClaimWon, ClaimLost, ClaimError, HandlerDone, HandlerFails, HandlerTimeout,
           PersistCompleted, CompletedError, PersistRetry, RetryConflict, PersistFailed,
           Requeue, Close
  <1>c. keyOf[j] \in Keys
    BY <1>a, <1>b, HeldFact
  <1>1. CASE InsertRow(w, j)
    <2>1. RowFacts'
      BY <1>1, <1>a, <1>c, RowWritten DEF InsertRow, SetRow
    <2>2. Agrees([phase[w] EXCEPT ![j] = "pending"], dedup[w])
      BY <1>a, <1>b, HeldFact DEF Agrees, TypeOK
    <2>3. /\ [phase[w] EXCEPT ![j] = "pending"] \in [JobIds -> Phases]
          /\ dedup' = [dedup EXCEPT ![w] = dedup[w]]
      BY <1>1, <1>a DEF TypeOK, Phases, InsertRow
    <2>4. QED
      BY <1>1, <1>a, <2>1, <2>2, <2>3, MemoryContinues DEF InsertRow
  <1>2. CASE InsertConflict(w, j) \/ ClaimError(w, j) \/ HandlerDone(w, j)
               \/ HandlerFails(w, j) \/ CompletedError(w, j)
    <2>1. UNCHANGED <<table, ids, boot, loose>>
      BY <1>2 DEF InsertConflict, ClaimError, HandlerDone, HandlerFails, CompletedError
    <2>2. \E q \in Phases : q # "none" /\ Goto(w, j, q)
      BY <1>2 DEF InsertConflict, ClaimError, HandlerDone, HandlerFails, CompletedError,
                  Phases, RunningPhases
    <2>3. QED
      BY <1>a, <1>b, <1>c, <2>1, <2>2, RowsUntouched, MemoryMoves
  <1>3. CASE HandlerTimeout(w, j)
    BY <1>3, <1>a, <1>b, <1>c, RowsUntouched, MemoryMoves DEF HandlerTimeout
  <1>4. CASE InsertError(w, j) \/ ConflictGone(w, j)
    <2>1. /\ UNCHANGED <<table, ids, boot, loose>>
          /\ phase' = [phase EXCEPT ![w][j] = "none"]
          /\ dedup' = [dedup EXCEPT ![w][keyOf[j]] = NoJob]
      BY <1>4 DEF InsertError, ConflictGone
    <2>2. /\ phase' = [phase EXCEPT ![w] = [phase[w] EXCEPT ![j] = "none"]]
          /\ dedup' = [dedup EXCEPT ![w] = [dedup[w] EXCEPT ![keyOf[j]] = NoJob]]
      BY <2>1, <1>a DEF TypeOK
    <2>3. RowFacts'
      BY <1>a, <1>c, <2>1, RowsUntouched
    <2>4. Agrees([phase[w] EXCEPT ![j] = "none"], [dedup[w] EXCEPT ![keyOf[j]] = NoJob])
      BY <1>a, <1>b, HeldFact
    <2>5. DedupMatchesJobs'
      BY <1>a, <2>1, <2>2, <2>4, MemoryReplaced
    <2>6. QED
      BY <2>3, <2>5
  <1>5. CASE ConflictAdopts(w, j)
    <2>1. PICK r \in ActiveRows(keyOf[j]) :
             Adopt(w, [phase[w] EXCEPT ![j] = "none"],
                   [dedup[w] EXCEPT ![keyOf[j]] = NoJob], r, tries[r])
      BY <1>5 DEF ConflictAdopts
    <2>2. r \in JobIds /\ keyOf[r] \in Keys /\ tries[r] \in Nat
      BY <1>a, <1>c DEF ActiveRows, TypeOK
    <2>3. UNCHANGED <<table, ids, boot, loose>>
      BY <1>5 DEF ConflictAdopts
    <2>4. QED
      BY <1>a, <1>b, <1>c, <2>1, <2>2, <2>3, HeldFact, RowsUntouched, MemoryAdopts
  <1>6. CASE ClaimWon(w, j)
    <2>1. IndexAllows(j)
      BY <1>6, <1>a DEF ClaimWon, RowFacts, OneActiveRowPerKey, IndexAllows, ActiveRows, Active
    <2>2. RowFacts'
      BY <1>6, <1>a, <1>c, <2>1, RowWritten DEF ClaimWon
    <2>3. DedupMatchesJobs'
      BY <1>6, <1>a, <1>b DEF ClaimWon, TypeOK, DedupMatchesJobs, Held
    <2>4. QED
      BY <2>2, <2>3
  <1>7. CASE ClaimLost(w, j) \/ Close(w, j)
    <2>1. Release(w, j) /\ UNCHANGED <<table, ids, boot, loose>>
      BY <1>7 DEF ClaimLost, Close
    <2>2. QED
      BY <2>1, <1>a, <1>b, <1>c, RowsUntouched, MemoryReleased
  <1>8. CASE PersistCompleted(w, j) \/ PersistRetry(w, j) \/ PersistFailed(w, j)
    <2>1. /\ UNCHANGED <<ids, boot, loose>>
          /\ \E s \in {"completed", "failed", "queued"} :
                SetRow(j, s) /\ (s = "queued" => IndexAllows(j))
          /\ \E q \in {"closing", "requeue"} : Goto(w, j, q)
      BY <1>8 DEF PersistCompleted, PersistRetry, PersistFailed
    <2>2. RowFacts'
      <3>1. PICK s \in {"completed", "failed", "queued"} :
                    SetRow(j, s) /\ (s = "queued" => IndexAllows(j))
        BY <2>1
      <3>2. s \in Active => IndexAllows(j)
        BY <3>1 DEF Active
      <3>3. QED
        BY <1>a, <1>c, <2>1, <3>1, <3>2, RowWritten DEF SetRow
    <2>3. DedupMatchesJobs'
      BY <1>a, <1>b, <2>1, MemoryMoves
    <2>4. QED
      BY <2>2, <2>3
  <1>9. CASE RetryConflict(w, j)
    <2>1. UNCHANGED <<ids, status>> /\ Die(w)
      BY <1>9 DEF RetryConflict, Die
    <2>2. \A v \in Workers : /\ snap'[v] \subseteq snap[v]
                             /\ cancelling'[v] \subseteq cancelling[v] \cup {j}
                             /\ readding'[v] \subseteq readding[v] \cup {j}
      BY <2>1, <1>a DEF Die, TypeOK
    <2>3. RowFacts'
      BY <1>a, <1>c, <2>1, <2>2, RowsUntouched
    <2>4. QED
      BY <1>a, <2>1, <2>3, MemoryLost
  <1>10. CASE Requeue(w, j)
    <2>1. Agrees([phase[w] EXCEPT ![j] = "pending"], dedup[w])
      BY <1>a, <1>b, HeldFact DEF Agrees, TypeOK
    <2>2. /\ [phase[w] EXCEPT ![j] = "pending"] \in [JobIds -> Phases]
          /\ dedup' = [dedup EXCEPT ![w] = dedup[w]]
      BY <1>10, <1>a DEF TypeOK, Phases, Requeue
    <2>3. QED
      BY <1>10, <1>a, <1>c, <2>1, <2>2, MemoryContinues, RowsUntouched DEF Requeue
  <1>11. QED
    BY <1>1, <1>2, <1>3, <1>4, <1>5, <1>6, <1>7, <1>8, <1>9, <1>10 DEF JobStep

LEMMA KeyRecoverStep ==
    ASSUME KeyInv, NEW w \in Workers, RecoverStep(w)
    PROVE  RowFacts' /\ DedupMatchesJobs'
  <1> USE DEF table, ids, boot, memory, loose
  <1>a. TypeOK /\ RowFacts /\ DedupMatchesJobs
    BY DEF KeyInv, RowFacts
  <1>1. CASE RecoverUpdate(w)
    <2>1. /\ UNCHANGED <<ids, snap, memory, loose>>
          /\ \A j \in JobIds : /\ status'[j] \in Active <=> status[j] \in Active
                               /\ status[j] = "absent" => status'[j] = "absent"
      BY <1>1, <1>a DEF RecoverUpdate, Active, TypeOK
    <2>2. RowFacts'
      BY <1>a, <2>1 DEF RowFacts, IdsInOrder, SnapKeysDiffer, OneActiveRowPerKey
    <2>3. QED
      BY <1>a, <2>1, <2>2 DEF DedupMatchesJobs, Held
  <1>2. CASE RecoverSelect(w)
    <2> DEFINE read == {<<j, tries[j]>> : j \in {i \in JobIds : status[i] = "queued"}}
    <2>1. /\ snap' = [snap EXCEPT ![w] = read]
          /\ UNCHANGED <<table, ids, memory, loose>>
      BY <1>2 DEF RecoverSelect
    <2>2. \A v \in Workers : snap'[v] = IF v = w THEN read ELSE snap[v]
      BY <1>a, <2>1 DEF TypeOK
    <2>3. \A r \in read : r[1] \in JobIds /\ status[r[1]] = "queued" /\ r[2] = tries[r[1]]
                          /\ r = <<r[1], r[2]>>
      OBVIOUS
    <2> HIDE DEF read
    <2>4. IdsInOrder'
      BY <1>a, <2>1, <2>2, <2>3 DEF RowFacts, IdsInOrder
    <2>5. \A r, s \in read : keyOf[r[1]] = keyOf[s[1]] => r = s
      BY <1>a, <2>3 DEF RowFacts, OneActiveRowPerKey, Active
    <2>6. SnapKeysDiffer'
      BY <1>a, <2>1, <2>2, <2>5 DEF RowFacts, SnapKeysDiffer
    <2>7. OneActiveRowPerKey' /\ DedupMatchesJobs'
      BY <1>a, <2>1 DEF RowFacts, OneActiveRowPerKey, DedupMatchesJobs, Held
    <2>8. QED
      BY <2>4, <2>6, <2>7 DEF RowFacts
  <1>3. CASE RecoverAdopt(w)
    <2> DEFINE new == {r \in snap[w] : /\ phase[w][r[1]] \notin RunningPhases \cup {"pending"}
                                       /\ dedup[w][keyOf[r[1]]] = NoJob}
               rows == {r[1] : r \in new}
               ph == [j \in JobIds |-> IF j \in rows THEN "pending" ELSE phase[w][j]]
               dd == [k \in Keys |-> IF \E j \in rows : keyOf[j] = k
                                       THEN CHOOSE j \in rows : keyOf[j] = k
                                       ELSE dedup[w][k]]
    <2>1. /\ Continue(w, ph)
          /\ dedup' = [dedup EXCEPT ![w] = dd]
          /\ snap' = [snap EXCEPT ![w] = {}]
          /\ UNCHANGED <<table, ids, loose>>
      BY <1>3 DEF RecoverAdopt
    <2>2. \A j \in rows : /\ j \in JobIds
                          /\ keyOf[j] \in Keys
                          /\ dedup[w][keyOf[j]] = NoJob
      <3>1. \A r \in snap[w] : r[1] \in JobIds /\ r[1] <= created
        BY <1>a DEF TypeOK, RowFacts, IdsInOrder, JobIds
      <3>2. QED
        BY <1>a, <3>1 DEF RowFacts, IdsInOrder
    <2>3. \A i, j \in rows : keyOf[i] = keyOf[j] => i = j
      BY <1>a DEF RowFacts, SnapKeysDiffer
    <2>4. ph \in [JobIds -> Phases]
      BY <1>a DEF TypeOK, Phases
    <2> HIDE DEF new, rows
    <2>5. \A k \in Keys : \/ \E j \in rows : keyOf[j] = k /\ dd[k] = j
                          \/ (\A j \in rows : keyOf[j] # k) /\ dd[k] = dedup[w][k]
      OBVIOUS
    <2>6. \A j \in rows : dd[keyOf[j]] = j
      BY <2>2, <2>3, <2>5
    <2>7. Agrees(phase[w], dedup[w])
      BY <1>a, DedupIsAgreement
    <2>8. \A j \in JobIds : ph[j] # "none" => keyOf[j] \in Keys /\ dd[keyOf[j]] = j
      <3>1. TAKE j \in JobIds
      <3>2. CASE j \in rows
        BY <2>2, <2>6, <3>2
      <3>3. CASE j \notin rows /\ phase[w][j] # "none"
        <4>1. keyOf[j] \in Keys /\ dedup[w][keyOf[j]] = j
          BY <2>7, <3>3 DEF Agrees
        <4>2. \A i \in rows : keyOf[i] # keyOf[j]
          BY <2>2, <4>1 DEF NoJob, JobIds
        <4>3. QED
          BY <2>5, <4>1, <4>2
      <3>4. QED
        BY <3>2, <3>3
    <2>9. \A k \in Keys : dd[k] # NoJob =>
              dd[k] \in JobIds /\ ph[dd[k]] # "none" /\ keyOf[dd[k]] = k
      BY <2>2, <2>5, <2>7 DEF Agrees
    <2>10. DedupMatchesJobs'
      <3>1. Agrees(ph, dd)
        BY <2>8, <2>9 DEF Agrees
      <3> HIDE DEF ph, dd
      <3>2. QED
        BY <1>a, <2>1, <2>4, <3>1, MemoryContinues
    <2>11. RowFacts'
      <3>1. \A v \in Workers : snap'[v] \subseteq snap[v]
        BY <1>a, <2>1 DEF TypeOK
      <3>2. QED
        BY <1>a, <2>1, <3>1 DEF RowFacts, IdsInOrder, SnapKeysDiffer, OneActiveRowPerKey
    <2>12. QED
      BY <2>10, <2>11
  <1>4. CASE RecoverError(w)
    <2>1. Continue(w, phase[w]) /\ UNCHANGED <<dedup, table, ids, snap, loose>>
      BY <1>4 DEF RecoverError
    <2>2. /\ Agrees(phase[w], dedup[w])
          /\ phase[w] \in [JobIds -> Phases]
          /\ dedup' = [dedup EXCEPT ![w] = dedup[w]]
      BY <1>a, <2>1, DedupIsAgreement DEF TypeOK
    <2>3. DedupMatchesJobs'
      BY <1>a, <2>1, <2>2, MemoryContinues
    <2>4. RowFacts'
      BY <1>a, <2>1 DEF RowFacts, IdsInOrder, SnapKeysDiffer, OneActiveRowPerKey
    <2>5. QED
      BY <2>3, <2>4
  <1>5. QED
    BY <1>1, <1>2, <1>3, <1>4 DEF RecoverStep

LEMMA KeyNext == KeyInv /\ [Next]_vars => KeyInv'
  <1> SUFFICES ASSUME KeyInv, [Next]_vars
               PROVE  RowFacts' /\ DedupMatchesJobs'
    BY TypeNext DEF KeyInv, RowFacts
  <1> USE DEF table, ids, boot, memory, loose
  <1>a. TypeOK /\ RowFacts /\ DedupMatchesJobs
    BY DEF KeyInv, RowFacts
  <1>1. ASSUME NEW w \in Workers, NEW k \in Keys, Enqueue(w, k)
        PROVE  RowFacts' /\ DedupMatchesJobs'
    <2> DEFINE n == created + 1
    <2>1. /\ n \in JobIds /\ created \in Nat
          /\ created' = n
          /\ keyOf' = [keyOf EXCEPT ![n] = k]
          /\ phase' = [phase EXCEPT ![w] = [phase[w] EXCEPT ![n] = "insert"]]
          /\ dedup' = [dedup EXCEPT ![w] = [dedup[w] EXCEPT ![k] = n]]
          /\ dedup[w][k] = NoJob
          /\ UNCHANGED <<table, boot, loose>>
      BY <1>1, <1>a, QueueAssumption DEF Enqueue, TypeOK, JobIds
    <2>2. status[n] = "absent" /\ keyOf[n] = None
      BY <1>a, <2>1 DEF RowFacts, IdsInOrder, JobIds
    <2>3. \A j \in JobIds : j # n => /\ keyOf'[j] = keyOf[j]
                                     /\ j <= n <=> j <= created
      BY <1>a, <2>1 DEF TypeOK, JobIds
    <2>4. keyOf'[n] = k
      BY <1>a, <2>1 DEF TypeOK
    <2>5. IdsInOrder'
      BY <1>a, <2>1, <2>2, <2>3, <2>4 DEF RowFacts, IdsInOrder, JobIds
    <2>6. \A v \in Workers : \A r \in snap[v] : r[1] \in JobIds /\ r[1] # n
      BY <1>a, <2>1 DEF RowFacts, IdsInOrder, TypeOK, JobIds
    <2>7. SnapKeysDiffer'
      BY <1>a, <2>1, <2>3, <2>6 DEF RowFacts, SnapKeysDiffer
    <2>8. OneActiveRowPerKey'
      BY <1>a, <2>1, <2>2, <2>3 DEF RowFacts, OneActiveRowPerKey, Active
    <2>9. DedupMatchesJobs'
      <3>1. \A v \in Workers : \A j \in JobIds : phase[v][j] # "none" => j # n
        BY <1>a, <2>2, QueueAssumption DEF DedupMatchesJobs, Held
      <3>2. \A v \in Workers, c \in Keys : dedup[v][c] # n
        BY <1>a, <2>1, <2>2, QueueAssumption DEF DedupMatchesJobs, Held, NoJob, JobIds
      <3>3. \A v \in Workers : \A j \in JobIds : phase'[v][j] # "none" =>
                keyOf'[j] \in Keys /\ dedup'[v][keyOf'[j]] = j
        <4> SUFFICES ASSUME NEW v \in Workers, NEW j \in JobIds, phase'[v][j] # "none"
                     PROVE  keyOf'[j] \in Keys /\ dedup'[v][keyOf'[j]] = j
          OBVIOUS
        <4>1. CASE j = n
          <5>1. v = w
            BY <1>a, <2>1, <3>1, <4>1 DEF TypeOK
          <5>2. QED
            BY <1>a, <2>1, <2>4, <4>1, <5>1 DEF TypeOK
        <4>2. CASE j # n
          <5>1. phase[v][j] # "none"
            BY <1>a, <2>1, <4>2 DEF TypeOK
          <5>2. keyOf[j] \in Keys /\ dedup[v][keyOf[j]] = j
            BY <1>a, <5>1 DEF DedupMatchesJobs, Held
          <5>3. ~(v = w /\ keyOf[j] = k)
            BY <2>1, <5>2 DEF NoJob, JobIds
          <5>4. QED
            BY <1>a, <2>1, <2>3, <4>2, <5>2, <5>3 DEF TypeOK
        <4>3. QED
          BY <4>1, <4>2
      <3>4. \A v \in Workers : \A c \in Keys : dedup'[v][c] # NoJob =>
                /\ dedup'[v][c] \in JobIds
                /\ phase'[v][dedup'[v][c]] # "none"
                /\ keyOf'[dedup'[v][c]] = c
        <4> SUFFICES ASSUME NEW v \in Workers, NEW c \in Keys, dedup'[v][c] # NoJob
                     PROVE  /\ dedup'[v][c] \in JobIds
                            /\ phase'[v][dedup'[v][c]] # "none"
                            /\ keyOf'[dedup'[v][c]] = c
          OBVIOUS
        <4>1. CASE v = w /\ c = k
          BY <1>a, <2>1, <2>4, <4>1 DEF TypeOK
        <4>2. CASE ~(v = w /\ c = k)
          <5>1. dedup'[v][c] = dedup[v][c]
            BY <1>a, <2>1, <4>2 DEF TypeOK
          <5>2. dedup[v][c] \in JobIds /\ phase[v][dedup[v][c]] # "none"
                  /\ keyOf[dedup[v][c]] = c
            BY <1>a, <5>1 DEF DedupMatchesJobs, Held
          <5>3. QED
            BY <1>a, <2>1, <2>3, <3>2, <5>1, <5>2 DEF TypeOK
        <4>3. QED
          BY <4>1, <4>2
      <3>5. QED
        BY <3>3, <3>4 DEF DedupMatchesJobs, Held
    <2>10. QED
      BY <2>5, <2>7, <2>8, <2>9 DEF RowFacts
  <1>2. ASSUME NEW w \in Workers, NEW j \in JobIds, JobStep(w, j)
        PROVE  RowFacts' /\ DedupMatchesJobs'
    BY <1>2, KeyJobStep
  <1>3. ASSUME NEW w \in Workers, NEW j \in JobIds, AdminStep(w, j)
        PROVE  RowFacts' /\ DedupMatchesJobs'
    <2>1. j \in cancelling[w] \cup readding[w]
      BY <1>3 DEF AdminStep, PersistCancelled, CancelError, Readd
    <2>2. keyOf[j] \in Keys
      BY <1>a, <2>1 DEF RowFacts, IdsInOrder, TypeOK, JobIds
    <2>3. UNCHANGED <<ids, snap>>
      BY <1>3 DEF AdminStep, PersistCancelled, CancelError, Readd
    <2>4. \A v \in Workers : /\ snap'[v] \subseteq snap[v]
                             /\ cancelling'[v] \subseteq cancelling[v] \cup {j}
                             /\ readding'[v] \subseteq readding[v] \cup {j}
      BY <1>3, <1>a, <2>3 DEF AdminStep, PersistCancelled, CancelError, Readd, TypeOK
    <2>5. CASE PersistCancelled(w, j)
      <3>1. RowFacts'
        BY <1>a, <2>2, <2>3, <2>4, <2>5, RowWritten DEF PersistCancelled, SetRow, Active
      <3>2. QED
        BY <1>a, <2>5, <3>1 DEF PersistCancelled, DedupMatchesJobs, Held
    <2>6. CASE CancelError(w, j)
      <3>1. RowFacts'
        BY <1>a, <2>2, <2>3, <2>4, <2>6, RowsUntouched DEF CancelError
      <3>2. QED
        BY <1>a, <2>6, <3>1 DEF CancelError, DedupMatchesJobs, Held
    <2>7. CASE Readd(w, j)
      <3>1. RowFacts'
        BY <1>a, <2>2, <2>3, <2>4, <2>7, RowsUntouched DEF Readd
      <3>2. /\ Agrees(phase[w], dedup[w])
            /\ phase[w] \in [JobIds -> Phases]
            /\ dedup[w] \in [Keys -> JobIds \cup {NoJob}]
        BY <1>a, DedupIsAgreement DEF TypeOK
      <3>3. DedupMatchesJobs'
        BY <1>a, <2>2, <2>3, <2>7, <3>2, MemoryAdopts DEF Readd
      <3>4. QED
        BY <3>1, <3>3
    <2>8. QED
      BY <1>3, <2>5, <2>6, <2>7 DEF AdminStep
  <1>4. ASSUME NEW w \in Workers, NEW j \in JobIds, Cancel(w, j)
        PROVE  RowFacts' /\ DedupMatchesJobs'
    <2>1. /\ phase[w][j] # "none"
          /\ phase' = [phase EXCEPT ![w] = [phase[w] EXCEPT ![j] = "none"]]
          /\ dedup' = [dedup EXCEPT ![w] = [dedup[w] EXCEPT ![keyOf[j]] = NoJob]]
          /\ UNCHANGED <<table, ids, snap, readding>>
          /\ cancelling' = [cancelling EXCEPT ![w] = @ \cup {j}]
      BY <1>4, <1>a DEF Cancel, TypeOK
    <2>2. keyOf[j] \in Keys
      BY <1>a, <2>1, HeldFact
    <2>3. RowFacts'
      BY <1>a, <2>1, <2>2, RowsUntouched DEF TypeOK
    <2>4. Agrees([phase[w] EXCEPT ![j] = "none"], [dedup[w] EXCEPT ![keyOf[j]] = NoJob])
      BY <1>a, <2>1, HeldFact
    <2>5. DedupMatchesJobs'
      BY <1>a, <2>1, <2>4, MemoryReplaced
    <2>6. QED
      BY <2>3, <2>5
  <1>5. ASSUME NEW w \in Workers, NEW j \in JobIds, Repeat(w, j)
        PROVE  RowFacts' /\ DedupMatchesJobs'
    <2>1. /\ status' = [status EXCEPT ![j] = "queued"]
          /\ IndexAllows(j)
          /\ status[j] # "absent"
          /\ UNCHANGED <<ids, snap, memory, cancelling>>
          /\ readding' = [readding EXCEPT ![w] = @ \cup {j}]
      BY <1>5 DEF Repeat
    <2>2. keyOf[j] \in Keys
      BY <1>a, <2>1 DEF RowFacts, IdsInOrder, TypeOK, JobIds
    <2>3. RowFacts'
      BY <1>a, <2>1, <2>2, RowWritten DEF TypeOK
    <2>4. QED
      BY <1>a, <2>1, <2>3 DEF DedupMatchesJobs, Held
  <1>6. ASSUME NEW w \in Workers, RecoverStep(w)
        PROVE  RowFacts' /\ DedupMatchesJobs'
    BY <1>6, KeyRecoverStep
  <1>7. ASSUME NEW w \in Workers, Crash(w)
        PROVE  RowFacts' /\ DedupMatchesJobs'
    <2>1. Die(w) /\ UNCHANGED <<table, ids>>
      BY <1>7 DEF Crash, Die
    <2>2. \A v \in Workers : /\ snap'[v] \subseteq snap[v]
                             /\ cancelling'[v] \subseteq cancelling[v]
                             /\ readding'[v] \subseteq readding[v]
      BY <2>1, <1>a DEF Die, TypeOK
    <2>3. RowFacts'
      BY <1>a, <2>1, <2>2 DEF RowFacts, IdsInOrder, SnapKeysDiffer, OneActiveRowPerKey
    <2>4. QED
      BY <1>a, <2>1, <2>3, MemoryLost
  <1>8. CASE \/ \E w \in Workers, j \in JobIds : Heartbeat(w, j) \/ OrphanEnds(w, j)
             \/ \E w \in Workers : Restart(w)
             \/ \E j \in JobIds : LeaseLapses(j)
             \/ UNCHANGED vars
    <2>1. UNCHANGED <<status, ids, snap, memory, cancelling, readding>>
      BY <1>8 DEF Heartbeat, OrphanEnds, Restart, LeaseLapses, vars
    <2>2. QED
      BY <1>a, <2>1 DEF RowFacts, IdsInOrder, SnapKeysDiffer, OneActiveRowPerKey,
                        DedupMatchesJobs, Held
  <1>9. QED
    BY <1>1, <1>2, <1>3, <1>4, <1>5, <1>6, <1>7, <1>8 DEF Next

LEMMA KeyInit == Init => KeyInv
  <1> SUFFICES ASSUME Init
               PROVE  KeyInv
    OBVIOUS
  <1>1. TypeOK
    BY TypeInit
  <1>2. IdsInOrder /\ SnapKeysDiffer /\ OneActiveRowPerKey
    BY DEF Init, IdsInOrder, SnapKeysDiffer, OneActiveRowPerKey, Active, JobIds
  <1>3. DedupMatchesJobs
    BY DEF Init, DedupMatchesJobs, Held
  <1>4. QED
    BY <1>1, <1>2, <1>3 DEF KeyInv

LEMMA KeyCorrect == Spec => []KeyInv
  BY KeyInit, KeyNext, PTL DEF Spec

\* `deduplicated` and the job objects of a process agree, whatever the faults.
THEOREM DedupCorrect == Spec => []DedupMatchesJobs
  <1>1. KeyInv => DedupMatchesJobs
    BY DEF KeyInv
  <1>2. QED
    BY <1>1, KeyCorrect, PTL

-----------------------------------------------------------------------------
(***************************************************************************)
(* The pool: process() fills the slots of a process, the most urgent jobs first. *)
(***************************************************************************)

\* Every non-empty set of naturals has a smallest member.
LEMMA SmallestOf ==
    ASSUME NEW S \in SUBSET Nat, S # {}
    PROVE  \E m \in S : \A n \in S : m <= n
  <1> DEFINE less == {p \in Nat \X Nat : p[1] < p[2]}
  <1>1. IsWellFoundedOn(less, Nat)
    BY NatLessThanWellFounded DEF OpToRel
  <1> HIDE DEF less
  <1>2. PICK m \in S : \A n \in S : <<n, m>> \notin less
    BY <1>1, WFMin
  <1>3. ASSUME NEW n \in S
        PROVE  m <= n
    <2>1. <<n, m>> \in Nat \X Nat /\ <<n, m>>[1] = n /\ <<n, m>>[2] = m
      OBVIOUS
    <2>2. ~(n < m)
      BY <1>2, <2>1 DEF less
    <2>3. QED
      BY <2>2
  <1>4. QED
    BY <1>3

\* Jobs that have been drawn, and so have a key.
Keyed(S) == S \subseteq JobIds /\ \A j \in S : keyOf[j] \in Keys

\* Before is a strict order, total on jobs with keys.
LEMMA BeforeOrders ==
    ASSUME NEW S, Keyed(S)
    PROVE  /\ \A i \in S : ~Before(i, i)
           /\ \A i, j \in S : i # j => Before(i, j) \/ Before(j, i)
           /\ \A h, i, j \in S : Before(h, i) /\ Before(i, j) => Before(h, j)
  <1>1. \A i \in S : i \in Nat /\ Priority[keyOf[i]] \in 1..3
    BY QueueAssumption DEF Keyed, JobIds
  <1>2. QED
    BY <1>1 DEF Before

\* The first and the last of some jobs.
LEMMA FirstOf ==
    ASSUME NEW S, Keyed(S), S # {}
    PROVE  \E m \in S : \A i \in S : ~Before(i, m)
  <1>1. \A i \in S : i \in Nat /\ Priority[keyOf[i]] \in 1..3
    BY QueueAssumption DEF Keyed, JobIds
  <1> DEFINE distances == {3 - Priority[keyOf[i]] : i \in S}
  <1>2. PICK p \in distances : \A n \in distances : p <= n
    <2>1. distances \in SUBSET Nat /\ distances # {}
      BY <1>1
    <2>2. QED
      BY <2>1, SmallestOf
  <1> DEFINE foremost == {i \in S : 3 - Priority[keyOf[i]] = p}
  <1>3. PICK m \in foremost : \A n \in foremost : m <= n
    <2>1. foremost \in SUBSET Nat /\ foremost # {}
      BY <1>1
    <2>2. QED
      BY <2>1, SmallestOf
  <1>4. ASSUME NEW i \in S, Before(i, m)
        PROVE  FALSE
    <2>1. 3 - Priority[keyOf[i]] >= p /\ 3 - Priority[keyOf[m]] = p
      BY <1>2
    <2>2. Priority[keyOf[i]] = Priority[keyOf[m]] /\ i < m
      BY <1>1, <1>4, <2>1 DEF Before
    <2>3. i \in foremost
      BY <2>1, <2>2
    <2>4. QED
      BY <1>1, <1>3, <2>2, <2>3
  <1>5. QED
    BY <1>4

LEMMA LastOf ==
    ASSUME NEW S, Keyed(S), S # {}
    PROVE  \E m \in S : \A i \in S : ~Before(m, i)
  <1>1. \A i \in S : i \in 1..MaxJobs /\ Priority[keyOf[i]] \in 1..3
    BY QueueAssumption DEF Keyed, JobIds
  <1> DEFINE priorities == {Priority[keyOf[i]] : i \in S}
  <1>2. PICK p \in priorities : \A n \in priorities : p <= n
    <2>1. priorities \in SUBSET Nat /\ priorities # {}
      BY <1>1
    <2>2. QED
      BY <2>1, SmallestOf
  <1> DEFINE hindmost == {i \in S : Priority[keyOf[i]] = p}
             distances == {MaxJobs - i : i \in hindmost}
  <1>3. PICK d \in distances : \A n \in distances : d <= n
    <2>1. distances \in SUBSET Nat /\ distances # {}
      BY <1>1, QueueAssumption
    <2>2. QED
      BY <2>1, SmallestOf
  <1>4. PICK m \in hindmost : d = MaxJobs - m
    OBVIOUS
  <1>5. ASSUME NEW i \in S, Before(m, i)
        PROVE  FALSE
    <2>1. Priority[keyOf[i]] >= p /\ Priority[keyOf[m]] = p
      BY <1>2
    <2>2. Priority[keyOf[i]] = p /\ m < i
      BY <1>1, <1>5, <2>1 DEF Before
    <2>3. MaxJobs - i \in distances
      BY <2>2
    <2>4. QED
      BY <1>1, <1>3, <1>4, <2>2, <2>3, QueueAssumption
  <1>6. QED
    BY <1>5

\* A set of jobs is finite.
LEMMA JobSetsFinite ==
    \A S \in SUBSET JobIds : IsFiniteSet(S) /\ Cardinality(S) \in Nat
  <1>1. IsFiniteSet(JobIds)
    BY QueueAssumption, FS_Interval DEF JobIds
  <1>2. QED
    BY <1>1, FS_Subset, FS_CardinalityType

\* A set of jobs counts no more than one that contains it.
LEMMA FewerJobs ==
    ASSUME NEW S \in SUBSET JobIds, NEW T \in SUBSET S
    PROVE  Cardinality(T) <= Cardinality(S)
  BY JobSetsFinite, FS_Subset

\* process() takes as many jobs as there are slots, and leaves none waiting while
\* a slot is free.
LEMMA ProcessFills ==
    ASSUME NEW w \in Workers, NEW ph \in [JobIds -> Phases], Keyed(Pending(ph)),
           Cardinality(Running(ph)) <= Concurrency
    PROVE  LET after == Process(w, ph) IN
             /\ Cardinality(Running(after)) <= Concurrency
             /\ w \in Processors /\ Cardinality(Running(after)) < Concurrency
                  => Pending(after) = {}
  <1> DEFINE after == Process(w, ph)
             waiting == Pending(ph)
             taken == Dispatched(w, ph)
             busy == Cardinality(Running(ph))
             Ahead(j) == {i \in waiting : Before(i, j)}
  <1>1. /\ taken \subseteq waiting
        /\ \A j \in waiting : j \in taken <=> w \in Processors /\ Cardinality(Ahead(j)) + busy < Concurrency
    BY DEF Dispatched
  <1>2. /\ Running(after) = Running(ph) \cup taken
        /\ Running(ph) \cap taken = {}
        /\ Pending(after) = waiting \ taken
    BY <1>1 DEF Process, Running, Pending, RunningPhases
  <1>3. /\ waiting \in SUBSET JobIds
        /\ taken \in SUBSET JobIds
        /\ Running(ph) \in SUBSET JobIds
        /\ \A j : Ahead(j) \in SUBSET JobIds
    BY <1>1 DEF Pending, Running
  <1>4. Cardinality(Running(after)) = busy + Cardinality(taken)
    <2>1. IsFiniteSet(Running(ph)) /\ IsFiniteSet(taken)
      BY <1>3, JobSetsFinite
    <2>2. /\ Cardinality(Running(after)) = busy + Cardinality(taken) - 0
          /\ busy \in Nat /\ Cardinality(taken) \in Nat
      BY <1>2, <2>1, FS_Union, FS_EmptySet, FS_CardinalityType
    <2>3. QED
      BY <2>2
  <1>5. busy \in Nat /\ Cardinality(taken) \in Nat /\ \A j : Cardinality(Ahead(j)) \in Nat
    BY <1>3, JobSetsFinite
  <1> HIDE DEF after, waiting, taken, busy, Ahead
  <1>6. Cardinality(taken) + busy <= Concurrency
    <2>1. CASE taken = {}
      BY <1>5, <2>1, FS_EmptySet DEF busy
    <2>2. CASE taken # {}
      <3>1. Keyed(taken) /\ Keyed(waiting)
        BY <1>1 DEF Keyed, waiting
      <3>2. PICK m \in taken : \A i \in taken : ~Before(m, i)
        BY <2>2, <3>1, LastOf
      <3>3. taken \ {m} \subseteq Ahead(m)
        BY <1>1, <3>1, <3>2, BeforeOrders DEF Ahead
      <3>4. Cardinality(taken \ {m}) <= Cardinality(Ahead(m))
        BY <1>3, <3>3, FewerJobs
      <3>5. Cardinality(taken \ {m}) = Cardinality(taken) - 1
        BY <1>3, JobSetsFinite, FS_RemoveElement
      <3>6. Cardinality(Ahead(m)) + busy < Concurrency
        BY <1>1
      <3>7. QED
        BY <1>5, <3>4, <3>5, <3>6, QueueAssumption
    <2>3. QED
      BY <2>1, <2>2
  <1>7. ASSUME w \in Processors, Cardinality(taken) + busy < Concurrency
        PROVE  waiting \ taken = {}
    <2> SUFFICES ASSUME waiting \ taken # {}
                 PROVE  FALSE
      OBVIOUS
    <2>1. Keyed(waiting \ taken) /\ Keyed(waiting)
      BY DEF Keyed, waiting
    <2>2. PICK m \in waiting \ taken : \A i \in waiting \ taken : ~Before(i, m)
      BY <2>1, FirstOf
    <2>3. Ahead(m) \subseteq taken
      BY <2>2 DEF Ahead
    <2>4. Cardinality(Ahead(m)) <= Cardinality(taken)
      BY <1>3, <2>3, FewerJobs
    <2>5. Cardinality(Ahead(m)) + busy < Concurrency
      BY <1>5, <1>7, <2>4, QueueAssumption
    <2>6. QED
      BY <1>1, <1>7, <2>2, <2>5
  <1>8. QED
    BY <1>2, <1>4, <1>5, <1>6, <1>7 DEF after, waiting

\* What a step does to the job objects of process w: it moves them about outside
\* of process(), or it changes them and runs process(), or it loses them all.
Rearranges(w) ==
    \E ph \in [JobIds -> Phases] :
        /\ phase' = [phase EXCEPT ![w] = ph]
        /\ Running(ph) = Running(phase[w])
        /\ Pending(ph) \subseteq Pending(phase[w])
        /\ \A j \in JobIds : ph[j] = "claim" => phase[w][j] = "claim"

Dispatches(w) ==
    \E ph \in [JobIds -> Phases] :
        /\ Continue(w, ph)
        /\ Keyed(Pending(ph))
        /\ Running(ph) \subseteq Running(phase[w])
        /\ \A j \in JobIds : ph[j] = "claim" => phase[w][j] = "claim"
        /\ UNCHANGED keyOf

Empties(w) == phase' = [phase EXCEPT ![w] = [j \in JobIds |-> "none"]]

\* A job moves on without entering or leaving `pending` and `running`.
LEMMA RearrangedByMove ==
    ASSUME TypeOK, NEW w \in Workers, NEW j \in JobIds, NEW p \in Phases,
           phase' = [phase EXCEPT ![w][j] = p], p # "claim", p # "pending",
           p \in RunningPhases <=> phase[w][j] \in RunningPhases
    PROVE  Rearranges(w)
  <1> DEFINE ph == [phase[w] EXCEPT ![j] = p]
  <1>1. ph \in [JobIds -> Phases] /\ phase' = [phase EXCEPT ![w] = ph]
    BY DEF TypeOK
  <1>2. \A i \in JobIds : ph[i] = IF i = j THEN p ELSE phase[w][i]
    BY DEF TypeOK
  <1> HIDE DEF ph
  <1>3. /\ Running(ph) = Running(phase[w])
        /\ Pending(ph) \subseteq Pending(phase[w])
        /\ \A i \in JobIds : ph[i] = "claim" => phase[w][i] = "claim"
    BY <1>2 DEF Running, Pending, RunningPhases
  <1>4. QED
    BY <1>1, <1>3 DEF Rearranges

\* A job that is not running leaves.
LEMMA RearrangedByLeaving ==
    ASSUME TypeOK, NEW w \in Workers, NEW j \in JobIds, phase[w][j] \notin RunningPhases,
           phase' = [phase EXCEPT ![w][j] = "none"]
    PROVE  Rearranges(w)
  <1> DEFINE ph == [phase[w] EXCEPT ![j] = "none"]
  <1>1. ph \in [JobIds -> Phases] /\ phase' = [phase EXCEPT ![w] = ph]
    BY DEF TypeOK, Phases
  <1>2. \A i \in JobIds : ph[i] = IF i = j THEN "none" ELSE phase[w][i]
    BY DEF TypeOK
  <1> HIDE DEF ph
  <1>3. /\ Running(ph) = Running(phase[w])
        /\ Pending(ph) \subseteq Pending(phase[w])
        /\ \A i \in JobIds : ph[i] = "claim" => phase[w][i] = "claim"
    BY <1>2 DEF Running, Pending, RunningPhases
  <1>4. QED
    BY <1>1, <1>3 DEF Rearranges

\* Some jobs with keys become pending or leave, and process() runs.
LEMMA DispatchedAfter ==
    ASSUME KeyInv, NEW w \in Workers, NEW ph \in [JobIds -> Phases], Continue(w, ph),
           UNCHANGED keyOf,
           \A i \in JobIds : \/ ph[i] = phase[w][i]
                             \/ ph[i] = "none"
                             \/ ph[i] = "pending" /\ keyOf[i] \in Keys
    PROVE  Dispatches(w)
  <1>1. \A i \in JobIds : phase[w][i] # "none" => keyOf[i] \in Keys
    BY DEF KeyInv, DedupMatchesJobs, Held
  <1>2. Keyed(Pending(ph))
    BY <1>1 DEF Keyed, Pending
  <1>3. /\ Running(ph) \subseteq Running(phase[w])
        /\ \A j \in JobIds : ph[j] = "claim" => phase[w][j] = "claim"
    BY DEF Running, RunningPhases
  <1>4. QED
    BY <1>2, <1>3 DEF Dispatches

\* One that is adopted in the place of another, likewise.
LEMMA DispatchedByAdoption ==
    ASSUME KeyInv, NEW w \in Workers, NEW ph \in [JobIds -> Phases],
           NEW dd, NEW j \in JobIds, NEW n, Adopt(w, ph, dd, j, n), UNCHANGED keyOf,
           keyOf[j] \in Keys,
           \A i \in JobIds : ph[i] = phase[w][i] \/ ph[i] = "none"
    PROVE  Dispatches(w)
  <1>1. CASE dd[keyOf[j]] # NoJob
    BY <1>1, DispatchedAfter DEF Adopt
  <1>2. CASE dd[keyOf[j]] = NoJob
    <2>1. Continue(w, [ph EXCEPT ![j] = "pending"])
      BY <1>2 DEF Adopt
    <2>2. /\ [ph EXCEPT ![j] = "pending"] \in [JobIds -> Phases]
          /\ \A i \in JobIds : [ph EXCEPT ![j] = "pending"][i]
                                 = IF i = j THEN "pending" ELSE ph[i]
      BY DEF Phases
    <2>3. QED
      BY <2>1, <2>2, DispatchedAfter
  <1>3. QED
    BY <1>1, <1>2

\* Every step of a job is of one of the three forms.
LEMMA PoolJobStep ==
    ASSUME KeyInv, NEW w \in Workers, NEW j \in JobIds, JobStep(w, j)
    PROVE  Rearranges(w) \/ Dispatches(w) \/ Empties(w)
  <1> USE DEF table, ids, boot, memory, loose
  <1>a. TypeOK /\ DedupMatchesJobs
    BY DEF KeyInv
  <1>b. phase[w][j] # "none" => keyOf[j] \in Keys
    BY <1>a, HeldFact
  <1>1. CASE InsertRow(w, j) \/ Requeue(w, j)
    <2>1. /\ Continue(w, [phase[w] EXCEPT ![j] = "pending"])
          /\ UNCHANGED keyOf
          /\ keyOf[j] \in Keys
      BY <1>1, <1>b DEF InsertRow, Requeue
    <2>2. /\ [phase[w] EXCEPT ![j] = "pending"] \in [JobIds -> Phases]
          /\ \A i \in JobIds : [phase[w] EXCEPT ![j] = "pending"][i]
                                 = IF i = j THEN "pending" ELSE phase[w][i]
      BY <1>a DEF TypeOK, Phases
    <2>3. QED
      BY <2>1, <2>2, DispatchedAfter
  <1>2. CASE InsertConflict(w, j)
    BY <1>2, <1>a, RearrangedByMove DEF InsertConflict, Goto, Phases, RunningPhases
  <1>3. CASE InsertError(w, j) \/ ConflictGone(w, j)
    BY <1>3, <1>a, RearrangedByLeaving DEF InsertError, ConflictGone, RunningPhases
  <1>4. CASE ConflictAdopts(w, j)
    <2>1. PICK r \in ActiveRows(keyOf[j]) :
             Adopt(w, [phase[w] EXCEPT ![j] = "none"],
                   [dedup[w] EXCEPT ![keyOf[j]] = NoJob], r, tries[r])
      BY <1>4 DEF ConflictAdopts
    <2>2. r \in JobIds /\ keyOf[r] \in Keys /\ UNCHANGED keyOf
      BY <1>4, <1>b DEF ConflictAdopts, ActiveRows
    <2>3. /\ [phase[w] EXCEPT ![j] = "none"] \in [JobIds -> Phases]
          /\ \A i \in JobIds : [phase[w] EXCEPT ![j] = "none"][i]
                                 = IF i = j THEN "none" ELSE phase[w][i]
      BY <1>a DEF TypeOK, Phases
    <2>4. QED
      BY <2>1, <2>2, <2>3, DispatchedByAdoption
  <1>5. CASE ClaimWon(w, j) \/ ClaimError(w, j) \/ HandlerDone(w, j) \/ HandlerFails(w, j)
               \/ HandlerTimeout(w, j) \/ PersistCompleted(w, j) \/ CompletedError(w, j)
               \/ PersistRetry(w, j) \/ PersistFailed(w, j)
    <2>1. /\ phase[w][j] \in RunningPhases
          /\ \E p \in RunningPhases \ {"claim"} : phase' = [phase EXCEPT ![w][j] = p]
      BY <1>5 DEF ClaimWon, ClaimError, HandlerDone, HandlerFails, HandlerTimeout,
                  PersistCompleted, CompletedError, PersistRetry, PersistFailed, Goto,
                  RunningPhases
    <2>2. ASSUME NEW p \in RunningPhases \ {"claim"}, phase' = [phase EXCEPT ![w][j] = p]
          PROVE  Rearranges(w)
      <3>1. p \in Phases /\ p # "pending"
        BY DEF Phases, RunningPhases
      <3>2. QED
        BY <1>a, <2>1, <2>2, <3>1, RearrangedByMove
    <2>3. QED
      BY <2>1, <2>2
  <1>6. CASE ClaimLost(w, j) \/ Close(w, j)
    <2>1. Continue(w, [phase[w] EXCEPT ![j] = "none"]) /\ UNCHANGED keyOf
      BY <1>6 DEF ClaimLost, Close, Release
    <2>2. /\ [phase[w] EXCEPT ![j] = "none"] \in [JobIds -> Phases]
          /\ \A i \in JobIds : [phase[w] EXCEPT ![j] = "none"][i]
                                 = IF i = j THEN "none" ELSE phase[w][i]
      BY <1>a DEF TypeOK, Phases
    <2>3. QED
      BY <2>1, <2>2, DispatchedAfter
  <1>7. CASE RetryConflict(w, j)
    BY <1>7 DEF RetryConflict, Die, Empties
  <1>8. QED
    BY <1>1, <1>2, <1>3, <1>4, <1>5, <1>6, <1>7 DEF JobStep

\* So are the steps of recover(),
LEMMA PoolRecoverStep ==
    ASSUME KeyInv, NEW w \in Workers, RecoverStep(w)
    PROVE  UNCHANGED phase \/ Dispatches(w)
  <1> USE DEF table, ids, boot, memory, loose
  <1>a. TypeOK
    BY DEF KeyInv
  <1>1. CASE RecoverUpdate(w) \/ RecoverSelect(w)
    BY <1>1 DEF RecoverUpdate, RecoverSelect
  <1>2. CASE RecoverAdopt(w)
    <2> DEFINE new == {r \in snap[w] : /\ phase[w][r[1]] \notin RunningPhases \cup {"pending"}
                                       /\ dedup[w][keyOf[r[1]]] = NoJob}
               rows == {r[1] : r \in new}
               ph == [j \in JobIds |-> IF j \in rows THEN "pending" ELSE phase[w][j]]
    <2>1. Continue(w, ph) /\ UNCHANGED keyOf
      BY <1>2 DEF RecoverAdopt
    <2>2. ASSUME NEW r \in snap[w]
          PROVE  keyOf[r[1]] \in Keys
      <3>1. r[1] \in JobIds /\ r[1] <= created
        BY <1>a DEF KeyInv, TypeOK, IdsInOrder, JobIds
      <3>2. QED
        BY <3>1 DEF KeyInv, IdsInOrder
    <2>3. \A i \in rows : keyOf[i] \in Keys
      BY <2>2
    <2> HIDE DEF rows
    <2>4. ph \in [JobIds -> Phases]
      BY <1>a DEF TypeOK, Phases
    <2>5. QED
      BY <2>1, <2>3, <2>4, DispatchedAfter
  <1>3. CASE RecoverError(w)
    <2>1. Continue(w, phase[w]) /\ UNCHANGED keyOf /\ phase[w] \in [JobIds -> Phases]
      BY <1>3, <1>a DEF RecoverError, TypeOK
    <2>2. QED
      BY <2>1, DispatchedAfter
  <1>4. QED
    BY <1>1, <1>2, <1>3 DEF RecoverStep

\* enqueue(),
LEMMA PoolEnqueue ==
    ASSUME KeyInv, NEW w \in Workers, NEW k \in Keys, Enqueue(w, k)
    PROVE  Rearranges(w)
  <1> DEFINE n == created + 1
             ph == [phase[w] EXCEPT ![n] = "insert"]
  <1>a. TypeOK /\ DedupMatchesJobs
    BY DEF KeyInv
  <1>1. n \in JobIds /\ n > created
    BY <1>a, QueueAssumption DEF Enqueue, TypeOK, JobIds
  <1>2. phase[w][n] = "none"
    <2>1. keyOf[n] = None
      BY <1>1 DEF KeyInv, IdsInOrder
    <2>2. QED
      BY <1>a, <1>1, <2>1, QueueAssumption DEF DedupMatchesJobs, Held
  <1>3. /\ ph \in [JobIds -> Phases]
        /\ phase' = [phase EXCEPT ![w] = ph]
        /\ \A i \in JobIds : ph[i] = IF i = n THEN "insert" ELSE phase[w][i]
    BY <1>a, <1>1 DEF Enqueue, TypeOK, Phases
  <1> HIDE DEF n, ph
  <1>4. /\ Running(ph) = Running(phase[w])
        /\ Pending(ph) \subseteq Pending(phase[w])
        /\ \A i \in JobIds : ph[i] = "claim" => phase[w][i] = "claim"
    BY <1>2, <1>3 DEF Running, Pending, RunningPhases
  <1>5. QED
    BY <1>3, <1>4 DEF Rearranges

\* and every step: it concerns the job objects of one process.
LEMMA PoolStep ==
    ASSUME KeyInv, [Next]_vars
    PROVE  UNCHANGED phase \/ \E w \in Workers : Rearranges(w) \/ Dispatches(w) \/ Empties(w)
  <1> USE DEF table, ids, boot, memory, loose
  <1>a. TypeOK /\ DedupMatchesJobs
    BY DEF KeyInv
  <1>1. ASSUME NEW w \in Workers, NEW j \in JobIds, AdminStep(w, j) \/ Cancel(w, j)
        PROVE  UNCHANGED phase \/ Rearranges(w) \/ Dispatches(w)
    <2>1. CASE PersistCancelled(w, j) \/ CancelError(w, j)
      BY <2>1 DEF PersistCancelled, CancelError
    <2>2. CASE Readd(w, j)
      <3>1. j <= created
        BY <2>2, <1>a DEF Readd, KeyInv, IdsInOrder, TypeOK, JobIds
      <3>2. keyOf[j] \in Keys
        BY <3>1 DEF KeyInv, IdsInOrder
      <3>3. phase[w] \in [JobIds -> Phases]
        BY <1>a DEF TypeOK
      <3>4. QED
        BY <2>2, <3>2, <3>3, DispatchedByAdoption DEF Readd
    <2>3. CASE Cancel(w, j)
      BY <2>3, <1>a, RearrangedByLeaving DEF Cancel, RunningPhases
    <2>4. QED
      BY <1>1, <2>1, <2>2, <2>3 DEF AdminStep
  <1>2. ASSUME NEW w \in Workers, Crash(w)
        PROVE  Empties(w)
    BY <1>2 DEF Crash, Die, Empties
  <1>3. CASE \/ \E w \in Workers, j \in JobIds :
                   Heartbeat(w, j) \/ OrphanEnds(w, j) \/ Repeat(w, j)
             \/ \E w \in Workers : Restart(w)
             \/ \E j \in JobIds : LeaseLapses(j)
             \/ UNCHANGED vars
    BY <1>3 DEF Heartbeat, OrphanEnds, Repeat, Restart, LeaseLapses, vars
  <1>4. QED
    BY <1>1, <1>2, <1>3, PoolJobStep, PoolRecoverStep, PoolEnqueue DEF Next

\* No process has jobs at first.
LEMMA PoolInit == Init => SlotsUsedUp
  <1> SUFFICES ASSUME Init, NEW w \in Workers
               PROVE  Running(phase[w]) = {} /\ Pending(phase[w]) = {}
    BY FS_EmptySet, QueueAssumption DEF SlotsUsedUp
  <1>1. QED
    BY DEF Init, Running, Pending, RunningPhases

\* Each form keeps every process full or without waiting jobs.
LEMMA PoolNext ==
    ASSUME KeyInv, SlotsUsedUp, [Next]_vars
    PROVE  SlotsUsedUp'
  <1> DEFINE Full(w, ph) == /\ Cardinality(Running(ph)) <= Concurrency
                            /\ w \in Processors /\ Cardinality(Running(ph)) < Concurrency
                                 => Pending(ph) = {}
  <1>1. SlotsUsedUp <=> \A w \in Workers : Full(w, phase[w])
    BY DEF SlotsUsedUp
  <1>2. SlotsUsedUp' <=> \A w \in Workers : Full(w, phase'[w])
    BY DEF SlotsUsedUp, Running, Pending
  <1>3. ASSUME NEW w \in Workers, NEW ph, Full(w, ph), phase' = [phase EXCEPT ![w] = ph]
        PROVE  SlotsUsedUp'
    <2> HIDE DEF Full
    <2>1. \A v \in Workers : phase'[v] = IF v = w THEN ph ELSE phase[v]
      BY <1>3 DEF KeyInv, TypeOK
    <2>2. QED
      BY <1>1, <1>2, <1>3, <2>1
  <1>4. ASSUME NEW w \in Workers, Rearranges(w)
        PROVE  SlotsUsedUp'
    <2>1. PICK ph \in [JobIds -> Phases] :
             /\ phase' = [phase EXCEPT ![w] = ph]
             /\ Running(ph) = Running(phase[w])
             /\ Pending(ph) \subseteq Pending(phase[w])
      BY <1>4 DEF Rearranges
    <2>2. Full(w, ph)
      BY <1>1, <2>1
    <2>3. QED
      BY <1>3, <2>1, <2>2
  <1>5. ASSUME NEW w \in Workers, Dispatches(w)
        PROVE  SlotsUsedUp'
    <2>1. PICK ph \in [JobIds -> Phases] :
             /\ Continue(w, ph)
             /\ Keyed(Pending(ph))
             /\ Running(ph) \subseteq Running(phase[w])
      BY <1>5 DEF Dispatches
    <2>2. Cardinality(Running(ph)) <= Concurrency
      <3>1. Running(phase[w]) \in SUBSET JobIds /\ Running(ph) \in SUBSET JobIds
        BY DEF Running
      <3>2. /\ Cardinality(Running(ph)) <= Cardinality(Running(phase[w]))
            /\ Cardinality(Running(ph)) \in Nat
            /\ Cardinality(Running(phase[w])) \in Nat
        BY <2>1, <3>1, FewerJobs, JobSetsFinite
      <3>3. Cardinality(Running(phase[w])) <= Concurrency
        BY DEF SlotsUsedUp
      <3>4. QED
        BY <3>2, <3>3, QueueAssumption
    <2>3. Full(w, Process(w, ph))
      BY <2>1, <2>2, ProcessFills
    <2>4. QED
      BY <1>3, <2>1, <2>3 DEF Continue
  <1>6. ASSUME NEW w \in Workers, Empties(w)
        PROVE  SlotsUsedUp'
    <2> DEFINE ph == [j \in JobIds |-> "none"]
    <2>1. Running(ph) = {} /\ Pending(ph) = {}
      BY DEF Running, Pending, RunningPhases
    <2>2. Full(w, ph)
      BY <2>1, FS_EmptySet, QueueAssumption
    <2>3. QED
      BY <1>3, <1>6, <2>2 DEF Empties
  <1>7. CASE UNCHANGED phase
    BY <1>1, <1>2, <1>7
  <1>8. QED
    BY <1>4, <1>5, <1>6, <1>7, PoolStep

\* Whatever the faults, a process that runs jobs is full or has none waiting, and
\* is never above its concurrency: no path that adds a job or frees a slot skips
\* process().
THEOREM SlotsAreUsed == Spec => []SlotsUsedUp
  <1>1. KeyInv /\ SlotsUsedUp /\ [Next]_vars => SlotsUsedUp'
    BY PoolNext
  <1>2. QED
    BY <1>1, PoolInit, KeyCorrect, PTL DEF Spec

\* A job process() starts has no waiting job before it.
LEMMA DispatchRespects ==
    ASSUME NEW w \in Workers, NEW ph \in [JobIds -> Phases], Keyed(Pending(ph)),
           NEW i \in JobIds, NEW j \in JobIds,
           ph[j] # "claim", Process(w, ph)[j] = "claim", Process(w, ph)[i] = "pending"
    PROVE  ~Before(i, j)
  <1> DEFINE waiting == Pending(ph)
             Ahead(x) == {y \in waiting : Before(y, x)}
             busy == Cardinality(Running(ph))
  <1>1. /\ j \in Dispatched(w, ph)
        /\ i \notin Dispatched(w, ph)
        /\ i \in waiting
    BY DEF Process, Pending
  <1>2. /\ j \in waiting
        /\ w \in Processors
        /\ Cardinality(Ahead(j)) + busy < Concurrency
        /\ ~(Cardinality(Ahead(i)) + busy < Concurrency)
    BY <1>1 DEF Dispatched
  <1>3. /\ Ahead(i) \in SUBSET JobIds /\ Ahead(j) \in SUBSET JobIds
        /\ Running(ph) \in SUBSET JobIds
    BY DEF Pending, Running
  <1>4. Cardinality(Ahead(i)) \in Nat /\ Cardinality(Ahead(j)) \in Nat /\ busy \in Nat
    BY <1>3, JobSetsFinite
  <1> SUFFICES ASSUME Before(i, j)
               PROVE  FALSE
    OBVIOUS
  <1>5. Ahead(i) \subseteq Ahead(j)
    BY <1>1, <1>2, BeforeOrders
  <1> HIDE DEF waiting, Ahead, busy
  <1>6. Cardinality(Ahead(i)) <= Cardinality(Ahead(j))
    BY <1>3, <1>5, FewerJobs
  <1>7. QED
    BY <1>2, <1>4, <1>6, QueueAssumption

\* A step that starts a job is one that runs process().
LEMMA PriorityStep ==
    ASSUME KeyInv, [Next]_vars
    PROVE  \A w \in Workers : \A i, j \in JobIds :
             /\ phase[w][j] # "claim"
             /\ phase'[w][j] = "claim"
             /\ phase'[w][i] = "pending"
             => ~(Before(i, j))'
  <1> SUFFICES ASSUME NEW w \in Workers, NEW i \in JobIds, NEW j \in JobIds,
                      phase[w][j] # "claim", phase'[w][j] = "claim", phase'[w][i] = "pending"
               PROVE  ~(Before(i, j))'
    OBVIOUS
  <1>1. TypeOK
    BY DEF KeyInv
  <1>2. ASSUME NEW v \in Workers, Rearranges(v) \/ Empties(v)
        PROVE  FALSE
    BY <1>1, <1>2 DEF Rearranges, Empties, TypeOK
  <1>3. PICK v \in Workers : Dispatches(v)
    BY <1>2, PoolStep
  <1>4. PICK ph \in [JobIds -> Phases] :
           /\ Continue(v, ph)
           /\ Keyed(Pending(ph))
           /\ \A x \in JobIds : ph[x] = "claim" => phase[v][x] = "claim"
           /\ UNCHANGED keyOf
    BY <1>3 DEF Dispatches
  <1>5. v = w
    BY <1>1, <1>4 DEF Continue, TypeOK
  <1>6. phase'[w] = Process(w, ph)
    BY <1>1, <1>4, <1>5 DEF Continue, TypeOK
  <1>7. ~Before(i, j)
    BY <1>4, <1>5, <1>6, DispatchRespects
  <1>8. QED
    BY <1>4, <1>7 DEF Before

\* Whatever the faults, process() starts no job while one of a higher priority, or
\* of the same and enqueued earlier, stays in `pending`.
THEOREM PriorityIsRespected == Spec => PriorityRespected
  <1> DEFINE Respects == \A w \in Workers : \A i, j \in JobIds :
                           /\ phase[w][j] # "claim"
                           /\ phase'[w][j] = "claim"
                           /\ phase'[w][i] = "pending"
                           => ~(Before(i, j))'
  <1>1. KeyInv /\ [Next]_vars => [Respects]_<<phase, keyOf>>
    BY PriorityStep
  <1> HIDE DEF Respects
  <1>2. Spec => [][Respects]_<<phase, keyOf>>
    BY <1>1, KeyCorrect, PTL DEF Spec
  <1>3. QED
    BY <1>2 DEF PriorityRespected, Respects
=============================================================================
