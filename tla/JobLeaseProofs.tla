--------------------------- MODULE JobLeaseProofs ---------------------------
(***************************************************************************)
(* What the leases of JobQueue achieve while no live process stalls for a  *)
(* whole lease, no query fails and nobody cancels or repeats jobs by hand  *)
(* (Undisturbed: handlers may still time out, processes may crash and      *)
(* restart at any moment).  The process that executes a job keeps its row, *)
(* and the queue implements JobLedger.  Then, each under the hypotheses it *)
(* needs, when a job is given up, that it runs in one place at a time, and *)
(* that no row in the queue is forgotten.                                  *)
(***************************************************************************)
EXTENDS JobQueueProofs

Fresh == {"insert", "conflict"}

\* A step that leaves the rows and everybody's hold on them alone.
Quiet ==
    /\ UNCHANGED <<status, owner, leased>>
    /\ \A v \in Workers, i \in JobIds :
         /\ phase'[v][i] \in Holding <=> phase[v][i] \in Holding
         /\ phase'[v][i] \in Fresh => phase[v][i] \in Fresh

LEMMA ContinueFact ==
    ASSUME TypeOK, NEW w \in Workers, NEW ph \in [JobIds -> Phases], Continue(w, ph)
    PROVE  \A v \in Workers, i \in JobIds :
             \/ phase'[v][i] = IF v = w THEN ph[i] ELSE phase[v][i]
             \/ v = w /\ ph[i] = "pending" /\ phase'[v][i] = "claim"
  <1>1. \A v \in Workers : phase'[v] = IF v = w THEN Process(w, ph) ELSE phase[v]
    BY DEF Continue, TypeOK
  <1>2. QED
    BY <1>1, ProcessFact

\* process() runs over jobs nobody has taken hold of.
LEMMA ContinueQuiet ==
    ASSUME TypeOK, UNCHANGED <<status, owner, leased>>,
           NEW w \in Workers, NEW ph \in [JobIds -> Phases], Continue(w, ph),
           \A i \in JobIds : /\ ph[i] \in Holding <=> phase[w][i] \in Holding
                             /\ ph[i] \in Fresh => phase[w][i] \in Fresh
    PROVE  Quiet
  <1>1. \A v \in Workers, i \in JobIds :
          \/ phase'[v][i] = IF v = w THEN ph[i] ELSE phase[v][i]
          \/ v = w /\ ph[i] = "pending" /\ phase'[v][i] = "claim"
    BY ContinueFact
  <1>2. QED
    BY <1>1 DEF Quiet, Holding, Fresh

LEMMA GotoQuiet ==
    ASSUME TypeOK, UNCHANGED <<status, owner, leased>>,
           NEW w \in Workers, NEW j \in JobIds, NEW p, Goto(w, j, p),
           p \in Holding <=> phase[w][j] \in Holding,
           p \in Fresh => phase[w][j] \in Fresh
    PROVE  Quiet
  BY DEF Goto, TypeOK, Quiet

LEMMA ReleaseQuiet ==
    ASSUME TypeOK, UNCHANGED <<status, owner, leased>>,
           NEW w \in Workers, NEW j \in JobIds, Release(w, j), phase[w][j] \notin Holding
    PROVE  Quiet
  <1> DEFINE ph == [phase[w] EXCEPT ![j] = "none"]
  <1>1. ph \in [JobIds -> Phases]
    BY DEF TypeOK, Phases
  <1>2. \A i \in JobIds : /\ ph[i] \in Holding <=> phase[w][i] \in Holding
                          /\ ph[i] \in Fresh => phase[w][i] \in Fresh
    BY DEF TypeOK, Holding, Fresh
  <1>3. Continue(w, ph)
    BY DEF Release
  <1> HIDE DEF ph
  <1>4. QED
    BY <1>1, <1>2, <1>3, ContinueQuiet

LEMMA QuietKeepsFacts ==
    ASSUME LeaseFacts, Quiet
    PROVE  LeaseFacts'
  BY DEF LeaseFacts, InsertIsFresh, HolderOwnsRow, HolderHasLease, RunningIsOwned, Quiet,
         Holding, Fresh

\* The steps of a job object that only move it, or pass its key on to the row
\* in its way.
QuietJobStep(w, j) ==
    \/ InsertConflict(w, j)
    \/ ConflictAdopts(w, j)
    \/ ConflictGone(w, j)
    \/ ClaimLost(w, j)
    \/ HandlerDone(w, j)
    \/ HandlerFails(w, j)
    \/ HandlerTimeout(w, j)
    \/ Requeue(w, j)
    \/ Close(w, j)

LEMMA QuietJobSteps ==
    ASSUME OwnInv, NEW w \in Workers, NEW j \in JobIds, QuietJobStep(w, j)
    PROVE  Quiet /\ UNCHANGED keyOf
  <1> USE DEF table, ids, boot, memory, loose
  <1>a. TypeOK /\ DedupMatchesJobs
    BY DEF OwnInv, KeyInv
  <1>b. /\ UNCHANGED <<status, owner, leased>>
        /\ UNCHANGED keyOf
        /\ phase[w][j] # "none"
    BY DEF QuietJobStep, InsertConflict, ConflictAdopts, ConflictGone, ClaimLost, HandlerDone,
           HandlerFails, HandlerTimeout, Requeue, Close
  <1>1. CASE InsertConflict(w, j)
    BY <1>1, <1>a, <1>b, GotoQuiet DEF InsertConflict, Holding, Fresh
  <1>2. CASE ConflictAdopts(w, j)
    <2> DEFINE ph == [phase[w] EXCEPT ![j] = "none"]
               dd == [dedup[w] EXCEPT ![keyOf[j]] = NoJob]
    <2>1. PICK r \in ActiveRows(keyOf[j]) : Adopt(w, ph, dd, r, tries[r])
      BY <1>2 DEF ConflictAdopts
    <2>2. /\ keyOf[j] \in Keys
          /\ dedup[w][keyOf[j]] = j
          /\ ph \in [JobIds -> Phases]
      BY <1>a, <1>b, HeldFact
    <2>3. r \in JobIds /\ keyOf[r] = keyOf[j]
      BY DEF ActiveRows
    <2>4. ph[r] = "none"
      BY <1>a, <2>2, <2>3 DEF DedupMatchesJobs, Held, TypeOK
    <2>5. \A i \in JobIds : /\ ph[i] \in Holding <=> phase[w][i] \in Holding
                            /\ ph[i] \in Fresh => phase[w][i] \in Fresh
      BY <1>2, <1>a DEF ConflictAdopts, TypeOK, Holding, Fresh
    <2>6. dd[keyOf[r]] = NoJob
      BY <1>a, <2>2, <2>3 DEF TypeOK
    <2> HIDE DEF ph, dd
    <2> DEFINE ph2 == [ph EXCEPT ![r] = "pending"]
    <2>7. Continue(w, ph2)
      BY <2>1, <2>6 DEF Adopt
    <2>8. /\ ph2 \in [JobIds -> Phases]
          /\ \A i \in JobIds : /\ ph2[i] \in Holding <=> phase[w][i] \in Holding
                               /\ ph2[i] \in Fresh => phase[w][i] \in Fresh
      BY <2>2, <2>3, <2>4, <2>5 DEF Phases, Holding, Fresh
    <2> HIDE DEF ph2
    <2>9. Quiet
      BY <1>a, <1>b, <2>7, <2>8, ContinueQuiet
    <2>10. QED
      BY <1>b, <2>9
  <1>3. CASE ConflictGone(w, j)
    BY <1>3, <1>a, <1>b DEF ConflictGone, TypeOK, Quiet, Holding, Fresh
  <1>4. CASE ClaimLost(w, j)
    BY <1>4, <1>a, <1>b, ReleaseQuiet DEF ClaimLost, Holding
  <1>5. CASE HandlerDone(w, j)
    BY <1>5, <1>a, <1>b, GotoQuiet DEF HandlerDone, Holding, Fresh
  <1>6. CASE HandlerFails(w, j)
    BY <1>6, <1>a, <1>b, GotoQuiet DEF HandlerFails, Holding, Fresh
  <1>7. CASE HandlerTimeout(w, j)
    BY <1>7, <1>a, <1>b, GotoQuiet DEF HandlerTimeout, Holding, Fresh
  <1>8. CASE Requeue(w, j)
    <2> DEFINE ph == [phase[w] EXCEPT ![j] = "pending"]
    <2>1. Continue(w, ph) /\ phase[w][j] = "requeue"
      BY <1>8 DEF Requeue
    <2>2. /\ ph \in [JobIds -> Phases]
          /\ \A i \in JobIds : /\ ph[i] \in Holding <=> phase[w][i] \in Holding
                               /\ ph[i] \in Fresh => phase[w][i] \in Fresh
      BY <1>a, <2>1 DEF TypeOK, Phases, Holding, Fresh
    <2> HIDE DEF ph
    <2>3. Quiet
      BY <1>a, <1>b, <2>1, <2>2, ContinueQuiet
    <2>4. QED
      BY <1>b, <2>3
  <1>9. CASE Close(w, j)
    BY <1>9, <1>a, <1>b, ReleaseQuiet DEF Close, Holding
  <1>10. QED
    BY <1>1, <1>2, <1>3, <1>4, <1>5, <1>6, <1>7, <1>8, <1>9 DEF QuietJobStep

-----------------------------------------------------------------------------
(***************************************************************************)
(* The steps that change a row or somebody's hold on it.                   *)
(***************************************************************************)

\* The UPDATE that follows a handler, and the one that ends its lease.
OutcomeStep(w, j, s) ==
    /\ phase[w][j] \in {"done", "error"}
    /\ SetRow(j, s)
    /\ Goto(w, j, IF s = "queued" THEN "requeue" ELSE "closing")
    /\ UNCHANGED keyOf

LEMMA OutcomeSteps ==
    ASSUME NEW w \in Workers, NEW j \in JobIds,
           PersistCompleted(w, j) \/ PersistRetry(w, j) \/ PersistFailed(w, j)
    PROVE  \E s \in {"queued", "completed", "failed"} : OutcomeStep(w, j, s)
  <1> USE DEF OutcomeStep, ids
  <1>1. CASE PersistCompleted(w, j)
    BY <1>1 DEF PersistCompleted
  <1>2. CASE PersistRetry(w, j)
    BY <1>2 DEF PersistRetry
  <1>3. CASE PersistFailed(w, j)
    BY <1>3 DEF PersistFailed
  <1>4. QED
    BY <1>1, <1>2, <1>3

LEMMA OutcomeFact ==
    ASSUME TypeOK, LeaseFacts, NEW w \in Workers, NEW j \in JobIds,
           NEW s \in {"queued", "completed", "failed"}, OutcomeStep(w, j, s)
    PROVE  LeaseFacts'
  <1>1. \A i \in JobIds :
          /\ status'[i] = IF i = j THEN s ELSE status[i]
          /\ i # j => owner'[i] = owner[i] /\ leased'[i] = leased[i]
    BY DEF OutcomeStep, SetRow, TypeOK
  <1>2. \A v \in Workers, i \in JobIds :
          /\ ~(v = w /\ i = j) => phase'[v][i] = phase[v][i]
          /\ phase'[w][j] \in {"closing", "requeue"}
    BY DEF OutcomeStep, Goto, TypeOK
  <1>3. \A v \in Workers : phase[v][j] \in Holding \cup Fresh => v = w
    BY DEF OutcomeStep, LeaseFacts, HolderOwnsRow, InsertIsFresh, Holding, Fresh
  <1>4. InsertIsFresh'
    BY <1>1, <1>2, <1>3 DEF LeaseFacts, InsertIsFresh, Fresh
  <1>5. HolderOwnsRow' /\ HolderHasLease'
    BY <1>1, <1>2, <1>3 DEF LeaseFacts, HolderOwnsRow, HolderHasLease, Holding
  <1>6. RunningIsOwned'
    BY <1>1 DEF LeaseFacts, RunningIsOwned
  <1>7. QED
    BY <1>4, <1>5, <1>6 DEF LeaseFacts

LEMMA InsertRowFact ==
    ASSUME OwnInv, NEW w \in Workers, NEW j \in JobIds, InsertRow(w, j)
    PROVE  /\ LeaseFacts'
           /\ \A i \in JobIds : /\ status'[i] = IF i = j THEN "queued" ELSE status[i]
                               /\ i # j => owner'[i] = owner[i] /\ leased'[i] = leased[i]
           /\ status[j] = "absent"
           /\ \A v \in Workers, i \in JobIds : phase'[v][i] \in Holding <=> phase[v][i] \in Holding
  <1> DEFINE ph == [phase[w] EXCEPT ![j] = "pending"]
  <1>a. TypeOK /\ LeaseFacts
    BY DEF OwnInv, KeyInv
  <1>1. /\ phase[w][j] = "insert"
        /\ SetRow(j, "queued")
        /\ Continue(w, ph)
    BY DEF InsertRow
  <1>2. \A i \in JobIds :
          /\ status'[i] = IF i = j THEN "queued" ELSE status[i]
          /\ i # j => owner'[i] = owner[i] /\ leased'[i] = leased[i]
    BY <1>1, <1>a DEF SetRow, TypeOK
  <1>3. /\ status[j] = "absent"
        /\ \A v \in Workers : phase[v][j] \in Holding \cup Fresh => v = w
    BY <1>1, <1>a DEF LeaseFacts, InsertIsFresh, HolderOwnsRow, Holding, Fresh
  <1>4. /\ ph \in [JobIds -> Phases]
        /\ \A i \in JobIds : ph[i] = IF i = j THEN "pending" ELSE phase[w][i]
    BY <1>a DEF TypeOK, Phases
  <1> HIDE DEF ph
  <1>5. \A v \in Workers, i \in JobIds :
          \/ phase'[v][i] = IF v = w THEN ph[i] ELSE phase[v][i]
          \/ v = w /\ ph[i] = "pending" /\ phase'[v][i] = "claim"
    BY <1>1, <1>4, <1>a, ContinueFact
  <1>6. \A v \in Workers, i \in JobIds :
          /\ phase'[v][i] \in Holding <=> phase[v][i] \in Holding
          /\ phase'[v][i] \in Fresh => phase[v][i] \in Fresh /\ ~(v = w /\ i = j)
    BY <1>1, <1>4, <1>5 DEF Holding, Fresh
  <1>7. InsertIsFresh'
    BY <1>2, <1>3, <1>6, <1>a DEF LeaseFacts, InsertIsFresh, Fresh
  <1>8. HolderOwnsRow' /\ HolderHasLease'
    BY <1>2, <1>3, <1>6, <1>a DEF LeaseFacts, HolderOwnsRow, HolderHasLease, Holding
  <1>9. RunningIsOwned'
    BY <1>2, <1>a DEF LeaseFacts, RunningIsOwned
  <1>10. QED
    BY <1>2, <1>3, <1>6, <1>7, <1>8, <1>9 DEF LeaseFacts

LEMMA ClaimWonFact ==
    ASSUME OwnInv, NEW w \in Workers, NEW j \in JobIds, ClaimWon(w, j)
    PROVE  /\ LeaseFacts'
           /\ \A v \in Workers, i \in JobIds :
                phase'[v][i] = IF v = w /\ i = j THEN "exec" ELSE phase[v][i]
  <1>a. TypeOK /\ LeaseFacts
    BY DEF OwnInv, KeyInv
  <1>1. \A i \in JobIds :
          /\ status'[i] = IF i = j THEN "running" ELSE status[i]
          /\ owner'[i] = IF i = j THEN w ELSE owner[i]
          /\ leased'[i] = IF i = j THEN TRUE ELSE leased[i]
    BY <1>a DEF ClaimWon, TypeOK
  <1>2. \A v \in Workers, i \in JobIds :
          phase'[v][i] = IF v = w /\ i = j THEN "exec" ELSE phase[v][i]
    BY <1>a DEF ClaimWon, TypeOK
  <1>3. \A v \in Workers : phase[v][j] \notin Holding /\ phase[v][j] \notin Fresh
    BY <1>a DEF ClaimWon, LeaseFacts, InsertIsFresh, HolderOwnsRow, Holding, Fresh
  <1>4. InsertIsFresh'
    <2>1. \A v \in Workers, i \in JobIds : phase'[v][i] \in Fresh =>
             i # j /\ phase[v][i] \in Fresh
      BY <1>2, <1>3 DEF Fresh
    <2>2. QED
      BY <1>1, <2>1, <1>a DEF LeaseFacts, InsertIsFresh, Fresh
  <1>5. HolderOwnsRow' /\ HolderHasLease'
    <2>1. \A v \in Workers, i \in JobIds : phase'[v][i] \in Holding =>
             (v = w /\ i = j) \/ (i # j /\ phase[v][i] \in Holding)
      BY <1>2, <1>3 DEF Holding
    <2>2. QED
      BY <1>1, <2>1, <1>a DEF LeaseFacts, HolderOwnsRow, HolderHasLease, Holding
  <1>6. RunningIsOwned'
    BY <1>1, <1>a DEF LeaseFacts, RunningIsOwned
  <1>7. QED
    BY <1>2, <1>4, <1>5, <1>6 DEF LeaseFacts

\* A death takes nobody else's hold away, and no row.
LEMMA DieFact ==
    ASSUME TypeOK, LeaseFacts, NEW w \in Workers, Die(w)
    PROVE  /\ LeaseFacts'
           /\ UNCHANGED <<status, owner, keyOf>>
           /\ \A v \in Workers, i \in JobIds :
                phase'[v][i] = IF v = w THEN "none" ELSE phase[v][i]
  <1>1. /\ UNCHANGED <<status, owner, leased, keyOf>>
        /\ \A v \in Workers, i \in JobIds :
             phase'[v][i] = IF v = w THEN "none" ELSE phase[v][i]
    BY DEF Die, TypeOK, table, ids
  <1>2. \A v \in Workers, i \in JobIds :
          /\ phase'[v][i] \in Holding => phase[v][i] \in Holding
          /\ phase'[v][i] \in Fresh => phase[v][i] \in Fresh
    BY <1>1 DEF Holding, Fresh
  <1>3. LeaseFacts'
    BY <1>1, <1>2 DEF LeaseFacts, InsertIsFresh, HolderOwnsRow, HolderHasLease,
                      RunningIsOwned, Holding, Fresh
  <1>4. QED
    BY <1>1, <1>3

\* recover() puts back rows whose lease has lapsed, and those nobody holds.
LEMMA RecoverUpdateFact ==
    ASSUME OwnInv, NEW w \in Workers, RecoverUpdate(w)
    PROVE  /\ LeaseFacts'
           /\ \E S \in SUBSET {j \in JobIds : status[j] = "running" /\ HolderOf(j) = None} :
                /\ status' = [j \in JobIds |-> IF j \in S THEN "queued" ELSE status[j]]
                /\ \A j \in JobIds \ S : owner'[j] = owner[j]
           /\ UNCHANGED <<keyOf, phase>>
  <1> DEFINE S == {j \in JobIds : status[j] = "running" /\ ~leased[j]}
  <1>a. TypeOK /\ LeaseFacts
    BY DEF OwnInv, KeyInv
  <1>1. /\ status' = [j \in JobIds |-> IF j \in S THEN "queued" ELSE status[j]]
        /\ owner' = [j \in JobIds |-> IF j \in S THEN None ELSE owner[j]]
        /\ UNCHANGED <<leased, phase, keyOf>>
    BY DEF RecoverUpdate, memory, ids
  <1>2. \A j \in S : \A v \in Workers : phase[v][j] \notin Holding
    BY <1>a DEF LeaseFacts, HolderHasLease, Holding
  <1>3. \A j \in S : status[j] = "running" /\ HolderOf(j) = None
    BY <1>2, <1>a DEF HolderOf, LeaseFacts, RunningIsOwned
  <1>4. LeaseFacts'
    <2>1. InsertIsFresh'
      BY <1>1, <1>a DEF LeaseFacts, InsertIsFresh, Fresh
    <2>2. HolderOwnsRow' /\ HolderHasLease'
      BY <1>1, <1>2, <1>a DEF LeaseFacts, HolderOwnsRow, HolderHasLease, Holding
    <2>3. RunningIsOwned'
      BY <1>1, <1>a DEF LeaseFacts, RunningIsOwned
    <2>4. QED
      BY <1>1, <2>1, <2>2, <2>3 DEF LeaseFacts
  <1>5. S \in SUBSET {j \in JobIds : status[j] = "running" /\ HolderOf(j) = None}
    BY <1>3
  <1> HIDE DEF S
  <1>6. QED
    BY <1>1, <1>4, <1>5

\* What else a process does on its way up, and the steps outside of job objects.
LEMMA QuietRecoverSteps ==
    ASSUME OwnInv, NEW w \in Workers,
           RecoverSelect(w) \/ RecoverAdopt(w) \/ Restart(w)
    PROVE  Quiet /\ UNCHANGED keyOf
  <1> USE DEF table, ids, boot, memory, loose
  <1>a. TypeOK
    BY DEF OwnInv, KeyInv
  <1>1. CASE RecoverSelect(w)
    BY <1>1 DEF RecoverSelect, Quiet
  <1>2. CASE RecoverAdopt(w)
    <2> DEFINE new == {r \in snap[w] : /\ phase[w][r[1]] \notin RunningPhases \cup {"pending"}
                                       /\ dedup[w][keyOf[r[1]]] = NoJob}
               rows == {r[1] : r \in new}
               ph == [j \in JobIds |-> IF j \in rows THEN "pending" ELSE phase[w][j]]
    <2>1. Continue(w, ph) /\ UNCHANGED <<table, ids>>
      BY <1>2 DEF RecoverAdopt
    <2>2. \A j \in rows : phase[w][j] \notin RunningPhases
      OBVIOUS
    <2> HIDE DEF new, rows
    <2>3. ph \in [JobIds -> Phases]
      BY <1>a DEF TypeOK, Phases
    <2>4. \A i \in JobIds : /\ ph[i] \in Holding <=> phase[w][i] \in Holding
                            /\ ph[i] \in Fresh => phase[w][i] \in Fresh
      BY <2>2 DEF Holding, Fresh, RunningPhases
    <2> HIDE DEF ph
    <2>5. Quiet
      BY <1>a, <2>1, <2>3, <2>4, ContinueQuiet
    <2>6. QED
      BY <2>1, <2>5
  <1>3. CASE Restart(w)
    BY <1>3 DEF Restart, Quiet
  <1>4. QED
    BY <1>1, <1>2, <1>3

LEMMA EnqueueFact ==
    ASSUME OwnInv, NEW w \in Workers, NEW k \in Keys, Enqueue(w, k)
    PROVE  /\ LeaseFacts'
           /\ UNCHANGED <<status, owner>>
           /\ \A i \in JobIds : status[i] # "absent" => keyOf'[i] = keyOf[i]
           /\ \A v \in Workers, i \in JobIds : phase'[v][i] \in Holding <=> phase[v][i] \in Holding
  <1> DEFINE n == created + 1
  <1>a. TypeOK /\ IdsInOrder /\ DedupMatchesJobs /\ LeaseFacts
    BY DEF OwnInv, KeyInv
  <1>1. /\ n \in JobIds /\ n > created
        /\ UNCHANGED <<status, owner, leased>>
        /\ keyOf' = [keyOf EXCEPT ![n] = k]
        /\ phase' = [phase EXCEPT ![w][n] = "insert"]
    BY <1>a, QueueAssumption DEF Enqueue, TypeOK, JobIds, table
  <1> HIDE DEF n
  <1>2. status[n] = "absent" /\ keyOf[n] = None
    BY <1>a, <1>1 DEF IdsInOrder
  <1>3. \A v \in Workers : phase[v][n] = "none"
    BY <1>a, <1>1, <1>2, QueueAssumption DEF DedupMatchesJobs, Held
  <1>4. \A v \in Workers, i \in JobIds :
          phase'[v][i] = IF v = w /\ i = n THEN "insert" ELSE phase[v][i]
    BY <1>a, <1>1 DEF TypeOK
  <1>5. \A v \in Workers, i \in JobIds : phase'[v][i] \in Holding <=> phase[v][i] \in Holding
    BY <1>3, <1>4 DEF Holding
  <1>6. InsertIsFresh'
    BY <1>1, <1>2, <1>3, <1>4, <1>a DEF LeaseFacts, InsertIsFresh
  <1>7. HolderOwnsRow' /\ HolderHasLease' /\ RunningIsOwned'
    BY <1>1, <1>5, <1>a DEF LeaseFacts, HolderOwnsRow, HolderHasLease, RunningIsOwned, Holding
  <1>8. \A i \in JobIds : status[i] # "absent" => keyOf'[i] = keyOf[i]
    BY <1>a, <1>1, <1>2 DEF TypeOK
  <1>9. QED
    BY <1>1, <1>5, <1>6, <1>7, <1>8 DEF LeaseFacts

\* Renewing a lease, and the lapse of a lease whose row nobody works on.
LEMMA LeaseStepFact ==
    ASSUME OwnInv, Undisturbed, NEW w \in Workers, NEW j \in JobIds,
           Heartbeat(w, j) \/ LeaseLapses(j)
    PROVE  LeaseFacts' /\ UNCHANGED <<status, owner, keyOf, phase>>
  <1>a. TypeOK /\ LeaseFacts
    BY DEF OwnInv, KeyInv
  <1>1. UNCHANGED <<status, owner, keyOf, phase>>
    BY DEF Heartbeat, LeaseLapses, ids, memory
  <1>2. \A i \in JobIds : leased[i] /\ (\E v \in Workers : phase[v][i] \in Holding) => leased'[i]
    <2>1. CASE Heartbeat(w, j)
      BY <1>a, <2>1 DEF Heartbeat, TypeOK
    <2>2. CASE LeaseLapses(j)
      <3>1. phase[owner[j]][j] \notin Holding
        BY <2>2 DEF LeaseLapses, Undisturbed, Holding
      <3>2. \A v \in Workers : phase[v][j] \notin Holding
        BY <1>a, <3>1 DEF LeaseFacts, HolderOwnsRow, Holding
      <3>3. leased' = [leased EXCEPT ![j] = FALSE]
        BY <2>2 DEF LeaseLapses
      <3>4. QED
        BY <1>a, <3>2, <3>3 DEF TypeOK
    <2>3. QED
      BY <2>1, <2>2
  <1>3. QED
    BY <1>1, <1>2, <1>a DEF LeaseFacts, InsertIsFresh, HolderOwnsRow, HolderHasLease,
                            RunningIsOwned, Holding, Fresh

-----------------------------------------------------------------------------
(***************************************************************************)
(* OwnInv is an invariant of the undisturbed queue.                        *)
(***************************************************************************)

LEMMA UndisturbedJobStep ==
    ASSUME Undisturbed, NEW w \in Workers, NEW j \in JobIds, JobStep(w, j)
    PROVE  \/ QuietJobStep(w, j)
           \/ InsertRow(w, j)
           \/ ClaimWon(w, j)
           \/ \E s \in {"queued", "completed", "failed"} : OutcomeStep(w, j, s)
           \/ Die(w)
  <1>1. ~InsertError(w, j) /\ ~ClaimError(w, j) /\ ~CompletedError(w, j)
    BY DEF Undisturbed, InsertError, ClaimError, CompletedError
  <1>2. RetryConflict(w, j) => Die(w)
    BY DEF RetryConflict
  <1>3. QED
    BY <1>1, <1>2, OutcomeSteps DEF JobStep, QuietJobStep

LEMMA InterveneNext ==
    ASSUME "admin" \notin Faults, TypeOK, NobodyIntervenes, [Next]_vars
    PROVE  NobodyIntervenes'
  <1> USE DEF loose, NobodyIntervenes
  <1>1. ASSUME NEW w \in Workers, NEW j \in JobIds, JobStep(w, j)
        PROVE  UNCHANGED <<cancelling, readding>> \/ Die(w)
    BY <1>1 DEF JobStep, InsertRow, InsertConflict, InsertError, ConflictAdopts, ConflictGone,
       ClaimWon, ClaimLost, ClaimError, HandlerDone, HandlerFails, HandlerTimeout,
       PersistCompleted, CompletedError, PersistRetry, RetryConflict, PersistFailed,
       Requeue, Close
  <1>2. ASSUME NEW w \in Workers, RecoverStep(w) \/ Restart(w)
        PROVE  UNCHANGED <<cancelling, readding>>
    BY <1>2 DEF RecoverStep, RecoverUpdate, RecoverSelect, RecoverAdopt, RecoverError, Restart
  <1>3. ASSUME NEW w \in Workers, NEW j \in JobIds, Heartbeat(w, j) \/ OrphanEnds(w, j)
        PROVE  UNCHANGED <<cancelling, readding>>
    BY <1>3 DEF Heartbeat, OrphanEnds
  <1>4. ASSUME NEW w \in Workers, NEW k \in Keys, Enqueue(w, k)
        PROVE  UNCHANGED <<cancelling, readding>>
    BY <1>4 DEF Enqueue
  <1>5. ASSUME NEW j \in JobIds, LeaseLapses(j)
        PROVE  UNCHANGED <<cancelling, readding>>
    BY <1>5 DEF LeaseLapses
  <1>6. ASSUME NEW w \in Workers, NEW j \in JobIds
        PROVE  ~AdminStep(w, j) /\ ~Cancel(w, j) /\ ~Repeat(w, j)
    BY DEF AdminStep, PersistCancelled, CancelError, Readd, Cancel, Repeat
  <1>7. ASSUME NEW w \in Workers, Die(w)
        PROVE  NobodyIntervenes'
    BY <1>7 DEF Die, TypeOK
  <1>8. CASE UNCHANGED vars
    BY <1>8 DEF vars
  <1>9. QED
    BY <1>1, <1>2, <1>3, <1>4, <1>5, <1>6, <1>7, <1>8 DEF Next, Crash

LEMMA LeaseNext == Undisturbed /\ OwnInv /\ [Next]_vars => OwnInv'
  <1> SUFFICES ASSUME Undisturbed, OwnInv, [Next]_vars
               PROVE  LeaseFacts'
    BY KeyNext, InterveneNext DEF OwnInv, KeyInv, Undisturbed
  <1>a. TypeOK /\ LeaseFacts /\ NobodyIntervenes
    BY DEF OwnInv, KeyInv
  <1>1. ASSUME NEW w \in Workers, NEW j \in JobIds, JobStep(w, j)
        PROVE  LeaseFacts'
    <2>1. CASE QuietJobStep(w, j)
      BY <1>a, <2>1, QuietJobSteps, QuietKeepsFacts
    <2>2. CASE InsertRow(w, j)
      BY <2>2, InsertRowFact
    <2>3. CASE ClaimWon(w, j)
      BY <2>3, ClaimWonFact
    <2>4. ASSUME NEW s \in {"queued", "completed", "failed"}, OutcomeStep(w, j, s)
          PROVE  LeaseFacts'
      BY <1>a, <2>4, OutcomeFact
    <2>5. CASE Die(w)
      BY <1>a, <2>5, DieFact
    <2>6. QED
      BY <1>1, <2>1, <2>2, <2>3, <2>4, <2>5, UndisturbedJobStep
  <1>2. ASSUME NEW w \in Workers, RecoverStep(w) \/ Restart(w) \/ Crash(w)
        PROVE  LeaseFacts'
    <2>1. CASE RecoverUpdate(w)
      BY <2>1, RecoverUpdateFact
    <2>2. CASE RecoverSelect(w) \/ RecoverAdopt(w) \/ Restart(w)
      BY <1>a, <2>2, QuietRecoverSteps, QuietKeepsFacts
    <2>3. CASE Crash(w)
      BY <1>a, <2>3, DieFact DEF Crash
    <2>4. ~RecoverError(w)
      BY DEF RecoverError, Undisturbed
    <2>5. QED
      BY <1>2, <2>1, <2>2, <2>3, <2>4 DEF RecoverStep
  <1>3. ASSUME NEW w \in Workers, NEW k \in Keys, Enqueue(w, k)
        PROVE  LeaseFacts'
    BY <1>3, EnqueueFact
  <1>4. ASSUME NEW w \in Workers, NEW j \in JobIds,
               AdminStep(w, j) \/ Cancel(w, j) \/ Repeat(w, j)
        PROVE  LeaseFacts'
    BY <1>4, <1>a DEF AdminStep, PersistCancelled, CancelError, Readd, Cancel, Repeat,
                      Undisturbed, NobodyIntervenes
  <1>5. ASSUME NEW w \in Workers, NEW j \in JobIds, Heartbeat(w, j)
        PROVE  LeaseFacts'
    BY <1>5, LeaseStepFact
  <1>6. ASSUME NEW j \in JobIds, LeaseLapses(j)
        PROVE  LeaseFacts'
    <2>1. owner[j] \in Workers
      BY <1>6, <1>a DEF LeaseLapses, LeaseFacts, RunningIsOwned
    <2>2. QED
      BY <1>6, <2>1, LeaseStepFact
  <1>7. CASE UNCHANGED vars \/ \E w \in Workers, j \in JobIds : OrphanEnds(w, j)
    <2>1. Quiet
      BY <1>7 DEF vars, OrphanEnds, table, memory, Quiet
    <2>2. QED
      BY <1>a, <2>1, QuietKeepsFacts
  <1>8. QED
    BY <1>1, <1>2, <1>3, <1>4, <1>5, <1>6, <1>7 DEF Next

LEMMA LeaseInit == Init => OwnInv
  <1> SUFFICES ASSUME Init
               PROVE  LeaseFacts /\ NobodyIntervenes
    BY KeyInit DEF OwnInv
  <1>1. LeaseFacts
    BY DEF Init, LeaseFacts, InsertIsFresh, HolderOwnsRow, HolderHasLease, RunningIsOwned,
           Holding
  <1>2. NobodyIntervenes
    BY DEF Init, NobodyIntervenes
  <1>3. QED
    BY <1>1, <1>2

LEMMA LeaseCorrect ==
    ASSUME Undisturbed
    PROVE  Spec => []OwnInv
  <1>1. OwnInv /\ [Next]_vars => OwnInv'
    BY LeaseNext
  <1>2. QED
    BY <1>1, LeaseInit, PTL DEF Spec

\* While leases and queries are undisturbed, the process that executes a job, or is
\* about to write its outcome, owns the row it will write.
THEOREM OwnersWrite ==
    ASSUME Undisturbed
    PROVE  Spec => []HolderOwnsRow
  <1>1. OwnInv => HolderOwnsRow
    BY DEF OwnInv, LeaseFacts
  <1>2. QED
    BY <1>1, LeaseCorrect, PTL

-----------------------------------------------------------------------------
(***************************************************************************)
(* The undisturbed queue implements JobLedger.                             *)
(***************************************************************************)

LEMMA LedgerStutters ==
    ASSUME LeaseFacts, UNCHANGED <<status, owner>>,
           \A i \in JobIds : status[i] # "absent" => keyOf'[i] = keyOf[i],
           \A v \in Workers, i \in JobIds : phase'[v][i] \in Holding <=> phase[v][i] \in Holding
    PROVE  UNCHANGED Ledger!ledger
  <1>1. \A i \in JobIds : HolderOf(i)' = HolderOf(i)
    BY DEF HolderOf, LeaseFacts, RunningIsOwned, Holding
  <1>2. \A i \in JobIds :
          (IF status[i] = "absent" THEN None ELSE keyOf[i])'
            = IF status[i] = "absent" THEN None ELSE keyOf[i]
    OBVIOUS
  <1>3. QED
    BY <1>1, <1>2 DEF Ledger!ledger

\* InsertRow submits the job.
LEMMA LedgerSubmits ==
    ASSUME OwnInv, NEW w \in Workers, NEW j \in JobIds, InsertRow(w, j)
    PROVE  Ledger!LedgerNext
  <1>a. TypeOK /\ LeaseFacts /\ DedupMatchesJobs
    BY DEF OwnInv, KeyInv
  <1>1. PICK k \in Keys : k = keyOf[j]
    BY <1>a DEF InsertRow, DedupMatchesJobs, Held
  <1>2. /\ status' = [status EXCEPT ![j] = "queued"]
        /\ \A i \in JobIds : i # j => status'[i] = status[i] /\ owner'[i] = owner[i]
        /\ status'[j] = "queued"
        /\ status[j] = "absent"
        /\ UNCHANGED keyOf
        /\ \A v \in Workers, i \in JobIds : phase'[v][i] \in Holding <=> phase[v][i] \in Holding
    BY <1>a, InsertRowFact DEF InsertRow, SetRow, ids, TypeOK
  <1>3. \A i \in JobIds : keyOf[i] = k => i = j \/ status[i] \notin {"queued", "running"}
    BY <1>1 DEF InsertRow, IndexAllows, ActiveRows, Active
  <1>4. \A i \in JobIds : HolderOf(i)' = HolderOf(i)
    BY <1>2, <1>a DEF HolderOf, LeaseFacts, RunningIsOwned, Holding
  <1>5. Ledger!Submit(j, k)
    <2>1. \A i \in JobIds : (IF status[i] = "absent" THEN None ELSE keyOf[i]) = k
              => status[i] \notin {"queued", "running"}
      BY <1>2, <1>3
    <2>2. [i \in JobIds |-> IF status[i] = "absent" THEN None ELSE keyOf[i]]'
            = [[i \in JobIds |-> IF status[i] = "absent" THEN None ELSE keyOf[i]]
                 EXCEPT ![j] = k]
      BY <1>1, <1>2
    <2>3. [i \in JobIds |-> HolderOf(i)]' = [i \in JobIds |-> HolderOf(i)]
      BY <1>4
    <2>4. QED
      BY <1>2, <2>1, <2>2, <2>3 DEF Ledger!Submit, Ledger!Open
  <1>6. QED
    BY <1>5 DEF Ledger!LedgerNext

\* ClaimWon takes it.
LEMMA LedgerTakes ==
    ASSUME OwnInv, NEW w \in Workers, NEW j \in JobIds, ClaimWon(w, j)
    PROVE  Ledger!LedgerNext
  <1>a. TypeOK /\ LeaseFacts
    BY DEF OwnInv, KeyInv
  <1>1. /\ status[j] = "queued"
        /\ status' = [status EXCEPT ![j] = "running"]
        /\ owner' = [owner EXCEPT ![j] = w]
        /\ UNCHANGED keyOf
        /\ \A v \in Workers, i \in JobIds :
             phase'[v][i] = IF v = w /\ i = j THEN "exec" ELSE phase[v][i]
    BY ClaimWonFact DEF ClaimWon, ids
  <1>2. /\ \A i \in JobIds : i # j => status'[i] = status[i] /\ owner'[i] = owner[i]
        /\ status'[j] = "running" /\ owner'[j] = w
    BY <1>a, <1>1 DEF TypeOK
  <1>3. \A i \in JobIds : HolderOf(i)' = IF i = j THEN w ELSE HolderOf(i)
    BY <1>1, <1>2, <1>a DEF HolderOf, LeaseFacts, RunningIsOwned, Holding
  <1>4. Ledger!Take(w, j)
    <2>1. [i \in JobIds |-> IF status[i] = "absent" THEN None ELSE keyOf[i]]'
            = [i \in JobIds |-> IF status[i] = "absent" THEN None ELSE keyOf[i]]
      BY <1>1, <1>2
    <2>2. [i \in JobIds |-> HolderOf(i)]' = [[i \in JobIds |-> HolderOf(i)] EXCEPT ![j] = w]
      BY <1>3
    <2>3. QED
      BY <1>1, <2>1, <2>2 DEF Ledger!Take
  <1>5. QED
    BY <1>4 DEF Ledger!LedgerNext

\* The outcome, or the return to the queue, is recorded by the holder.
LEMMA LedgerSettles ==
    ASSUME OwnInv, NEW w \in Workers, NEW j \in JobIds,
           NEW s \in {"queued", "completed", "failed"}, OutcomeStep(w, j, s)
    PROVE  Ledger!LedgerNext
  <1>a. TypeOK /\ LeaseFacts
    BY DEF OwnInv, KeyInv
  <1>1. /\ status' = [status EXCEPT ![j] = s]
        /\ owner' = [owner EXCEPT ![j] = None]
        /\ UNCHANGED keyOf
        /\ phase[w][j] \in Holding
        /\ \A v \in Workers, i \in JobIds : i # j => phase'[v][i] = phase[v][i]
    BY <1>a DEF OutcomeStep, SetRow, Goto, TypeOK, Holding
  <1>2. /\ \A i \in JobIds : i # j => status'[i] = status[i] /\ owner'[i] = owner[i]
        /\ status'[j] = s
        /\ status[j] = "running" /\ HolderOf(j) = w
    BY <1>1, <1>a DEF TypeOK, LeaseFacts, HolderOwnsRow, HolderOf, Holding
  <1>3. \A i \in JobIds : HolderOf(i)' = IF i = j THEN None ELSE HolderOf(i)
    BY <1>1, <1>2, <1>a DEF HolderOf, LeaseFacts, RunningIsOwned
  <1>4. Ledger!Settle(w, j, s)
    <2>1. [i \in JobIds |-> IF status[i] = "absent" THEN None ELSE keyOf[i]]'
            = [i \in JobIds |-> IF status[i] = "absent" THEN None ELSE keyOf[i]]
      BY <1>1, <1>2
    <2>2. [i \in JobIds |-> HolderOf(i)]' = [[i \in JobIds |-> HolderOf(i)] EXCEPT ![j] = None]
      BY <1>3
    <2>3. QED
      BY <1>1, <1>2, <2>1, <2>2 DEF Ledger!Settle
  <1>5. QED
    BY <1>4 DEF Ledger!LedgerNext

\* A death loses a holder with all it held.
LEMMA LedgerLoses ==
    ASSUME OwnInv, NEW w \in Workers, Die(w)
    PROVE  Ledger!LedgerNext
  <1>a. TypeOK /\ LeaseFacts
    BY DEF OwnInv, KeyInv
  <1>1. /\ UNCHANGED <<status, owner, keyOf>>
        /\ \A v \in Workers, i \in JobIds :
             phase'[v][i] = IF v = w THEN "none" ELSE phase[v][i]
    BY <1>a, DieFact
  <1>2. \A i \in JobIds : HolderOf(i)' = IF HolderOf(i) = w THEN None ELSE HolderOf(i)
    BY <1>1, <1>a, QueueAssumption DEF HolderOf, LeaseFacts, RunningIsOwned, Holding
  <1>3. Ledger!Lose(w)
    BY <1>1, <1>2 DEF Ledger!Lose
  <1>4. QED
    BY <1>3 DEF Ledger!LedgerNext

\* recover() reclaims what nobody holds.
LEMMA LedgerReclaims ==
    ASSUME OwnInv, NEW w \in Workers, RecoverUpdate(w)
    PROVE  Ledger!LedgerNext
  <1>a. TypeOK /\ LeaseFacts
    BY DEF OwnInv, KeyInv
  <1>1. /\ UNCHANGED <<keyOf, phase>>
        /\ \E S \in SUBSET {j \in JobIds : status[j] = "running" /\ HolderOf(j) = None} :
             /\ status' = [j \in JobIds |-> IF j \in S THEN "queued" ELSE status[j]]
             /\ \A j \in JobIds \ S : owner'[j] = owner[j]
    BY RecoverUpdateFact
  <1>2. PICK S \in SUBSET {j \in JobIds : status[j] = "running" /\ HolderOf(j) = None} :
             /\ status' = [j \in JobIds |-> IF j \in S THEN "queued" ELSE status[j]]
             /\ \A j \in JobIds \ S : owner'[j] = owner[j]
    BY <1>1
  <1>3. \A i \in JobIds : HolderOf(i)' = HolderOf(i)
    BY <1>1, <1>2, <1>a DEF HolderOf, LeaseFacts, RunningIsOwned
  <1>4. [i \in JobIds |-> IF status[i] = "absent" THEN None ELSE keyOf[i]]'
            = [i \in JobIds |-> IF status[i] = "absent" THEN None ELSE keyOf[i]]
    BY <1>1, <1>2
  <1>5. S \in SUBSET {j \in JobIds :
                        status[j] = "running" /\ [i \in JobIds |-> HolderOf(i)][j] = None}
    BY <1>2
  <1>6. Ledger!Reclaim
    BY <1>2, <1>3, <1>4, <1>5 DEF Ledger!Reclaim
  <1>7. QED
    BY <1>6 DEF Ledger!LedgerNext

LEMMA LedgerNextStep ==
    Undisturbed /\ OwnInv /\ [Next]_vars => [Ledger!LedgerNext]_(Ledger!ledger)
  <1> SUFFICES ASSUME Undisturbed, OwnInv, [Next]_vars
               PROVE  Ledger!LedgerNext \/ UNCHANGED Ledger!ledger
    OBVIOUS
  <1>a. TypeOK /\ LeaseFacts /\ NobodyIntervenes
    BY DEF OwnInv, KeyInv
  <1>b. Quiet /\ UNCHANGED keyOf => UNCHANGED Ledger!ledger
    BY <1>a, LedgerStutters DEF Quiet
  <1>c. UNCHANGED <<status, owner, keyOf, phase>> => UNCHANGED Ledger!ledger
    BY <1>a, LedgerStutters
  <1>1. ASSUME NEW w \in Workers, NEW j \in JobIds, JobStep(w, j)
        PROVE  Ledger!LedgerNext \/ UNCHANGED Ledger!ledger
    <2>1. CASE QuietJobStep(w, j)
      BY <1>b, <2>1, QuietJobSteps
    <2>2. CASE InsertRow(w, j)
      BY <2>2, LedgerSubmits
    <2>3. CASE ClaimWon(w, j)
      BY <2>3, LedgerTakes
    <2>4. ASSUME NEW s \in {"queued", "completed", "failed"}, OutcomeStep(w, j, s)
          PROVE  Ledger!LedgerNext
      BY <2>4, LedgerSettles
    <2>5. CASE Die(w)
      BY <2>5, LedgerLoses
    <2>6. QED
      BY <1>1, <2>1, <2>2, <2>3, <2>4, <2>5, UndisturbedJobStep
  <1>2. ASSUME NEW w \in Workers, RecoverStep(w) \/ Restart(w) \/ Crash(w)
        PROVE  Ledger!LedgerNext \/ UNCHANGED Ledger!ledger
    <2>1. CASE RecoverUpdate(w)
      BY <2>1, LedgerReclaims
    <2>2. CASE RecoverSelect(w) \/ RecoverAdopt(w) \/ Restart(w)
      BY <1>b, <2>2, QuietRecoverSteps
    <2>3. CASE Crash(w)
      BY <2>3, LedgerLoses DEF Crash
    <2>4. ~RecoverError(w)
      BY DEF RecoverError, Undisturbed
    <2>5. QED
      BY <1>2, <2>1, <2>2, <2>3, <2>4 DEF RecoverStep
  <1>3. ASSUME NEW w \in Workers, NEW k \in Keys, Enqueue(w, k)
        PROVE  UNCHANGED Ledger!ledger
    BY <1>3, <1>a, EnqueueFact, LedgerStutters
  <1>4. ASSUME NEW w \in Workers, NEW j \in JobIds,
               AdminStep(w, j) \/ Cancel(w, j) \/ Repeat(w, j)
        PROVE  FALSE
    BY <1>4, <1>a DEF AdminStep, PersistCancelled, CancelError, Readd, Cancel, Repeat,
                      Undisturbed, NobodyIntervenes
  <1>5. ASSUME NEW w \in Workers, NEW j \in JobIds, Heartbeat(w, j) \/ OrphanEnds(w, j)
        PROVE  UNCHANGED Ledger!ledger
    <2>1. UNCHANGED <<status, owner, keyOf, phase>>
      BY <1>5 DEF Heartbeat, OrphanEnds, table, ids, memory
    <2>2. QED
      BY <1>c, <2>1
  <1>6. ASSUME NEW j \in JobIds, LeaseLapses(j)
        PROVE  UNCHANGED Ledger!ledger
    <2>1. UNCHANGED <<status, owner, keyOf, phase>>
      BY <1>6 DEF LeaseLapses, ids, memory
    <2>2. QED
      BY <1>c, <2>1
  <1>7. CASE UNCHANGED vars
    <2>1. UNCHANGED <<status, owner, keyOf, phase>>
      BY <1>7 DEF vars, table, ids, memory
    <2>2. QED
      BY <1>c, <2>1
  <1>8. QED
    BY <1>1, <1>2, <1>3, <1>4, <1>5, <1>6, <1>7 DEF Next

LEMMA LedgerInitStep == Init => Ledger!LedgerInit
  <1> SUFFICES ASSUME Init
               PROVE  Ledger!LedgerInit
    OBVIOUS
  <1>1. \A i \in JobIds : HolderOf(i) = None
    BY DEF Init, HolderOf
  <1>2. QED
    BY <1>1 DEF Init, Ledger!LedgerInit

\* While leases and queries are undisturbed the queue implements JobLedger: a job
\* is taken by one holder, only that holder ends it or puts it back, others put it
\* back only once that holder is lost, and a result is final.
THEOREM LedgerImplemented ==
    ASSUME Undisturbed
    PROVE  Spec => LedgerSpec
  <1>1. OwnInv /\ [Next]_vars => [Ledger!LedgerNext]_(Ledger!ledger)
    BY LedgerNextStep
  <1>2. QED
    BY <1>1, LeaseCorrect, LedgerInitStep, PTL DEF Spec, LedgerSpec, Ledger!LedgerSpec

\* A result, once recorded, stays.
THEOREM ResultsAreFinal ==
    ASSUME Undisturbed
    PROVE  Spec => CompletedIsFinal
  <1>1. Undisturbed /\ OwnInv /\ [Next]_vars
          => [\A j \in JobIds : status[j] = "completed" => status'[j] = "completed"]_status
    <2> SUFFICES ASSUME Undisturbed, OwnInv, [Next]_vars, NEW j \in JobIds,
                        status[j] = "completed"
                 PROVE  status'[j] = "completed"
      OBVIOUS
    <2>1. Ledger!LedgerNext \/ UNCHANGED Ledger!ledger
      BY LedgerNextStep
    <2>2. CASE UNCHANGED Ledger!ledger
      BY <2>2 DEF Ledger!ledger
    <2>3. TypeOK
      BY DEF OwnInv, KeyInv
    <2>4. CASE \E i \in JobIds, k \in Keys : Ledger!Submit(i, k)
      BY <2>3, <2>4 DEF Ledger!Submit, TypeOK
    <2>5. CASE \E h \in Workers, i \in JobIds : Ledger!Take(h, i)
      BY <2>3, <2>5 DEF Ledger!Take, TypeOK
    <2>6. CASE \E h \in Workers, i \in JobIds :
                 \E s \in {"queued", "completed", "failed"} : Ledger!Settle(h, i, s)
      BY <2>3, <2>6 DEF Ledger!Settle, TypeOK
    <2>7. CASE \E h \in Workers : Ledger!Lose(h)
      BY <2>7 DEF Ledger!Lose
    <2>8. CASE Ledger!Reclaim
      BY <2>8 DEF Ledger!Reclaim
    <2>9. QED
      BY <2>1, <2>2, <2>4, <2>5, <2>6, <2>7, <2>8 DEF Ledger!LedgerNext
  <1>2. QED
    BY <1>1, LeaseCorrect, PTL DEF Spec, CompletedIsFinal

-----------------------------------------------------------------------------
(***************************************************************************)
(* Attempts: while nobody cancels or repeats a job by hand.                *)
(***************************************************************************)

\* A step that neither counts an attempt nor gives a job up.
KeepsCount ==
    /\ UNCHANGED <<att, tries, snap>>
    /\ \A j \in JobIds : status'[j] = "failed" => status[j] = "failed"

LEMMA AttemptsKept ==
    ASSUME AttemptsCounted, FailedIsExhausted, KeepsCount
    PROVE  AttemptsCounted' /\ FailedIsExhausted'
  BY DEF AttemptsCounted, FailedIsExhausted, KeepsCount

\* Process w takes up job j with n attempts, no more than its row counts.
LEMMA AttemptsAdopted ==
    ASSUME TypeOK, AttemptsCounted, FailedIsExhausted, UNCHANGED <<status, tries, snap>>,
           NEW w \in Workers, NEW j \in JobIds, NEW n, n <= tries[j],
           att' = [att EXCEPT ![w][j] = n]
    PROVE  AttemptsCounted' /\ FailedIsExhausted'
  BY DEF TypeOK, AttemptsCounted, FailedIsExhausted

\* A process that dies takes its counts with it.
LEMMA AttemptsLost ==
    ASSUME TypeOK, AttemptsCounted, FailedIsExhausted, NEW w \in Workers, Die(w)
    PROVE  AttemptsCounted' /\ FailedIsExhausted'
  BY DEF TypeOK, AttemptsCounted, FailedIsExhausted, Die, table

\* A job takes its attempt at the claim, in the table and in memory; it is given up
\* only when the count in memory, no more than the row's, has reached MaxAttempts.
LEMMA AttemptJobStep ==
    ASSUME AttemptInv, NEW w \in Workers, NEW j \in JobIds, JobStep(w, j)
    PROVE  AttemptsCounted' /\ FailedIsExhausted'
  <1> USE DEF table, ids, boot, memory, loose
  <1>a. TypeOK /\ AttemptsCounted /\ FailedIsExhausted
    BY DEF AttemptInv
  <1>1. CASE InsertRow(w, j) \/ PersistCompleted(w, j) \/ PersistRetry(w, j)
    <2>1. \E s \in {"queued", "completed"} : SetRow(j, s)
      BY <1>1 DEF InsertRow, PersistCompleted, PersistRetry
    <2>2. \A i \in JobIds : status'[i] = "failed" => status[i] = "failed"
      BY <1>a, <2>1 DEF SetRow, TypeOK
    <2>3. UNCHANGED <<att, tries, snap>>
      BY <1>1 DEF InsertRow, PersistCompleted, PersistRetry, SetRow, Goto
    <2>4. QED
      BY <1>a, <2>2, <2>3, AttemptsKept DEF KeepsCount
  <1>2. CASE InsertConflict(w, j) \/ InsertError(w, j) \/ ConflictGone(w, j) \/ ClaimLost(w, j)
               \/ ClaimError(w, j) \/ HandlerDone(w, j) \/ HandlerFails(w, j)
               \/ HandlerTimeout(w, j) \/ CompletedError(w, j) \/ Requeue(w, j) \/ Close(w, j)
    <2>1. KeepsCount
      BY <1>2 DEF InsertConflict, InsertError, ConflictGone, ClaimLost, ClaimError, HandlerDone,
                  HandlerFails, HandlerTimeout, CompletedError, Requeue, Close, Release, Goto,
                  KeepsCount
    <2>2. QED
      BY <1>a, <2>1, AttemptsKept
  <1>3. CASE ConflictAdopts(w, j)
    <2>1. PICK r \in ActiveRows(keyOf[j]) :
             Adopt(w, [phase[w] EXCEPT ![j] = "none"],
                   [dedup[w] EXCEPT ![keyOf[j]] = NoJob], r, tries[r])
      BY <1>3 DEF ConflictAdopts
    <2>2. r \in JobIds /\ tries[r] \in Nat /\ UNCHANGED <<status, tries, snap>>
      BY <1>3, <1>a DEF ConflictAdopts, ActiveRows, TypeOK
    <2>3. UNCHANGED att \/ att' = [att EXCEPT ![w][r] = tries[r]]
      BY <2>1 DEF Adopt
    <2>4. CASE UNCHANGED att
      BY <1>a, <2>2, <2>4, AttemptsKept DEF KeepsCount
    <2>5. CASE att' = [att EXCEPT ![w][r] = tries[r]]
      <3>1. tries[r] <= tries[r]
        BY <2>2
      <3>2. QED
        BY <1>a, <2>2, <2>5, <3>1, AttemptsAdopted
    <2>6. QED
      BY <2>3, <2>4, <2>5
  <1>4. CASE ClaimWon(w, j)
    <2>1. /\ \A i \in JobIds : tries'[i] = IF i = j THEN tries[i] + 1 ELSE tries[i]
          /\ \A v \in Workers, i \in JobIds :
               att'[v][i] = IF v = w /\ i = j THEN att[v][i] + 1 ELSE att[v][i]
          /\ \A i \in JobIds : status'[i] = "failed" => status[i] = "failed"
          /\ UNCHANGED snap
      BY <1>4, <1>a DEF ClaimWon, TypeOK
    <2>2. \A i \in JobIds : tries[i] \in Nat /\ \A v \in Workers : att[v][i] \in Nat
      BY <1>a DEF TypeOK
    <2>3. \A i \in JobIds : tries[i] <= tries'[i]
      BY <2>1, <2>2
    <2>4. \A v \in Workers : \A r \in snap[v] : r[1] \in JobIds /\ r[2] \in Nat
      BY <1>a DEF TypeOK
    <2>5. AttemptsCounted'
      BY <1>a, <2>1, <2>2, <2>3, <2>4 DEF AttemptsCounted
    <2>6. FailedIsExhausted'
      BY <1>a, <2>1, <2>2, <2>3, QueueAssumption DEF FailedIsExhausted
    <2>7. QED
      BY <2>5, <2>6
  <1>5. CASE RetryConflict(w, j)
    BY <1>5, <1>a, AttemptsLost DEF RetryConflict
  <1>6. CASE PersistFailed(w, j)
    <2>1. /\ att[w][j] >= MaxAttempts
          /\ \A i \in JobIds : status'[i] = IF i = j THEN "failed" ELSE status[i]
          /\ UNCHANGED <<att, tries, snap>>
      BY <1>6, <1>a DEF PersistFailed, SetRow, Goto, TypeOK
    <2>2. att[w][j] \in Nat /\ tries[j] \in Nat /\ att[w][j] <= tries[j]
      BY <1>a DEF AttemptsCounted, TypeOK
    <2>3. tries[j] >= MaxAttempts
      BY <2>1, <2>2, QueueAssumption
    <2>4. QED
      BY <1>a, <2>1, <2>3 DEF AttemptsCounted, FailedIsExhausted
  <1>7. QED
    BY <1>1, <1>2, <1>3, <1>4, <1>5, <1>6 DEF JobStep

\* recover() adopts the counts it has read, or that of its row.
LEMMA AttemptRecoverStep ==
    ASSUME AttemptInv, NEW w \in Workers, RecoverStep(w)
    PROVE  AttemptsCounted' /\ FailedIsExhausted'
  <1> USE DEF table, ids, boot, memory, loose
  <1>a. TypeOK /\ AttemptsCounted /\ FailedIsExhausted
    BY DEF AttemptInv
  <1>1. CASE RecoverUpdate(w) \/ RecoverError(w)
    <2>1. KeepsCount
      BY <1>1 DEF RecoverUpdate, RecoverError, KeepsCount
    <2>2. QED
      BY <1>a, <2>1, AttemptsKept
  <1>2. CASE RecoverSelect(w)
    <2> DEFINE read == {<<j, tries[j]>> : j \in {i \in JobIds : status[i] = "queued"}}
    <2>1. /\ \A v \in Workers : snap'[v] = IF v = w THEN read ELSE snap[v]
          /\ UNCHANGED <<status, att, tries>>
      BY <1>2, <1>a DEF RecoverSelect, TypeOK
    <2>2. \A r \in read : r[2] <= tries[r[1]]
      BY <1>a DEF TypeOK
    <2> HIDE DEF read
    <2>3. QED
      BY <1>a, <2>1, <2>2 DEF AttemptsCounted, FailedIsExhausted
  <1>3. CASE RecoverAdopt(w)
    <2> DEFINE new == {r \in snap[w] : /\ phase[w][r[1]] \notin RunningPhases \cup {"pending"}
                                       /\ dedup[w][keyOf[r[1]]] = NoJob}
               rows == {r[1] : r \in new}
               at == [j \in JobIds |->
                        IF j \in rows THEN (CHOOSE r \in new : r[1] = j)[2] ELSE att[w][j]]
    <2>1. /\ att' = [att EXCEPT ![w] = at]
          /\ snap' = [snap EXCEPT ![w] = {}]
          /\ UNCHANGED <<status, tries>>
      BY <1>3 DEF RecoverAdopt
    <2>2. ASSUME NEW j \in JobIds
          PROVE  at[j] <= tries[j]
      <3>1. CASE j \in rows
        <4>1. \E r \in new : r[1] = j
          BY <3>1
        <4>2. /\ (CHOOSE r \in new : r[1] = j) \in new
              /\ (CHOOSE r \in new : r[1] = j)[1] = j
          BY <4>1
        <4>3. \A r \in new : r[2] <= tries[r[1]]
          BY <1>a DEF AttemptsCounted
        <4>4. (CHOOSE r \in new : r[1] = j)[2] <= tries[j]
          BY <4>2, <4>3
        <4>5. QED
          BY <3>1, <4>4
      <3>2. CASE j \notin rows
        BY <1>a, <3>2 DEF AttemptsCounted
      <3>3. QED
        BY <3>1, <3>2
    <2> HIDE DEF at
    <2>3. QED
      BY <1>a, <2>1, <2>2 DEF AttemptsCounted, FailedIsExhausted, TypeOK
  <1>4. QED
    BY <1>1, <1>2, <1>3 DEF RecoverStep

\* Every step preserves AttemptInv while nobody resets the count by hand.
LEMMA AttemptNext ==
    ASSUME "admin" \notin Faults, AttemptInv, [Next]_vars
    PROVE  AttemptInv'
  <1> SUFFICES AttemptsCounted' /\ FailedIsExhausted'
    BY TypeNext, InterveneNext DEF AttemptInv
  <1> USE DEF table, ids, boot, memory, loose
  <1>a. TypeOK /\ AttemptsCounted /\ FailedIsExhausted /\ NobodyIntervenes
    BY DEF AttemptInv
  <1>1. ASSUME NEW w \in Workers, NEW k \in Keys, Enqueue(w, k)
        PROVE  AttemptsCounted' /\ FailedIsExhausted'
    <2>1. /\ created + 1 \in JobIds
          /\ UNCHANGED <<status, tries, snap>>
          /\ att' = [att EXCEPT ![w][created + 1] = 0]
      BY <1>1, <1>a, QueueAssumption DEF Enqueue, TypeOK, JobIds
    <2>2. 0 <= tries[created + 1]
      BY <1>a, <2>1 DEF TypeOK
    <2>3. QED
      BY <1>a, <2>1, <2>2, AttemptsAdopted
  <1>2. ASSUME NEW w \in Workers, Crash(w)
        PROVE  AttemptsCounted' /\ FailedIsExhausted'
    BY <1>2, <1>a, AttemptsLost DEF Crash
  <1>3. ASSUME NEW w \in Workers, NEW j \in JobIds
        PROVE  ~AdminStep(w, j) /\ ~Cancel(w, j) /\ ~Repeat(w, j)
    BY <1>a DEF AdminStep, PersistCancelled, CancelError, Readd, Cancel, Repeat, NobodyIntervenes
  <1>4. CASE \/ \E w \in Workers, j \in JobIds : Heartbeat(w, j) \/ OrphanEnds(w, j)
             \/ \E w \in Workers : Restart(w)
             \/ \E j \in JobIds : LeaseLapses(j)
             \/ UNCHANGED vars
    <2>1. KeepsCount
      BY <1>4 DEF Heartbeat, OrphanEnds, Restart, LeaseLapses, vars, KeepsCount
    <2>2. QED
      BY <1>a, <2>1, AttemptsKept
  <1>5. QED
    BY <1>1, <1>2, <1>3, <1>4, AttemptJobStep, AttemptRecoverStep DEF Next

\* There are no jobs at first.
LEMMA AttemptInit == Init => AttemptInv
  <1> SUFFICES ASSUME Init
               PROVE  NobodyIntervenes /\ AttemptsCounted /\ FailedIsExhausted
    BY TypeInit DEF AttemptInv
  <1>1. QED
    BY DEF Init, NobodyIntervenes, AttemptsCounted, FailedIsExhausted

\* As long as nobody cancels or repeats jobs by hand, and whatever else goes wrong,
\* a job is given up only after MaxAttempts executions, counted over all processes.
THEOREM GivenUpIsExhausted ==
    ASSUME "admin" \notin Faults
    PROVE  Spec => []FailedIsExhausted
  <1>1. AttemptInv /\ [Next]_vars => AttemptInv'
    BY AttemptNext
  <1>2. AttemptInv => FailedIsExhausted
    BY DEF AttemptInv
  <1>3. QED
    BY <1>1, <1>2, AttemptInit, PTL DEF Spec

-----------------------------------------------------------------------------
\* No handler runs on behind the back of its process.
NobodyTimesOut == \A w \in Workers : orphans[w] = {}

\* Only a time-out makes one do so.
LEMMA TimeoutNext ==
    ASSUME "timeout" \notin Faults, TypeOK, NobodyTimesOut, [Next]_vars
    PROVE  NobodyTimesOut'
  <1> USE DEF loose, NobodyTimesOut
  <1>1. ASSUME NEW w \in Workers, NEW j \in JobIds, JobStep(w, j)
        PROVE  UNCHANGED orphans \/ Die(w)
    BY <1>1 DEF JobStep, InsertRow, InsertConflict, InsertError, ConflictAdopts, ConflictGone,
       ClaimWon, ClaimLost, ClaimError, HandlerDone, HandlerFails, HandlerTimeout,
       PersistCompleted, CompletedError, PersistRetry, RetryConflict, PersistFailed,
       Requeue, Close
  <1>2. ASSUME NEW w \in Workers, RecoverStep(w) \/ Restart(w)
        PROVE  UNCHANGED orphans
    BY <1>2 DEF RecoverStep, RecoverUpdate, RecoverSelect, RecoverAdopt, RecoverError, Restart
  <1>3. ASSUME NEW w \in Workers, NEW j \in JobIds,
               AdminStep(w, j) \/ Cancel(w, j) \/ Repeat(w, j) \/ Heartbeat(w, j)
        PROVE  UNCHANGED orphans
    BY <1>3 DEF AdminStep, PersistCancelled, CancelError, Readd, Cancel, Repeat, Heartbeat
  <1>4. ASSUME NEW w \in Workers, NEW j \in JobIds
        PROVE  ~OrphanEnds(w, j)
    BY DEF OrphanEnds
  <1>5. ASSUME NEW w \in Workers, Die(w)
        PROVE  NobodyTimesOut'
    BY <1>5 DEF Die, TypeOK
  <1>6. CASE \/ \E w \in Workers, k \in Keys : Enqueue(w, k)
             \/ \E j \in JobIds : LeaseLapses(j)
             \/ UNCHANGED vars
    BY <1>6 DEF Enqueue, LeaseLapses, vars
  <1>7. QED
    BY <1>1, <1>2, <1>3, <1>4, <1>5, <1>6 DEF Next, Crash

\* With no time-outs either, a job's handler runs in one place at a time, however
\* often processes crash and recover (with them it does not: run jobs_double).
THEOREM ExecutionIsExclusive ==
    ASSUME Faults = {}
    PROVE  Spec => []ExclusiveExecution
  <1>1. Init => NobodyTimesOut
    BY DEF Init, NobodyTimesOut
  <1>2. TypeOK /\ NobodyTimesOut /\ [Next]_vars => NobodyTimesOut'
    BY TimeoutNext
  <1>3. OwnInv /\ NobodyTimesOut => ExclusiveExecution
    BY DEF OwnInv, LeaseFacts, HolderOwnsRow, NobodyTimesOut, ExclusiveExecution, Executing
  <1>4. Spec => []OwnInv
    BY LeaseCorrect DEF Undisturbed
  <1>5. QED
    BY <1>1, <1>2, <1>3, <1>4, TypeCorrect, PTL DEF Spec

-----------------------------------------------------------------------------
(***************************************************************************)
(* Jobs in hand: while no process dies.                                    *)
(***************************************************************************)

\* A step that leaves the rows alone, the hold on them, and who waits for a queued one.
WaitersStay ==
    \A j \in JobIds : status'[j] = "queued" =>
        \A w \in Workers : phase[w][j] \in Waiting => phase'[w][j] \in Waiting

\* Process w goes on with ph, where every job that waited, still waits.
LEMMA ContinueWaits ==
    ASSUME TypeOK, NEW w \in Workers, NEW ph \in [JobIds -> Phases], Continue(w, ph),
           \A j \in JobIds : status'[j] = "queued" /\ phase[w][j] \in Waiting => ph[j] \in Waiting
    PROVE  WaitersStay
  <1>1. \A v \in Workers, i \in JobIds :
          \/ phase'[v][i] = IF v = w THEN ph[i] ELSE phase[v][i]
          \/ v = w /\ ph[i] = "pending" /\ phase'[v][i] = "claim"
    BY ContinueFact
  <1>2. QED
    BY <1>1 DEF WaitersStay, Waiting

\* A step that leaves all three alone keeps every row in hand.
LEMMA HandsKept ==
    ASSUME HandInv, Quiet, WaitersStay
    PROVE  QueuedInHand' /\ RunningInHand'
  <1>1. RunningInHand'
    BY DEF HandInv, OwnInv, LeaseFacts, RunningIsOwned, RunningInHand, Quiet, Holding
  <1>2. QueuedInHand'
    BY DEF HandInv, QueuedInHand, Quiet, WaitersStay
  <1>3. QED
    BY <1>1, <1>2

\* The steps of a job that change no row do.
LEMMA QuietJobWaits ==
    ASSUME HandInv, NEW w \in Workers, NEW j \in JobIds, QuietJobStep(w, j)
    PROVE  WaitersStay
  <1> USE DEF table, ids, boot, memory, loose
  <1>a. /\ TypeOK /\ DedupMatchesJobs /\ QueuedInHand
        /\ UNCHANGED status
    BY DEF HandInv, OwnInv, KeyInv, QuietJobStep, InsertConflict, ConflictAdopts, ConflictGone,
           ClaimLost, HandlerDone, HandlerFails, HandlerTimeout, Requeue, Close
  <1>b. [phase[w] EXCEPT ![j] = "none"] \in [JobIds -> Phases]
    BY <1>a DEF TypeOK, Phases
  <1>1. CASE InsertConflict(w, j) \/ ConflictGone(w, j) \/ HandlerDone(w, j) \/ HandlerFails(w, j)
               \/ HandlerTimeout(w, j)
    <2>1. phase[w][j] \notin Waiting /\ \E p : phase' = [phase EXCEPT ![w][j] = p]
      BY <1>1 DEF InsertConflict, ConflictGone, HandlerDone, HandlerFails, HandlerTimeout, Goto, Waiting
    <2>2. QED
      BY <1>a, <2>1 DEF TypeOK, WaitersStay
  <1>2. CASE ConflictAdopts(w, j)
    <2> DEFINE ph == [phase[w] EXCEPT ![j] = "none"]
               dd == [dedup[w] EXCEPT ![keyOf[j]] = NoJob]
    <2>1. PICK r \in ActiveRows(keyOf[j]) : Adopt(w, ph, dd, r, tries[r])
      BY <1>2 DEF ConflictAdopts
    <2>2. \A i \in JobIds : phase[w][i] \in Waiting => ph[i] \in Waiting
      BY <1>2, <1>a DEF ConflictAdopts, TypeOK, Waiting
    <2> HIDE DEF ph, dd
    <2>3. CASE dd[keyOf[r]] # NoJob
      BY <1>a, <1>b, <2>1, <2>2, <2>3, ContinueWaits DEF Adopt, ph
    <2>4. CASE dd[keyOf[r]] = NoJob
      <3>1. Continue(w, [ph EXCEPT ![r] = "pending"])
        BY <2>1, <2>4 DEF Adopt
      <3>2. /\ [ph EXCEPT ![r] = "pending"] \in [JobIds -> Phases]
            /\ \A i \in JobIds : phase[w][i] \in Waiting => [ph EXCEPT ![r] = "pending"][i] \in Waiting
        BY <1>b, <2>2 DEF Phases, Waiting, ph
      <3>3. QED
        BY <1>a, <3>1, <3>2, ContinueWaits
    <2>5. QED
      BY <2>3, <2>4
  <1>3. CASE ClaimLost(w, j) \/ Close(w, j)
    <2>1. /\ Continue(w, [phase[w] EXCEPT ![j] = "none"])
          /\ status[j] # "queued" \/ phase[w][j] \notin Waiting
      BY <1>3, <1>a DEF ClaimLost, Close, Release, QueuedInHand, Waiting
    <2>2. \A i \in JobIds : status'[i] = "queued" /\ phase[w][i] \in Waiting
                              => [phase[w] EXCEPT ![j] = "none"][i] \in Waiting
      BY <1>a, <2>1 DEF TypeOK
    <2>3. QED
      BY <1>a, <1>b, <2>1, <2>2, ContinueWaits
  <1>4. CASE Requeue(w, j)
    <2>1. Continue(w, [phase[w] EXCEPT ![j] = "pending"])
      BY <1>4 DEF Requeue
    <2>2. /\ [phase[w] EXCEPT ![j] = "pending"] \in [JobIds -> Phases]
          /\ \A i \in JobIds : phase[w][i] \in Waiting
                                 => [phase[w] EXCEPT ![j] = "pending"][i] \in Waiting
      BY <1>a DEF TypeOK, Phases, Waiting
    <2>3. QED
      BY <1>a, <2>1, <2>2, ContinueWaits
  <1>5. QED
    BY <1>1, <1>2, <1>3, <1>4 DEF QuietJobStep

\* A row is put in the queue by the process that then waits for it, and taken out
\* by the one that then holds it.
LEMMA RowStepHands ==
    ASSUME HandInv, NEW w \in Workers, NEW j \in JobIds,
           \/ InsertRow(w, j)
           \/ ClaimWon(w, j)
           \/ \E s \in {"queued", "completed", "failed"} : OutcomeStep(w, j, s)
    PROVE  QueuedInHand' /\ RunningInHand'
  <1>a. TypeOK /\ LeaseFacts /\ QueuedInHand /\ RunningInHand
    BY DEF HandInv, OwnInv, KeyInv
  <1>1. CASE InsertRow(w, j)
    <2> DEFINE ph == [phase[w] EXCEPT ![j] = "pending"]
    <2>1. /\ phase[w][j] = "insert"
          /\ Continue(w, ph)
          /\ SetRow(j, "queued")
      BY <1>1 DEF InsertRow
    <2>2. /\ ph \in [JobIds -> Phases]
          /\ \A i \in JobIds : ph[i] = IF i = j THEN "pending" ELSE phase[w][i]
      BY <1>a DEF TypeOK, Phases
    <2> HIDE DEF ph
    <2>3. WaitersStay
      BY <1>a, <2>1, <2>2, ContinueWaits DEF Waiting
    <2>4. phase'[w][j] \in Waiting
      BY <1>a, <2>1, <2>2, ContinueFact DEF Waiting
    <2>5. \A i \in JobIds :
            /\ status'[i] = IF i = j THEN "queued" ELSE status[i]
            /\ leased'[i] = IF i = j THEN FALSE ELSE leased[i]
            /\ i # j => owner'[i] = owner[i]
      BY <1>a, <2>1 DEF SetRow, TypeOK
    <2>6. QueuedInHand'
      BY <1>a, <2>3, <2>4, <2>5 DEF QueuedInHand, WaitersStay
    <2>7. \A v \in Workers, i \in JobIds : phase'[v][i] \in Holding <=> phase[v][i] \in Holding
      BY <1>1, InsertRowFact DEF HandInv
    <2>8. RunningInHand'
      <3> SUFFICES ASSUME NEW i \in JobIds, status'[i] = "running"
                   PROVE  phase'[owner'[i]][i] \in Holding
        BY DEF RunningInHand
      <3>1. status[i] = "running" /\ owner'[i] = owner[i]
        BY <2>5
      <3>2. owner[i] \in Workers /\ phase[owner[i]][i] \in Holding
        BY <1>a, <3>1 DEF RunningInHand, LeaseFacts, RunningIsOwned
      <3>3. QED
        BY <2>7, <3>1, <3>2
    <2>9. QED
      BY <2>6, <2>8
  <1>2. CASE ClaimWon(w, j)
    <2>1. \A i \in JobIds :
            /\ status'[i] = IF i = j THEN "running" ELSE status[i]
            /\ owner'[i] = IF i = j THEN w ELSE owner[i]
            /\ leased'[i] = IF i = j THEN TRUE ELSE leased[i]
      BY <1>2, <1>a DEF ClaimWon, TypeOK
    <2>2. \A v \in Workers, i \in JobIds :
            phase'[v][i] = IF v = w /\ i = j THEN "exec" ELSE phase[v][i]
      BY <1>2, <1>a DEF ClaimWon, TypeOK
    <2>3. QueuedInHand'
      BY <1>a, <2>1, <2>2 DEF QueuedInHand
    <2>4. RunningInHand'
      <3> SUFFICES ASSUME NEW i \in JobIds, status'[i] = "running"
                   PROVE  phase'[owner'[i]][i] \in Holding
        BY DEF RunningInHand
      <3>1. CASE i = j
        BY <2>1, <2>2, <3>1 DEF Holding
      <3>2. CASE i # j
        <4>1. status[i] = "running" /\ owner'[i] = owner[i]
          BY <2>1, <3>2
        <4>2. owner[i] \in Workers /\ phase[owner[i]][i] \in Holding
          BY <1>a, <4>1 DEF RunningInHand, LeaseFacts, RunningIsOwned
        <4>3. QED
          BY <2>2, <3>2, <4>1, <4>2
      <3>3. QED
        BY <3>1, <3>2
    <2>5. QED
      BY <2>3, <2>4
  <1>3. ASSUME NEW s \in {"queued", "completed", "failed"}, OutcomeStep(w, j, s)
        PROVE  QueuedInHand' /\ RunningInHand'
    <2>1. \A i \in JobIds :
            /\ status'[i] = IF i = j THEN s ELSE status[i]
            /\ owner'[i] = IF i = j THEN None ELSE owner[i]
            /\ leased'[i] = IF i = j THEN FALSE ELSE leased[i]
      BY <1>3, <1>a DEF OutcomeStep, SetRow, TypeOK
    <2>2. \A v \in Workers, i \in JobIds :
            phase'[v][i] = IF v = w /\ i = j THEN IF s = "queued" THEN "requeue" ELSE "closing"
                           ELSE phase[v][i]
      BY <1>3, <1>a DEF OutcomeStep, Goto, TypeOK
    <2>3. phase[w][j] \notin Waiting
      BY <1>3 DEF OutcomeStep, Waiting
    <2>4. QueuedInHand'
      <3>1. ASSUME NEW i \in JobIds, status'[i] = "queued", i # j
            PROVE  ~leased'[i] /\ \E v \in Workers : phase'[v][i] \in Waiting
        BY <1>a, <2>1, <2>2, <3>1 DEF QueuedInHand
      <3>2. status'[j] = "queued" => ~leased'[j] /\ phase'[w][j] \in Waiting
        BY <2>1, <2>2 DEF Waiting
      <3>3. QED
        BY <3>1, <3>2 DEF QueuedInHand
    <2>5. RunningInHand'
      <3> SUFFICES ASSUME NEW i \in JobIds, status'[i] = "running"
                   PROVE  phase'[owner'[i]][i] \in Holding
        BY DEF RunningInHand
      <3>1. i # j /\ status[i] = "running" /\ owner'[i] = owner[i]
        BY <2>1
      <3>2. owner[i] \in Workers /\ phase[owner[i]][i] \in Holding
        BY <1>a, <3>1 DEF RunningInHand, LeaseFacts, RunningIsOwned
      <3>3. QED
        BY <2>2, <3>1, <3>2
    <2>6. QED
      BY <2>4, <2>5
  <1>4. QED
    BY <1>1, <1>2, <1>3

\* recover() takes no job from anybody, as no lease has lapsed.
LEMMA HandRecoverStep ==
    ASSUME HandInv, Undisturbed, NEW w \in Workers, RecoverStep(w)
    PROVE  QueuedInHand' /\ RunningInHand'
  <1> USE DEF table, ids, boot, memory, loose
  <1>a. OwnInv /\ TypeOK /\ LeaseFacts /\ RunningInHand
    BY DEF HandInv, OwnInv, KeyInv
  <1>1. CASE RecoverUpdate(w)
    <2>1. \A j \in JobIds : status[j] = "running" => leased[j]
      BY <1>a DEF RunningInHand, LeaseFacts, RunningIsOwned, HolderHasLease
    <2>2. UNCHANGED <<status, owner, leased, phase>>
      BY <1>1, <1>a, <2>1 DEF RecoverUpdate, TypeOK
    <2>3. QED
      BY <2>2, HandsKept DEF Quiet, WaitersStay
  <1>2. CASE RecoverSelect(w)
    BY <1>2, HandsKept DEF RecoverSelect, Quiet, WaitersStay
  <1>3. CASE RecoverAdopt(w)
    <2> DEFINE new == {r \in snap[w] : /\ phase[w][r[1]] \notin RunningPhases \cup {"pending"}
                                       /\ dedup[w][keyOf[r[1]]] = NoJob}
               rows == {r[1] : r \in new}
               ph == [j \in JobIds |-> IF j \in rows THEN "pending" ELSE phase[w][j]]
    <2>1. Continue(w, ph)
      BY <1>3 DEF RecoverAdopt
    <2> HIDE DEF new, rows
    <2>2. ph \in [JobIds -> Phases] /\ \A i \in JobIds : phase[w][i] \in Waiting => ph[i] \in Waiting
      BY <1>a DEF TypeOK, Phases, Waiting
    <2>3. WaitersStay
      BY <1>a, <2>1, <2>2, ContinueWaits
    <2>4. QED
      BY <1>3, <1>a, <2>3, QuietRecoverSteps, HandsKept
  <1>4. ~RecoverError(w)
    BY DEF RecoverError, Undisturbed
  <1>5. QED
    BY <1>1, <1>2, <1>3, <1>4 DEF RecoverStep

\* Every step preserves HandInv while no process dies.
LEMMA HandNext ==
    ASSUME Undisturbed, MaxCrashes = 0, HandInv, [Next]_vars
    PROVE  HandInv'
  <1> SUFFICES QueuedInHand' /\ RunningInHand'
    BY LeaseNext DEF HandInv
  <1> USE DEF table, ids, boot, memory, loose
  <1>a. OwnInv /\ TypeOK /\ OneActiveRowPerKey /\ LeaseFacts /\ RunningInHand
    BY DEF HandInv, OwnInv, KeyInv
  <1>1. ASSUME NEW w \in Workers, NEW j \in JobIds, JobStep(w, j)
        PROVE  QueuedInHand' /\ RunningInHand'
    <2>1. ~RetryConflict(w, j)
      <3>1. phase[w][j] = "error" => status[j] = "running"
        BY <1>a DEF LeaseFacts, HolderOwnsRow
      <3>2. phase[w][j] = "error" => IndexAllows(j)
        BY <1>a, <3>1 DEF OneActiveRowPerKey, IndexAllows, ActiveRows, Active
      <3>3. QED
        BY <3>2 DEF RetryConflict
    <2>2. QuietJobStep(w, j) => WaitersStay /\ Quiet
      BY <1>a, QuietJobWaits, QuietJobSteps
    <2>3. \/ QuietJobStep(w, j)
          \/ InsertRow(w, j)
          \/ ClaimWon(w, j)
          \/ \E s \in {"queued", "completed", "failed"} : OutcomeStep(w, j, s)
      <3>1. ~InsertError(w, j) /\ ~ClaimError(w, j) /\ ~CompletedError(w, j)
        BY DEF Undisturbed, InsertError, ClaimError, CompletedError
      <3>2. QED
        BY <1>1, <2>1, <3>1, OutcomeSteps DEF JobStep, QuietJobStep
    <2>4. QED
      BY <2>2, <2>3, HandsKept, RowStepHands
  <1>2. ASSUME NEW w \in Workers, NEW k \in Keys, Enqueue(w, k)
        PROVE  QueuedInHand' /\ RunningInHand'
    <2> DEFINE n == created + 1
    <2>1. n \in JobIds /\ n > created
      BY <1>2, <1>a, QueueAssumption DEF Enqueue, TypeOK, JobIds
    <2>2. status[n] = "absent"
      BY <2>1 DEF HandInv, OwnInv, KeyInv, IdsInOrder
    <2>3. /\ UNCHANGED <<status, owner, leased>>
          /\ \A v \in Workers, i \in JobIds : i # n => phase'[v][i] = phase[v][i]
      BY <1>2, <1>a, <2>1 DEF Enqueue, TypeOK
    <2> HIDE DEF n
    <2>4. QED
      BY <1>a, <2>2, <2>3 DEF HandInv, QueuedInHand, RunningInHand, LeaseFacts, RunningIsOwned
  <1>3. ASSUME NEW w \in Workers
        PROVE  ~Crash(w)
    BY <1>a DEF Crash, TypeOK
  <1>4. ASSUME NEW j \in JobIds
        PROVE  ~LeaseLapses(j)
    BY <1>a DEF LeaseLapses, RunningInHand, Undisturbed, Holding
  <1>5. ASSUME NEW w \in Workers, NEW j \in JobIds
        PROVE  ~AdminStep(w, j) /\ ~Cancel(w, j) /\ ~Repeat(w, j)
    BY <1>a DEF AdminStep, PersistCancelled, CancelError, Readd, Cancel, Repeat, Undisturbed,
                OwnInv, NobodyIntervenes
  <1>6. ASSUME NEW w \in Workers, NEW j \in JobIds, Heartbeat(w, j)
        PROVE  QueuedInHand' /\ RunningInHand'
    <2>1. /\ UNCHANGED <<status, owner, phase>>
          /\ \A i \in JobIds : status[i] = "queued" => leased'[i] = leased[i]
      BY <1>6, <1>a DEF Heartbeat, TypeOK
    <2>2. QED
      BY <2>1 DEF HandInv, QueuedInHand, RunningInHand
  <1>7. CASE \/ \E w \in Workers, j \in JobIds : OrphanEnds(w, j)
             \/ \E w \in Workers : Restart(w)
             \/ UNCHANGED vars
    <2>1. UNCHANGED <<status, owner, leased, phase>>
      BY <1>7 DEF OrphanEnds, Restart, vars
    <2>2. QED
      BY <2>1 DEF HandInv, QueuedInHand, RunningInHand
  <1>8. QED
    BY <1>1, <1>2, <1>3, <1>4, <1>5, <1>6, <1>7, HandRecoverStep DEF Next

\* There are no rows at first.
LEMMA HandInit == Init => HandInv
  BY LeaseInit DEF Init, HandInv, QueuedInHand, RunningInHand

\* While no process dies, no queued row is forgotten: the process that put it in
\* the queue, or another, waits to execute it.
THEOREM NoRowForgotten ==
    ASSUME Undisturbed, MaxCrashes = 0
    PROVE  Spec => []QueuedIsHeld
  <1>1. HandInv /\ [Next]_vars => HandInv'
    BY HandNext
  <1>2. HandInv => QueuedIsHeld
    BY DEF HandInv, QueuedInHand, QueuedIsHeld, Waiting
  <1>3. QED
    BY <1>1, <1>2, HandInit, PTL DEF Spec
=============================================================================
