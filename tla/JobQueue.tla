------------------------------ MODULE JobQueue ------------------------------
(***************************************************************************)
(* The durable job queue: class JobQueue of                                *)
(* server/services/jobQueueService.js over the table background_jobs of    *)
(* server/database/postgresMigrations.js.                                  *)
(*                                                                         *)
(* Several processes (the API server and the workers of worker.js) each    *)
(* hold one JobQueue.  What they share is the table; what they do not is   *)
(* the memory of each: `pending`, `running` and `deduplicated`, plus the   *)
(* continuations that wait for a query.  Every query is one atomic step    *)
(* and every await is a point where the other processes, and the other     *)
(* continuations of the same process, may run.                             *)
(*                                                                         *)
(* Abstractions.  One job type (recover, the only operation that looks at  *)
(* the type, is called once per type).  A job's payload and the value of   *)
(* its handler are left out.  createdAt is the order in which ids are      *)
(* drawn.  cancel_requested, which cancel writes on a running job and no   *)
(* code reads, is left out, so that branch of cancel changes nothing here. *)
(* Node (>= 22, package.json) ends the process on an unhandled rejection:  *)
(* a query that fails in persistRetry, in persistFinished('failed') or in  *)
(* the SELECT of persistAndQueue is therefore a crash of its process.      *)
(***************************************************************************)
EXTENDS Naturals, FiniteSets

CONSTANTS Workers,      \* the processes
          Processors,   \* those that run with ARARU_PROCESS_JOBS # 'false'
          Keys,         \* the dedupe keys
          Priority,     \* the priority its caller gives the jobs of a key
          Concurrency,  \* jobs a process runs at a time
          MaxAttempts,  \* max_attempts of every job
          None,         \* no worker (worker_id NULL), no key
          MaxJobs,      \* bound: jobs ever enqueued
          MaxCrashes,   \* bound: process deaths, each followed by a restart
          Faults        \* which disturbances the environment may cause

\* "timeout":  a handler runs past timeoutMs
\* "stall":    a live process misses its heartbeats for a whole lease
\* "dberror":  a query fails for a reason other than a constraint
\* "admin":    an administrator cancels and repeats jobs
FaultKinds == {"timeout", "stall", "dberror", "admin"}

JobIds == 1..MaxJobs
NoJob == 0

ASSUME QueueAssumption ==
    /\ Processors \subseteq Workers
    /\ IsFiniteSet(Workers)
    /\ Priority \in [Keys -> 1..3]
    /\ Concurrency \in Nat \ {0}
    /\ MaxAttempts \in Nat \ {0}
    /\ None \notin Workers
    /\ None \notin Keys
    /\ MaxJobs \in Nat
    /\ MaxCrashes \in Nat
    /\ Faults \subseteq FaultKinds

VARIABLES
    status,     \* the table: status of each row, "absent" before the INSERT
    owner,      \* ... worker_id
    leased,     \* ... lease_until is in the future (NULL and past are FALSE)
    tries,      \* ... attempts
    created,    \* ids drawn so far
    keyOf,      \* dedupe key of each id drawn
    mode,       \* per process: down, or how far recover() has come
    snap,       \* per process: rows recover() has read and not yet adopted
    phase,      \* per process and job: where its job object is
    att,        \* per process and job: attempts of its job object
    dedup,      \* per process and key: the map `deduplicated`
    orphans,    \* per process: jobs with a handler still running past its timeout
    cancelling, \* per process: jobs cancel() took out and has not yet written
    readding,   \* per process: jobs retry() has set to queued, continuation due
    crashes     \* process deaths so far

table  == <<status, owner, leased, tries>>
ids    == <<created, keyOf>>
boot   == <<mode, snap, crashes>>
memory == <<phase, att, dedup>>
loose  == <<orphans, cancelling, readding>>
vars   == <<table, ids, boot, memory, loose>>

Statuses == {"absent", "queued", "running", "completed", "failed", "cancelled"}
Active   == {"queued", "running"}
Modes    == {"down", "update", "select", "adopt", "ready"}

\* `running` holds the job from the moment process() shifts it off `pending`.
RunningPhases == {"claim", "exec", "done", "error", "requeue", "closing"}
Phases == {"none", "insert", "conflict", "pending"} \cup RunningPhases

Pending(ph) == {j \in JobIds : ph[j] = "pending"}
Running(ph) == {j \in JobIds : ph[j] \in RunningPhases}

ActiveRows(k) == {j \in JobIds : keyOf[j] = k /\ status[j] \in Active}

\* The partial unique index idx_background_jobs_active_dedupe lets row j become
\* (or stay) queued or running.
IndexAllows(j) == ActiveRows(keyOf[j]) \subseteq {j}

-----------------------------------------------------------------------------
(***************************************************************************)
(* process(): sorts `pending` by priority, then age, and shifts jobs into  *)
(* `running` until the concurrency is reached.  Every caller runs it in    *)
(* the same synchronous stretch, so the operators below end in it.         *)
(***************************************************************************)
Before(i, j) ==
    \/ Priority[keyOf[i]] > Priority[keyOf[j]]
    \/ Priority[keyOf[i]] = Priority[keyOf[j]] /\ i < j

\* Mutant of Dispatched: `pending` is not sorted.
DispatchedInOrderOfAge(w, ph) ==
    {j \in Pending(ph) :
        /\ w \in Processors
        /\ Cardinality({i \in Pending(ph) : i < j})
             + Cardinality(Running(ph)) < Concurrency}

Dispatched(w, ph) ==
    {j \in Pending(ph) :
        /\ w \in Processors
        /\ Cardinality({i \in Pending(ph) : Before(i, j)})
             + Cardinality(Running(ph)) < Concurrency}

Process(w, ph) ==
    [j \in JobIds |-> IF j \in Dispatched(w, ph) THEN "claim" ELSE ph[j]]

Held(w) == {j \in JobIds : phase[w][j] # "none"}

\* Process w goes on with its jobs in phases ph, after process().
Continue(w, ph) == phase' = [phase EXCEPT ![w] = Process(w, ph)]

\* addRecovered: a row becomes a pending job object unless its key is taken.
Adopt(w, ph, dd, j, n) ==
    IF dd[keyOf[j]] # NoJob
      THEN /\ Continue(w, ph)
           /\ dedup' = [dedup EXCEPT ![w] = dd]
           /\ UNCHANGED att
      ELSE /\ Continue(w, [ph EXCEPT ![j] = "pending"])
           /\ dedup' = [dedup EXCEPT ![w] = [dd EXCEPT ![keyOf[j]] = j]]
           /\ att' = [att EXCEPT ![w][j] = n]

\* Mutant of Release: finally() does not run process().
ReleaseWithoutProcess(w, j) ==
    /\ phase' = [phase EXCEPT ![w][j] = "none"]
    /\ dedup' = [dedup EXCEPT ![w][keyOf[j]] = NoJob]
    /\ UNCHANGED att

\* Job j leaves process w: its key is free again, and process() runs.
Release(w, j) ==
    /\ Continue(w, [phase[w] EXCEPT ![j] = "none"])
    /\ dedup' = [dedup EXCEPT ![w][keyOf[j]] = NoJob]
    /\ UNCHANGED att

Goto(w, j, p) ==
    /\ phase' = [phase EXCEPT ![w][j] = p]
    /\ UNCHANGED <<att, dedup>>

\* An UPDATE that puts s in row j and clears worker_id and lease_until.
SetRow(j, s) ==
    /\ status' = [status EXCEPT ![j] = s]
    /\ owner' = [owner EXCEPT ![j] = None]
    /\ leased' = [leased EXCEPT ![j] = FALSE]
    /\ UNCHANGED tries

Init ==
    /\ status = [j \in JobIds |-> "absent"]
    /\ owner = [j \in JobIds |-> None]
    /\ leased = [j \in JobIds |-> FALSE]
    /\ tries = [j \in JobIds |-> 0]
    /\ created = 0
    /\ keyOf = [j \in JobIds |-> None]
    /\ mode = [w \in Workers |-> "update"]
    /\ snap = [w \in Workers |-> {}]
    /\ phase = [w \in Workers |-> [j \in JobIds |-> "none"]]
    /\ att = [w \in Workers |-> [j \in JobIds |-> 0]]
    /\ dedup = [w \in Workers |-> [k \in Keys |-> NoJob]]
    /\ orphans = [w \in Workers |-> {}]
    /\ cancelling = [w \in Workers |-> {}]
    /\ readding = [w \in Workers |-> {}]
    /\ crashes = 0

-----------------------------------------------------------------------------
(***************************************************************************)
(* enqueue and persistAndQueue                                             *)
(***************************************************************************)

\* A caller enqueues a job whose key this process does not hold.  (With the key
\* held the caller gets the promise of the job that is there.)
Enqueue(w, k) ==
    /\ mode[w] # "down"
    /\ dedup[w][k] = NoJob
    /\ created < MaxJobs
    /\ created' = created + 1
    /\ keyOf' = [keyOf EXCEPT ![created + 1] = k]
    /\ phase' = [phase EXCEPT ![w][created + 1] = "insert"]
    /\ att' = [att EXCEPT ![w][created + 1] = 0]
    /\ dedup' = [dedup EXCEPT ![w][k] = created + 1]
    /\ UNCHANGED <<table, boot, loose>>

\* Mutant of InsertRow: the job is not pushed on `pending`.
InsertRowOnly(w, j) ==
    /\ phase[w][j] = "insert"
    /\ IndexAllows(j)
    /\ SetRow(j, "queued")
    /\ Goto(w, j, "none")
    /\ UNCHANGED <<ids, boot, loose>>

InsertRow(w, j) ==
    /\ phase[w][j] = "insert"
    /\ IndexAllows(j)
    /\ SetRow(j, "queued")
    /\ Continue(w, [phase[w] EXCEPT ![j] = "pending"])
    /\ UNCHANGED <<att, dedup, ids, boot, loose>>

\* Error 23505: another row of the key is queued or running.
InsertConflict(w, j) ==
    /\ phase[w][j] = "insert"
    /\ ~IndexAllows(j)
    /\ Goto(w, j, "conflict")
    /\ UNCHANGED <<table, ids, boot, loose>>

\* Any other error: the caller's promise is rejected.
InsertError(w, j) ==
    /\ "dberror" \in Faults
    /\ phase[w][j] = "insert"
    /\ phase' = [phase EXCEPT ![w][j] = "none"]
    /\ dedup' = [dedup EXCEPT ![w][keyOf[j]] = NoJob]
    /\ UNCHANGED <<att, table, ids, boot, loose>>

\* The SELECT after 23505 finds the row that is in the way: this process takes
\* it up in place of its own job, whose promise follows it.
ConflictAdopts(w, j) ==
    /\ phase[w][j] = "conflict"
    /\ \E r \in ActiveRows(keyOf[j]) :
          Adopt(w, [phase[w] EXCEPT ![j] = "none"],
                [dedup[w] EXCEPT ![keyOf[j]] = NoJob], r, tries[r])
    /\ UNCHANGED <<table, ids, boot, loose>>

\* The row in the way has finished meanwhile: the promise is rejected.
ConflictGone(w, j) ==
    /\ phase[w][j] = "conflict"
    /\ ActiveRows(keyOf[j]) = {}
    /\ phase' = [phase EXCEPT ![w][j] = "none"]
    /\ dedup' = [dedup EXCEPT ![w][keyOf[j]] = NoJob]
    /\ UNCHANGED <<att, table, ids, boot, loose>>

-----------------------------------------------------------------------------
(***************************************************************************)
(* execute: claim, heartbeat, the handler and its timeout                  *)
(***************************************************************************)

\* Mutant of ClaimWon: the UPDATE does not ask for status='queued'.
ClaimAnyStatus(w, j) ==
    /\ phase[w][j] = "claim"
    /\ ~leased[j]
    /\ status' = [status EXCEPT ![j] = "running"]
    /\ owner' = [owner EXCEPT ![j] = w]
    /\ leased' = [leased EXCEPT ![j] = TRUE]
    /\ tries' = [tries EXCEPT ![j] = @ + 1]
    /\ phase' = [phase EXCEPT ![w][j] = "exec"]
    /\ att' = [att EXCEPT ![w][j] = @ + 1]
    /\ UNCHANGED <<dedup, ids, boot, loose>>

ClaimWon(w, j) ==
    /\ phase[w][j] = "claim"
    /\ status[j] = "queued"
    /\ ~leased[j]
    /\ status' = [status EXCEPT ![j] = "running"]
    /\ owner' = [owner EXCEPT ![j] = w]
    /\ leased' = [leased EXCEPT ![j] = TRUE]
    /\ tries' = [tries EXCEPT ![j] = @ + 1]
    /\ phase' = [phase EXCEPT ![w][j] = "exec"]
    /\ att' = [att EXCEPT ![w][j] = @ + 1]
    /\ UNCHANGED <<dedup, ids, boot, loose>>

\* JOB_NOT_CLAIMED: the promise resolves to null and the job object is dropped.
ClaimLost(w, j) ==
    /\ phase[w][j] = "claim"
    /\ status[j] # "queued" \/ leased[j]
    /\ Release(w, j)
    /\ UNCHANGED <<table, ids, boot, loose>>

\* The claim query fails: handled as a failure of the job.
ClaimError(w, j) ==
    /\ "dberror" \in Faults
    /\ phase[w][j] = "claim"
    /\ Goto(w, j, "error")
    /\ UNCHANGED <<table, ids, boot, loose>>

Heartbeat(w, j) ==
    /\ phase[w][j] = "exec"
    /\ status[j] = "running"
    /\ owner[j] = w
    /\ leased' = [leased EXCEPT ![j] = TRUE]
    /\ UNCHANGED <<status, owner, tries, ids, boot, memory, loose>>

HandlerDone(w, j) ==
    /\ phase[w][j] = "exec"
    /\ Goto(w, j, "done")
    /\ UNCHANGED <<table, ids, boot, loose>>

HandlerFails(w, j) ==
    /\ phase[w][j] = "exec"
    /\ Goto(w, j, "error")
    /\ UNCHANGED <<table, ids, boot, loose>>

\* The timer rejects the promise; nothing stops the handler.
HandlerTimeout(w, j) ==
    /\ "timeout" \in Faults
    /\ phase[w][j] = "exec"
    /\ Goto(w, j, "error")
    /\ orphans' = [orphans EXCEPT ![w] = @ \cup {j}]
    /\ UNCHANGED <<table, ids, boot, cancelling, readding>>

OrphanEnds(w, j) ==
    /\ j \in orphans[w]
    /\ orphans' = [orphans EXCEPT ![w] = @ \ {j}]
    /\ UNCHANGED <<table, ids, boot, memory, cancelling, readding>>

-----------------------------------------------------------------------------
(***************************************************************************)
(* What process() does with the outcome.  The UPDATEs of persistFinished   *)
(* and persistRetry name the row by its id alone.                          *)
(***************************************************************************)

PersistCompleted(w, j) ==
    /\ phase[w][j] = "done"
    /\ SetRow(j, "completed")
    /\ Goto(w, j, "closing")
    /\ UNCHANGED <<ids, boot, loose>>

\* The UPDATE fails inside then(): catch() treats it as a failure of the job.
CompletedError(w, j) ==
    /\ "dberror" \in Faults
    /\ phase[w][j] = "done"
    /\ Goto(w, j, "error")
    /\ UNCHANGED <<table, ids, boot, loose>>

PersistRetry(w, j) ==
    /\ phase[w][j] = "error"
    /\ att[w][j] < MaxAttempts
    /\ IndexAllows(j)
    /\ SetRow(j, "queued")
    /\ Goto(w, j, "requeue")
    /\ UNCHANGED <<ids, boot, loose>>

\* Mutant of PersistFailed: the attempt to come counts as made.
PersistFailedEarly(w, j) ==
    /\ phase[w][j] = "error"
    /\ att[w][j] + 1 >= MaxAttempts
    /\ SetRow(j, "failed")
    /\ Goto(w, j, "closing")
    /\ UNCHANGED <<ids, boot, loose>>

PersistFailed(w, j) ==
    /\ phase[w][j] = "error"
    /\ att[w][j] >= MaxAttempts
    /\ SetRow(j, "failed")
    /\ Goto(w, j, "closing")
    /\ UNCHANGED <<ids, boot, loose>>

\* Mutant of Requeue: catch() forgets pending.push.
RequeueForgotten(w, j) ==
    /\ phase[w][j] = "requeue"
    /\ Release(w, j)
    /\ UNCHANGED <<table, ids, boot, loose>>

\* The log INSERT after persistRetry has returned: pending.push, then finally().
Requeue(w, j) ==
    /\ phase[w][j] = "requeue"
    /\ Continue(w, [phase[w] EXCEPT ![j] = "pending"])
    /\ UNCHANGED <<att, dedup, table, ids, boot, loose>>

\* Mutant of Close: finally() keeps the entry of `deduplicated`.
CloseKeepsKey(w, j) ==
    /\ phase[w][j] = "closing"
    /\ Continue(w, [phase[w] EXCEPT ![j] = "none"])
    /\ UNCHANGED <<att, dedup, table, ids, boot, loose>>

\* The log INSERT after persistFinished has returned: finally().
Close(w, j) ==
    /\ phase[w][j] = "closing"
    /\ Release(w, j)
    /\ UNCHANGED <<table, ids, boot, loose>>

-----------------------------------------------------------------------------
(***************************************************************************)
(* cancel and retry, from the administration routes                        *)
(***************************************************************************)

Cancel(w, j) ==
    /\ "admin" \in Faults
    /\ phase[w][j] = "pending"
    /\ phase' = [phase EXCEPT ![w][j] = "none"]
    /\ dedup' = [dedup EXCEPT ![w][keyOf[j]] = NoJob]
    /\ cancelling' = [cancelling EXCEPT ![w] = @ \cup {j}]
    /\ UNCHANGED <<att, table, ids, boot, orphans, readding>>

PersistCancelled(w, j) ==
    /\ j \in cancelling[w]
    /\ SetRow(j, "cancelled")
    /\ cancelling' = [cancelling EXCEPT ![w] = @ \ {j}]
    /\ UNCHANGED <<ids, boot, memory, orphans, readding>>

CancelError(w, j) ==
    /\ "dberror" \in Faults
    /\ j \in cancelling[w]
    /\ cancelling' = [cancelling EXCEPT ![w] = @ \ {j}]
    /\ UNCHANGED <<table, ids, boot, memory, orphans, readding>>

\* retry(id): the UPDATE.  It resets attempts and leaves worker_id and
\* lease_until; on 23505 the request fails and nothing changes.
Repeat(w, j) ==
    /\ "admin" \in Faults
    /\ mode[w] # "down"
    /\ status[j] \in {"failed", "cancelled"}
    /\ IndexAllows(j)
    /\ status' = [status EXCEPT ![j] = "queued"]
    /\ tries' = [tries EXCEPT ![j] = 0]
    /\ readding' = [readding EXCEPT ![w] = @ \cup {j}]
    /\ UNCHANGED <<owner, leased, ids, boot, memory, orphans, cancelling>>

\* retry(id): its continuation, addRecovered of the row returned.
Readd(w, j) ==
    /\ j \in readding[w]
    /\ Adopt(w, phase[w], dedup[w], j, 0)
    /\ readding' = [readding EXCEPT ![w] = @ \ {j}]
    /\ UNCHANGED <<table, ids, boot, orphans, cancelling>>

-----------------------------------------------------------------------------
(***************************************************************************)
(* register -> recover, process death and restart, time                    *)
(***************************************************************************)

\* Mutant of RecoverUpdate: leases are not looked at.
RecoverUpdateLeased(w) ==
    /\ mode[w] = "update"
    /\ LET lapsed == {j \in JobIds : status[j] = "running"} IN
         /\ status' = [j \in JobIds |-> IF j \in lapsed THEN "queued" ELSE status[j]]
         /\ owner' = [j \in JobIds |-> IF j \in lapsed THEN None ELSE owner[j]]
         /\ leased' = [j \in JobIds |-> IF j \in lapsed THEN FALSE ELSE leased[j]]
    /\ mode' = [mode EXCEPT ![w] = "select"]
    /\ UNCHANGED <<tries, ids, snap, crashes, memory, loose>>

RecoverUpdate(w) ==
    /\ mode[w] = "update"
    /\ LET lapsed == {j \in JobIds : status[j] = "running" /\ ~leased[j]} IN
         /\ status' = [j \in JobIds |-> IF j \in lapsed THEN "queued" ELSE status[j]]
         /\ owner' = [j \in JobIds |-> IF j \in lapsed THEN None ELSE owner[j]]
    /\ mode' = [mode EXCEPT ![w] = "select"]
    /\ UNCHANGED <<leased, tries, ids, snap, crashes, memory, loose>>

\* Mutant of RecoverSelect: the attempt that was interrupted is not counted.
RecoverSelectUncounted(w) ==
    /\ mode[w] = "select"
    /\ snap' = [snap EXCEPT ![w] =
                  {<<j, tries[j] - 1>> : j \in {i \in JobIds : status[i] = "queued"}}]
    /\ mode' = [mode EXCEPT ![w] = "adopt"]
    /\ UNCHANGED <<table, ids, crashes, memory, loose>>

RecoverSelect(w) ==
    /\ mode[w] = "select"
    /\ snap' = [snap EXCEPT ![w] =
                  {<<j, tries[j]>> : j \in {i \in JobIds : status[i] = "queued"}}]
    /\ mode' = [mode EXCEPT ![w] = "adopt"]
    /\ UNCHANGED <<table, ids, crashes, memory, loose>>

\* The rows read are adopted unless their job or their key is in memory, and
\* process() runs.
RecoverAdopt(w) ==
    /\ mode[w] = "adopt"
    /\ LET new == {r \in snap[w] : /\ phase[w][r[1]] \notin RunningPhases \cup {"pending"}
                                   /\ dedup[w][keyOf[r[1]]] = NoJob}
           rows == {r[1] : r \in new} IN
         /\ Continue(w, [j \in JobIds |-> IF j \in rows THEN "pending" ELSE phase[w][j]])
         /\ att' = [att EXCEPT ![w] = [j \in JobIds |->
                IF j \in rows THEN (CHOOSE r \in new : r[1] = j)[2] ELSE att[w][j]]]
         /\ dedup' = [dedup EXCEPT ![w] = [k \in Keys |->
                IF \E j \in rows : keyOf[j] = k
                  THEN CHOOSE j \in rows : keyOf[j] = k
                  ELSE dedup[w][k]]]
    /\ snap' = [snap EXCEPT ![w] = {}]
    /\ mode' = [mode EXCEPT ![w] = "ready"]
    /\ UNCHANGED <<table, ids, crashes, loose>>

\* recover() fails: logged, and only process() runs.
RecoverError(w) ==
    /\ "dberror" \in Faults
    /\ mode[w] \in {"update", "select"}
    /\ mode' = [mode EXCEPT ![w] = "ready"]
    /\ Continue(w, phase[w])
    /\ UNCHANGED <<att, dedup, table, ids, snap, crashes, loose>>

\* Process w dies: everything in its memory is gone.
Die(w) ==
    /\ mode' = [mode EXCEPT ![w] = "down"]
    /\ snap' = [snap EXCEPT ![w] = {}]
    /\ phase' = [phase EXCEPT ![w] = [j \in JobIds |-> "none"]]
    /\ att' = [att EXCEPT ![w] = [j \in JobIds |-> 0]]
    /\ dedup' = [dedup EXCEPT ![w] = [k \in Keys |-> NoJob]]
    /\ orphans' = [orphans EXCEPT ![w] = {}]
    /\ cancelling' = [cancelling EXCEPT ![w] = {}]
    /\ readding' = [readding EXCEPT ![w] = {}]
    /\ UNCHANGED <<table, ids>>

\* A crash, a SIGKILL, or the shutdown of server.js and worker.js, which exits
\* without waiting for the jobs.
Crash(w) ==
    /\ mode[w] # "down"
    /\ crashes < MaxCrashes
    /\ crashes' = crashes + 1
    /\ Die(w)

\* persistRetry would make a second row of the key active: error 23505 inside
\* catch(), an unhandled rejection.
RetryConflict(w, j) ==
    /\ phase[w][j] = "error"
    /\ att[w][j] < MaxAttempts
    /\ ~IndexAllows(j)
    /\ Die(w)
    /\ UNCHANGED crashes

Restart(w) ==
    /\ mode[w] = "down"
    /\ mode' = [mode EXCEPT ![w] = "update"]
    /\ UNCHANGED <<table, ids, snap, crashes, memory, loose>>

\* A lease runs out when nothing renews it.  Heartbeats come every third of a
\* lease while the handler runs, and the UPDATE that follows takes less than the
\* rest of it, unless the process stalls.
LeaseLapses(j) ==
    /\ status[j] = "running"
    /\ leased[j]
    /\ \/ "stall" \in Faults
       \/ phase[owner[j]][j] \notin {"exec", "done", "error"}
    /\ leased' = [leased EXCEPT ![j] = FALSE]
    /\ UNCHANGED <<status, owner, tries, ids, boot, memory, loose>>

-----------------------------------------------------------------------------
\* The continuations of job object j in process w.
JobStep(w, j) ==
    \/ InsertRow(w, j)
    \/ InsertConflict(w, j)
    \/ InsertError(w, j)
    \/ ConflictAdopts(w, j)
    \/ ConflictGone(w, j)
    \/ ClaimWon(w, j)
    \/ ClaimLost(w, j)
    \/ ClaimError(w, j)
    \/ HandlerDone(w, j)
    \/ HandlerFails(w, j)
    \/ HandlerTimeout(w, j)
    \/ PersistCompleted(w, j)
    \/ CompletedError(w, j)
    \/ PersistRetry(w, j)
    \/ RetryConflict(w, j)
    \/ PersistFailed(w, j)
    \/ Requeue(w, j)
    \/ Close(w, j)

\* The continuations of cancel() and retry().
AdminStep(w, j) ==
    \/ PersistCancelled(w, j)
    \/ CancelError(w, j)
    \/ Readd(w, j)

RecoverStep(w) ==
    \/ RecoverUpdate(w)
    \/ RecoverSelect(w)
    \/ RecoverAdopt(w)
    \/ RecoverError(w)

Next ==
    \/ \E w \in Workers, k \in Keys : Enqueue(w, k)
    \/ \E w \in Workers, j \in JobIds : JobStep(w, j)
    \/ \E w \in Workers, j \in JobIds : AdminStep(w, j)
    \/ \E w \in Workers, j \in JobIds : Heartbeat(w, j)
    \/ \E w \in Workers, j \in JobIds : OrphanEnds(w, j)
    \/ \E w \in Workers, j \in JobIds : Cancel(w, j)
    \/ \E w \in Workers, j \in JobIds : Repeat(w, j)
    \/ \E w \in Workers : RecoverStep(w)
    \/ \E w \in Workers : Crash(w)
    \/ \E w \in Workers : Restart(w)
    \/ \E j \in JobIds : LeaseLapses(j)

Spec == Init /\ [][Next]_vars

\* A query returns, a handler returns or its timer fires, the event loop runs
\* its continuations, a supervisor restarts a dead process and time passes.
\* Callers owe nothing: Enqueue, Cancel, Repeat and Crash have no fairness.
Fairness ==
    /\ \A w \in Workers, j \in JobIds :
         /\ WF_vars(JobStep(w, j))
         /\ WF_vars(AdminStep(w, j))
    /\ \A w \in Workers :
         /\ WF_vars(RecoverStep(w))
         /\ WF_vars(Restart(w))
    /\ \A j \in JobIds : WF_vars(LeaseLapses(j))

FairSpec == Spec /\ Fairness

-----------------------------------------------------------------------------
(***************************************************************************)
(* Properties                                                              *)
(***************************************************************************)

\* Types of the table, of each process's memory and of the bookkeeping.
TypeOK ==
    /\ status \in [JobIds -> Statuses]
    /\ owner \in [JobIds -> Workers \cup {None}]
    /\ leased \in [JobIds -> BOOLEAN]
    /\ tries \in [JobIds -> Nat]
    /\ created \in 0..MaxJobs
    /\ keyOf \in [JobIds -> Keys \cup {None}]
    /\ mode \in [Workers -> Modes]
    /\ snap \in [Workers -> SUBSET (JobIds \X Nat)]
    /\ crashes \in 0..MaxCrashes
    /\ phase \in [Workers -> [JobIds -> Phases]]
    /\ att \in [Workers -> [JobIds -> Nat]]
    /\ dedup \in [Workers -> [Keys -> JobIds \cup {NoJob}]]
    /\ orphans \in [Workers -> SUBSET JobIds]
    /\ cancelling \in [Workers -> SUBSET JobIds]
    /\ readding \in [Workers -> SUBSET JobIds]

\* What the unique index sees to: two rows of one dedupe key are never queued or
\* running (a part of KeyInv; the database enforces it, not the code).
OneActiveRowPerKey ==
    \A i, j \in JobIds :
        status[i] \in Active /\ status[j] \in Active /\ keyOf[i] = keyOf[j] => i = j

\* `deduplicated` and the job objects of a process agree in both directions: a
\* job in `pending`, in `running` or on its way there is the one its key maps to
\* (so a process never holds two jobs of a key), and a key that maps to a job
\* has that job in hand (so no key is blocked by a job that is gone).
DedupMatchesJobs ==
    \A w \in Workers :
        /\ \A j \in Held(w) : keyOf[j] \in Keys /\ dedup[w][keyOf[j]] = j
        /\ \A k \in Keys : dedup[w][k] # NoJob =>
              dedup[w][k] \in Held(w) /\ keyOf[dedup[w][k]] = k

\* Every caller that adds a job or frees a slot runs process(): outside of its
\* synchronous stretches a process that runs jobs is full or has none waiting,
\* and never above its concurrency.
SlotsUsedUp ==
    \A w \in Workers :
        /\ Cardinality(Running(phase[w])) <= Concurrency
        /\ w \in Processors /\ Cardinality(Running(phase[w])) < Concurrency
             => Pending(phase[w]) = {}

Executing(w, j) == phase[w][j] = "exec" \/ j \in orphans[w]

\* A job's handler runs in one place at a time: two processes, or two attempts,
\* never execute the same job at once.
ExclusiveExecution ==
    \A j \in JobIds, v, w \in Workers :
        /\ Executing(v, j) /\ Executing(w, j) => v = w
        /\ ~(phase[w][j] = "exec" /\ j \in orphans[w])

\* The process that runs a job, or is about to write its outcome, still owns the
\* row: the UPDATEs that name the row by id alone never hit the row of another.
HolderOwnsRow ==
    \A w \in Workers, j \in JobIds :
        phase[w][j] \in {"exec", "done", "error"} =>
            status[j] = "running" /\ owner[j] = w

\* No queued row is forgotten: some process has its job (or is about to take it
\* up because it collided with it), or some process has yet to read the queue.
QueuedIsHeld ==
    \A j \in JobIds : status[j] = "queued" =>
        \E w \in Workers :
            \/ phase[w][j] \in {"pending", "claim", "requeue"}
            \/ \E i \in JobIds : keyOf[i] = keyOf[j] /\ phase[w][i] \in {"insert", "conflict"}
            \/ mode[w] \in {"down", "update", "select"}
            \/ \E r \in snap[w] : r[1] = j

\* A job is given up only after MaxAttempts executions, over all processes.
FailedIsExhausted ==
    \A j \in JobIds : status[j] = "failed" => tries[j] >= MaxAttempts

\* A result, once recorded, stays: no late writer takes a completed job back.
CompletedIsFinal ==
    [][\A j \in JobIds : status[j] = "completed" => status'[j] = "completed"]_status

\* Every job an enqueue has put in the table ends, and every key a process holds
\* is given back, so that a later enqueue of it is not swallowed.
JobsSettle ==
    \A j \in JobIds : status[j] \in Active ~> status[j] \notin Active
KeysAreFreed ==
    \A w \in Workers, k \in Keys : dedup[w][k] # NoJob ~> dedup[w][k] = NoJob

\* A job whose process died is taken up again once the processes are back.
InterruptedIsRecovered ==
    \A j \in JobIds :
        status[j] = "running" /\ phase[owner[j]][j] = "none" ~> status[j] # "running"

-----------------------------------------------------------------------------
(***************************************************************************)
(* Refinement                                                              *)
(***************************************************************************)

\* Phases in which a process executes the job or is about to write its outcome.
Holding == {"exec", "done", "error"}

HolderOf(j) ==
    IF status[j] = "running" /\ phase[owner[j]][j] \in Holding THEN owner[j] ELSE None

Ledger == INSTANCE JobLedger WITH
    Holders <- Workers,
    Jobs    <- JobIds,
    state   <- status,
    key     <- [j \in JobIds |-> IF status[j] = "absent" THEN None ELSE keyOf[j]],
    holder  <- [j \in JobIds |-> HolderOf(j)]

\* The table, seen together with who really works on what, is a JobLedger: the
\* queue keeps its promise through crashes, restarts and time-outs as long as no
\* live process stalls for a whole lease, no query fails and nobody cancels or
\* repeats jobs by hand.
LedgerSpec == Ledger!LedgerSpec

\* No job is started while one that precedes it stays in `pending`.
PriorityRespected ==
    [][\A w \in Workers : \A i, j \in JobIds :
          /\ phase[w][j] # "claim"
          /\ phase'[w][j] = "claim"
          /\ phase'[w][i] = "pending"
          => ~(Before(i, j))']_<<phase, keyOf>>

-----------------------------------------------------------------------------
(***************************************************************************)
(* Strengthenings that make the properties inductive                       *)
(***************************************************************************)

\* Ids are drawn in order: one drawn has a key; of one not drawn there is no row,
\* and neither recover() nor an administrator has heard of it.
IdsInOrder ==
    \A j \in JobIds :
        /\ j <= created => keyOf[j] \in Keys
        /\ j > created =>
             /\ keyOf[j] = None
             /\ status[j] = "absent"
             /\ \A w \in Workers :
                  /\ j \notin cancelling[w] \cup readding[w]
                  /\ \A r \in snap[w] : r[1] # j

\* The rows that recover() has read have different keys, as they had when queued.
SnapKeysDiffer ==
    \A w \in Workers : \A r, s \in snap[w] : keyOf[r[1]] = keyOf[s[1]] => r = s

KeyInv ==
    /\ TypeOK
    /\ IdsInOrder
    /\ SnapKeysDiffer
    /\ OneActiveRowPerKey
    /\ DedupMatchesJobs

Undisturbed == Faults \subseteq {"timeout"}

\* A job about to be inserted has no row, and one process has it.
InsertIsFresh ==
    \A w \in Workers, j \in JobIds :
        phase[w][j] \in {"insert", "conflict"} =>
            /\ status[j] = "absent"
            /\ \A v \in Workers : phase[v][j] \in {"insert", "conflict"} => v = w

\* Who executes a job, or is about to write its outcome, has a lease on it.
HolderHasLease ==
    \A w \in Workers, j \in JobIds : phase[w][j] \in Holding => leased[j]

\* A running row names the process that claimed it.
RunningIsOwned ==
    \A j \in JobIds : status[j] = "running" => owner[j] \in Workers

LeaseFacts ==
    /\ InsertIsFresh
    /\ HolderOwnsRow
    /\ HolderHasLease
    /\ RunningIsOwned

\* Nobody has cancelled or repeated a job.
NobodyIntervenes ==
    \A w \in Workers : cancelling[w] = {} /\ readding[w] = {}

OwnInv == KeyInv /\ LeaseFacts /\ NobodyIntervenes

\* No job object, and no row that recover() has read, counts more attempts than
\* the row has.
AttemptsCounted ==
    \A w \in Workers :
        /\ \A j \in JobIds : att[w][j] <= tries[j]
        /\ \A r \in snap[w] : r[2] <= tries[r[1]]

AttemptInv ==
    /\ TypeOK
    /\ NobodyIntervenes
    /\ AttemptsCounted
    /\ FailedIsExhausted

\* Phases in which a process waits to execute the job.
Waiting == {"pending", "claim", "requeue"}

\* While no process dies, a queued row has no lease and a process that waits to
\* execute it, and a running row is held by the process that claimed it.
QueuedInHand ==
    \A j \in JobIds : status[j] = "queued" =>
        ~leased[j] /\ \E w \in Workers : phase[w][j] \in Waiting

RunningInHand ==
    \A j \in JobIds : status[j] = "running" => phase[owner[j]][j] \in Holding

HandInv == OwnInv /\ QueuedInHand /\ RunningInHand
=============================================================================
