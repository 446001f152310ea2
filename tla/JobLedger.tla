------------------------------ MODULE JobLedger ------------------------------
(***************************************************************************)
(* What the job queue promises, whoever the processes are and however they *)
(* talk to the table: a job waits, is taken by one holder, and only that   *)
(* holder ends it or puts it back; a holder may be lost, and only then may *)
(* others put its jobs back; a result is final; and no two jobs of a key   *)
(* are waiting or taken at once.  JobQueue implements this module (the     *)
(* definition Ledger there) as long as its leases and outcomes are         *)
(* undisturbed.                                                            *)
(***************************************************************************)
EXTENDS Naturals

CONSTANTS Holders, Keys, Jobs, None

VARIABLES
    state,      \* of each job, named as the status column of its row
    key,        \* its key, None before it is submitted
    holder      \* who executes it or is about to record its outcome

ledger == <<state, key, holder>>

Open == {"queued", "running"}

LedgerInit ==
    /\ state = [j \in Jobs |-> "absent"]
    /\ key = [j \in Jobs |-> None]
    /\ holder = [j \in Jobs |-> None]

Submit(j, k) ==
    /\ state[j] = "absent"
    /\ \A i \in Jobs : key[i] = k => state[i] \notin Open
    /\ state' = [state EXCEPT ![j] = "queued"]
    /\ key' = [key EXCEPT ![j] = k]
    /\ UNCHANGED holder

Take(h, j) ==
    /\ state[j] = "queued"
    /\ state' = [state EXCEPT ![j] = "running"]
    /\ holder' = [holder EXCEPT ![j] = h]
    /\ UNCHANGED key

\* The holder records the outcome s, or puts the job back.
Settle(h, j, s) ==
    /\ state[j] = "running"
    /\ holder[j] = h
    /\ state' = [state EXCEPT ![j] = s]
    /\ holder' = [holder EXCEPT ![j] = None]
    /\ UNCHANGED key

\* A holder is lost, with all it held.
Lose(h) ==
    /\ holder' = [j \in Jobs |-> IF holder[j] = h THEN None ELSE holder[j]]
    /\ UNCHANGED <<state, key>>

\* Jobs without a holder go back to the queue.
Reclaim ==
    \E S \in SUBSET {j \in Jobs : state[j] = "running" /\ holder[j] = None} :
        /\ state' = [j \in Jobs |-> IF j \in S THEN "queued" ELSE state[j]]
        /\ UNCHANGED <<key, holder>>

LedgerNext ==
    \/ \E j \in Jobs, k \in Keys : Submit(j, k)
    \/ \E h \in Holders, j \in Jobs : Take(h, j)
    \/ \E h \in Holders, j \in Jobs :
          \E s \in {"queued", "completed", "failed"} : Settle(h, j, s)
    \/ \E h \in Holders : Lose(h)
    \/ Reclaim

LedgerSpec == LedgerInit /\ [][LedgerNext]_ledger
=============================================================================
