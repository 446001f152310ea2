------------------------------ MODULE Watcher ------------------------------
(***************************************************************************)
(* The servers that start and stop, the one of them that watches the local *)
(* library while its database session holds the advisory lock, and what    *)
(* makes a change of the files reach the catalogue: the watcher, the start *)
(* of a server, the timer of the maintenance (server.js, libraryWatcher.js,*)
(* maintenanceJobs.js, jobQueueService.js, database/postgres.js).          *)
(***************************************************************************)
EXTENDS Naturals, FiniteSets

CONSTANTS Servers, MaxFileChanges

VARIABLES place,    \* how far each server has started or stopped
          watching, \* chokidar of each server
          owner,    \* the servers whose session holds the lock
          lost,     \* servers that watch without knowing their session is gone
          noticed,  \* mudancasPendentes and its timer
          behind,   \* the catalogue has not listed the files as they are
          job,      \* the active row catalog-reconcile of the queue
          holders,  \* the servers that have it in memory, to run it or running it
          edits     \* (bound)

queueVars == <<job, holders>>
watcherVars == <<place, watching, owner, lost, noticed, behind, queueVars, edits>>

\* "overtaken": files have changed while it runs.  "orphan": its server is gone or could
\* not write its end, and its lease has not ended; "lapsed": it has.  While a server
\* lives its heartbeat keeps the lease.
Jobs == {"none", "queued", "running", "overtaken", "orphan", "lapsed"}
Running == job \in {"running", "overtaken"}

Init ==
  /\ place = [s \in Servers |-> "down"]
  /\ watching = [s \in Servers |-> "no"]
  /\ owner = {} /\ lost = {}
  /\ noticed = [s \in Servers |-> FALSE]
  /\ behind = TRUE /\ job = "none" /\ holders = {} /\ edits = 0

Goto(s, there) == place' = [place EXCEPT ![s] = there]
Watch(s, how) == watching' = [watching EXCEPT ![s] = how]

\* enqueue: a new row, or the queued row of another server is held too; what runs, or
\* has run on a server that is gone, cannot be claimed and the request ends with null.
Ask(s) ==
  IF job \in {"none", "queued"} THEN job' = "queued" /\ holders' = holders \cup {s}
                                ELSE UNCHANGED queueVars
AskOrFail(s) == Ask(s) \/ UNCHANGED queueVars

\* recover, when the handler is registered: a queued row, or a row whose lease has
\* ended, is held; a failing query is only logged.
Recover(s) ==
  \/ job \in {"queued", "lapsed"} /\ job' = "queued" /\ holders' = holders \cup {s}
  \/ UNCHANGED queueVars

\* The handlers, the migrations, createApp.
Start(s) ==
  /\ place[s] = "down"
  /\ Recover(s)
  /\ Goto(s, "starting")
  /\ UNCHANGED <<watching, owner, lost, noticed, behind, edits>>

\* iniciarObservadorBiblioteca and pg_try_advisory_lock; then the timers start and
\* the reconciliation of the start is asked for, which may fail.
Claim(s) ==
  /\ place[s] = "starting"
  /\ IF owner = {} THEN owner' = {s} /\ Watch(s, "scanning")
                   ELSE UNCHANGED <<owner, watching>>
  /\ AskOrFail(s)
  /\ Goto(s, "up")
  /\ UNCHANGED <<lost, noticed, behind, edits>>

\* What changes during the first scan counts as found by it (ignoreInitial).
Scanned(s) ==
  /\ watching[s] = "scanning"
  /\ Watch(s, "ready")
  /\ UNCHANGED <<place, owner, lost, noticed, behind, queueVars, edits>>

FilesChange ==
  /\ edits < MaxFileChanges /\ edits' = edits + 1
  /\ behind' = TRUE
  /\ job' = IF job = "running" THEN "overtaken" ELSE job
  /\ noticed' = [s \in Servers |-> noticed[s] \/ watching[s] = "ready"]
  /\ UNCHANGED <<place, watching, owner, lost, holders>>

\* The debounce ends; when the job cannot be queued the changes are dropped.
Debounced(s) ==
  /\ noticed[s]
  /\ noticed' = [noticed EXCEPT ![s] = FALSE]
  /\ AskOrFail(s)
  /\ UNCHANGED <<place, watching, owner, lost, behind, edits>>

\* A slip: the maintenance leaves the files to the watcher.
PeriodicUnwatched(s) ==
  /\ place[s] = "up" /\ owner = {}
  /\ Ask(s)
  /\ UNCHANGED <<place, watching, owner, lost, noticed, behind, edits>>
Periodic(s) ==
  /\ place[s] = "up"
  /\ Ask(s)
  /\ UNCHANGED <<place, watching, owner, lost, noticed, behind, edits>>

\* claim: one of those that hold the row gets it, and the others leave it.
Begin(s) ==
  /\ job = "queued" /\ s \in holders
  /\ job' = "running" /\ holders' = {s}
  /\ UNCHANGED <<place, watching, owner, lost, noticed, behind, edits>>

\* The files that change while it runs may be listed or not.
Reconcile(s) ==
  /\ Running /\ s \in holders
  /\ behind' \in {FALSE, job = "overtaken"}
  /\ job' = "none" /\ holders' = {}
  /\ UNCHANGED <<place, watching, owner, lost, noticed, edits>>

\* It is tried again, or failed for good, or the query that says so fails.
ReconcileFails(s) ==
  /\ Running /\ s \in holders
  /\ \/ job' = "queued" /\ UNCHANGED holders
     \/ job' \in {"none", "orphan"} /\ holders' = {}
  /\ UNCHANGED <<place, watching, owner, lost, noticed, behind, edits>>

\* Time passes, and the lease of a row without a server ends.
Lapse ==
  /\ job = "orphan" /\ job' = "lapsed"
  /\ UNCHANGED <<place, watching, owner, lost, noticed, behind, holders, edits>>

\* shutdown: the timers are cleared and the pending changes forgotten.
Terminate(s) ==
  /\ place[s] = "up"
  /\ noticed' = [noticed EXCEPT ![s] = FALSE]
  /\ Goto(s, "stopping")
  /\ UNCHANGED <<watching, owner, lost, behind, queueVars, edits>>

\* A slip: the watcher is left to be closed with the process.
CloseLater(s) ==
  /\ place[s] = "stopping"
  /\ Goto(s, "closed")
  /\ UNCHANGED <<watching, owner, lost, noticed, behind, queueVars, edits>>
CloseWatcher(s) ==
  /\ place[s] = "stopping"
  /\ Watch(s, "no")
  /\ Goto(s, "closed")
  /\ UNCHANGED <<owner, lost, noticed, behind, queueVars, edits>>

\* releaseOwnership: pg_advisory_unlock.
Release(s) ==
  /\ place[s] = "closed"
  /\ owner' = owner \ {s}
  /\ Goto(s, "released")
  /\ UNCHANGED <<watching, lost, noticed, behind, queueVars, edits>>

\* The last connections and the pool are closed and the process exits, or it
\* dies anywhere: the database ends its session.
Gone(s) ==
  /\ Goto(s, "down") /\ Watch(s, "no")
  /\ owner' = owner \ {s} /\ lost' = lost \ {s}
  /\ noticed' = [noticed EXCEPT ![s] = FALSE]
  /\ job' = IF Running /\ s \in holders THEN "orphan" ELSE job
  /\ holders' = holders \ {s}
  /\ UNCHANGED <<behind, edits>>
Exit(s) == place[s] = "released" /\ Gone(s)
Die(s) == place[s] # "down" /\ Gone(s)

\* The database ends the session and the process does not hear of it.
LoseSession(s) ==
  /\ s \in owner /\ watching[s] # "no"
  /\ owner' = {} /\ lost' = lost \cup {s}
  /\ UNCHANGED <<place, watching, noticed, behind, queueVars, edits>>

Advance(s) == Start(s) \/ Claim(s) \/ CloseWatcher(s) \/ Release(s) \/ Exit(s)

Next ==
  \/ \E s \in Servers :
       \/ Advance(s) \/ Scanned(s) \/ Debounced(s) \/ Periodic(s)
       \/ Begin(s) \/ Reconcile(s) \/ ReconcileFails(s)
       \/ Terminate(s) \/ Die(s) \/ LoseSession(s)
  \/ FilesChange \/ Lapse

\* Servers are started again, jobs that fail are asked for again and again, and what is
\* asked for is not cut short by a death every time.
Fairness ==
  /\ \A s \in Servers : WF_watcherVars(Advance(s))
  /\ WF_watcherVars(Lapse)
  /\ SF_watcherVars(\E s \in Servers : Claim(s))
  /\ SF_watcherVars(\E s \in Servers : Periodic(s))
  /\ SF_watcherVars(\E s \in Servers : Begin(s))
  /\ SF_watcherVars(\E s \in Servers : Reconcile(s))

Spec == Init /\ [][Next]_watcherVars /\ Fairness

TypeOK ==
  /\ place \in [Servers -> {"down", "starting", "up", "stopping", "closed",
                            "released"}]
  /\ watching \in [Servers -> {"no", "scanning", "ready"}]
  /\ owner \subseteq Servers /\ lost \subseteq Servers
  /\ noticed \in [Servers -> BOOLEAN]
  /\ behind \in BOOLEAN /\ edits \in 0..MaxFileChanges
  /\ job \in Jobs /\ holders \subseteq Servers

\* One server watches at a time, through starts, stops and deaths, unless the
\* database has ended the session of another that still watches: a server that
\* stops gives the lock away after its watcher is closed (libraryWatcher.js:58-62).
OneWatcher == Cardinality({s \in Servers : watching[s] # "no"} \ lost) <= 1

\* Files that change no more are listed in the end, whatever the watcher missed:
\* changes during its first scan or while a reconciliation runs, or pending when it
\* stopped, or of a job that could not be queued, or while no server that is up owns the
\* lock, which none asks for again (maintenanceJobs.js:28-31, libraryWatcher.js:54-57).
\* But a reconciliation whose server is gone keeps its row, and with it every other from
\* being queued, until a server starts after the lease (jobQueueService.js:25-33).
ChangesAreListed == <>[](~behind) \/ <>[](job = "lapsed")
=============================================================================
