----------------------------- MODULE Catalogue -----------------------------
(***************************************************************************)
(* How a process answers for the list of books: the copy in its memory,    *)
(* the index in the database, the one reconciliation that runs at a time,  *)
(* and the requests that read, fill and wait (driveService.js 544-635,     *)
(* 1096-1099).  The sources, a listing, the index and an answer are named  *)
(* by the version of the sources they show; version 0 is no book at all.   *)
(***************************************************************************)
EXTENDS Naturals

CONSTANTS Requests, Flights, MaxChanges

VARIABLES sources,   \* the version of the files in the libraries
          shown,     \* the version in library_files
          memory,    \* cache.get('livros'): at most one version
          flight,    \* reconciliations of the process, running or not
          current,   \* reconciliacaoCatalogo: the ones to share, at most one
          request    \* requests for the list

catalogueVars == <<sources, shown, memory, flight, current, request>>

NoFlight == [at |-> "none", listed |-> 0]
NoRequest == [at |-> "idle", read |-> 0, shares |-> {}]

Init ==
  /\ sources = 1
  /\ shown = 0
  /\ memory = {}
  /\ flight = [f \in Flights |-> NoFlight]
  /\ current = {}
  /\ request = [r \in Requests |-> NoRequest]

SourcesChange ==
  /\ sources < MaxChanges
  /\ sources' = sources + 1
  /\ UNCHANGED <<shown, memory, flight, current, request>>

\* reconciliarCatalogo: share the promise, or start one.
Shared(f) == IF current # {} THEN f \in current ELSE flight[f].at = "none"
Start(f) ==
  /\ current' = {f}
  /\ flight' = IF current # {} THEN flight
               ELSE [flight EXCEPT ![f] = [at |-> "listing", listed |-> 0]]

Wait(r, f) ==
  /\ Shared(f) /\ Start(f)
  /\ request' = [request EXCEPT ![r] =
                   [at |-> "waiting", read |-> 0, shares |-> {f}]]

\* A request finds nothing in memory and nothing in the index.
AskUnknown(r) ==
  /\ request[r].at = "idle"
  /\ memory = {} /\ shown = 0
  /\ \E f \in Flights : Wait(r, f)
  /\ UNCHANGED <<sources, shown, memory>>

\* forceRefresh, or a job that runs atualizarCatalogo and drops the copy first.
Refresh(r) ==
  /\ request[r].at = "idle"
  /\ \E f \in Flights : Wait(r, f)
  /\ memory' \in {memory, {}}
  /\ UNCHANGED <<sources, shown>>

\* Nothing in memory: the index is read, and the rows of livros after it.
ReadIndex(r) ==
  /\ request[r].at = "idle"
  /\ memory = {} /\ shown > 0
  /\ request' = [request EXCEPT ![r] =
                   [at |-> "assembling", read |-> shown, shares |-> {}]]
  /\ UNCHANGED <<sources, shown, memory, flight, current>>

\* A slip: the index is taken for the sources.
AnswerOnly(r) ==
  /\ request[r].at = "assembling"
  /\ memory' = {request[r].read}
  /\ request' = [request EXCEPT ![r] = NoRequest]
  /\ UNCHANGED <<sources, shown, flight, current>>

\* The answer goes to memory, and a reconciliation nobody waits for is begun.
AnswerFromIndex(r) ==
  /\ request[r].at = "assembling"
  /\ memory' = {request[r].read}
  /\ request' = [request EXCEPT ![r] = NoRequest]
  /\ \E f \in Flights : Shared(f) /\ Start(f)
  /\ UNCHANGED <<sources, shown>>

\* A slip: others may start once the sources are listed.
DiscoverAndRelease(f) ==
  /\ flight[f].at = "listing"
  /\ flight' = [flight EXCEPT ![f] = [at |-> "listed", listed |-> sources]]
  /\ current' = current \ {f}
  /\ UNCHANGED <<sources, shown, memory, request>>

Discover(f) ==
  /\ flight[f].at = "listing"
  /\ flight' = [flight EXCEPT ![f] = [at |-> "listed", listed |-> sources]]
  /\ UNCHANGED <<sources, shown, memory, current, request>>

\* sincronizarIndiceLivros, one transaction.
Index(f) ==
  /\ flight[f].at = "listed"
  /\ shown' = flight[f].listed
  /\ flight' = [flight EXCEPT ![f].at = "indexed"]
  /\ UNCHANGED <<sources, memory, current, request>>

Land(f) ==
  /\ flight' = [flight EXCEPT ![f] = NoFlight]
  /\ current' = current \ {f}
  /\ request' = [r \in Requests |->
                   IF f \in request[r].shares THEN NoRequest ELSE request[r]]

Finish(f) ==
  /\ flight[f].at = "indexed"
  /\ memory' = {flight[f].listed}
  /\ Land(f)
  /\ UNCHANGED <<sources, shown>>

\* Any of its calls throws; who waits is told, who did not is not.
Fail(f) ==
  /\ flight[f].at # "none"
  /\ Land(f)
  /\ UNCHANGED <<sources, shown, memory>>

\* The copy is too old, or limparCache dropped it after a login or a restore.
Forget ==
  /\ memory # {}
  /\ memory' = {}
  /\ UNCHANGED <<sources, shown, flight, current, request>>

Next ==
  \/ SourcesChange \/ Forget
  \/ \E r \in Requests :
       AskUnknown(r) \/ Refresh(r) \/ ReadIndex(r) \/ AnswerFromIndex(r)
  \/ \E f \in Flights : Discover(f) \/ Index(f) \/ Finish(f) \/ Fail(f)

\* Requests and timers are served; a reconciliation that is tried again and
\* again does not fail each time.
Fairness ==
  /\ WF_catalogueVars(Forget)
  /\ \A r \in Requests : WF_catalogueVars(AnswerFromIndex(r))
  /\ SF_catalogueVars(\E f \in Flights : Discover(f))
  /\ SF_catalogueVars(\E f \in Flights : Index(f))
  /\ SF_catalogueVars(\E f \in Flights : Finish(f))

Spec == Init /\ [][Next]_catalogueVars /\ Fairness

TypeOK ==
  /\ sources \in 1..MaxChanges /\ shown \in 0..MaxChanges
  /\ memory \in SUBSET (1..MaxChanges)
  /\ flight \in [Flights -> [at : {"none", "listing", "listed", "indexed"},
                             listed : 0..MaxChanges]]
  /\ current \in SUBSET Flights
  /\ request \in [Requests -> [at : {"idle", "assembling", "waiting"},
                               read : 0..MaxChanges, shares : SUBSET Flights]]

\* The index never returns to an older state of the sources: whoever asks while
\* a reconciliation runs shares it, so a slow one cannot write its list over
\* that of a later one (driveService.js:593-608).
IndexNeverGoesBack == [][shown' >= shown]_catalogueVars

\* When the sources change no more, what the memory answers is in the end what
\* they hold: an old answer that a slow request or a late reconciliation puts
\* there is followed by a reconciliation that mends it (driveService.js:621-629).
ListConverges == <>[](memory \subseteq {sources})
=============================================================================
