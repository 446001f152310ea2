---------------------------- MODULE ReadingState ----------------------------
(***************************************************************************)
(* The reading state of a profile, one row that every device of the        *)
(* profile reads and writes whole (readingStateService.js, and its callers *)
(* in readingStateController.js and v1Routes.js; also integrityService.js  *)
(* and backupService.js, which write it without its version).              *)
(***************************************************************************)
EXTENDS Naturals

CONSTANTS Devices, MaxSaves   \* MaxSaves bounds the contents ever written

VARIABLES state,      \* the row: version (0: no row) and the save it shows
          seen,       \* per device: the row it has read, or nothing
          backup,     \* the row as the last backup has it
          saves,      \* contents written so far
          rewritten   \* the row was restored, repaired or removed: versions no longer tell
vars == <<state, seen, backup, saves, rewritten>>

NoRow == [version |-> 0, shows |-> 0]
Nothing == [version |-> MaxSaves + 1, shows |-> 0]

Init == /\ state = NoRow
        /\ seen = [d \in Devices |-> Nothing]
        /\ backup = NoRow
        /\ saves = 0
        /\ rewritten = FALSE

\* obterEstadoLeitura: by the device, or by the route that changes one book
\* of the state for it.
Read(d) == /\ seen' = [seen EXCEPT ![d] = state]
           /\ UNCHANGED <<state, backup, saves, rewritten>>

\* A slip: an update that leaves the version as it was.
KeepVersion == [version |-> IF state = NoRow THEN 1 ELSE state.version, shows |-> saves + 1]
\* INSERT ... ON CONFLICT: a row starts with version 1.
Upsert == [version |-> state.version + 1, shows |-> saves + 1]

\* The version that was read is expected; there is none in the empty state, and
\* none in the saves of a client that does not send it.
Expected(d, sent) == IF sent THEN seen[d].version ELSE 0
Save(d, sent) == /\ seen[d] # Nothing
                 /\ saves < MaxSaves
                 /\ \/ state = NoRow
                    \/ Expected(d, sent) \in {0, state.version}
                 /\ state' = Upsert
                 /\ saves' = saves + 1
                 /\ seen' = [seen EXCEPT ![d] = Nothing]
                 /\ UNCHANGED <<backup, rewritten>>

\* READING_STATE_CONFLICT, 409.
Conflict(d) == /\ seen[d] # Nothing
               /\ state # NoRow
               /\ Expected(d, TRUE) \notin {0, state.version}
               /\ seen' = [seen EXCEPT ![d] = Nothing]
               /\ UNCHANGED <<state, backup, saves, rewritten>>

Backup == backup' = state /\ UNCHANGED <<state, seen, saves, rewritten>>

Restore == /\ state' = backup
           /\ rewritten' = TRUE
           /\ UNCHANGED <<seen, backup, saves>>

\* remove-progress: the progress of files that are gone is taken out of the row.
Repair == /\ state # NoRow
          /\ saves < MaxSaves
          /\ state' = [state EXCEPT !.shows = saves + 1]
          /\ saves' = saves + 1
          /\ rewritten' = TRUE
          /\ UNCHANGED <<seen, backup>>

\* removerPerfil.
Remove == /\ state' = NoRow
          /\ rewritten' = TRUE
          /\ UNCHANGED <<seen, backup, saves>>

Next == \/ Backup \/ Restore \/ Repair \/ Remove
        \/ \E d \in Devices : Read(d) \/ Conflict(d) \/ \E sent \in BOOLEAN : Save(d, sent)
Spec == Init /\ [][Next]_vars

Row == [version : 0..MaxSaves, shows : 0..MaxSaves]
TypeOK == /\ state \in Row
          /\ seen \in [Devices -> Row \cup {Nothing}]
          /\ backup \in Row
          /\ saves \in 0..MaxSaves
          /\ rewritten \in BOOLEAN

\* A save that names the version it has read replaces exactly that state: nothing
\* another device saved in between is lost. It takes two things the code does not
\* rule out: a device that has read the empty state names no version, and a
\* restore, a repair or a removed profile gives a version a second content
\* (readingStateService.js:6, integrityService.js:42).
NothingLost ==
  [][\A d \in Devices : Save(d, TRUE) => rewritten \/ seen[d].version = 0 \/ seen[d] = state]_vars
=============================================================================
