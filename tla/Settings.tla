------------------------------ MODULE Settings ------------------------------
(***************************************************************************)
(* The global settings: the rows of app_settings, the copy of them in      *)
(* Redis, and administrators who look at a page of settings and save or    *)
(* reset it (settingsService.js).  Two settings are enough.  Every one has *)
(* the category "security", so one copy stands for both keys of Redis.     *)
(* saveSecurityConfig reads the settings once more, only to refuse cookies *)
(* with SameSite=None that are not Secure, and calls setSettings with the  *)
(* version of the page: here a page that is read and left, and a Save.     *)
(***************************************************************************)
EXTENDS Integers, FiniteSets

CONSTANTS Admins, MaxWritten, MaxResets

VARIABLES rows,    \* app_settings; version 0 is a key without a row
          resets,  \* how often each setting was reset (history)
          copy,    \* the rows in Redis, a set of at most one snapshot
          admin    \* what each administrator's requests hold

settingsVars == <<rows, resets, copy, admin>>

Keys == {"sameSite", "secure"}
Unset == [value |-> FALSE, version |-> 0]
Snapshot == [rows |-> rows, resets |-> resets]

Newest(r) == CHOOSE v \in {r[k].version : k \in Keys} :
                \A k \in Keys : r[k].version <= v

Written(r) == r["sameSite"].version + r["secure"].version

\* What saving the keys `changed` makes of the rows r: nothing compares the values
\* of different keys, so one stands for what a request sends.
Upsert(r, changed, value) ==
  [k \in Keys |-> IF k \in changed
                  THEN [value |-> value, version |-> r[k].version + 1]
                  ELSE r[k]]

Nothing == [rows |-> [k \in Keys |-> Unset], resets |-> [k \in Keys |-> 0]]

Init ==
  /\ rows = [k \in Keys |-> Unset]
  /\ resets = [k \in Keys |-> 0]
  /\ copy = {}
  /\ admin = [a \in Admins |-> [at |-> "idle", seen |-> Nothing]]

At(a, place) == admin[a].at = place
Goto(a, place) == admin' = [admin EXCEPT ![a].at = place]
Done(a, place) == admin' = [admin EXCEPT ![a] = [at |-> place, seen |-> Nothing]]

ReadCopy(a) ==
  /\ At(a, "idle")
  /\ \E s \in copy :
       admin' = [admin EXCEPT ![a] = [at |-> "shown", seen |-> s]]
  /\ UNCHANGED <<rows, resets, copy>>

ReadRows(a) ==
  /\ At(a, "idle")
  /\ copy = {}
  /\ admin' = [admin EXCEPT ![a] = [at |-> "queried", seen |-> Snapshot]]
  /\ UNCHANGED <<rows, resets, copy>>

\* Redis keeps what was read, however long ago that was.
Fill(a) ==
  /\ At(a, "queried")
  /\ copy' = {admin[a].seen}
  /\ Goto(a, "shown")
  /\ UNCHANGED <<rows, resets>>

FillNothing(a) ==
  At(a, "queried") /\ Goto(a, "shown") /\ UNCHANGED <<rows, resets, copy>>

\* The save is conditional on the version the page showed, or unconditional.
AlwaysUpToDate(a, conditional) == TRUE
UpToDate(a, conditional) ==
  conditional => Newest(admin[a].seen.rows) = Newest(rows)

\* The request with expectedVersion, or without, has been committed.
Sent(a, conditional) == Done(a, IF conditional THEN "checked" ELSE "forced")

\* Transactions with the advisory lock and all rows locked: one step each.
Save(a) ==
  /\ At(a, "shown")
  /\ \E changed \in SUBSET Keys \ {{}}, value \in BOOLEAN, conditional \in BOOLEAN :
       /\ UpToDate(a, conditional)
       /\ rows' = Upsert(rows, changed, value)
       /\ Written(rows') <= MaxWritten
       /\ Sent(a, conditional)
  /\ UNCHANGED <<resets, copy>>

Reset(a) ==
  /\ At(a, "shown")
  /\ \E keys \in SUBSET Keys \ {{}}, conditional \in BOOLEAN :
       /\ UpToDate(a, conditional)
       /\ rows' = [k \in Keys |-> IF k \in keys THEN Unset ELSE rows[k]]
       /\ resets' = [k \in Keys |-> IF k \in keys THEN resets[k] + 1 ELSE resets[k]]
       /\ resets'["sameSite"] + resets'["secure"] <= MaxResets
       /\ Sent(a, conditional)
  /\ UNCHANGED copy

\* Refused (409, 400), given up, or the page is closed.
Leave(a) ==
  /\ At(a, "shown")
  /\ Done(a, "idle")
  /\ UNCHANGED <<rows, resets, copy>>

Invalidate(a) ==
  /\ admin[a].at \in {"checked", "forced"}
  /\ copy' = {}
  /\ Done(a, "idle")
  /\ UNCHANGED <<rows, resets>>

\* The process stops after the commit: nothing invalidates the copy.
StopBeforeInvalidating(a) ==
  /\ admin[a].at \in {"checked", "forced"}
  /\ Done(a, "idle")
  /\ UNCHANGED <<rows, resets, copy>>

NeverExpire == FALSE /\ UNCHANGED settingsVars
Expire == copy # {} /\ copy' = {} /\ UNCHANGED <<rows, resets, admin>>

Next ==
  \/ \E a \in Admins :
       \/ ReadCopy(a) \/ ReadRows(a) \/ Fill(a) \/ FillNothing(a)
       \/ Save(a) \/ Reset(a) \/ Leave(a)
       \/ Invalidate(a) \/ StopBeforeInvalidating(a)
  \/ Expire

\* Requests that have begun go on, and the copy lives as long as it may.
GoOn(a) == Fill(a) \/ FillNothing(a) \/ Invalidate(a) \/ StopBeforeInvalidating(a)
Fairness == WF_settingsVars(Expire) /\ \A a \in Admins : WF_settingsVars(GoOn(a))

Spec == Init /\ [][Next]_settingsVars /\ Fairness

Snapshots == [rows : [Keys -> [value : BOOLEAN, version : 0..MaxWritten]],
              resets : [Keys -> Nat]]

TypeOK ==
  /\ Snapshot \in Snapshots
  /\ copy \in SUBSET Snapshots /\ Cardinality(copy) <= 1
  /\ admin \in [Admins -> [at : {"idle", "queried", "shown", "checked", "forced"},
                           seen : Snapshots]]

\* What a request conditional on the version of its page changes is as the page
\* showed it: administration-security-settings.md:18 says that a version that
\* differs is refused, so that nobody overwrites a concurrent change.
ConflictsAreRefused ==
  [][\A a \in Admins :
       At(a, "shown") /\ admin[a]'.at = "checked"
         => \A k \in Keys : rows'[k] # rows[k] => rows[k] = admin[a].seen.rows[k]
    ]_settingsVars

\* What the version does promise (settingsService.js:61-62, 82-83).  It is the
\* maximum over the rows: it does not move when a row that is not the newest is
\* written, and goes back when the newest is reset.  So a conditional save or
\* reset goes through only if the newest settings of its page are still as the
\* page showed them, those that were reset since excepted.
VersionGuardsNewest ==
  [][\A a \in Admins :
       At(a, "shown") /\ admin[a]'.at = "checked"
         => LET page == admin[a].seen
            IN  \A k \in Keys :
                  page.rows[k].version = Newest(page.rows) /\ page.resets[k] = resets[k]
                    => rows[k] = page.rows[k]]_settingsVars

\* Once nobody writes any more, the copy comes to agree with the rows, though a
\* reader may fill it with rows read before a write, after that write's
\* invalidation: the copy lives 300 seconds (settingsService.js:34).
CopyConverges == <>[](\A s \in copy : s = Snapshot)
=============================================================================
