------------------------- MODULE ReadingStateProofs -------------------------
(***************************************************************************)
(* Why no save of a device is lost in ReadingState, for any devices and    *)
(* any number of saves: as long as nothing but saves has written the row,  *)
(* its version only grows, so a version that was read stands for what was  *)
(* read with it.                                                           *)
(***************************************************************************)
EXTENDS ReadingState, TLAPS

Content == [version : Nat, shows : Nat]

\* What a device has read is older than the row, or the row itself.
IsPast(s) == /\ s.version <= state.version
             /\ s.version = state.version => s = state

IInv == /\ state \in Content
        /\ backup \in Content
        /\ seen \in [Devices -> Content]
        /\ saves \in Nat
        /\ rewritten \in BOOLEAN
        /\ \A d \in Devices : seen[d] # Nothing => rewritten \/ IsPast(seen[d])

LEMMA ReadInitially == ASSUME MaxSaves \in Nat, Init PROVE IInv
  <1>1. Nothing \in Content /\ NoRow \in Content
    BY DEF Nothing, NoRow, Content
  <1>2. seen \in [Devices -> Content] /\ \A d \in Devices : seen[d] = Nothing
    BY <1>1 DEF Init
  <1>3. QED
    BY <1>1, <1>2 DEF Init, IInv

\* A save of one device leaves what the others have read behind the row.
LEMMA SaveKeepsPast ==
    ASSUME MaxSaves \in Nat, IInv, NEW d \in Devices, NEW sent \in BOOLEAN, Save(d, sent)
    PROVE  IInv'
  <1>1. /\ state' = [version |-> state.version + 1, shows |-> saves + 1]
        /\ saves' = saves + 1
        /\ seen' = [seen EXCEPT ![d] = Nothing]
        /\ backup' = backup /\ rewritten' = rewritten
    BY DEF Save, Upsert
  <1>2. /\ state' \in Content /\ saves' \in Nat /\ backup' \in Content
        /\ Nothing \in Content /\ rewritten' \in BOOLEAN
        /\ state'.version = state.version + 1
    BY <1>1 DEF IInv, Content, Nothing
  <1>3. seen' \in [Devices -> Content]
    BY <1>1, <1>2 DEF IInv
  <1>4. ASSUME NEW e \in Devices, seen'[e] # Nothing
        PROVE  rewritten' \/ IsPast(seen[e])'
    <2>1. seen'[e] = seen[e] /\ seen[e] # Nothing
      BY <1>1, <1>4 DEF IInv
    <2>2. seen[e] \in Content /\ state \in Content
      BY DEF IInv
    <2>3. rewritten \/ seen[e].version <= state.version
      BY <2>1 DEF IInv, IsPast
    <2>4. rewritten \/ seen[e].version < state'.version
      BY <2>2, <2>3, <1>2 DEF Content
    <2>5. QED
      BY <1>1, <1>2, <2>1, <2>2, <2>4 DEF IsPast, Content
  <1>5. QED
    BY <1>2, <1>3, <1>4 DEF IInv

LEMMA StepKeepsPast == ASSUME MaxSaves \in Nat, IInv, [Next]_vars PROVE IInv'
  <1>1. ASSUME NEW d \in Devices, Read(d) PROVE IInv'
    BY <1>1 DEF Read, IInv, IsPast, Content, Nothing
  <1>2. ASSUME NEW d \in Devices, Conflict(d) PROVE IInv'
    BY <1>2 DEF Conflict, IInv, IsPast, Content, Nothing
  <1>3. ASSUME NEW d \in Devices, NEW sent \in BOOLEAN, Save(d, sent) PROVE IInv'
    BY <1>3, SaveKeepsPast
  <1>4. CASE Backup
    BY <1>4 DEF Backup, IInv, IsPast
  <1>5. CASE Restore
    BY <1>5 DEF Restore, IInv, IsPast
  <1>6. CASE Repair
    BY <1>6 DEF Repair, IInv, IsPast, Content
  <1>7. CASE Remove
    BY <1>7 DEF Remove, IInv, IsPast, Content, NoRow
  <1>8. CASE UNCHANGED vars
    BY <1>8 DEF vars, IInv, IsPast
  <1>9. QED
    BY <1>1, <1>2, <1>3, <1>4, <1>5, <1>6, <1>7, <1>8 DEF Next

\* Before a save that names a version, the row is what that version was read of.
LEMMA SaveOfVersion ==
    ASSUME IInv, NEW d \in Devices, Save(d, TRUE)
    PROVE  rewritten \/ seen[d].version = 0 \/ seen[d] = state
  <1>1. state = NoRow \/ seen[d].version \in {0, state.version}
    BY DEF Save, Expected
  <1>2. seen[d] # Nothing
    BY DEF Save
  <1>3. seen[d] \in Content /\ (rewritten \/ IsPast(seen[d]))
    BY <1>2 DEF IInv
  <1>4. CASE state = NoRow
    BY <1>3, <1>4 DEF IsPast, NoRow, Content
  <1>5. CASE seen[d].version \in {0, state.version}
    BY <1>3, <1>5 DEF IsPast
  <1>6. QED
    BY <1>1, <1>4, <1>5

\* A save that names the version it has read replaces exactly that state, for any
\* number of devices, saves, backups, restores and repairs
\* (readingStateService.js:6).
THEOREM NoSaveLost == ASSUME MaxSaves \in Nat PROVE Spec => NothingLost
  <1>1. Init => IInv
    BY ReadInitially
  <1>2. IInv /\ [Next]_vars => IInv'
    BY StepKeepsPast
  <1>3. IInv /\ [Next]_vars =>
          [\A d \in Devices : Save(d, TRUE) => rewritten \/ seen[d].version = 0
                                               \/ seen[d] = state]_vars
    BY SaveOfVersion
  <1>4. QED
    BY <1>1, <1>2, <1>3, PTL DEF Spec, NothingLost
=============================================================================
