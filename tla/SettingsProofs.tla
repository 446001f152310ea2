--------------------------- MODULE SettingsProofs ---------------------------
(***************************************************************************)
(* What the version of a page of settings promises, for any administrators *)
(* and any number of saves: between resets the version of a row only       *)
(* grows, so a row that still has the version it had is still that row.    *)
(***************************************************************************)
EXTENDS Settings, TLAPS

Setting == [value : BOOLEAN, version : Nat]
Page == [rows : [Keys -> Setting], resets : [Keys -> Nat]]

\* Each setting was reset since the page was read, or its row is older or the same.
IsPast(s) ==
  /\ s \in Page
  /\ \A k \in Keys :
       /\ s.resets[k] <= resets[k]
       /\ s.resets[k] = resets[k] =>
            /\ s.rows[k].version <= rows[k].version
            /\ s.rows[k].version = rows[k].version => s.rows[k] = rows[k]

IInv ==
  /\ rows \in [Keys -> Setting]
  /\ resets \in [Keys -> Nat]
  /\ \A k \in Keys : rows[k].version = 0 => rows[k] = Unset
  /\ \A s \in copy : IsPast(s)
  /\ \A a \in Admins : IsPast(admin[a].seen)
  /\ admin \in [Admins -> [at : {"idle", "queried", "shown", "checked", "forced"},
                           seen : Page]]

\* The newest version is that of a row, and no row has a newer one.
LEMMA NewestIsGreatest ==
    ASSUME NEW r \in [Keys -> Setting]
    PROVE  /\ \E k \in Keys : Newest(r) = r[k].version
           /\ \A k \in Keys : r[k].version <= Newest(r)
  <1> DEFINE one == r["sameSite"].version
             other == r["secure"].version
             versions == {r[k].version : k \in Keys}
             Greatest(v) == \A k \in Keys : r[k].version <= v
  <1>1. one \in Nat /\ other \in Nat
    BY DEF Keys, Setting
  <1>2. one <= other \/ other <= one
    BY <1>1
  <1>3. \E v \in versions : Greatest(v)
    <2>1. CASE one <= other
      <3>1. other \in versions /\ Greatest(other)
        BY <1>1, <2>1 DEF Keys
      <3>2. QED
        BY <3>1
    <2>2. CASE other <= one
      <3>1. one \in versions /\ Greatest(one)
        BY <1>1, <2>2 DEF Keys
      <3>2. QED
        BY <3>1
    <2>3. QED
      BY <1>2, <2>1, <2>2
  <1>4. Newest(r) \in versions /\ Greatest(Newest(r))
    BY <1>3 DEF Newest
  <1>5. QED
    BY <1>4

LEMMA NothingIsPast ==
    ASSUME resets \in [Keys -> Nat], rows \in [Keys -> Setting],
           \A k \in Keys : rows[k].version = 0 => rows[k] = Unset
    PROVE  Nothing \in Page /\ IsPast(Nothing)
  <1>1. Nothing \in Page /\ \A k \in Keys : Nothing.resets[k] = 0
    BY DEF Nothing, Page, Setting, Unset
  <1>2. \A k \in Keys : Nothing.rows[k] = Unset /\ Unset.version = 0
    BY DEF Nothing, Unset
  <1>3. \A k \in Keys : rows[k].version \in Nat
    BY DEF Setting
  <1>4. QED
    BY <1>1, <1>2, <1>3 DEF IsPast

LEMMA SettingsInitially == ASSUME Init PROVE IInv
  <1>1. /\ resets \in [Keys -> Nat] /\ rows \in [Keys -> Setting]
        /\ \A k \in Keys : rows[k] = Unset
    BY DEF Init, Setting, Unset
  <1>2. Nothing \in Page /\ IsPast(Nothing)
    BY <1>1, NothingIsPast
  <1>3. \A a \in Admins : admin[a] = [at |-> "idle", seen |-> Nothing]
    BY DEF Init
  <1>4. QED
    BY <1>1, <1>2, <1>3 DEF Init, IInv

\* Saved rows take the place of what was read.
LEMMA SaveAges ==
    ASSUME IInv, NEW changed \in SUBSET Keys, NEW value \in BOOLEAN,
           rows' = Upsert(rows, changed, value), resets' = resets,
           NEW s, IsPast(s)
    PROVE  /\ rows' \in [Keys -> Setting]
           /\ \A k \in Keys : rows'[k].version = 0 => rows'[k] = Unset
           /\ IsPast(s)'
  <1>1. \A k \in Keys : rows[k] \in Setting /\ rows[k].version \in Nat
    BY DEF IInv, Setting
  <1>2. \A k \in Keys :
          /\ k \in changed => /\ rows'[k] \in Setting
                              /\ rows'[k].version = rows[k].version + 1
          /\ k \notin changed => rows'[k] = rows[k]
    BY <1>1 DEF Upsert, Setting
  <1>3. rows' \in [Keys -> Setting]
    BY <1>1, <1>2 DEF Upsert
  <1>4. \A k \in Keys : rows'[k].version = 0 => rows'[k] = Unset
    BY <1>1, <1>2 DEF IInv
  <1>5. \A k \in Keys : s.resets[k] = resets[k] =>
          /\ s.rows[k].version <= rows'[k].version
          /\ s.rows[k].version = rows'[k].version => s.rows[k] = rows'[k]
    <2>1. \A k \in Keys : s.rows[k].version \in Nat
      BY DEF IsPast, Page, Setting
    <2>2. QED
      BY <1>1, <1>2, <2>1 DEF IsPast
  <1>6. IsPast(s)'
    BY <1>5 DEF IsPast
  <1>7. QED
    BY <1>3, <1>4, <1>6

LEMMA ResetAges ==
    ASSUME IInv, NEW keys \in SUBSET Keys,
           resets' = [k \in Keys |-> IF k \in keys THEN resets[k] + 1 ELSE resets[k]],
           rows' = [k \in Keys |-> IF k \in keys THEN Unset ELSE rows[k]],
           NEW s, IsPast(s)
    PROVE  /\ rows' \in [Keys -> Setting]
           /\ \A k \in Keys : rows'[k].version = 0 => rows'[k] = Unset
           /\ IsPast(s)'
  <1>1. Unset \in Setting
    BY DEF Unset, Setting
  <1>2. \A k \in Keys : /\ resets[k] \in Nat /\ s.resets[k] \in Nat
                        /\ s.resets[k] <= resets[k]
    BY DEF IInv, IsPast, Page
  <1>3. \A k \in Keys :
          /\ k \in keys => s.resets[k] < resets'[k] /\ rows'[k] = Unset
          /\ k \notin keys => resets'[k] = resets[k] /\ rows'[k] = rows[k]
    BY <1>2
  <1>4. IsPast(s)'
    BY <1>2, <1>3 DEF IsPast
  <1>5. rows' \in [Keys -> Setting]
    BY <1>1 DEF IInv
  <1>6. \A k \in Keys : rows'[k].version = 0 => rows'[k] = Unset
    BY <1>3 DEF IInv
  <1>7. QED
    BY <1>4, <1>5, <1>6

Stages == {"idle", "queried", "shown", "checked", "forced"}

\* A step of one administrator, whose page and whose copy are of the past.
LEMMA StepOfOne ==
    ASSUME IInv, NEW a \in Admins, NEW at \in Stages, NEW seen,
           admin' = [admin EXCEPT ![a] = [at |-> at, seen |-> seen]],
           rows' \in [Keys -> Setting], resets' \in [Keys -> Nat],
           \A k \in Keys : rows'[k].version = 0 => rows'[k] = Unset,
           \A s : IsPast(s) => IsPast(s)',
           IsPast(seen)', \A s \in copy' : IsPast(s)
    PROVE  IInv'
  <1>1. seen \in Page
    BY DEF IsPast
  <1>2. /\ admin'[a] = [at |-> at, seen |-> seen]
        /\ \A b \in Admins : b # a => admin'[b] = admin[b]
        /\ admin' \in [Admins -> [at : Stages, seen : Page]]
    BY <1>1 DEF IInv, Stages
  <1>3. \A b \in Admins : IsPast(admin[b].seen)'
    <2>1. ASSUME NEW b \in Admins, b # a PROVE IsPast(admin[b].seen)'
      <3>1. IsPast(admin[b].seen)
        BY DEF IInv
      <3>2. \A s : s = admin[b].seen => IsPast(s)'
        BY <3>1
      <3>3. admin'[b].seen = admin[b].seen
        BY <1>2, <2>1
      <3>4. QED
        BY <3>2, <3>3 DEF IsPast
    <2>2. IsPast(admin[a].seen)'
      BY <1>2 DEF IsPast
    <2>3. QED
      BY <2>1, <2>2
  <1>4. \A s \in copy' : IsPast(s)'
    OBVIOUS
  <1>5. QED
    BY <1>2, <1>3, <1>4 DEF IInv, Stages

\* Steps that write no row.
LEMMA StillPast ==
    ASSUME UNCHANGED <<rows, resets>>
    PROVE  \A s : IsPast(s) => IsPast(s)'
  BY DEF IsPast

LEMMA RowsNowArePast == ASSUME IInv PROVE IsPast(Snapshot)
  BY DEF IInv, IsPast, Snapshot, Page, Setting

LEMMA ReadingStaysPast ==
    ASSUME IInv, NEW a \in Admins,
           \/ ReadCopy(a) \/ ReadRows(a) \/ Fill(a) \/ FillNothing(a) \/ Leave(a)
           \/ Invalidate(a) \/ StopBeforeInvalidating(a)
    PROVE  IInv'
  <1>1. UNCHANGED <<rows, resets>>
    BY DEF ReadCopy, ReadRows, Fill, FillNothing, Leave, Invalidate, StopBeforeInvalidating
  <1>2. /\ rows' \in [Keys -> Setting] /\ resets' \in [Keys -> Nat]
        /\ \A k \in Keys : rows'[k].version = 0 => rows'[k] = Unset
        /\ \A s : IsPast(s) => IsPast(s)'
        /\ IsPast(Nothing) /\ IsPast(Snapshot) /\ IsPast(admin[a].seen)
    BY <1>1, StillPast, NothingIsPast, RowsNowArePast DEF IInv
  <1>3. admin[a] = [at |-> admin[a].at, seen |-> admin[a].seen] /\ admin[a].at \in Stages
    BY DEF IInv, Stages
  <1>4. CASE ReadCopy(a)
    <2>1. PICK s \in copy : admin' = [admin EXCEPT ![a] = [at |-> "shown", seen |-> s]]
      BY <1>4 DEF ReadCopy
    <2>2. IsPast(s) /\ \A t \in copy' : IsPast(t)
      BY <1>4 DEF ReadCopy, IInv
    <2>3. QED
      BY <1>2, <2>1, <2>2, StepOfOne DEF Stages
  <1>5. CASE ReadRows(a)
    <2>1. \A t \in copy' : IsPast(t)
      BY <1>5 DEF ReadRows, IInv
    <2>2. QED
      BY <1>2, <1>5, <2>1, StepOfOne DEF ReadRows, Stages
  <1>6. CASE Fill(a) \/ FillNothing(a)
    <2>1. \A t \in copy' : IsPast(t)
      BY <1>2, <1>6 DEF Fill, FillNothing, IInv
    <2>2. admin' = [admin EXCEPT ![a] = [at |-> "shown", seen |-> admin[a].seen]]
      BY <1>3, <1>6 DEF Fill, FillNothing, Goto, IInv
    <2>3. QED
      BY <1>2, <2>1, <2>2, StepOfOne DEF Stages
  <1>7. CASE Leave(a) \/ Invalidate(a) \/ StopBeforeInvalidating(a)
    <2>1. \A t \in copy' : IsPast(t)
      BY <1>7 DEF Leave, Invalidate, StopBeforeInvalidating, IInv
    <2>2. admin' = [admin EXCEPT ![a] = [at |-> "idle", seen |-> Nothing]]
      BY <1>7 DEF Leave, Invalidate, StopBeforeInvalidating, Done
    <2>3. QED
      BY <1>2, <2>1, <2>2, StepOfOne DEF Stages
  <1>8. QED
    BY <1>4, <1>5, <1>6, <1>7

LEMMA WritingAges ==
    ASSUME IInv, NEW a \in Admins, Save(a) \/ Reset(a)
    PROVE  IInv'
  <1>1. \A t \in copy' : IsPast(t)
    BY DEF Save, Reset, IInv
  <1>2. PICK at \in Stages : admin' = [admin EXCEPT ![a] = [at |-> at, seen |-> Nothing]]
    BY DEF Save, Reset, Sent, Done, Stages
  <1>3. IsPast(Nothing)
    BY NothingIsPast DEF IInv
  <1>4. CASE Save(a)
    <2>1. PICK changed \in SUBSET Keys, value \in BOOLEAN :
            rows' = Upsert(rows, changed, value)
      BY <1>4 DEF Save
    <2>2. resets' = resets /\ resets' \in [Keys -> Nat]
      BY <1>4 DEF Save, IInv
    <2>3. /\ \A s : IsPast(s) => IsPast(s)'
          /\ rows' \in [Keys -> Setting]
          /\ \A k \in Keys : rows'[k].version = 0 => rows'[k] = Unset
      BY <1>3, <2>1, <2>2, SaveAges
    <2>4. IsPast(Nothing)'
      BY <1>3, <2>3 DEF Nothing, Unset
    <2>5. QED
      BY <1>1, <1>2, <2>2, <2>3, <2>4, StepOfOne
  <1>5. CASE Reset(a)
    <2>1. PICK keys \in SUBSET Keys :
            /\ rows' = [k \in Keys |-> IF k \in keys THEN Unset ELSE rows[k]]
            /\ resets' = [k \in Keys |-> IF k \in keys THEN resets[k] + 1 ELSE resets[k]]
      BY <1>5 DEF Reset
    <2>2. resets' \in [Keys -> Nat]
      BY <2>1 DEF IInv
    <2>3. /\ \A s : IsPast(s) => IsPast(s)'
          /\ rows' \in [Keys -> Setting]
          /\ \A k \in Keys : rows'[k].version = 0 => rows'[k] = Unset
      BY <1>3, <2>1, <2>2, ResetAges
    <2>4. IsPast(Nothing)'
      BY <1>3, <2>3 DEF Nothing, Unset
    <2>5. QED
      BY <1>1, <1>2, <2>2, <2>3, <2>4, StepOfOne
  <1>6. QED
    BY <1>4, <1>5

LEMMA StepStaysPast == ASSUME IInv, [Next]_settingsVars PROVE IInv'
  <1>1. ASSUME NEW a \in Admins,
               \/ ReadCopy(a) \/ ReadRows(a) \/ Fill(a) \/ FillNothing(a) \/ Leave(a)
               \/ Invalidate(a) \/ StopBeforeInvalidating(a)
        PROVE  IInv'
    BY <1>1, ReadingStaysPast
  <1>2. ASSUME NEW a \in Admins, Save(a) \/ Reset(a) PROVE IInv'
    BY <1>2, WritingAges
  <1>3. CASE Expire
    BY <1>3 DEF Expire, IInv, IsPast
  <1>4. CASE UNCHANGED settingsVars
    BY <1>4 DEF settingsVars, IInv, IsPast
  <1>5. QED
    BY <1>1, <1>2, <1>3, <1>4 DEF Next

\* Only a conditional request leads from a page to "checked".
LEMMA OnlyConditionalChecks ==
    ASSUME IInv, NEW a \in Admins, At(a, "shown"), admin'[a].at = "checked", Next
    PROVE  Newest(admin[a].seen.rows) = Newest(rows)
  <1>1. ASSUME NEW b \in Admins,
               \/ ReadCopy(b) \/ ReadRows(b) \/ Fill(b) \/ FillNothing(b) \/ Leave(b)
               \/ Invalidate(b) \/ StopBeforeInvalidating(b)
        PROVE  admin'[a].at # "checked"
    <2>1. CASE a # b
      BY <1>1, <2>1 DEF ReadCopy, ReadRows, Fill, FillNothing, Leave, Invalidate,
         StopBeforeInvalidating, Done, Goto, At, IInv
    <2>2. CASE a = b
      BY <1>1, <2>2 DEF ReadCopy, ReadRows, Fill, FillNothing, Leave, Invalidate,
         StopBeforeInvalidating, Done, Goto, At, IInv
    <2>3. QED
      BY <2>1, <2>2
  <1>2. ~Expire
    BY DEF Expire, At
  <1>3. PICK b \in Admins : Save(b) \/ Reset(b)
    BY <1>1, <1>2 DEF Next
  <1>4. PICK conditional \in BOOLEAN : UpToDate(b, conditional) /\ Sent(b, conditional)
    BY <1>3 DEF Save, Reset
  <1>5. a = b /\ conditional
    BY <1>4 DEF Sent, Done, At, IInv
  <1>6. QED
    BY <1>4, <1>5 DEF UpToDate

LEMMA ConditionalIsGuarded ==
    ASSUME IInv, NEW a \in Admins, Newest(admin[a].seen.rows) = Newest(rows),
           NEW k \in Keys, admin[a].seen.resets[k] = resets[k],
           admin[a].seen.rows[k].version = Newest(admin[a].seen.rows)
    PROVE  rows[k] = admin[a].seen.rows[k]
  <1>1. IsPast(admin[a].seen)
    BY DEF IInv
  <1>2. /\ rows[k].version \in Nat /\ admin[a].seen.rows[k].version \in Nat
        /\ admin[a].seen.rows \in [Keys -> Setting]
    BY <1>1 DEF IInv, IsPast, Page, Setting
  <1>3. rows[k].version <= Newest(rows)
    BY NewestIsGreatest DEF IInv
  <1>4. admin[a].seen.rows[k].version <= rows[k].version
    BY <1>1 DEF IsPast
  <1>5. rows[k].version = admin[a].seen.rows[k].version
    BY <1>2, <1>3, <1>4
  <1>6. QED
    BY <1>1, <1>5 DEF IsPast

\* A conditional save or reset goes through only if the newest settings of its page
\* are as the page showed them, those reset since excepted, for any number of
\* administrators, saves and resets (settingsService.js:61-62, 82-83).
THEOREM GuardHolds == Spec => VersionGuardsNewest
  <1>1. Init => IInv
    BY SettingsInitially
  <1>2. IInv /\ [Next]_settingsVars => IInv'
    BY StepStaysPast
  <1>3. IInv /\ [Next]_settingsVars =>
          [\A a \in Admins :
             At(a, "shown") /\ admin[a]'.at = "checked"
               => LET page == admin[a].seen
                  IN  \A k \in Keys :
                        page.rows[k].version = Newest(page.rows)
                            /\ page.resets[k] = resets[k]
                          => rows[k] = page.rows[k]]_settingsVars
    <2>1. ASSUME IInv, Next, NEW a \in Admins, At(a, "shown"), admin'[a].at = "checked",
                 NEW k \in Keys, admin[a].seen.resets[k] = resets[k],
                 admin[a].seen.rows[k].version = Newest(admin[a].seen.rows)
          PROVE  rows[k] = admin[a].seen.rows[k]
      BY <2>1, OnlyConditionalChecks, ConditionalIsGuarded
    <2>2. QED
      BY <2>1
  <1>4. QED
    BY <1>1, <1>2, <1>3, PTL DEF Spec, VersionGuardsNewest
=============================================================================
