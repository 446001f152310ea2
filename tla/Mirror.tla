------------------------------- MODULE Mirror -------------------------------
(***************************************************************************)
(* What the catalogue promises as a copy of its sources, however many      *)
(* readers bring it up to date at once, in whatever way, and whatever      *)
(* fails.  A reader looks at the sources, and at the copy, for some time.  *)
(* When it is done, each file stays in the copy as it is, or is shown with *)
(* a revision that was there or was shown in that time, or is hidden if in *)
(* that time it was not there or not shown.  CatalogSync implements this   *)
(* module (the definition MirrorSpec there).                               *)
(***************************************************************************)
EXTENDS Naturals

CONSTANTS Files, Readers, None

VARIABLES
    live,       \* the files that are there
    rev,        \* ... and the last revision of each
    status,     \* of each file in the copy, named as the status column of its row
    copy,       \* ... and its revision there, or None
    busy,       \* the readers at work
    window,     \* per reader: what was there or was shown since it began
    absent      \* per reader: what was not there or not shown at some time since

mirror == <<live, rev, status, copy, busy, window, absent>>

Statuses == {"absent", "active", "missing"}

MirrorInit ==
    /\ live \subseteq Files
    /\ rev = [f \in Files |-> 0]
    /\ status = [f \in Files |-> "absent"]
    /\ copy = [f \in Files |-> None]
    /\ busy = {}
    /\ window = [p \in Readers |-> {}]
    /\ absent = [p \in Readers |-> {}]

\* A file appears, is written again, or is removed.
Change(f) ==
    /\ rev' = [rev EXCEPT ![f] = rev'[f]]
    /\ rev'[f] > rev[f]
    /\ live' \in {live \cup {f}, live \ {f}}
    /\ UNCHANGED <<status, copy, busy>>

Start(p) ==
    /\ p \notin busy
    /\ busy' = busy \cup {p}
    /\ UNCHANGED <<live, rev, status, copy>>

\* What may become of f when p is done.
Keeps(f)    == status'[f] = status[f] /\ copy'[f] = copy[f]
Shows(p, f) == status'[f] = "active" /\ <<f, copy'[f]>> \in window[p]
Hides(p, f) == status[f] = "active" /\ status'[f] = "missing"
                 /\ copy'[f] = copy[f] /\ f \in absent[p]

Publish(p) ==
    /\ p \in busy
    /\ busy' = busy \ {p}
    /\ status' \in [Files -> Statuses]
    /\ copy' \in [Files -> Nat \cup {None}]
    /\ \A f \in Files : Keeps(f) \/ Shows(p, f) \/ Hides(p, f)
    /\ UNCHANGED <<live, rev>>

\* What has been missing for long is forgotten.
Forget(f) ==
    /\ status[f] = "missing"
    /\ status' = [status EXCEPT ![f] = "absent"]
    /\ copy' = [copy EXCEPT ![f] = None]
    /\ UNCHANGED <<live, rev, busy>>

There == {<<f, rev[f]>> : f \in live}
Shown == {<<f, copy[f]>> : f \in {g \in Files : status[g] = "active"}}
Away  == (Files \ live) \cup {f \in Files : status[f] # "active"}

\* Every reader at work sees how things are after each step.
Watch ==
    /\ window' = [p \in Readers |-> IF p \in busy' THEN window[p] \cup (There \cup Shown)' ELSE {}]
    /\ absent' = [p \in Readers |-> IF p \in busy' THEN absent[p] \cup Away' ELSE {}]

MirrorNext ==
    /\ \/ \E f \in Files : Change(f) \/ Forget(f)
       \/ \E p \in Readers : Start(p) \/ Publish(p)
    /\ Watch

MirrorSpec == MirrorInit /\ [][MirrorNext]_mirror
=============================================================================
