----------------------------- MODULE CatalogSync -----------------------------
(***************************************************************************)
(* How the catalogue follows its sources: reconciliarCatalogo and what it  *)
(* calls in server/services/driveService.js, the cursor of                 *)
(* drivePersistenceService.js and the index transaction of                 *)
(* libraryIndexService.js.                                                 *)
(*                                                                         *)
(* A reconciliation walks the local directory, asks Google Drive for all   *)
(* files or for the changes since the cursor it has saved, and writes the  *)
(* result to library_files in one transaction.  Every call of the file     *)
(* system, of Drive and of the database is a step of its own; the files    *)
(* and the other processes change between any two.                         *)
(*                                                                         *)
(* Abstractions.  A book is what tells its versions apart: its last change *)
(* and the folder names its category comes from.  The local files share    *)
(* one directory; each Drive file has a folder, listed at its own time.    *)
(* Files are not moved between folders.  Formats that are not books, the   *)
(* R2 provider (which replaces both sources) and a Drive without any       *)
(* credentials are left out.  sincronizarObras and the cache, which follow *)
(* the transaction, change neither cursor nor index.                       *)
(***************************************************************************)
EXTENDS Naturals

CONSTANTS Procs,        \* the processes; each has one reconciliation at a time
          DriveFiles,   \* ids of files that Drive may hold
          LocalFiles,   \* ids of files that the local directory may hold
          Whole,        \* providers with exactly one enabled source
          None,         \* no cursor, no book
          MaxChanges,   \* bound: changes of the sources
          MaxErrors,    \* bound: failures
          Faults        \* what the environment may do to a reconciliation

\* "apierror":  a call of Drive, or a query on the way to it, fails
\* "expired":   Drive no longer knows the cursor (410)
\* "race":      a source changes while it is being listed
\* "abort":     the process dies, or the index transaction is rolled back
FaultKinds == {"apierror", "expired", "race", "abort"}

Files == DriveFiles \cup LocalFiles

Book == [rev : 0..MaxChanges, path : 0..MaxChanges]

ASSUME SyncAssumption ==
    /\ DriveFiles \cap LocalFiles = {}
    /\ Whole \subseteq {"drive", "local"}
    /\ MaxChanges \in Nat
    /\ MaxErrors \in Nat
    /\ None \notin Nat \cup Book
    /\ Faults \subseteq FaultKinds

VARIABLES
    oauth,      \* Drive is read with OAuth, which has a change log, or with a key
    live,       \* the sources: files that are there
    touched,    \* ... last change of each file
    folderAt,   \* ... last change of a folder name in Drive
    clock,      \* ... last change of all: a position in the change log
    cursor,     \* source_sync_state.cursor
    rowStatus,  \* library_files.status, "absent" without a row
    payload,    \* library_files.payload
    pc,         \* per process: what its reconciliation does next
    tok,        \* ... the cursor it has read
    nextCursor, \* ... the cursor it will save
    path,       \* ... the folder names it has listed
    todo,       \* ... the files it has still to look at
    books,      \* ... the book it has for each file
    found,      \* ... Drive is among reconciledSources
    errors,     \* failures so far
    seen,       \* history: revisions that were there at some time of the reconciliation
    gone,       \* ... files that were not, at some time of it
    shown,      \* ... revisions that the index showed at some time of it
    hidden      \* ... files that it did not show, at some time of it

sources == <<live, touched, folderAt, clock>>
index   == <<rowStatus, payload>>
work    == <<tok, nextCursor, path, todo, books, found>>
history == <<seen, gone, shown, hidden>>
vars    == <<oauth, sources, cursor, index, pc, work, errors, history>>

Steps == {"idle", "walk", "state", "tree", "list", "changes", "note",
          "keep", "index", "merge", "resolve", "save", "commit"}

NoBooks == [f \in Files |-> None]

\* The folder names of a local file are part of its id.
Current(f) == [rev |-> touched[f], path |-> IF f \in DriveFiles THEN folderAt ELSE 0]

Active(f) == rowStatus[f] = "active"

\* The book of a Drive file that the index has, if any.
Indexed(f) == IF Active(f) THEN payload[f] ELSE None

\* Process p is reading the tree of folders, or the files, of a source.
Listing(p) == pc[p] \in {"walk", "list"}

Init ==
    /\ oauth \in BOOLEAN
    /\ live \in SUBSET Files
    /\ touched = [f \in Files |-> 0]
    /\ folderAt = 0
    /\ clock = 0
    /\ cursor = None
    /\ rowStatus = [f \in Files |-> "absent"]
    /\ payload = [f \in Files |-> None]
    /\ pc = [p \in Procs |-> "idle"]
    /\ tok = [p \in Procs |-> None]
    /\ nextCursor = [p \in Procs |-> 0]
    /\ path = [p \in Procs |-> 0]
    /\ todo = [p \in Procs |-> {}]
    /\ books = [p \in Procs |-> NoBooks]
    /\ found = [p \in Procs |-> FALSE]
    /\ errors = 0
    /\ seen = [p \in Procs |-> {}]
    /\ gone = [p \in Procs |-> {}]
    /\ shown = [p \in Procs |-> {}]
    /\ hidden = [p \in Procs |-> {}]

-----------------------------------------------------------------------------
(***************************************************************************)
(* The sources                                                             *)
(***************************************************************************)

Quiet == "race" \in Faults \/ \A p \in Procs : ~Listing(p)

\* A file appears, is written again, or is removed.
FileChanges(f) ==
    /\ Quiet
    /\ clock < MaxChanges
    /\ clock' = clock + 1
    /\ touched' = [touched EXCEPT ![f] = clock + 1]
    /\ \/ live' = live \cup {f}
       \/ f \in live /\ live' = live \ {f}
    /\ UNCHANGED <<oauth, folderAt, cursor, index, pc, work, errors>>

\* A folder of Drive is renamed: the change log names the folder, not its files.
FolderChanges ==
    /\ Quiet
    /\ clock < MaxChanges
    /\ clock' = clock + 1
    /\ folderAt' = clock + 1
    /\ UNCHANGED <<oauth, live, touched, cursor, index, pc, work, errors>>

-----------------------------------------------------------------------------
(***************************************************************************)
(* descobrirLivros: the local directory                                    *)
(***************************************************************************)

Goto(p, step) == pc' = [pc EXCEPT ![p] = step]

\* The reconciliation of p is over; its memory is of no further use.
Finish(p) ==
    /\ Goto(p, "idle")
    /\ tok' = [tok EXCEPT ![p] = None]
    /\ nextCursor' = [nextCursor EXCEPT ![p] = 0]
    /\ path' = [path EXCEPT ![p] = 0]
    /\ todo' = [todo EXCEPT ![p] = {}]
    /\ books' = [books EXCEPT ![p] = NoBooks]
    /\ found' = [found EXCEPT ![p] = FALSE]

\* A reconciliation starts (the single flight of a process admits one) and reads
\* the names in the local directory.
Begin(p) ==
    /\ pc[p] = "idle"
    /\ Goto(p, "walk")
    /\ todo' = [todo EXCEPT ![p] = LocalFiles \cap live]
    /\ UNCHANGED <<oauth, sources, cursor, index, tok, nextCursor, path, books, found, errors>>

StatLocal(p, f) ==
    /\ pc[p] = "walk"
    /\ f \in todo[p] \cap live
    /\ books' = [books EXCEPT ![p][f] = Current(f)]
    /\ todo' = [todo EXCEPT ![p] = @ \ {f}]
    /\ UNCHANGED <<oauth, sources, cursor, index, pc, tok, nextCursor, path, found, errors>>

\* A name is gone when the file is looked at: ENOENT, and the directory counts
\* as one that does not exist.
LocalVanished(p, f) ==
    /\ pc[p] = "walk"
    /\ f \in todo[p] \ live
    /\ books' = [books EXCEPT ![p] = NoBooks]
    /\ todo' = [todo EXCEPT ![p] = {}]
    /\ UNCHANGED <<oauth, sources, cursor, index, pc, tok, nextCursor, path, found, errors>>

EndWalk(p) ==
    /\ pc[p] = "walk"
    /\ todo[p] = {}
    /\ Goto(p, IF oauth THEN "state" ELSE "tree")
    /\ UNCHANGED <<oauth, sources, cursor, index, work, errors>>

-----------------------------------------------------------------------------
(***************************************************************************)
(* listarLivrosDriveCompleto and iniciarCursorDrive                        *)
(***************************************************************************)

ReadState(p) ==
    /\ pc[p] = "state"
    /\ tok' = [tok EXCEPT ![p] = cursor]
    /\ Goto(p, IF cursor = None THEN "tree" ELSE "changes")
    /\ UNCHANGED <<oauth, sources, cursor, index, nextCursor, path, todo, books, found, errors>>

ListTree(p) ==
    /\ pc[p] = "tree"
    /\ path' = [path EXCEPT ![p] = folderAt]
    /\ todo' = [todo EXCEPT ![p] = DriveFiles]
    /\ Goto(p, "list")
    /\ UNCHANGED <<oauth, sources, cursor, index, tok, nextCursor, books, found, errors>>

ListFile(p, f) ==
    /\ pc[p] = "list"
    /\ f \in todo[p]
    /\ todo' = [todo EXCEPT ![p] = @ \ {f}]
    /\ books' = [books EXCEPT ![p][f] =
                   IF f \in live THEN [rev |-> touched[f], path |-> path[p]] ELSE None]
    /\ UNCHANGED <<oauth, sources, cursor, index, pc, tok, nextCursor, path, found, errors>>

\* Mutant of StartToken: the token of the change to come.
StartTokenAhead(p) ==
    /\ pc[p] = "list"
    /\ todo[p] = {}
    /\ oauth
    /\ nextCursor' = [nextCursor EXCEPT ![p] = clock + 1]
    /\ Goto(p, "save")
    /\ UNCHANGED <<oauth, sources, cursor, index, tok, path, todo, books, found, errors>>

\* Only now, after the files, is the position of the change log asked for.
StartToken(p) ==
    /\ pc[p] = "list"
    /\ todo[p] = {}
    /\ oauth
    /\ nextCursor' = [nextCursor EXCEPT ![p] = clock]
    /\ Goto(p, "save")
    /\ UNCHANGED <<oauth, sources, cursor, index, tok, path, todo, books, found, errors>>

\* With an API key there is no change log: every reconciliation lists all.
ListedByKey(p) ==
    /\ pc[p] = "list"
    /\ todo[p] = {}
    /\ ~oauth
    /\ found' = [found EXCEPT ![p] = TRUE]
    /\ Goto(p, "commit")
    /\ UNCHANGED <<oauth, sources, cursor, index, tok, nextCursor, path, todo, books, errors>>

-----------------------------------------------------------------------------
(***************************************************************************)
(* listarLivrosDriveIncremental                                            *)
(***************************************************************************)

\* Mutant of Changed: removed files are not reported.
ChangedAndThere(p) == {f \in DriveFiles \cap live : touched[f] > tok[p]}

\* Mutant of FolderChanged: folders are taken for files that are not books.
FolderUnnoticed(p) == FALSE

\* The change log after the cursor: the files, each in its latest state, and
\* whether a folder is among them.
Changed(p) == {f \in DriveFiles : touched[f] > tok[p]}
FolderChanged(p) == folderAt > tok[p]

\* A folder has changed: all paths may have, so everything is listed again.
ChangesOfFolder(p) ==
    /\ pc[p] = "changes"
    /\ FolderChanged(p)
    /\ Goto(p, "tree")
    /\ UNCHANGED <<oauth, sources, cursor, index, work, errors>>

NoChanges(p) ==
    /\ pc[p] = "changes"
    /\ ~FolderChanged(p)
    /\ Changed(p) = {}
    /\ nextCursor' = [nextCursor EXCEPT ![p] = clock]
    /\ Goto(p, "keep")
    /\ UNCHANGED <<oauth, sources, cursor, index, tok, path, todo, books, found, errors>>

\* Mutant of Reported: removed and trashed files are not told apart.
ReportedRemovedToo(p, f) == [rev |-> touched[f], path |-> 0]

\* The books of the changed files, their paths to be resolved later.
Reported(p, f) == IF f \in live THEN [rev |-> touched[f], path |-> 0] ELSE None

ChangesOfFiles(p) ==
    /\ pc[p] = "changes"
    /\ ~FolderChanged(p)
    /\ Changed(p) # {}
    /\ nextCursor' = [nextCursor EXCEPT ![p] = clock]
    /\ todo' = [todo EXCEPT ![p] = Changed(p)]
    /\ books' = [books EXCEPT ![p] = [f \in Files |->
                   IF f \in Changed(p) THEN Reported(p, f) ELSE books[p][f]]]
    /\ Goto(p, "merge")
    /\ UNCHANGED <<oauth, sources, cursor, index, tok, path, found, errors>>

\* 410: everything is listed again.
CursorExpired(p) ==
    /\ "expired" \in Faults
    /\ pc[p] = "changes"
    /\ errors < MaxErrors
    /\ errors' = errors + 1
    /\ Goto(p, "tree")
    /\ UNCHANGED <<oauth, sources, cursor, index, work>>

\* Nothing has changed: the position is saved, and the index stands for Drive.
KeepCursor(p) ==
    /\ pc[p] = "keep"
    /\ cursor' = nextCursor[p]
    /\ Goto(p, "index")
    /\ UNCHANGED <<oauth, sources, index, work, errors>>

ReadIndexed(p) ==
    /\ pc[p] = "index"
    /\ books' = [books EXCEPT ![p] = [f \in Files |->
                   IF f \in DriveFiles THEN Indexed(f) ELSE books[p][f]]]
    /\ found' = [found EXCEPT ![p] = TRUE]
    /\ Goto(p, "commit")
    /\ UNCHANGED <<oauth, sources, cursor, index, tok, nextCursor, path, todo, errors>>

\* Mutant of ReadMerged: the changed files are the whole of Drive.
ReadNothing(p) ==
    /\ pc[p] = "merge"
    /\ Goto(p, "resolve")
    /\ UNCHANGED <<oauth, sources, cursor, index, work, errors>>

\* Files have changed: the index stands for the others.
ReadMerged(p) ==
    /\ pc[p] = "merge"
    /\ books' = [books EXCEPT ![p] = [f \in Files |->
                   IF f \in DriveFiles \ todo[p] THEN Indexed(f) ELSE books[p][f]]]
    /\ Goto(p, "resolve")
    /\ UNCHANGED <<oauth, sources, cursor, index, tok, nextCursor, path, todo, found, errors>>

\* resolverHierarquiaArquivoDrive asks for the folders of a changed file.
Resolve(p, f) ==
    /\ pc[p] = "resolve"
    /\ f \in todo[p]
    /\ todo' = [todo EXCEPT ![p] = @ \ {f}]
    /\ books' = [books EXCEPT ![p][f] =
                   IF @ = None THEN None ELSE [rev |-> @.rev, path |-> folderAt]]
    /\ UNCHANGED <<oauth, sources, cursor, index, pc, tok, nextCursor, path, found, errors>>

Resolved(p) ==
    /\ pc[p] = "resolve"
    /\ todo[p] = {}
    /\ Goto(p, "save")
    /\ UNCHANGED <<oauth, sources, cursor, index, work, errors>>

\* The new cursor is saved: the index does not hold the changes yet.
SaveCursor(p) ==
    /\ pc[p] = "save"
    /\ cursor' = nextCursor[p]
    /\ found' = [found EXCEPT ![p] = TRUE]
    /\ Goto(p, "commit")
    /\ UNCHANGED <<oauth, sources, index, tok, nextCursor, path, todo, books, errors>>

-----------------------------------------------------------------------------
(***************************************************************************)
(* A source that fails                                                     *)
(***************************************************************************)

LocalBooks(p) == {f \in LocalFiles : books[p][f] # None}

\* Drive has failed: without local books the reconciliation fails as well, with
\* them it goes on as if Drive had not been asked.
Unavailable(p) ==
    \/ /\ LocalBooks(p) = {}
       /\ Finish(p)
    \/ /\ LocalBooks(p) # {}
       /\ books' = [books EXCEPT ![p] =
                      [f \in Files |-> IF f \in DriveFiles THEN None ELSE books[p][f]]]
       /\ todo' = [todo EXCEPT ![p] = {}]
       /\ Goto(p, "commit")
       /\ UNCHANGED <<tok, nextCursor, path, found>>

\* A call of Drive or a query fails on the way to the books of Drive.
DriveFails(p) ==
    /\ "apierror" \in Faults
    /\ pc[p] \notin {"idle", "walk", "changes", "commit"}
    /\ errors < MaxErrors
    /\ errors' = errors + 1
    /\ Unavailable(p)
    /\ UNCHANGED <<oauth, sources, cursor, index>>

\* The change log fails: the error is noted beside the cursor that was read.
ChangesFail(p) ==
    /\ "apierror" \in Faults
    /\ pc[p] = "changes"
    /\ errors < MaxErrors
    /\ errors' = errors + 1
    /\ Goto(p, "note")
    /\ UNCHANGED <<oauth, sources, cursor, index, work>>

NoteError(p) ==
    /\ pc[p] = "note"
    /\ cursor' = tok[p]
    /\ Unavailable(p)
    /\ UNCHANGED <<oauth, sources, index, errors>>

-----------------------------------------------------------------------------
(***************************************************************************)
(* sincronizarIndiceLivros                                                 *)
(***************************************************************************)

Provider(f) == IF f \in DriveFiles THEN "drive" ELSE "local"

\* Mutant of Reconciled: Drive counts also when it has failed.
ReconciledAlways(p) == Whole

\* The providers whose files are marked missing when they have no book.
Reconciled(p) == Whole \cap ({"local"} \cup IF found[p] THEN {"drive"} ELSE {})

\* One transaction: the books are written, the other files of the reconciled
\* providers are missing.
Commit(p) ==
    /\ pc[p] = "commit"
    /\ payload' = [f \in Files |-> IF books[p][f] # None THEN books[p][f] ELSE payload[f]]
    /\ rowStatus' = [f \in Files |->
                       IF books[p][f] # None THEN "active"
                       ELSE IF Active(f) /\ Provider(f) \in Reconciled(p) THEN "missing"
                       ELSE rowStatus[f]]
    /\ Finish(p)
    /\ UNCHANGED <<oauth, sources, cursor, errors>>

\* The reconciliation ends without a result: the transaction is rolled back, for
\* one bad book or a lost connection, or the process dies at any step.
Abort(p) ==
    /\ "abort" \in Faults
    /\ pc[p] # "idle"
    /\ errors < MaxErrors
    /\ errors' = errors + 1
    /\ Finish(p)
    /\ UNCHANGED <<oauth, sources, cursor, index>>

\* removerItensAusentesExpirados: a row that has been missing for long goes.
Expire(f) ==
    /\ rowStatus[f] = "missing"
    /\ rowStatus' = [rowStatus EXCEPT ![f] = "absent"]
    /\ payload' = [payload EXCEPT ![f] = None]
    /\ UNCHANGED <<oauth, sources, cursor, pc, work, errors>>

-----------------------------------------------------------------------------
\* What a process does of itself.
Progress(p) ==
    \/ Begin(p)
    \/ \E f \in LocalFiles : StatLocal(p, f) \/ LocalVanished(p, f)
    \/ EndWalk(p)
    \/ ReadState(p)
    \/ ListTree(p)
    \/ \E f \in DriveFiles : ListFile(p, f) \/ Resolve(p, f)
    \/ StartToken(p)
    \/ ListedByKey(p)
    \/ ChangesOfFolder(p)
    \/ NoChanges(p)
    \/ ChangesOfFiles(p)
    \/ KeepCursor(p)
    \/ ReadIndexed(p)
    \/ ReadMerged(p)
    \/ Resolved(p)
    \/ SaveCursor(p)
    \/ NoteError(p)
    \/ Commit(p)

Fault(p) == CursorExpired(p) \/ DriveFails(p) \/ ChangesFail(p) \/ Abort(p)

\* What is there, and what the index shows: files with their revisions.
There == {<<f, touched[f]>> : f \in live}
Shown == {<<f, payload[f].rev>> : f \in {g \in Files : Active(g)}}

Busy == {p \in Procs : pc[p] # "idle"}

\* The history of every reconciliation, after each step: no program has it.
Remember ==
    /\ seen' = [p \in Procs |-> IF p \in Busy' THEN seen[p] \cup There' ELSE {}]
    /\ gone' = [p \in Procs |-> IF p \in Busy' THEN gone[p] \cup (Files \ live') ELSE {}]
    /\ shown' = [p \in Procs |-> IF p \in Busy' THEN shown[p] \cup Shown' ELSE {}]
    /\ hidden' = [p \in Procs |->
                     IF p \in Busy' THEN hidden[p] \cup {f \in Files : ~Active(f)'} ELSE {}]

Act ==
    \/ \E p \in Procs : Progress(p) \/ Fault(p)
    \/ \E f \in Files : FileChanges(f) \/ Expire(f)
    \/ FolderChanges

Next == Act /\ Remember

Spec == Init /\ [][Next]_vars

\* A call of the file system, of Drive or of the database returns at some time,
\* and maintenanceJobs.js starts a reconciliation again and again.
FairSpec == Spec /\ \A p \in Procs : WF_vars(Progress(p) /\ Remember)

-----------------------------------------------------------------------------
(***************************************************************************)
(* Properties                                                              *)
(***************************************************************************)

\* The state of the sources, of the index and of every reconciliation has its
\* type: no cursor lies ahead of the change log, no book is of the future.
StateTyped ==
    /\ oauth \in BOOLEAN
    /\ live \subseteq Files
    /\ clock \in 0..MaxChanges
    /\ touched \in [Files -> 0..clock]
    /\ folderAt \in 0..clock
    /\ cursor \in (0..clock) \cup {None}
    /\ rowStatus \in [Files -> {"absent", "active", "missing"}]
    /\ payload \in [Files -> Book \cup {None}]
    /\ pc \in [Procs -> Steps]
    /\ tok \in [Procs -> (0..clock) \cup {None}]
    /\ nextCursor \in [Procs -> 0..clock]
    /\ path \in [Procs -> 0..clock]
    /\ todo \in [Procs -> SUBSET Files]
    /\ books \in [Procs -> [Files -> Book \cup {None}]]
    /\ found \in [Procs -> BOOLEAN]
    /\ errors \in 0..MaxErrors
    /\ \A f \in Files : payload[f] = None <=> rowStatus[f] = "absent"

HistoryTyped ==
    /\ seen \in [Procs -> SUBSET (Files \X (0..MaxChanges))]
    /\ gone \in [Procs -> SUBSET Files]
    /\ shown \in [Procs -> SUBSET (Files \X (0..MaxChanges))]
    /\ hidden \in [Procs -> SUBSET Files]

TypeOK == StateTyped /\ HistoryTyped

\* A book is marked missing only by a reconciliation during which its file was
\* not there at some time: neither the failure of Drive nor the merge of a
\* partial change log with the index hides a book that was there all along.
MissingWasAbsent ==
    [][\A f \in Files : Active(f) /\ (rowStatus'[f] = "missing") =>
         \E p \in Procs : pc[p] = "commit" /\ f \in gone[p]]_vars

\* A book enters the catalogue only by a reconciliation during which its file
\* was there, in the revision that is shown: a removed file does not come back by
\* the merge of the change log with the index, nor an old revision.
ActiveWasThere ==
    [][\A f \in Files : ~Active(f) /\ (rowStatus'[f] = "active") =>
         \E p \in Procs : pc[p] = "commit" /\ <<f, payload'[f].rev>> \in seen[p]]_vars

\* The revision that the index has of each file, what was there or was shown since
\* a reconciliation began, and what was not.
Copy   == [f \in Files |-> IF payload[f] = None THEN None ELSE payload[f].rev]
Window == [p \in Procs |-> seen[p] \cup shown[p]]
Absent == [p \in Procs |-> gone[p] \cup hidden[p]]

\* However many processes reconcile at once, and whatever fails, the catalogue is
\* a mirror of its sources: what a reconciliation shows of a file was there, or
\* was shown by another, while it worked, and what it hides was not.
TheMirror == INSTANCE Mirror WITH
    Readers <- Procs, rev <- touched, status <- rowStatus,
    copy <- Copy, busy <- Busy, window <- Window, absent <- Absent

MirrorSpec == TheMirror!MirrorSpec

\* Book b, or None, says what Drive held of f when the change log was at c.
Tells(b, f, c) ==
    IF f \in live
    THEN /\ b # None
         /\ b.rev = touched[f]
         /\ folderAt <= c => b.path = folderAt
    ELSE "drive" \in Whole => b = None

\* The index holds every change of Drive up to position c.
IndexTells(c) == \A f \in DriveFiles : touched[f] <= c => Tells(Indexed(f), f, c)

\* Between reconciliations the saved cursor promises what the index holds: every
\* file whose last change lies before it is in the index as it is in Drive, for
\* no later run will be told of that change again.
CursorIsHonest ==
    cursor # None /\ (\A p \in Procs : pc[p] = "idle") => IndexTells(cursor)

\* Once the sources are at rest and the failures over, the catalogue becomes and
\* stays what they hold: every file active with its last revision and its
\* folders' names, and nothing else.
IndexConverges ==
    <>[](\A f \in Files : /\ Active(f) <=> f \in live
                          /\ f \in live => payload[f] = Current(f))

-----------------------------------------------------------------------------
(***************************************************************************)
(* Why CursorIsHonest holds for one process while nothing is changed       *)
(* during a listing and every reconciliation ends: what each step of it    *)
(* knows.                                                                  *)
(***************************************************************************)

Calm == /\ \A p, q \in Procs : p = q
        /\ Faults \subseteq {"apierror", "expired"}

\* The cursor is saved and the index is not: the books of p hold the changes.
Ahead(p) == pc[p] = "commit" /\ found[p]

BooksTell(p, c) == \A f \in DriveFiles : touched[f] <= c => Tells(books[p][f], f, c)

\* A book without its path.
TellsFile(b, f) ==
    IF f \in live THEN b # None /\ b.rev = touched[f] ELSE "drive" \in Whole => b = None

\* What lies between the cursor that p has read and the one it will save.
OnlyBefore(p, f) == touched[f] <= nextCursor[p] => touched[f] <= tok[p]
FolderBefore(p) == folderAt <= nextCursor[p] => folderAt <= tok[p]

IndexKept == cursor # None /\ (\A p \in Procs : ~Ahead(p)) => IndexTells(cursor)

KeyHasNoCursor == ~oauth => cursor = None

KeyPath(p) == ~oauth => pc[p] \in {"idle", "walk", "tree", "list", "commit"}

FoundAtCommit(p) ==
    /\ found[p] => pc[p] = "commit"
    /\ pc[p] = "commit" /\ ~found[p] => \A f \in DriveFiles : books[p][f] = None

TokIsCursor(p) ==
    pc[p] \in {"changes", "note", "keep", "merge", "resolve"} => cursor # None /\ tok[p] = cursor

\* At each step the books of p hold what the next cursor will promise.
AtList(p) == pc[p] = "list" =>
    /\ path[p] = folderAt
    /\ \A f \in DriveFiles \ todo[p] : Tells(books[p][f], f, clock)
AtKeep(p) == pc[p] = "keep" => FolderBefore(p) /\ \A f \in DriveFiles : OnlyBefore(p, f)
AtIndex(p) == pc[p] = "index" => cursor = nextCursor[p]
AtMerge(p) == pc[p] = "merge" =>
    /\ FolderBefore(p)
    /\ \A f \in DriveFiles \ todo[p] : OnlyBefore(p, f)
    /\ \A f \in DriveFiles \cap todo[p] :
         touched[f] <= nextCursor[p] => TellsFile(books[p][f], f)
AtResolve(p) == pc[p] = "resolve" =>
    \A f \in DriveFiles : touched[f] <= nextCursor[p] =>
        IF f \in todo[p] THEN TellsFile(books[p][f], f)
                         ELSE Tells(books[p][f], f, nextCursor[p])
AtSave(p) == pc[p] = "save" => BooksTell(p, nextCursor[p])
AtCommit(p) == Ahead(p) /\ cursor # None => BooksTell(p, cursor)

Knows(p) ==
    /\ KeyPath(p) /\ FoundAtCommit(p) /\ TokIsCursor(p)
    /\ AtList(p) /\ AtKeep(p) /\ AtIndex(p) /\ AtMerge(p)
    /\ AtResolve(p) /\ AtSave(p) /\ AtCommit(p)

\* The inductive invariant.
SyncInv == TypeOK /\ IndexKept /\ KeyHasNoCursor /\ \A p \in Procs : Knows(p)

-----------------------------------------------------------------------------
(***************************************************************************)
(* Why the catalogue is a mirror: the books a reconciliation has, and      *)
(* those it has not, agree with what there was, in the sources or in the   *)
(* index, at some time of it.                                              *)
(***************************************************************************)

\* No local file vanishes during a walk, or one that has none is not marked missing.
LocalAtRest == "race" \notin Faults \/ "local" \notin Whole

\* The history covers every reconciliation, and nothing else is remembered.
Remembers(p) ==
    IF pc[p] = "idle" THEN {seen[p], gone[p], shown[p], hidden[p]} = {{}} /\ books[p] = NoBooks
    ELSE /\ There \subseteq seen[p]
         /\ Files \ live \subseteq gone[p]
         /\ Shown \subseteq shown[p]
         /\ {f \in Files : ~Active(f)} \subseteq hidden[p]

BookIsKnown(p, f) == books[p][f] # None => <<f, books[p][f].rev>> \in seen[p] \cup shown[p]

ShownInv ==
    /\ TypeOK
    /\ \A p \in Procs : Remembers(p) /\ \A f \in Files : BookIsKnown(p, f)

\* Where p has no book of f, f was away, or not in the catalogue.
AbsenceIsKnown(p, f) == books[p][f] = None => f \in gone[p] \cup hidden[p]

LocalWasAway(p) ==
    "local" \in Whole =>
        /\ pc[p] = "walk" => todo[p] \subseteq live
        /\ pc[p] # "idle" => \A f \in LocalFiles :
                               pc[p] # "walk" \/ f \notin todo[p] => AbsenceIsKnown(p, f)

\* The files of Drive whose books p has settled.
Settled(p) == {f \in DriveFiles : \/ pc[p] = "list" /\ f \notin todo[p]
                                  \/ pc[p] = "merge" /\ f \in todo[p]
                                  \/ pc[p] \in {"resolve", "save"}
                                  \/ pc[p] = "commit" /\ found[p]}

DriveWasAway(p) == \A f \in Settled(p) : AbsenceIsKnown(p, f)

MirrorInv ==
    /\ ShownInv
    /\ \A p \in Procs : /\ found[p] => pc[p] = "commit"
                        /\ LocalWasAway(p)
                        /\ DriveWasAway(p)

\* One process: nobody else changes the index while it works.
OneProcess == \A p, q \in Procs : p = q

IndexIsMine == \A p \in Procs : shown[p] \subseteq Shown /\ \A f \in hidden[p] : ~Active(f)
=============================================================================
