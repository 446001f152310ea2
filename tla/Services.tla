----------------------------- MODULE Services -------------------------------
(***************************************************************************)
(* The services beside the job queue and the synchronisation of the        *)
(* catalogue.  They share no state that their models keep, so a behaviour  *)
(* is one of them: the first state picks it, and the variables of the      *)
(* others stay as they begin.                                              *)
(***************************************************************************)
EXTENDS Naturals, Sequences

CONSTANTS Clients,      \* administrators, users, readers, devices, processes, scripts,
                        \* cover jobs
          Books,        \* books, and their files
          LibraryIds, Providers, ProviderOf,
          Enrichments, Recordings, Editors, Candidates,
          Flights, Pages,
          Collected, Online,
          MaxVersion, Archives, Capacity,
          Bases, Placeholders,
          Attempts, Threshold
\* Bounds: of saved and reset settings, changed roles, runs of the script, cover jobs,
\* versions of the sources, changes under the watcher and the reader, pages kept, bytes
\* of a file and of a header, saved reading states, and processes that stop.
CONSTANTS MaxWritten, MaxResets, MaxGrants, MaxRuns, MaxExtractions, MaxVersions,
          MaxFileChanges, MaxEdits, MaxKept, MaxSize, MaxSafe, MaxSaves, MaxStops

VARIABLES active,   \* the service of this behaviour
          rows, resets, copy, admin,
          grants, roleOf, cached, asking, held, changes,
          names, pdf, script, found, runs, renamed,
          content, indexed, coverFile, coverEntries, recorded, coverMemory, job,
          extractions, overtaken,
          row, writer, editor, accepted,
          provider, breaker, call, answers, result,
          isbn, forms,
          files, shown, listMemory, flight, current, request,
          place, watching, owner, lost, noticed, behind, reconciliation, holders,
          edits,
          archive, known, entries, kept, reader, page,
          range,
          state, seen, backup, saves, rewritten,
          applied, tables, starter, stops, missing, libraries, sources, bound, payload

TheSettings == INSTANCE Settings WITH Admins <- Clients
TheAccess == INSTANCE AccessCache WITH Users <- Clients, Libraries <- LibraryIds, MaxChanges <- MaxGrants
TheRenamer == INSTANCE Renamer WITH Files <- Books, Scripts <- Clients
TheCovers == INSTANCE Covers WITH Jobs <- Clients, entries <- coverEntries, memory <- coverMemory
TheMetadata == INSTANCE Metadata WITH job <- writer
TheLookup == INSTANCE Lookup WITH Askers <- Clients
TheIsbn == INSTANCE Isbn WITH Refused <- Placeholders
TheCatalogue == INSTANCE Catalogue WITH Requests <- Clients, MaxChanges <- MaxVersions,
    sources <- files, memory <- listMemory
TheWatcher == INSTANCE Watcher WITH Servers <- Clients, job <- reconciliation
TheReader == INSTANCE Reader WITH Readers <- Clients
TheRanges == INSTANCE Ranges
TheReading == INSTANCE ReadingState WITH Devices <- Clients
TheSchema == INSTANCE Schema WITH Processes <- Clients, Files <- Books

\* No file has the name of another to begin with, numbers have nine digits before
\* the last, a record of a provider has similarities in thousandths, a job that
\* records a cover is no enrichment, and no file has a size that is not safe.
ASSUME ServicesAssumption ==
  /\ {MaxWritten, MaxResets, MaxGrants, MaxRuns, MaxExtractions, MaxFileChanges, MaxKept,
      MaxSize, MaxSafe, MaxSaves, MaxStops} \subseteq Nat
  /\ MaxSize <= MaxSafe
  /\ {MaxVersions, MaxEdits, Attempts, Threshold} \subseteq Nat \ {0}
  /\ MaxVersion \in [Books -> Nat \ {0}]
  /\ Enrichments \cap Recordings = {} /\ Online \subseteq TheRenamer!Book
  /\ ProviderOf \in [Books -> Providers] /\ "local" \in Providers
  /\ Bases \subseteq TheIsbn!Digits
  /\ Candidates \subseteq TheMetadata!Records
  /\ \A c \in Collected :
       /\ c.names \in [Books -> TheRenamer!Name] /\ c.pdf \in [Books -> TheRenamer!Pdf]
       /\ \A f, g \in Books : c.names[f] = c.names[g] => f = g

settingsVars == <<rows, resets, copy, admin>>
accessVars == <<grants, roleOf, cached, asking, held, changes>>
renamerVars == <<names, pdf, script, found, runs, renamed>>
coversVars == <<content, indexed, coverFile, coverEntries, recorded, coverMemory, job,
                extractions, overtaken>>
metadataVars == <<row, writer, editor, accepted>>
lookupVars == <<provider, breaker, call, answers, result>>
isbnVars == <<isbn, forms>>
catalogueVars == <<files, shown, listMemory, flight, current, request>>
watcherVars == <<place, watching, owner, lost, noticed, behind, reconciliation, holders,
                 edits>>
readerVars == <<archive, known, entries, kept, reader, page>>
rangesVars == <<range>>
readingVars == <<state, seen, backup, saves, rewritten>>
schemaVars == <<applied, tables, starter, stops, missing, libraries, sources, bound, payload>>
vars == <<active, settingsVars, accessVars, renamerVars, coversVars, metadataVars,
          lookupVars, isbnVars, catalogueVars, watcherVars, readerVars, rangesVars,
          readingVars, schemaVars>>

Only(service) ==
  /\ active = service /\ UNCHANGED active
  /\ IF service = "settings" THEN TRUE ELSE UNCHANGED settingsVars
  /\ IF service = "access" THEN TRUE ELSE UNCHANGED accessVars
  /\ IF service = "renamer" THEN TRUE ELSE UNCHANGED renamerVars
  /\ IF service = "covers" THEN TRUE ELSE UNCHANGED coversVars
  /\ IF service = "metadata" THEN TRUE ELSE UNCHANGED metadataVars
  /\ IF service = "lookup" THEN TRUE ELSE UNCHANGED lookupVars
  /\ IF service = "isbn" THEN TRUE ELSE UNCHANGED isbnVars
  /\ IF service = "catalogue" THEN TRUE ELSE UNCHANGED catalogueVars
  /\ IF service = "watcher" THEN TRUE ELSE UNCHANGED watcherVars
  /\ IF service = "reader" THEN TRUE ELSE UNCHANGED readerVars
  /\ IF service = "ranges" THEN TRUE ELSE UNCHANGED rangesVars
  /\ IF service = "reading" THEN TRUE ELSE UNCHANGED readingVars
  /\ IF service = "schema" THEN TRUE ELSE UNCHANGED schemaVars

\* Where a service may begin in several states, only its own behaviours do.
Init ==
  /\ active \in {"settings", "access", "renamer", "covers", "metadata", "lookup", "isbn",
                 "catalogue", "watcher", "reader", "ranges", "reading", "schema"}
  /\ TheSettings!Init
  /\ TheAccess!Init
  /\ IF active = "renamer" THEN TheRenamer!Init
     ELSE /\ names = <<>> /\ pdf = <<>> /\ script = <<>> /\ found = <<>> /\ runs = 0
          /\ renamed = {}
  /\ IF active = "covers" THEN TheCovers!Init
     ELSE /\ content = <<>> /\ indexed = <<>> /\ coverFile = <<>> /\ coverEntries = <<>>
          /\ recorded = <<>> /\ coverMemory = {} /\ job = <<>> /\ extractions = 0
          /\ overtaken = {}
  /\ TheMetadata!Init
  /\ TheLookup!Init
  /\ IF active = "isbn" THEN TheIsbn!Init
     ELSE isbn = TheIsbn!NoIsbn /\ forms = TheIsbn!NoIsbn
  /\ TheCatalogue!Init
  /\ TheWatcher!Init
  /\ TheReader!Init
  /\ TheRanges!Init
  /\ TheReading!Init
  /\ IF active = "schema" THEN TheSchema!Init
     ELSE applied = {} /\ tables = {} /\ starter = [c \in Clients |-> 0] /\ stops = 0 /\ missing = {}
       /\ libraries = {} /\ sources = {} /\ bound = <<>> /\ payload = <<>>

SettingsReadCopy == Only("settings") /\ \E c \in Clients : TheSettings!ReadCopy(c)
SettingsReadRows == Only("settings") /\ \E c \in Clients : TheSettings!ReadRows(c)
SettingsFill == Only("settings") /\ \E c \in Clients : TheSettings!Fill(c)
SettingsFillNothing == Only("settings") /\ \E c \in Clients : TheSettings!FillNothing(c)
SettingsSave == Only("settings") /\ \E c \in Clients : TheSettings!Save(c)
SettingsReset == Only("settings") /\ \E c \in Clients : TheSettings!Reset(c)
SettingsLeave == Only("settings") /\ \E c \in Clients : TheSettings!Leave(c)
SettingsInvalidate == Only("settings") /\ \E c \in Clients : TheSettings!Invalidate(c)
SettingsStopBeforeInvalidating == Only("settings") /\ \E c \in Clients : TheSettings!StopBeforeInvalidating(c)
SettingsExpire == Only("settings") /\ TheSettings!Expire

AccessSaveRole == Only("access") /\ \E r \in TheAccess!Roles : \E ls \in SUBSET LibraryIds : TheAccess!SaveRole(r, ls)
AccessDeleteRole == Only("access") /\ \E r \in TheAccess!Roles : \E o \in TheAccess!Roles : TheAccess!DeleteRole(r, o)
AccessAssignRole == Only("access") /\ \E c \in Clients : \E r \in TheAccess!Roles : TheAccess!AssignRole(c, r)
AccessQuery == Only("access") /\ \E c \in Clients : TheAccess!Query(c)
AccessFill == Only("access") /\ \E c \in Clients : TheAccess!Fill(c)
AccessFillFails == Only("access") /\ \E c \in Clients : TheAccess!FillFails(c)
AccessExpire == Only("access") /\ \E c \in Clients : TheAccess!Expire(c)

RenamerBegin == Only("renamer") /\ \E c \in Clients : \E x \in BOOLEAN : \E y \in BOOLEAN : TheRenamer!Begin(c, x, y)
RenamerSkip == Only("renamer") /\ \E c \in Clients : \E n \in script[c].todo : TheRenamer!Skip(c, n)
RenamerIdentify == Only("renamer") /\ \E c \in Clients : \E n \in script[c].todo : TheRenamer!Identify(c, n)
RenamerTest == Only("renamer") /\ \E c \in Clients : TheRenamer!Test(c)
RenamerRename == Only("renamer") /\ \E c \in Clients : TheRenamer!Rename(c)
RenamerRenameFails == Only("renamer") /\ \E c \in Clients : TheRenamer!RenameFails(c)

CoversFileChanges == Only("covers") /\ \E b \in Books : TheCovers!FileChanges(b)
CoversReindex == Only("covers") /\ \E b \in Books : TheCovers!Reindex(b)
CoversEnrich == Only("covers") /\ \E b \in Books : TheCovers!Enrich(b)
CoversReadPersisted == Only("covers") /\ \E b \in Books : TheCovers!ReadPersisted(b)
CoversExtract == Only("covers") /\ \E c \in Clients : \E b \in Books : TheCovers!Extract(c, b)
CoversMakeRoom == Only("covers") /\ \E c \in Clients : TheCovers!MakeRoom(c)
CoversSelect == Only("covers") /\ \E c \in Clients : TheCovers!Select(c)
CoversExamine == Only("covers") /\ \E c \in Clients : TheCovers!Examine(c)
CoversUnlink == Only("covers") /\ \E c \in Clients : TheCovers!Unlink(c)
CoversDropRow == Only("covers") /\ \E c \in Clients : TheCovers!DropRow(c)
CoversWriteAndRename == Only("covers") /\ \E c \in Clients : TheCovers!WriteAndRename(c)
CoversRegister == Only("covers") /\ \E c \in Clients : TheCovers!Register(c)
CoversRecord == Only("covers") /\ \E c \in Clients : TheCovers!Record(c)
CoversFail == Only("covers") /\ \E c \in Clients : TheCovers!Fail(c)
CoversForget == Only("covers") /\ TheCovers!Forget

MetadataEnrich == Only("metadata") /\ \E j \in Enrichments : TheMetadata!Enrich(j)
MetadataSaveMatch == Only("metadata") /\ \E j \in Enrichments : TheMetadata!SaveMatch(j)
MetadataSaveNoMatch == Only("metadata") /\ \E j \in Enrichments : TheMetadata!SaveNoMatch(j)
MetadataReadForCover == Only("metadata") /\ \E j \in Recordings : TheMetadata!ReadForCover(j)
MetadataSaveCover == Only("metadata") /\ \E j \in Recordings : TheMetadata!SaveCover(j)
MetadataFind == Only("metadata") /\ \E e \in Editors : TheMetadata!Find(e)
MetadataAccept == Only("metadata") /\ \E e \in Editors : TheMetadata!Accept(e)
MetadataEdit == Only("metadata") /\ \E e \in Editors : TheMetadata!Edit(e)

LookupAskCache == Only("lookup") /\ \E c \in Clients : TheLookup!AskCache(c)
LookupAskProvider == Only("lookup") /\ \E c \in Clients : TheLookup!AskProvider(c)
LookupAskRefused == Only("lookup") /\ \E c \in Clients : TheLookup!AskRefused(c)
LookupAttemptFails == Only("lookup") /\ \E c \in Clients : TheLookup!AttemptFails(c)
LookupAnswered == Only("lookup") /\ \E c \in Clients : TheLookup!Answered(c)
LookupKeep == Only("lookup") /\ \E c \in Clients : TheLookup!Keep(c)
LookupCool == Only("lookup") /\ TheLookup!Cool
LookupExpire == Only("lookup") /\ TheLookup!Expire
LookupProviderChanges == Only("lookup") /\ TheLookup!ProviderChanges

IsbnAsk == Only("isbn") /\ TheIsbn!Ask

CatalogueSourcesChange == Only("catalogue") /\ TheCatalogue!SourcesChange
CatalogueAskUnknown == Only("catalogue") /\ \E c \in Clients : TheCatalogue!AskUnknown(c)
CatalogueRefresh == Only("catalogue") /\ \E c \in Clients : TheCatalogue!Refresh(c)
CatalogueReadIndex == Only("catalogue") /\ \E c \in Clients : TheCatalogue!ReadIndex(c)
CatalogueAnswerFromIndex == Only("catalogue") /\ \E c \in Clients : TheCatalogue!AnswerFromIndex(c)
CatalogueDiscover == Only("catalogue") /\ \E f \in Flights : TheCatalogue!Discover(f)
CatalogueIndex == Only("catalogue") /\ \E f \in Flights : TheCatalogue!Index(f)
CatalogueFinish == Only("catalogue") /\ \E f \in Flights : TheCatalogue!Finish(f)
CatalogueFail == Only("catalogue") /\ \E f \in Flights : TheCatalogue!Fail(f)
CatalogueForget == Only("catalogue") /\ TheCatalogue!Forget

WatcherStart == Only("watcher") /\ \E c \in Clients : TheWatcher!Start(c)
WatcherClaim == Only("watcher") /\ \E c \in Clients : TheWatcher!Claim(c)
WatcherScanned == Only("watcher") /\ \E c \in Clients : TheWatcher!Scanned(c)
WatcherFilesChange == Only("watcher") /\ TheWatcher!FilesChange
WatcherDebounced == Only("watcher") /\ \E c \in Clients : TheWatcher!Debounced(c)
WatcherPeriodic == Only("watcher") /\ \E c \in Clients : TheWatcher!Periodic(c)
WatcherBegin == Only("watcher") /\ \E c \in Clients : TheWatcher!Begin(c)
WatcherReconcile == Only("watcher") /\ \E c \in Clients : TheWatcher!Reconcile(c)
WatcherReconcileFails == Only("watcher") /\ \E c \in Clients : TheWatcher!ReconcileFails(c)
WatcherLapse == Only("watcher") /\ TheWatcher!Lapse
WatcherTerminate == Only("watcher") /\ \E c \in Clients : TheWatcher!Terminate(c)
WatcherCloseWatcher == Only("watcher") /\ \E c \in Clients : TheWatcher!CloseWatcher(c)
WatcherRelease == Only("watcher") /\ \E c \in Clients : TheWatcher!Release(c)
WatcherExit == Only("watcher") /\ \E c \in Clients : TheWatcher!Exit(c)
WatcherDie == Only("watcher") /\ \E c \in Clients : TheWatcher!Die(c)
WatcherLoseSession == Only("watcher") /\ \E c \in Clients : TheWatcher!LoseSession(c)

ReaderFileReplaced == Only("reader") /\ TheReader!FileReplaced
ReaderFileNoticed == Only("reader") /\ TheReader!FileNoticed
ReaderAsk == Only("reader") /\ \E c \in Clients : TheReader!Ask(c)
ReaderList == Only("reader") /\ \E c \in Clients : TheReader!List(c)
ReaderListFails == Only("reader") /\ \E c \in Clients : TheReader!ListFails(c)
ReaderGiveUp == Only("reader") /\ \E c \in Clients : TheReader!GiveUp(c)
ReaderServeKept == Only("reader") /\ \E c \in Clients : \E n \in Pages : TheReader!ServeKept(c, n)
ReaderExtract == Only("reader") /\ \E c \in Clients : \E n \in Pages : TheReader!Extract(c, n)

RangesAsk == Only("ranges") /\ TheRanges!Ask

ReadingRead == Only("reading") /\ \E c \in Clients : TheReading!Read(c)
ReadingConflict == Only("reading") /\ \E c \in Clients : TheReading!Conflict(c)
ReadingSave == Only("reading") /\ \E c \in Clients : \E x \in BOOLEAN : TheReading!Save(c, x)
ReadingBackup == Only("reading") /\ TheReading!Backup
ReadingRestore == Only("reading") /\ TheReading!Restore
ReadingRepair == Only("reading") /\ TheReading!Repair
ReadingRemove == Only("reading") /\ TheReading!Remove

SchemaStart == Only("schema") /\ \E c \in Clients : TheSchema!Start(c)
SchemaLook == Only("schema") /\ \E c \in Clients : TheSchema!Look(c)
SchemaAddLocalLibrary == Only("schema") /\ \E c \in Clients : TheSchema!AddLocalLibrary(c)
SchemaLink == Only("schema") /\ \E c \in Clients : TheSchema!Link(c)
SchemaFailOnDuplicate == Only("schema") /\ \E c \in Clients : TheSchema!FailOnDuplicate(c)
SchemaMigrate == Only("schema") /\ \E c \in Clients : \E i \in DOMAIN TheSchema!Blocks : TheSchema!Migrate(c, TheSchema!Blocks[i])
SchemaStopOrFail == Only("schema") /\ \E c \in Clients : TheSchema!StopOrFail(c)
SchemaCreateLibrary == Only("schema") /\ \E q \in Providers : TheSchema!CreateLibrary(q)
SchemaDeleteLibrary == Only("schema") /\ \E l \in TheSchema!Libraries : TheSchema!DeleteLibrary(l)
SchemaReconcile == Only("schema") /\ \E fs \in SUBSET Books : TheSchema!Reconcile(fs)

SettingsNext ==
  \/ SettingsReadCopy \/ SettingsReadRows \/ SettingsFill \/ SettingsFillNothing
  \/ SettingsSave \/ SettingsReset \/ SettingsLeave \/ SettingsInvalidate
  \/ SettingsStopBeforeInvalidating \/ SettingsExpire
AccessNext ==
  \/ AccessSaveRole \/ AccessDeleteRole \/ AccessAssignRole \/ AccessQuery \/ AccessFill
  \/ AccessFillFails \/ AccessExpire
RenamerNext ==
  \/ RenamerBegin \/ RenamerSkip \/ RenamerIdentify \/ RenamerTest \/ RenamerRename
  \/ RenamerRenameFails
CoversNext ==
  \/ CoversFileChanges \/ CoversReindex \/ CoversEnrich \/ CoversReadPersisted
  \/ CoversExtract \/ CoversMakeRoom \/ CoversSelect \/ CoversExamine \/ CoversUnlink
  \/ CoversDropRow \/ CoversWriteAndRename \/ CoversRegister \/ CoversRecord
  \/ CoversFail \/ CoversForget
MetadataNext ==
  \/ MetadataEnrich \/ MetadataSaveMatch \/ MetadataSaveNoMatch \/ MetadataReadForCover
  \/ MetadataSaveCover \/ MetadataFind \/ MetadataAccept \/ MetadataEdit
LookupNext ==
  \/ LookupAskCache \/ LookupAskProvider \/ LookupAskRefused \/ LookupAttemptFails
  \/ LookupAnswered \/ LookupKeep \/ LookupCool \/ LookupExpire \/ LookupProviderChanges
IsbnNext == IsbnAsk
CatalogueNext ==
  \/ CatalogueSourcesChange \/ CatalogueAskUnknown \/ CatalogueRefresh
  \/ CatalogueReadIndex \/ CatalogueAnswerFromIndex \/ CatalogueDiscover
  \/ CatalogueIndex \/ CatalogueFinish \/ CatalogueFail \/ CatalogueForget
WatcherNext ==
  \/ WatcherStart \/ WatcherClaim \/ WatcherScanned \/ WatcherFilesChange
  \/ WatcherDebounced \/ WatcherPeriodic \/ WatcherBegin \/ WatcherReconcile
  \/ WatcherReconcileFails \/ WatcherLapse \/ WatcherTerminate \/ WatcherCloseWatcher
  \/ WatcherRelease \/ WatcherExit \/ WatcherDie \/ WatcherLoseSession
ReaderNext ==
  \/ ReaderFileReplaced \/ ReaderFileNoticed \/ ReaderAsk \/ ReaderList
  \/ ReaderListFails \/ ReaderGiveUp \/ ReaderServeKept \/ ReaderExtract
RangesNext == RangesAsk
ReadingNext ==
  \/ ReadingRead \/ ReadingConflict \/ ReadingSave \/ ReadingBackup \/ ReadingRestore
  \/ ReadingRepair \/ ReadingRemove
SchemaNext ==
  \/ SchemaStart \/ SchemaLook \/ SchemaAddLocalLibrary \/ SchemaLink
  \/ SchemaFailOnDuplicate \/ SchemaMigrate \/ SchemaStopOrFail \/ SchemaCreateLibrary
  \/ SchemaDeleteLibrary \/ SchemaReconcile

Next ==
  \/ SettingsNext \/ AccessNext \/ RenamerNext \/ CoversNext \/ MetadataNext
  \/ LookupNext \/ IsbnNext \/ CatalogueNext \/ WatcherNext \/ ReaderNext \/ RangesNext
  \/ ReadingNext \/ SchemaNext

\* The fairness of the services: as one of them is active for ever, a condition on
\* steps of several is the condition on those of the active one.
Turn(c) ==
  IF active \notin {"settings", "access", "lookup", "catalogue", "watcher", "schema"} THEN FALSE
  ELSE \/ Only("settings") /\ TheSettings!GoOn(c)
       \/ Only("access") /\ TheAccess!GoOn(c)
       \/ Only("lookup") /\ TheLookup!Step(c)
       \/ Only("catalogue") /\ TheCatalogue!AnswerFromIndex(c)
       \/ Only("watcher") /\ TheWatcher!Advance(c)
       \/ Only("schema") /\ TheSchema!Advance(c)

\* What the fair steps of the active service change.
own == CASE active = "settings" -> settingsVars [] active = "access" -> accessVars
         [] active = "lookup" -> lookupVars [] active = "catalogue" -> catalogueVars
         [] active = "watcher" -> watcherVars [] active = "schema" -> schemaVars
         [] OTHER -> <<>>

Fairness ==
  /\ \A c \in Clients : WF_own(Turn(c))
  /\ WF_own(SettingsExpire \/ CatalogueForget \/ LookupCool \/ LookupExpire \/ WatcherLapse)
  /\ SF_own(CatalogueDiscover \/ WatcherClaim)
  /\ SF_own(CatalogueIndex \/ WatcherPeriodic)
  /\ SF_own(CatalogueFinish \/ WatcherReconcile)
  /\ SF_own(WatcherBegin)

Spec == Init /\ [][Next]_vars /\ Fairness

\* Every service stays within the types of its module.
ServicesTyped ==
  CASE active = "settings" -> TheSettings!TypeOK [] active = "access" -> TheAccess!TypeOK
    [] active = "renamer" -> TheRenamer!TypeOK [] active = "covers" -> TheCovers!TypeOK
    [] active = "metadata" -> TheMetadata!TypeOK [] active = "lookup" -> TheLookup!TypeOK
    [] active = "isbn" -> TheIsbn!TypeOK [] active = "catalogue" -> TheCatalogue!TypeOK
    [] active = "watcher" -> TheWatcher!TypeOK [] active = "reader" -> TheReader!TypeOK
    [] active = "ranges" -> TheRanges!TypeOK [] active = "reading" -> TheReading!TypeOK
    [] active = "schema" -> TheSchema!TypeOK

\* The properties of the modules, each stated and explained there: a conditional
\* save replaces the settings of its page, and the copy converges.
VersionGuardsNewest == TheSettings!VersionGuardsNewest
CopyConverges == active = "settings" => TheSettings!CopyConverges
\* What a cached access grants was granted once, and what is revoked ends.
AnswerWasGranted == active = "access" => TheAccess!AnswerWasGranted
RevocationArrives == active = "access" => TheAccess!RevocationArrives
\* The script names a file once.
NamedOnce == TheRenamer!NamedOnce
\* A cover that is served is of the file it was asked for.
CoverIsCurrent == active = "covers" => TheCovers!CoverIsCurrent
\* Metadata of another title needs a match, and what is uncertain a review.
ForeignTitleMatches == active = "metadata" => TheMetadata!ForeignTitleMatches
UncertainIsReviewed == active = "metadata" => TheMetadata!UncertainIsReviewed
\* A provider that is back is asked again and answers.
LookupsSucceed == active = "lookup" => TheLookup!LookupsSucceed
\* The forms of a book number are one number.
IsbnsAgree == active = "isbn" => TheIsbn!IsbnsAgree
\* The index takes no older listing for a newer, and the list converges to it.
IndexNeverGoesBack == TheCatalogue!IndexNeverGoesBack
ListConverges == active = "catalogue" => TheCatalogue!ListConverges
\* One server watches, and changes are listed in the end.
OneWatcher == active = "watcher" => TheWatcher!OneWatcher
ChangesAreListed == active = "watcher" => TheWatcher!ChangesAreListed
\* A page is of the file that was asked for.
PageIsOfTheFile == active = "reader" => TheReader!PageIsOfTheFile
\* Local and remote files answer the same part.
RangesAgree == active = "ranges" => TheRanges!RangesAgree
\* A save that names a version loses no other save.
NothingLost == TheReading!NothingLost
\* Books show the library of their row, and every start succeeds in the end.
BookShowsItsLibrary == active = "schema" => TheSchema!BookShowsItsLibrary
StartsSucceed == active = "schema" => TheSchema!StartsSucceed
=============================================================================
