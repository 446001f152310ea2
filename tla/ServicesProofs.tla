--------------------------- MODULE ServicesProofs ---------------------------
(***************************************************************************)
(* What each service guarantees, for any number of clients, books,         *)
(* versions and repetitions.  A behaviour is one service, so each theorem  *)
(* has its invariant under the condition that its service is the active    *)
(* one: a step is then a step of that service (StepOfOne and the lemmas    *)
(* named after the services), and its own lemmas say what it keeps.        *)
(***************************************************************************)
EXTENDS Services, Integers, FiniteSetTheorems, SequenceTheorems, TLAPS

\* A step is one of the service that is active, and no other service takes part.
LEMMA StepOfOne ==
    /\ SettingsNext => Only("settings")
    /\ AccessNext => Only("access")
    /\ RenamerNext => Only("renamer")
    /\ CoversNext => Only("covers")
    /\ MetadataNext => Only("metadata")
    /\ LookupNext => Only("lookup")
    /\ IsbnNext => Only("isbn")
    /\ CatalogueNext => Only("catalogue")
    /\ WatcherNext => Only("watcher")
    /\ ReaderNext => Only("reader")
    /\ RangesNext => Only("ranges")
    /\ ReadingNext => Only("reading")
    /\ SchemaNext => Only("schema")
  <1>1. SettingsNext => Only("settings")
    BY DEF SettingsNext, SettingsReadCopy, SettingsReadRows, SettingsFill,
           SettingsFillNothing, SettingsSave, SettingsReset, SettingsLeave,
           SettingsInvalidate, SettingsStopBeforeInvalidating, SettingsExpire
  <1>2. AccessNext => Only("access")
    BY DEF AccessNext, AccessSaveRole, AccessDeleteRole, AccessAssignRole, AccessQuery,
           AccessFill, AccessFillFails, AccessExpire
  <1>3. RenamerNext => Only("renamer")
    BY DEF RenamerNext, RenamerBegin, RenamerSkip, RenamerIdentify, RenamerTest,
           RenamerRename, RenamerRenameFails
  <1>4. CoversNext => Only("covers")
    BY DEF CoversNext, CoversFileChanges, CoversReindex, CoversEnrich,
           CoversReadPersisted, CoversExtract, CoversMakeRoom, CoversSelect,
           CoversExamine, CoversUnlink, CoversDropRow, CoversWriteAndRename,
           CoversRegister, CoversRecord, CoversFail, CoversForget
  <1>5. MetadataNext => Only("metadata")
    BY DEF MetadataNext, MetadataEnrich, MetadataSaveMatch, MetadataSaveNoMatch,
           MetadataReadForCover, MetadataSaveCover, MetadataFind, MetadataAccept,
           MetadataEdit
  <1>6. LookupNext => Only("lookup")
    BY DEF LookupNext, LookupAskCache, LookupAskProvider, LookupAskRefused,
           LookupAttemptFails, LookupAnswered, LookupKeep, LookupCool, LookupExpire,
           LookupProviderChanges
  <1>7. IsbnNext => Only("isbn")
    BY DEF IsbnNext, IsbnAsk
  <1>8. CatalogueNext => Only("catalogue")
    BY DEF CatalogueNext, CatalogueSourcesChange, CatalogueAskUnknown, CatalogueRefresh,
           CatalogueReadIndex, CatalogueAnswerFromIndex, CatalogueDiscover,
           CatalogueIndex, CatalogueFinish, CatalogueFail, CatalogueForget
  <1>9. WatcherNext => Only("watcher")
    BY DEF WatcherNext, WatcherStart, WatcherClaim, WatcherScanned, WatcherFilesChange,
           WatcherDebounced, WatcherPeriodic, WatcherBegin, WatcherReconcile,
           WatcherReconcileFails, WatcherLapse, WatcherTerminate, WatcherCloseWatcher,
           WatcherRelease, WatcherExit, WatcherDie, WatcherLoseSession
  <1>10. ReaderNext => Only("reader")
    BY DEF ReaderNext, ReaderFileReplaced, ReaderFileNoticed, ReaderAsk, ReaderList,
           ReaderListFails, ReaderGiveUp, ReaderServeKept, ReaderExtract
  <1>11. RangesNext => Only("ranges")
    BY DEF RangesNext, RangesAsk
  <1>12. ReadingNext => Only("reading")
    BY DEF ReadingNext, ReadingRead, ReadingConflict, ReadingSave, ReadingBackup,
           ReadingRestore, ReadingRepair, ReadingRemove
  <1>13. SchemaNext => Only("schema")
    BY DEF SchemaNext, SchemaStart, SchemaLook, SchemaAddLocalLibrary, SchemaLink,
           SchemaFailOnDuplicate, SchemaMigrate, SchemaStopOrFail, SchemaCreateLibrary,
           SchemaDeleteLibrary, SchemaReconcile
  <1>14. QED
    BY <1>1, <1>2, <1>3, <1>4, <1>5, <1>6, <1>7, <1>8, <1>9, <1>10, <1>11, <1>12, <1>13

LEMMA SettingsStep ==
    ASSUME [Next]_vars PROVE active' = active /\ [active = "settings" /\ TheSettings!Next]_settingsVars
  <1>1. ASSUME SettingsNext PROVE active' = active /\ active = "settings" /\ TheSettings!Next
    <2>1. Only("settings")
      BY <1>1, StepOfOne
    <2>2. TheSettings!Next
      BY <1>1 DEF SettingsNext, SettingsReadCopy, SettingsReadRows, SettingsFill,
             SettingsFillNothing, SettingsSave, SettingsReset, SettingsLeave,
             SettingsInvalidate, SettingsStopBeforeInvalidating, SettingsExpire,
             TheSettings!Next
    <2>3. QED
      BY <2>1, <2>2 DEF Only
  <1>2. ASSUME Next, ~SettingsNext PROVE active' = active /\ UNCHANGED settingsVars
    BY <1>2, StepOfOne DEF Next, Only
  <1>3. QED
    BY <1>1, <1>2 DEF vars

LEMMA AccessStep ==
    ASSUME [Next]_vars PROVE active' = active /\ [active = "access" /\ TheAccess!Next]_accessVars
  <1>1. ASSUME AccessNext PROVE active' = active /\ active = "access" /\ TheAccess!Next
    <2>1. Only("access")
      BY <1>1, StepOfOne
    <2>2. TheAccess!Next
      BY <1>1 DEF AccessNext, AccessSaveRole, AccessDeleteRole, AccessAssignRole,
             AccessQuery, AccessFill, AccessFillFails, AccessExpire, TheAccess!Next
    <2>3. QED
      BY <2>1, <2>2 DEF Only
  <1>2. ASSUME Next, ~AccessNext PROVE active' = active /\ UNCHANGED accessVars
    BY <1>2, StepOfOne DEF Next, Only
  <1>3. QED
    BY <1>1, <1>2 DEF vars

LEMMA RenamerStep ==
    ASSUME [Next]_vars PROVE active' = active /\ [active = "renamer" /\ TheRenamer!Next]_renamerVars
  <1>1. ASSUME RenamerNext PROVE active' = active /\ active = "renamer" /\ TheRenamer!Next
    <2>1. Only("renamer")
      BY <1>1, StepOfOne
    <2>2. TheRenamer!Next
      BY <1>1 DEF RenamerNext, RenamerBegin, RenamerSkip, RenamerIdentify, RenamerTest,
             RenamerRename, RenamerRenameFails, TheRenamer!Next
    <2>3. QED
      BY <2>1, <2>2 DEF Only
  <1>2. ASSUME Next, ~RenamerNext PROVE active' = active /\ UNCHANGED renamerVars
    BY <1>2, StepOfOne DEF Next, Only
  <1>3. QED
    BY <1>1, <1>2 DEF vars

LEMMA CoversStep ==
    ASSUME [Next]_vars PROVE active' = active /\ [active = "covers" /\ TheCovers!Next]_coversVars
  <1>1. ASSUME CoversNext PROVE active' = active /\ active = "covers" /\ TheCovers!Next
    <2>1. Only("covers")
      BY <1>1, StepOfOne
    <2>2. TheCovers!Next
      BY <1>1 DEF CoversNext, CoversFileChanges, CoversReindex, CoversEnrich,
             CoversReadPersisted, CoversExtract, CoversMakeRoom, CoversSelect,
             CoversExamine, CoversUnlink, CoversDropRow, CoversWriteAndRename,
             CoversRegister, CoversRecord, CoversFail, CoversForget, TheCovers!Next
    <2>3. QED
      BY <2>1, <2>2 DEF Only
  <1>2. ASSUME Next, ~CoversNext PROVE active' = active /\ UNCHANGED coversVars
    BY <1>2, StepOfOne DEF Next, Only
  <1>3. QED
    BY <1>1, <1>2 DEF vars

LEMMA MetadataStep ==
    ASSUME [Next]_vars PROVE active' = active /\ [active = "metadata" /\ TheMetadata!Next]_metadataVars
  <1>1. ASSUME MetadataNext PROVE active' = active /\ active = "metadata" /\ TheMetadata!Next
    <2>1. Only("metadata")
      BY <1>1, StepOfOne
    <2>2. TheMetadata!Next
      BY <1>1 DEF MetadataNext, MetadataEnrich, MetadataSaveMatch, MetadataSaveNoMatch,
             MetadataReadForCover, MetadataSaveCover, MetadataFind, MetadataAccept,
             MetadataEdit, TheMetadata!Next
    <2>3. QED
      BY <2>1, <2>2 DEF Only
  <1>2. ASSUME Next, ~MetadataNext PROVE active' = active /\ UNCHANGED metadataVars
    BY <1>2, StepOfOne DEF Next, Only
  <1>3. QED
    BY <1>1, <1>2 DEF vars

LEMMA LookupStep ==
    ASSUME [Next]_vars PROVE active' = active /\ [active = "lookup" /\ TheLookup!Next]_lookupVars
  <1>1. ASSUME LookupNext PROVE active' = active /\ active = "lookup" /\ TheLookup!Next
    <2>1. Only("lookup")
      BY <1>1, StepOfOne
    <2>2. TheLookup!Next
      BY <1>1 DEF LookupNext, LookupAskCache, LookupAskProvider, LookupAskRefused,
             LookupAttemptFails, LookupAnswered, LookupKeep, LookupCool, LookupExpire,
             LookupProviderChanges, TheLookup!Next, TheLookup!Step
    <2>3. QED
      BY <2>1, <2>2 DEF Only
  <1>2. ASSUME Next, ~LookupNext PROVE active' = active /\ UNCHANGED lookupVars
    BY <1>2, StepOfOne DEF Next, Only
  <1>3. QED
    BY <1>1, <1>2 DEF vars

LEMMA IsbnStep ==
    ASSUME [Next]_vars PROVE active' = active /\ [active = "isbn" /\ TheIsbn!Ask]_isbnVars
  <1>1. ASSUME IsbnNext PROVE active' = active /\ active = "isbn" /\ TheIsbn!Ask
    <2>1. Only("isbn")
      BY <1>1, StepOfOne
    <2>2. TheIsbn!Ask
      BY <1>1 DEF IsbnNext, IsbnAsk
    <2>3. QED
      BY <2>1, <2>2 DEF Only
  <1>2. ASSUME Next, ~IsbnNext PROVE active' = active /\ UNCHANGED isbnVars
    BY <1>2, StepOfOne DEF Next, Only
  <1>3. QED
    BY <1>1, <1>2 DEF vars

LEMMA CatalogueStep ==
    ASSUME [Next]_vars PROVE active' = active /\ [active = "catalogue" /\ TheCatalogue!Next]_catalogueVars
  <1>1. ASSUME CatalogueNext PROVE active' = active /\ active = "catalogue" /\ TheCatalogue!Next
    <2>1. Only("catalogue")
      BY <1>1, StepOfOne
    <2>2. TheCatalogue!Next
      BY <1>1 DEF CatalogueNext, CatalogueSourcesChange, CatalogueAskUnknown,
             CatalogueRefresh, CatalogueReadIndex, CatalogueAnswerFromIndex,
             CatalogueDiscover, CatalogueIndex, CatalogueFinish, CatalogueFail,
             CatalogueForget, TheCatalogue!Next
    <2>3. QED
      BY <2>1, <2>2 DEF Only
  <1>2. ASSUME Next, ~CatalogueNext PROVE active' = active /\ UNCHANGED catalogueVars
    BY <1>2, StepOfOne DEF Next, Only
  <1>3. QED
    BY <1>1, <1>2 DEF vars

LEMMA WatcherStep ==
    ASSUME [Next]_vars PROVE active' = active /\ [active = "watcher" /\ TheWatcher!Next]_watcherVars
  <1>1. ASSUME WatcherNext PROVE active' = active /\ active = "watcher" /\ TheWatcher!Next
    <2>1. Only("watcher")
      BY <1>1, StepOfOne
    <2>2. TheWatcher!Next
      BY <1>1 DEF WatcherNext, WatcherStart, WatcherClaim, WatcherScanned,
             WatcherFilesChange, WatcherDebounced, WatcherPeriodic, WatcherBegin,
             WatcherReconcile, WatcherReconcileFails, WatcherLapse, WatcherTerminate,
             WatcherCloseWatcher, WatcherRelease, WatcherExit, WatcherDie,
             WatcherLoseSession,
             TheWatcher!Next, TheWatcher!Advance
    <2>3. QED
      BY <2>1, <2>2 DEF Only
  <1>2. ASSUME Next, ~WatcherNext PROVE active' = active /\ UNCHANGED watcherVars
    BY <1>2, StepOfOne DEF Next, Only
  <1>3. QED
    BY <1>1, <1>2 DEF vars

LEMMA ReaderStep ==
    ASSUME [Next]_vars PROVE active' = active /\ [active = "reader" /\ TheReader!Next]_readerVars
  <1>1. ASSUME ReaderNext PROVE active' = active /\ active = "reader" /\ TheReader!Next
    <2>1. Only("reader")
      BY <1>1, StepOfOne
    <2>2. TheReader!Next
      BY <1>1 DEF ReaderNext, ReaderFileReplaced, ReaderFileNoticed, ReaderAsk,
             ReaderList, ReaderListFails, ReaderGiveUp, ReaderServeKept, ReaderExtract,
             TheReader!Next
    <2>3. QED
      BY <2>1, <2>2 DEF Only
  <1>2. ASSUME Next, ~ReaderNext PROVE active' = active /\ UNCHANGED readerVars
    BY <1>2, StepOfOne DEF Next, Only
  <1>3. QED
    BY <1>1, <1>2 DEF vars

LEMMA RangesStep ==
    ASSUME [Next]_vars PROVE active' = active /\ [active = "ranges" /\ TheRanges!Ask]_rangesVars
  <1>1. ASSUME RangesNext PROVE active' = active /\ active = "ranges" /\ TheRanges!Ask
    <2>1. Only("ranges")
      BY <1>1, StepOfOne
    <2>2. TheRanges!Ask
      BY <1>1 DEF RangesNext, RangesAsk
    <2>3. QED
      BY <2>1, <2>2 DEF Only
  <1>2. ASSUME Next, ~RangesNext PROVE active' = active /\ UNCHANGED rangesVars
    BY <1>2, StepOfOne DEF Next, Only
  <1>3. QED
    BY <1>1, <1>2 DEF vars

LEMMA ReadingStep ==
    ASSUME [Next]_vars PROVE active' = active /\ [active = "reading" /\ TheReading!Next]_readingVars
  <1>1. ASSUME ReadingNext PROVE active' = active /\ active = "reading" /\ TheReading!Next
    <2>1. Only("reading")
      BY <1>1, StepOfOne
    <2>2. TheReading!Next
      BY <1>1 DEF ReadingNext, ReadingRead, ReadingConflict, ReadingSave, ReadingBackup,
             ReadingRestore, ReadingRepair, ReadingRemove, TheReading!Next
    <2>3. QED
      BY <2>1, <2>2 DEF Only
  <1>2. ASSUME Next, ~ReadingNext PROVE active' = active /\ UNCHANGED readingVars
    BY <1>2, StepOfOne DEF Next, Only
  <1>3. QED
    BY <1>1, <1>2 DEF vars

LEMMA SchemaStep ==
    ASSUME [Next]_vars PROVE active' = active /\ [active = "schema" /\ TheSchema!Next]_schemaVars
  <1>1. ASSUME SchemaNext PROVE active' = active /\ active = "schema" /\ TheSchema!Next
    <2>1. Only("schema")
      BY <1>1, StepOfOne
    <2>2. TheSchema!Next
      BY <1>1 DEF SchemaNext, SchemaStart, SchemaLook, SchemaAddLocalLibrary,
             SchemaLink, SchemaFailOnDuplicate, SchemaMigrate, SchemaStopOrFail,
             SchemaCreateLibrary, SchemaDeleteLibrary, SchemaReconcile, TheSchema!Next,
             TheSchema!Advance
    <2>3. QED
      BY <2>1, <2>2 DEF Only
  <1>2. ASSUME Next, ~SchemaNext PROVE active' = active /\ UNCHANGED schemaVars
    BY <1>2, StepOfOne DEF Next, Only
  <1>3. QED
    BY <1>1, <1>2 DEF vars

\* The bounds of the services are numbers.
LEMMA Bounds ==
    /\ MaxWritten \in Nat /\ MaxResets \in Nat /\ MaxGrants \in Nat /\ MaxRuns \in Nat
    /\ MaxFileChanges \in Nat /\ MaxKept \in Nat /\ MaxSize \in Nat /\ MaxSaves \in Nat
    /\ MaxStops \in Nat /\ MaxExtractions \in Nat /\ MaxSafe \in Nat /\ MaxSize <= MaxSafe
    /\ MaxVersions \in Nat \ {0} /\ MaxEdits \in Nat \ {0}
    /\ Attempts \in Nat \ {0} /\ Threshold \in Nat \ {0}
  BY ServicesAssumption

-----------------------------------------------------------------------------
(* Settings. *)

\* What SettingsProofs proves of administrators holds of the service.
SettingsT == INSTANCE SettingsProofs WITH Admins <- Clients

LEMMA SettingsAreProved ==
    /\ TheSettings!Init => SettingsT!Init
    /\ [TheSettings!Next]_settingsVars => [SettingsT!Next]_(SettingsT!settingsVars)
  BY DEF settingsVars, SettingsT!settingsVars, TheSettings!Init, SettingsT!Init,
     TheSettings!Next, SettingsT!Next, TheSettings!Keys, SettingsT!Keys,
     TheSettings!Unset, SettingsT!Unset, TheSettings!Snapshot, SettingsT!Snapshot,
     TheSettings!Newest, SettingsT!Newest, TheSettings!Written, SettingsT!Written,
     TheSettings!Upsert, SettingsT!Upsert, TheSettings!Sent, SettingsT!Sent,
     TheSettings!Nothing, SettingsT!Nothing, TheSettings!At,
     SettingsT!At, TheSettings!Goto, SettingsT!Goto, TheSettings!Done, SettingsT!Done,
     TheSettings!ReadCopy, SettingsT!ReadCopy, TheSettings!ReadRows, SettingsT!ReadRows,
     TheSettings!Fill, SettingsT!Fill, TheSettings!FillNothing, SettingsT!FillNothing,
     TheSettings!UpToDate, SettingsT!UpToDate, TheSettings!Save, SettingsT!Save,
     TheSettings!Reset, SettingsT!Reset, TheSettings!Leave, SettingsT!Leave,
     TheSettings!Invalidate, SettingsT!Invalidate, TheSettings!StopBeforeInvalidating,
     SettingsT!StopBeforeInvalidating, TheSettings!Expire, SettingsT!Expire

\* For any administrators, saves and resets: a conditional save or reset goes through
\* only if the newest settings of its page are as the page showed them.
THEOREM SettingsAreGuarded == Spec => VersionGuardsNewest
  <1> DEFINE Inv == active = "settings" => SettingsT!IInv
             Guarded == \A a \in Clients :
               TheSettings!At(a, "shown") /\ admin[a]'.at = "checked"
                 => LET old == admin[a].seen
                    IN  \A k \in TheSettings!Keys :
                          old.rows[k].version = TheSettings!Newest(old.rows)
                            /\ old.resets[k] = resets[k]
                            => rows[k] = old.rows[k]
  <1>1. Init => Inv
    BY SettingsAreProved, SettingsT!SettingsInitially DEF Init
  <1>2. Inv /\ [Next]_vars => Inv'
    BY SettingsStep, SettingsAreProved, SettingsT!StepStaysPast
  <1>3. Inv /\ [Next]_vars => [Guarded]_(TheSettings!settingsVars)
    <2>1. SUFFICES ASSUME Inv, [Next]_vars,
                          ~UNCHANGED TheSettings!settingsVars,
                          NEW a \in Clients, TheSettings!At(a, "shown"),
                          admin'[a].at = "checked", NEW k \in TheSettings!Keys,
                          admin[a].seen.resets[k] = resets[k],
                          admin[a].seen.rows[k].version
                            = TheSettings!Newest(admin[a].seen.rows)
                   PROVE  rows[k] = admin[a].seen.rows[k]
      OBVIOUS
    <2>2. SettingsT!IInv /\ SettingsT!Next
      BY <2>1, SettingsStep, SettingsAreProved
      DEF TheSettings!settingsVars, SettingsT!settingsVars, settingsVars
    <2>3. /\ SettingsT!At(a, "shown") /\ k \in SettingsT!Keys
          /\ \A r : SettingsT!Newest(r) = TheSettings!Newest(r)
      BY <2>1 DEF TheSettings!At, SettingsT!At, TheSettings!Keys, SettingsT!Keys,
                  TheSettings!Newest, SettingsT!Newest
    <2>4. SettingsT!Newest(admin[a].seen.rows) = SettingsT!Newest(rows)
      BY <2>1, <2>2, <2>3, SettingsT!OnlyConditionalChecks
    <2>5. QED
      BY <2>1, <2>2, <2>3, <2>4, SettingsT!ConditionalIsGuarded
  <1>4. QED
    BY <1>1, <1>2, <1>3, PTL DEF Spec, VersionGuardsNewest, TheSettings!VersionGuardsNewest

\* The copy is no snapshot or one.
SettingsTyping ==
  /\ TheSettings!Snapshot \in TheSettings!Snapshots
  /\ copy \subseteq TheSettings!Snapshots /\ (copy = {} \/ \E s : copy = {s})
  /\ admin \in [Clients -> [at : {"idle", "queried", "shown", "checked", "forced"},
                            seen : TheSettings!Snapshots]]

LEMMA SettingsTyped == SettingsTyping => TheSettings!TypeOK
  <1>1. Cardinality({}) = 0 /\ \A s : Cardinality({s}) = 1
    BY FS_EmptySet, FS_Singleton
  <1>0. TheSettings!Cardinality(copy) = Cardinality(copy)
    BY Zenon DEF TheSettings!Cardinality, Cardinality
  <1>2. ASSUME copy = {} \/ \E s : copy = {s} PROVE Cardinality(copy) <= 1
    <2>1. Cardinality(copy) \in {0, 1}
      BY <1>1, <1>2
    <2>2. QED
      BY <2>1
  <1>3. SUFFICES ASSUME SettingsTyping PROVE TheSettings!TypeOK
    OBVIOUS
  <1>4. copy \in SUBSET TheSettings!Snapshots
    BY <1>3 DEF SettingsTyping
  <1>5. copy = {} \/ \E s : copy = {s}
    BY <1>3 DEF SettingsTyping
  <1>6. TheSettings!Cardinality(copy) <= 1
    BY <1>0, <1>2, <1>5
  <1>7. /\ TheSettings!Snapshot \in TheSettings!Snapshots
        /\ admin \in [Clients -> [at : {"idle", "queried", "shown", "checked", "forced"},
                                  seen : TheSettings!Snapshots]]
    BY <1>3 DEF SettingsTyping
  <1>8. QED
    BY <1>4, <1>6, <1>7 DEF TheSettings!TypeOK

LEMMA UnsetIsAPage ==
    /\ TheSettings!Nothing \in TheSettings!Snapshots
    /\ TheSettings!Unset \in [value : BOOLEAN, version : 0..MaxWritten]
  BY Bounds DEF TheSettings!Nothing, TheSettings!Snapshots, TheSettings!Unset

LEMMA SettingsTypedInitially == ASSUME TheSettings!Init PROVE SettingsTyping
  <1>1. TheSettings!Snapshot = TheSettings!Nothing
    BY DEF TheSettings!Init, TheSettings!Snapshot, TheSettings!Nothing
  <1>2. QED
    BY <1>1, UnsetIsAPage DEF TheSettings!Init, SettingsTyping

LEMMA SettingsTypeKept ==
    ASSUME SettingsTyping, [TheSettings!Next]_settingsVars PROVE SettingsTyping'
  <1> DEFINE Row == [value : BOOLEAN, version : 0..MaxWritten]
  <1>1. rows \in [TheSettings!Keys -> Row] /\ resets \in [TheSettings!Keys -> Nat]
    BY DEF SettingsTyping, TheSettings!Snapshot, TheSettings!Snapshots
  <1>2. ASSUME rows' \in [TheSettings!Keys -> Row], resets' \in [TheSettings!Keys -> Nat]
        PROVE  TheSettings!Snapshot' \in TheSettings!Snapshots
    BY <1>2 DEF TheSettings!Snapshot, TheSettings!Snapshots
  <1>3. ASSUME NEW a \in Clients,
               \/ TheSettings!ReadCopy(a) \/ TheSettings!ReadRows(a) \/ TheSettings!Fill(a)
               \/ TheSettings!FillNothing(a) \/ TheSettings!Leave(a)
               \/ TheSettings!Invalidate(a) \/ TheSettings!StopBeforeInvalidating(a)
        PROVE  SettingsTyping'
    <2>1. UNCHANGED <<rows, resets>> /\ TheSettings!Snapshot' \in TheSettings!Snapshots
      BY <1>1, <1>2, <1>3 DEF TheSettings!ReadCopy, TheSettings!ReadRows, TheSettings!Fill,
                   TheSettings!FillNothing, TheSettings!Leave, TheSettings!Invalidate,
                   TheSettings!StopBeforeInvalidating
    <2>2. copy' \in {copy, {}, {admin[a].seen}} /\ admin[a].seen \in TheSettings!Snapshots
      BY <1>3 DEF SettingsTyping, TheSettings!ReadCopy, TheSettings!ReadRows, TheSettings!Fill,
                  TheSettings!FillNothing, TheSettings!Leave, TheSettings!Invalidate,
                  TheSettings!StopBeforeInvalidating
    <2>3. admin' \in [Clients -> [at : {"idle", "queried", "shown", "checked", "forced"},
                                  seen : TheSettings!Snapshots]]
      BY <1>3, UnsetIsAPage DEF SettingsTyping, TheSettings!ReadCopy, TheSettings!ReadRows,
                  TheSettings!Fill, TheSettings!FillNothing, TheSettings!Leave,
                  TheSettings!Invalidate, TheSettings!StopBeforeInvalidating,
                  TheSettings!Goto, TheSettings!Done
    <2>4. QED
      BY <2>1, <2>2, <2>3 DEF SettingsTyping
  <1>4. ASSUME NEW a \in Clients, TheSettings!Save(a) PROVE SettingsTyping'
    <2>1. PICK changed \in SUBSET TheSettings!Keys, value \in BOOLEAN,
               conditional \in BOOLEAN :
            /\ rows' = TheSettings!Upsert(rows, changed, value)
            /\ TheSettings!Written(rows') <= MaxWritten
            /\ TheSettings!Done(a, IF conditional THEN "checked" ELSE "forced")
      BY <1>4 DEF TheSettings!Save, TheSettings!Sent
    <2>2. rows' \in [TheSettings!Keys -> [value : BOOLEAN, version : Nat]]
      BY <1>1, <2>1, Bounds DEF TheSettings!Upsert
    <2>3. /\ rows'["sameSite"].version \in Nat /\ rows'["secure"].version \in Nat
          /\ rows'["sameSite"].version + rows'["secure"].version <= MaxWritten
      BY <2>1, <2>2 DEF TheSettings!Keys, TheSettings!Written
    <2>4. \A k \in TheSettings!Keys : rows'[k].version \in 0..MaxWritten
      BY <2>3, Bounds DEF TheSettings!Keys
    <2>5. rows' \in [TheSettings!Keys -> Row]
      BY <2>2, <2>4
    <2>6. UNCHANGED <<resets, copy>>
      BY <1>4 DEF TheSettings!Save
    <2>7. admin' \in [Clients -> [at : {"idle", "queried", "shown", "checked", "forced"},
                                  seen : TheSettings!Snapshots]]
      BY <2>1, UnsetIsAPage DEF SettingsTyping, TheSettings!Done
    <2>8. QED
      BY <1>1, <1>2, <2>5, <2>6, <2>7 DEF SettingsTyping
  <1>5. ASSUME NEW a \in Clients, TheSettings!Reset(a) PROVE SettingsTyping'
    <2>1. rows' \in [TheSettings!Keys -> Row]
      BY <1>1, <1>5, UnsetIsAPage DEF TheSettings!Reset
    <2>2. resets' \in [TheSettings!Keys -> Nat] /\ UNCHANGED copy
      BY <1>1, <1>5 DEF TheSettings!Reset
    <2>3. admin' \in [Clients -> [at : {"idle", "queried", "shown", "checked", "forced"},
                                  seen : TheSettings!Snapshots]]
      BY <1>5, UnsetIsAPage DEF SettingsTyping, TheSettings!Reset, TheSettings!Sent,
                               TheSettings!Done
    <2>4. QED
      BY <1>2, <2>1, <2>2, <2>3 DEF SettingsTyping
  <1>6. ASSUME copy' \in {{}, copy}, UNCHANGED <<rows, resets, admin>> PROVE SettingsTyping'
    BY <1>6 DEF SettingsTyping, TheSettings!Snapshot
  <1>7. QED
    BY <1>3, <1>4, <1>5, <1>6 DEF TheSettings!Next, TheSettings!Expire, settingsVars

-----------------------------------------------------------------------------
(* Access to libraries. *)

\* What is cached or about to be cached was an access of the user, and so is the
\* one that its role and grants give.
AccessInv ==
  /\ TheAccess!TypeOK
  /\ \A u \in Clients : TheAccess!Access(u) \in held[u] /\ TheAccess!Answers(u) \subseteq held[u]

LEMMA AccessInitially == ASSUME TheAccess!Init PROVE AccessInv
  <1>1. grants \in [TheAccess!Roles -> SUBSET LibraryIds]
    BY DEF TheAccess!Init
  <1>2. roleOf \in [Clients -> TheAccess!Roles]
    BY DEF TheAccess!Init, TheAccess!Roles
  <1>3. /\ cached \in [Clients -> SUBSET SUBSET LibraryIds]
        /\ asking \in [Clients -> SUBSET SUBSET LibraryIds]
        /\ held \in [Clients -> SUBSET SUBSET LibraryIds] /\ changes \in 0..MaxGrants
    BY Bounds DEF TheAccess!Init
  <1>4. ASSUME NEW u \in Clients
        PROVE  TheAccess!Access(u) \in held[u] /\ TheAccess!Answers(u) \subseteq held[u]
    BY <1>2 DEF TheAccess!Init, TheAccess!Access, TheAccess!AccessibleLibraries,
                TheAccess!Answers, TheAccess!Roles
  <1>5. QED
    BY <1>1, <1>2, <1>3, <1>4 DEF AccessInv, TheAccess!TypeOK

\* Who changes roles or users adds the new access to the history of every user.
LEMMA ChangeIsHeld ==
    ASSUME AccessInv, NEW g \in [TheAccess!Roles -> SUBSET LibraryIds],
           NEW r \in [Clients -> TheAccess!Roles], TheAccess!Change(g, r)
    PROVE  AccessInv'
  <1>1. \A u \in Clients : TheAccess!AccessibleLibraries(g, r[u]) \in SUBSET LibraryIds
    BY DEF TheAccess!AccessibleLibraries
  <1>2. /\ grants' = g /\ roleOf' = r /\ UNCHANGED <<cached, asking>>
        /\ changes < MaxGrants /\ changes' = changes + 1
        /\ held' = [u \in Clients |-> held[u] \cup {TheAccess!AccessibleLibraries(g, r[u])}]
    BY DEF TheAccess!Change
  <1>3. held' \in [Clients -> SUBSET SUBSET LibraryIds]
    BY <1>1, <1>2 DEF AccessInv, TheAccess!TypeOK
  <1>4. changes' \in 0..MaxGrants
    BY <1>2, Bounds DEF AccessInv, TheAccess!TypeOK
  <1>5. TheAccess!TypeOK'
    BY <1>2, <1>3, <1>4 DEF AccessInv, TheAccess!TypeOK
  <1>6. ASSUME NEW u \in Clients
        PROVE  (TheAccess!Access(u) \in held[u] /\ TheAccess!Answers(u) \subseteq held[u])'
    BY <1>2 DEF AccessInv, TheAccess!Access, TheAccess!Answers
  <1>7. QED
    BY <1>5, <1>6 DEF AccessInv

LEMMA AccessKept == ASSUME AccessInv, [TheAccess!Next]_accessVars PROVE AccessInv'
  <1>1. ASSUME NEW r \in TheAccess!Roles, NEW ls \in SUBSET LibraryIds,
               TheAccess!SaveRole(r, ls)
        PROVE  AccessInv'
    BY <1>1, ChangeIsHeld DEF TheAccess!SaveRole, AccessInv, TheAccess!TypeOK
  <1>2. ASSUME NEW r \in TheAccess!Roles, NEW other \in TheAccess!Roles,
               TheAccess!DeleteRole(r, other)
        PROVE  AccessInv'
    <2> DEFINE g == [grants EXCEPT ![r] = {}]
               ro == [u \in Clients |-> IF roleOf[u] = r THEN other ELSE roleOf[u]]
    <2>1. /\ g \in [TheAccess!Roles -> SUBSET LibraryIds]
          /\ ro \in [Clients -> TheAccess!Roles]
      BY DEF AccessInv, TheAccess!TypeOK
    <2>2. TheAccess!Change(g, ro)
      BY <1>2 DEF TheAccess!DeleteRole
    <2> HIDE DEF g, ro
    <2>3. QED
      BY <2>1, <2>2, ChangeIsHeld
  <1>3. ASSUME NEW u \in Clients, NEW r \in TheAccess!Roles, TheAccess!AssignRole(u, r)
        PROVE  AccessInv'
    BY <1>3, ChangeIsHeld DEF TheAccess!AssignRole, AccessInv, TheAccess!TypeOK
  <1>4. ASSUME NEW u \in Clients,
               \/ TheAccess!Query(u) \/ TheAccess!Fill(u) \/ TheAccess!FillFails(u)
               \/ TheAccess!Expire(u)
        PROVE  AccessInv'
    <2>1. TheAccess!Access(u) \in SUBSET LibraryIds
      BY DEF TheAccess!Access, TheAccess!AccessibleLibraries, AccessInv, TheAccess!TypeOK
    <2>2. UNCHANGED <<grants, roleOf, held, changes>>
      BY <1>4 DEF TheAccess!Query, TheAccess!Fill, TheAccess!FillFails, TheAccess!Expire
    <2>3. /\ cached' \in [Clients -> SUBSET SUBSET LibraryIds]
          /\ asking' \in [Clients -> SUBSET SUBSET LibraryIds]
          /\ \A v \in Clients : cached'[v] \cup asking'[v]
                                  \subseteq cached[v] \cup asking[v] \cup {TheAccess!Access(v)}
      BY <1>4, <2>1 DEF AccessInv, TheAccess!TypeOK, TheAccess!Query, TheAccess!Fill,
                        TheAccess!FillFails, TheAccess!Expire
    <2>4. QED
      BY <2>2, <2>3 DEF AccessInv, TheAccess!TypeOK, TheAccess!Access, TheAccess!Answers
  <1>5. CASE UNCHANGED accessVars
    BY <1>5 DEF accessVars, AccessInv, TheAccess!TypeOK, TheAccess!Access, TheAccess!Answers
  <1>6. QED
    BY <1>1, <1>2, <1>3, <1>4, <1>5 DEF TheAccess!Next

\* For any users, libraries and changes of roles and users: what a request is
\* answered with was, as a whole, an access of its user.
THEOREM AccessWasGranted == Spec => []AnswerWasGranted
  <1> DEFINE Inv == active = "access" => AccessInv
  <1>1. Init => Inv
    BY AccessInitially DEF Init
  <1>2. Inv /\ [Next]_vars => Inv'
    BY AccessStep, AccessKept
  <1>3. Inv => AnswerWasGranted
    BY DEF AnswerWasGranted, TheAccess!AnswerWasGranted, AccessInv
  <1>4. QED
    BY <1>1, <1>2, <1>3, PTL DEF Spec

-----------------------------------------------------------------------------
(* The script that renames files. *)

\* What a run is, and what its searches may have returned.
Run == [at : {"next", "testing", "renaming"}, todo : SUBSET TheRenamer!Name,
        apply : BOOLEAN, allowMissing : BOOLEAN,
        path : TheRenamer!Name \cup {TheRenamer!Gone},
        new : TheRenamer!Name \cup {TheRenamer!Gone}]
Found == [key : (TheRenamer!Titles \cup {TheRenamer!Unknown})
                  \X (TheRenamer!Authors \cup {TheRenamer!Unknown}),
          book : TheRenamer!Book]

\* A run renames a name that it does not recognise to one that it composed.
Renames(r) ==
  r.at # "next" => /\ r.new \in TheRenamer!Name /\ r.new.form = "composed"
                   /\ r.path \in TheRenamer!Name /\ ~TheRenamer!Complete(r.path)

Searched ==
  /\ script \in [Clients -> Run] /\ found \in [Clients -> SUBSET Found]
  /\ \A s \in Clients : Renames(script[s])

\* What the script has renamed has a name that it composed, or was replaced.
RenamerInv ==
  /\ names \in [Books -> TheRenamer!Name \cup {TheRenamer!Gone}]
  /\ pdf \in [Books -> TheRenamer!Pdf]
  /\ Searched
  /\ runs \in 0..MaxRuns /\ renamed \subseteq Books
  /\ \A f \in renamed : names[f] = TheRenamer!Gone \/ names[f].form = "composed"

LEMMA RenamerTyped == RenamerInv => TheRenamer!TypeOK
  <1>1. SUFFICES ASSUME RenamerInv, NEW s \in Clients
                 PROVE  /\ script[s].at \in {"next", "testing", "renaming"}
                        /\ script[s].todo \subseteq TheRenamer!Name
                        /\ {script[s].path, script[s].new}
                             \subseteq TheRenamer!Name \cup {TheRenamer!Gone}
                        /\ {script[s].apply, script[s].allowMissing} \subseteq BOOLEAN
                        /\ found[s] \subseteq Found
    BY Zenon DEF RenamerInv, Searched, Found, TheRenamer!TypeOK
  <1>2. script[s] \in Run /\ found[s] \in SUBSET Found
    BY <1>1 DEF RenamerInv, Searched
  <1>3. QED
    BY <1>2 DEF Run

LEMMA IdleIsARun == TheRenamer!Idle \in Run /\ Renames(TheRenamer!Idle)
  BY DEF TheRenamer!Idle, Run, Renames

LEMMA RenamerInitially == ASSUME TheRenamer!Init PROVE RenamerInv
  <1>1. PICK c \in Collected : names = c.names /\ pdf = c.pdf
    BY DEF TheRenamer!Init
  <1>2. names \in [Books -> TheRenamer!Name] /\ pdf \in [Books -> TheRenamer!Pdf]
    BY <1>1, ServicesAssumption
  <1>3. script = [s \in Clients |-> TheRenamer!Idle] /\ found = [s \in Clients |-> {}]
    BY DEF TheRenamer!Init
  <1>4. Searched
    BY <1>3, IdleIsARun DEF Searched
  <1>5. QED
    BY <1>2, <1>4, Bounds DEF RenamerInv, TheRenamer!Init

\* What a name and its PDF say together is a book, and so is every answer.
LEMMA LocalIsABook ==
    ASSUME NEW n \in TheRenamer!Name, NEW book \in TheRenamer!Book
    PROVE  TheRenamer!Local(n, book) \in TheRenamer!Book
  <1> DEFINE title == TheRenamer!UsableTitle(TheRenamer!FromName(n).title)
             author == TheRenamer!UsableAuthor(TheRenamer!FromName(n).author)
             number == TheRenamer!FromName(n).isbn
  <1>1. title \in TheRenamer!Titles \cup {TheRenamer!Unknown}
    BY DEF TheRenamer!FromName, TheRenamer!UsableTitle, TheRenamer!Name, TheRenamer!Titles,
           TheRenamer!Unknown
  <1>2. author \in TheRenamer!Authors \cup {TheRenamer!Unknown}
    BY DEF TheRenamer!UsableAuthor
  <1>3. number \in TheRenamer!Isbns \cup {TheRenamer!Unknown}
    BY DEF TheRenamer!FromName, TheRenamer!Name, TheRenamer!Isbns, TheRenamer!Unknown
  <1> HIDE DEF title, author, number
  <1>4. TheRenamer!Local(n, book) = [title |-> TheRenamer!Or(title, book.title),
                                     author |-> TheRenamer!Or(author, book.author),
                                     isbn |-> TheRenamer!Or(number, book.isbn)]
    BY DEF TheRenamer!Local, title, author, number
  <1>5. QED
    BY <1>1, <1>2, <1>3, <1>4 DEF TheRenamer!Or, TheRenamer!Book

LEMMA SearchIsKeyed ==
    ASSUME RenamerInv, NEW s \in Clients, NEW b \in TheRenamer!Book, NEW text,
           NEW online \in TheRenamer!Answers(s, b, text)
    PROVE  /\ online \in TheRenamer!Book
           /\ TheRenamer!Kept(s, b, text, online) \in SUBSET Found
  <1>1. found[s] \in SUBSET Found
    BY DEF RenamerInv, Searched
  <1>2. TheRenamer!Nothing \in TheRenamer!Book
    BY DEF TheRenamer!Nothing, TheRenamer!Book
  <1>3. TheRenamer!Compatible(b, text) \subseteq TheRenamer!Book
    BY <1>2, ServicesAssumption DEF TheRenamer!Compatible
  <1>4. \A r \in found[s] : r.book \in TheRenamer!Book
    BY <1>1 DEF Found
  <1>5. online \in TheRenamer!Book
    BY <1>3, <1>4 DEF TheRenamer!Answers
  <1>6. [key |-> TheRenamer!Key(b), book |-> online] \in Found
    BY <1>5 DEF TheRenamer!Key, TheRenamer!Book, Found
  <1>7. QED
    BY <1>1, <1>5, <1>6 DEF TheRenamer!Kept

\* A name the script composes is a name.
LEMMA ComposedIsAName ==
    ASSUME NEW s \in Clients, NEW b \in TheRenamer!Book, NEW online \in TheRenamer!Book
    PROVE  /\ TheRenamer!NewName(s, b, online) \in TheRenamer!Name
           /\ TheRenamer!NewName(s, b, online).form = "composed"
  <1> DEFINE new == TheRenamer!NewName(s, b, online)
  <1>1. /\ TheRenamer!Fallback(s, "title") \in {TheRenamer!Unknown, "untitled"}
        /\ TheRenamer!Fallback(s, "author") \in {TheRenamer!Unknown, "unknown"}
        /\ TheRenamer!Fallback(s, "isbn") \in {TheRenamer!Unknown, "none"}
    BY DEF TheRenamer!Fallback, TheRenamer!Placeholder
  <1>2. /\ b.title \in TheRenamer!Titles \cup {TheRenamer!Unknown}
        /\ b.author \in TheRenamer!Authors \cup {TheRenamer!Unknown}
        /\ b.isbn \in TheRenamer!Isbns \cup {TheRenamer!Unknown}
        /\ online.title \in TheRenamer!Titles \cup {TheRenamer!Unknown}
        /\ online.author \in TheRenamer!Authors \cup {TheRenamer!Unknown}
        /\ online.isbn \in TheRenamer!Isbns \cup {TheRenamer!Unknown}
    BY DEF TheRenamer!Book
  <1>3. /\ new.title \in TheRenamer!Titles \cup {TheRenamer!Unknown, "untitled"}
        /\ new.author \in TheRenamer!Authors \cup {TheRenamer!Unknown, "unknown"}
        /\ new.isbn \in TheRenamer!Isbns \cup {TheRenamer!Unknown, "none"}
    BY <1>1, <1>2 DEF TheRenamer!NewName, TheRenamer!Or
  <1>4. new = [form |-> "composed", title |-> new.title, author |-> new.author,
               isbn |-> new.isbn]
    BY DEF TheRenamer!NewName
  <1> HIDE DEF new
  <1>5. new \in TheRenamer!Name /\ new.form = "composed"
    BY <1>3, <1>4 DEF TheRenamer!Name
  <1>6. QED
    BY <1>5 DEF new

\* A script that goes on soundly leaves all runs sound.
LEMMA ContinueKeeps ==
    ASSUME RenamerInv, NEW s \in Clients, NEW r \in Run, Renames(r),
           NEW f \in SUBSET Found, TheRenamer!Continue(s, r, f)
    PROVE  Searched'
  <1>1. PICK run \in Run, kept_ \in SUBSET Found :
          /\ Renames(run)
          /\ script' = [script EXCEPT ![s] = run] /\ found' = [found EXCEPT ![s] = kept_]
    BY IdleIsARun DEF TheRenamer!Continue
  <1>2. script' \in [Clients -> Run] /\ found' \in [Clients -> SUBSET Found]
    BY <1>1 DEF RenamerInv, Searched
  <1>3. \A t \in Clients : script'[t] \in {script[t], run}
    BY <1>1 DEF RenamerInv, Searched
  <1>4. QED
    BY <1>1, <1>2, <1>3 DEF RenamerInv, Searched

\* A run that leaves the file it visits, or goes on to the next, is sound.
LEMMA OtherPlaces ==
    ASSUME NEW r \in Run, Renames(r)
    PROVE  /\ [r EXCEPT !.at = "next", !.path = TheRenamer!Gone, !.new = TheRenamer!Gone]
                \in Run
           /\ [r EXCEPT !.at = "next", !.path = TheRenamer!Gone, !.new = TheRenamer!Gone].at
                = "next"
           /\ r.at = "testing" => /\ [r EXCEPT !.at = "renaming"] \in Run
                                  /\ Renames([r EXCEPT !.at = "renaming"])
           /\ \A n : r.at = "next" => /\ [r EXCEPT !.todo = @ \ {n}] \in Run
                                      /\ [r EXCEPT !.todo = @ \ {n}].at = "next"
  BY DEF Run, Renames

LEMMA LeaveKeeps ==
    ASSUME RenamerInv, NEW s \in Clients, TheRenamer!Leave(s) PROVE Searched'
  <1>1. script[s] \in Run /\ Renames(script[s]) /\ found[s] \in SUBSET Found
    BY DEF RenamerInv, Searched
  <1> DEFINE r == [script[s] EXCEPT !.at = "next", !.path = TheRenamer!Gone,
                                    !.new = TheRenamer!Gone]
  <1>2. r \in Run /\ Renames(r)
    BY <1>1, OtherPlaces DEF Renames
  <1>3. TheRenamer!Continue(s, r, found[s])
    BY DEF TheRenamer!Leave
  <1> HIDE DEF r
  <1>4. QED
    BY <1>1, <1>2, <1>3, ContinueKeeps

LEMMA IdentifyKeeps ==
    ASSUME RenamerInv, NEW s \in Clients, NEW n \in script[s].todo,
           TheRenamer!Identify(s, n)
    PROVE  RenamerInv'
  <1>1. script[s] \in Run /\ Renames(script[s]) /\ script[s].at = "next"
    BY DEF RenamerInv, Searched, TheRenamer!Identify, TheRenamer!Visits
  <1>2. n \in TheRenamer!Name /\ ~TheRenamer!Complete(n)
    BY <1>1 DEF Run, TheRenamer!Identify
  <1>3. PICK said \in TheRenamer!Said(n) :
          LET local == TheRenamer!Local(n, said.book)
          IN  \E online \in TheRenamer!Answers(s, local, said.text) :
                LET new == TheRenamer!NewName(s, local, online)
                IN  TheRenamer!Continue(s,
                      IF TheRenamer!Unknown \in {new.title, new.author, new.isbn} \/ new = n
                      THEN TheRenamer!Past(s, n)
                      ELSE [TheRenamer!Past(s, n) EXCEPT !.at = "testing", !.path = n,
                                                         !.new = new],
                      TheRenamer!Kept(s, local, said.text, online))
    BY DEF TheRenamer!Identify
  <1>4. said.book \in TheRenamer!Book
    BY DEF RenamerInv, TheRenamer!Said, TheRenamer!Pdf, TheRenamer!Named,
           TheRenamer!Nothing, TheRenamer!Book
  <1> DEFINE local == TheRenamer!Local(n, said.book)
  <1>5. local \in TheRenamer!Book
    BY <1>2, <1>4, LocalIsABook
  <1>6. PICK online \in TheRenamer!Answers(s, local, said.text) :
          LET new == TheRenamer!NewName(s, local, online)
          IN  TheRenamer!Continue(s,
                IF TheRenamer!Unknown \in {new.title, new.author, new.isbn} \/ new = n
                THEN TheRenamer!Past(s, n)
                ELSE [TheRenamer!Past(s, n) EXCEPT !.at = "testing", !.path = n, !.new = new],
                TheRenamer!Kept(s, local, said.text, online))
    BY <1>3
  <1> HIDE DEF local
  <1> DEFINE new == TheRenamer!NewName(s, local, online)
             past == TheRenamer!Past(s, n)
             going == [past EXCEPT !.at = "testing", !.path = n, !.new = new]
             results == TheRenamer!Kept(s, local, said.text, online)
  <1>7. online \in TheRenamer!Book /\ results \in SUBSET Found
    BY <1>5, SearchIsKeyed
  <1>8. new \in TheRenamer!Name /\ new.form = "composed"
    BY <1>5, <1>7, ComposedIsAName
  <1>9. past \in Run /\ Renames(past)
    BY <1>1, OtherPlaces DEF Renames, TheRenamer!Past
  <1> HIDE DEF past, new, results
  <1>10. going \in Run /\ Renames(going)
    BY <1>2, <1>8, <1>9 DEF Run, Renames
  <1>11. \E r \in {past, going} : TheRenamer!Continue(s, r, results)
    BY <1>6 DEF past, new, results
  <1> HIDE DEF going
  <1>12. Searched'
    BY <1>7, <1>9, <1>10, <1>11, ContinueKeeps
  <1>13. UNCHANGED <<names, pdf, runs, renamed>>
    BY DEF TheRenamer!Identify
  <1>14. QED
    BY <1>12, <1>13 DEF RenamerInv

\* A run that begins is a run.
LEMMA BegunRun ==
    ASSUME NEW r \in Run, NEW todo_ \in SUBSET TheRenamer!Name,
           NEW x \in BOOLEAN, NEW y \in BOOLEAN
    PROVE  /\ [r EXCEPT !.todo = todo_, !.apply = x, !.allowMissing = y] \in Run
           /\ [r EXCEPT !.todo = todo_, !.apply = x, !.allowMissing = y].at = r.at
  BY DEF Run

LEMMA RenamerKept == ASSUME RenamerInv, [TheRenamer!Next]_renamerVars PROVE RenamerInv'
  <1>1. ASSUME NEW s \in Clients, NEW x \in BOOLEAN, NEW y \in BOOLEAN,
               TheRenamer!Begin(s, x, y)
        PROVE  RenamerInv'
    <2> DEFINE todo_ == {names[f] : f \in Books} \ {TheRenamer!Gone}
               r == [TheRenamer!Idle EXCEPT !.todo = todo_, !.apply = x, !.allowMissing = y]
    <2>1. todo_ \in SUBSET TheRenamer!Name
      BY DEF RenamerInv
    <2>2. r \in Run /\ r.at = TheRenamer!Idle.at
      <3> HIDE DEF todo_
      <3>1. QED
        BY <2>1, IdleIsARun, BegunRun
    <2>3. r \in Run /\ Renames(r)
      BY <2>2 DEF Renames, TheRenamer!Idle
    <2>4. script' = [script EXCEPT ![s] = r] /\ found' = [found EXCEPT ![s] = {}]
      BY <1>1 DEF TheRenamer!Begin
    <2> HIDE DEF r
    <2>5. Searched'
      BY <2>3, <2>4 DEF RenamerInv, Searched
    <2>6. UNCHANGED <<names, pdf, renamed>> /\ runs' \in 0..MaxRuns
      BY <1>1, Bounds DEF TheRenamer!Begin, RenamerInv
    <2>7. QED
      BY <2>5, <2>6 DEF RenamerInv
  <1>2. ASSUME NEW s \in Clients, NEW n \in script[s].todo, TheRenamer!Skip(s, n)
        PROVE  RenamerInv'
    <2>1. /\ script[s] \in Run /\ Renames(script[s]) /\ script[s].at = "next"
          /\ found[s] \in SUBSET Found
      BY <1>2 DEF RenamerInv, Searched, TheRenamer!Skip, TheRenamer!Visits
    <2>2. TheRenamer!Past(s, n) \in Run /\ Renames(TheRenamer!Past(s, n))
      BY <2>1, OtherPlaces DEF Renames, TheRenamer!Past
    <2>3. Searched'
      BY <1>2, <2>1, <2>2, ContinueKeeps DEF TheRenamer!Skip
    <2>4. QED
      BY <1>2, <2>3 DEF RenamerInv, TheRenamer!Skip
  <1>3. ASSUME NEW s \in Clients, TheRenamer!Test(s) PROVE RenamerInv'
    <2>1. /\ script[s] \in Run /\ Renames(script[s]) /\ script[s].at = "testing"
          /\ found[s] \in SUBSET Found
      BY <1>3 DEF RenamerInv, Searched, TheRenamer!Test
    <2> DEFINE r == [script[s] EXCEPT !.at = "renaming"]
    <2>2. r \in Run /\ Renames(r)
      BY <2>1, OtherPlaces
    <2>3. TheRenamer!Continue(s, r, found[s]) \/ TheRenamer!Leave(s)
      BY <1>3 DEF TheRenamer!Test
    <2> HIDE DEF r
    <2>4. Searched'
      BY <2>1, <2>2, <2>3, ContinueKeeps, LeaveKeeps
    <2>5. QED
      BY <1>3, <2>4 DEF RenamerInv, TheRenamer!Test
  <1>4. ASSUME NEW s \in Clients, TheRenamer!Rename(s) PROVE RenamerInv'
    <2>1. /\ script[s] \in Run /\ Renames(script[s]) /\ script[s].at = "renaming"
      BY <1>4 DEF RenamerInv, Searched, TheRenamer!Rename
    <2>2. script[s].new \in TheRenamer!Name /\ script[s].new.form = "composed"
      BY <2>1 DEF Renames
    <2> DEFINE new == script[s].new
    <2>3. PICK f \in Books :
            /\ names' = [g \in Books |-> IF g = f THEN new
                                         ELSE IF names[g] = new THEN TheRenamer!Gone
                                         ELSE names[g]]
            /\ renamed' = renamed \cup {f}
      BY <1>4 DEF TheRenamer!Rename, TheRenamer!Named
    <2> HIDE DEF new
    <2>4. new \in TheRenamer!Name /\ new.form = "composed"
      BY <2>2 DEF new
    <2>5. names' \in [Books -> TheRenamer!Name \cup {TheRenamer!Gone}]
      BY <2>3, <2>4 DEF RenamerInv
    <2>6. \A g \in renamed' : names'[g] = TheRenamer!Gone \/ names'[g].form = "composed"
      BY <2>3, <2>4 DEF RenamerInv
    <2>7. Searched' /\ UNCHANGED <<pdf, runs>> /\ renamed' \subseteq Books
      BY <1>4, <2>3, LeaveKeeps DEF TheRenamer!Rename, RenamerInv
    <2>8. QED
      BY <2>5, <2>6, <2>7 DEF RenamerInv
  <1>5. ASSUME NEW s \in Clients, TheRenamer!RenameFails(s) PROVE RenamerInv'
    <2>1. Searched'
      BY <1>5, IdleIsARun, ContinueKeeps DEF TheRenamer!RenameFails
    <2>2. QED
      BY <1>5, <2>1 DEF RenamerInv, TheRenamer!RenameFails
  <1>6. CASE UNCHANGED renamerVars
    BY <1>6 DEF renamerVars, RenamerInv, Searched
  <1>7. QED
    BY <1>1, <1>2, <1>3, <1>4, <1>5, <1>6, IdentifyKeeps DEF TheRenamer!Next

\* For any files, scripts and runs, also at the same time: a complete name that the
\* script gave stays, or its file is replaced.
THEOREM NamesStay == Spec => NamedOnce
  <1> DEFINE Inv == active = "renamer" => RenamerInv
             Known(f) == /\ names[f].isbn = "digits" /\ names[f].title \in {"plain", "untitled"}
                         /\ names[f].author \in TheRenamer!Authors
             Stay == \A f \in renamed :
                       Known(f) => names'[f] \in {names[f], TheRenamer!Gone}
  <1>1. Init => Inv
    BY RenamerInitially DEF Init
  <1>2. Inv /\ [Next]_vars => Inv'
    BY RenamerStep, RenamerKept
  <1>3. Inv /\ [Next]_vars => [Stay]_(TheRenamer!renamerVars)
    <2>1. SUFFICES ASSUME RenamerInv, TheRenamer!Next, NEW f \in renamed, Known(f)
                   PROVE  names'[f] \in {names[f], TheRenamer!Gone}
      BY RenamerStep DEF TheRenamer!renamerVars, renamerVars
    <2>2. f \in Books
      BY <2>1 DEF RenamerInv
    <2>3. names[f].form = "composed"
      <3>1. TheRenamer!Gone.isbn = ""
        BY DEF TheRenamer!Gone, TheRenamer!Unknown
      <3>2. names[f].isbn = "digits"
        BY <2>1
      <3>3. names[f] = TheRenamer!Gone \/ names[f].form = "composed"
        BY <2>1 DEF RenamerInv
      <3>4. QED
        BY <3>1, <3>2, <3>3
    <2>4. TheRenamer!Complete(names[f])
      BY <2>1, <2>3 DEF TheRenamer!Complete, TheRenamer!FromName, TheRenamer!UsableAuthor,
                        TheRenamer!Authors, TheRenamer!Unknown
    <2>5. ASSUME NEW s \in Clients, TheRenamer!Rename(s)
          PROVE  names'[f] \in {names[f], TheRenamer!Gone}
      <3>1. ~TheRenamer!Complete(script[s].path)
        BY <2>1, <2>5 DEF RenamerInv, Searched, Renames, TheRenamer!Rename
      <3>2. f \notin TheRenamer!Named(script[s].path)
        BY <2>4, <3>1 DEF TheRenamer!Named
      <3>3. QED
        BY <2>2, <2>5, <3>2 DEF TheRenamer!Rename
    <2>6. ASSUME NEW s \in Clients, ~TheRenamer!Rename(s),
                 \/ \E x, y \in BOOLEAN : TheRenamer!Begin(s, x, y)
                 \/ \E n \in script[s].todo : TheRenamer!Skip(s, n) \/ TheRenamer!Identify(s, n)
                 \/ TheRenamer!Test(s) \/ TheRenamer!RenameFails(s)
          PROVE  names' = names
      BY <2>6 DEF TheRenamer!Begin, TheRenamer!Skip, TheRenamer!Identify, TheRenamer!Test,
                  TheRenamer!RenameFails
    <2>7. QED
      BY <2>1, <2>5, <2>6 DEF TheRenamer!Next
  <1>4. QED
    BY <1>1, <1>2, <1>3, PTL DEF Spec, NamedOnce, TheRenamer!NamedOnce

-----------------------------------------------------------------------------
(* Covers. *)

\* The rows without the first of an entry, of rows that are all different.
LEMMA FirstRemoved ==
    ASSUME NEW s \in Seq(Books), TheCovers!IsInjective(s), NEW e
    PROVE  LET r == TheCovers!RemoveFirst(s, e)
           IN  /\ r \in Seq(Books) /\ TheCovers!IsInjective(r)
               /\ \A i \in 1..Len(r) : r[i] # e
  <1>1. CASE ~\E i \in 1..Len(s) : s[i] = e
    BY <1>1 DEF TheCovers!RemoveFirst
  <1>2. ASSUME NEW k \in 1..Len(s), s[k] = e
        PROVE  LET r == TheCovers!RemoveFirst(s, e)
               IN  /\ r \in Seq(Books) /\ TheCovers!IsInjective(r)
                   /\ \A i \in 1..Len(r) : r[i] # e
    <2> DEFINE I == {i \in 1..Len(s) : s[i] = e}
    <2>1. I = {k}
      BY <1>2 DEF TheCovers!IsInjective
    <2>2. TheCovers!Min(I) = k
      BY <2>1 DEF TheCovers!Min
    <2>3. TheCovers!RemoveFirst(s, e) = SubSeq(s, 1, k - 1) \o SubSeq(s, k + 1, Len(s))
      BY <1>2, <2>1, <2>2
      DEF TheCovers!RemoveFirst, TheCovers!SelectInSeq, TheCovers!RemoveAt
    <2> DEFINE a == SubSeq(s, 1, k - 1)
               z == SubSeq(s, k + 1, Len(s))
    <2>4. /\ a \in Seq(Books) /\ Len(a) = k - 1 /\ \A i \in 1..k - 1 : a[i] = s[i]
          /\ z \in Seq(Books) /\ Len(z) = Len(s) - k
          /\ \A i \in 1..Len(s) - k : z[i] = s[k + i]
      OBVIOUS
    <2> HIDE DEF a, z
    <2>5. /\ a \o z \in Seq(Books) /\ Len(a \o z) = Len(s) - 1
          /\ \A i \in 1..Len(s) - 1 : (a \o z)[i] = IF i <= k - 1 THEN a[i] ELSE z[i - (k - 1)]
      <3>1. Len(a) + Len(z) = Len(s) - 1
        BY <2>4
      <3>2. /\ a \o z \in Seq(Books) /\ Len(a \o z) = Len(a) + Len(z)
            /\ \A i \in 1..Len(a) + Len(z) :
                  (a \o z)[i] = IF i <= Len(a) THEN a[i] ELSE z[i - Len(a)]
        BY <2>4, ConcatProperties
      <3>3. QED
        BY <2>4, <3>1, <3>2
    <2>6. \A i \in 1..Len(s) - 1 : (a \o z)[i] = IF i < k THEN s[i] ELSE s[i + 1]
      <3>1. ASSUME NEW i \in 1..Len(s) - 1, i >= k PROVE z[i - (k - 1)] = s[i + 1]
        <4>1. i - (k - 1) \in 1..Len(s) - k /\ k + (i - (k - 1)) = i + 1
          BY <3>1
        <4>2. QED
          BY <2>4, <4>1
      <3>2. QED
        BY <2>4, <2>5, <3>1
    <2> DEFINE r == a \o z
    <2> HIDE DEF r
    <2>7. r \in Seq(Books) /\ DOMAIN r = 1..Len(s) - 1 /\ Len(r) = Len(s) - 1
      BY <2>5 DEF r
    <2>8. \A i \in 1..Len(r) : \E j \in 1..Len(s) \ {k} : r[i] = s[j] /\ j = (IF i < k THEN i ELSE i + 1)
      BY <2>6, <2>7 DEF r
    <2>9. TheCovers!IsInjective(r) /\ \A i \in 1..Len(r) : r[i] # e
      BY <1>2, <2>7, <2>8 DEF TheCovers!IsInjective
    <2>10. QED
      BY <2>3, <2>7, <2>9 DEF r, a, z
  <1>3. QED
    BY <1>1, <1>2

\* What a job keeps: its place, its book, the versions it was asked for and read, and
\* the rows it examines and is going to evict.
CoverPlaces == {"idle", "making room", "selecting", "evicting", "dropping", "registering",
                "recording"}
CoverJobs == [at : CoverPlaces, book : Books \cup {TheCovers!NoBook},
              fp : TheCovers!Versions, picture : TheCovers!Versions,
              rows : Seq(Books), total : Nat, victims : Seq(Books)]

\* What a job carries is no older than the version it was asked for, nor, unless its
\* book is overtaken, than the one recorded, and what it has written is still there
\* or was evicted.
Carries(j) ==
  LET w == job[j]
  IN  w.at # "idle" =>
        /\ w.book \in Books /\ w.fp <= w.picture /\ w.picture <= content[w.book]
        /\ w.book \notin overtaken =>
             /\ recorded[w.book] <= w.picture
             /\ w.at \in {"registering", "recording"} => coverFile[w.book] \in {0, w.picture}

\* The total counts every row not yet examined, and a row that is dropped is one.
Evicts(j) ==
  /\ Len(job[j].rows) <= job[j].total
  /\ job[j].at = "dropping" => job[j].victims # <<>>

\* The jobs at work for a book that is not overtaken carry the same picture.
Together ==
  \A i, j \in Clients :
    (/\ job[i].at # "idle" /\ job[j].at # "idle" /\ job[i].book = job[j].book
     /\ job[i].book \notin overtaken) => job[i].picture = job[j].picture

CoversTyping ==
  /\ content \in [Books -> TheCovers!Versions] /\ indexed \in [Books -> TheCovers!Versions]
  /\ coverFile \in [Books -> TheCovers!Versions]
  /\ coverEntries \in Seq(Books) /\ TheCovers!IsInjective(coverEntries)
  /\ recorded \in [Books -> TheCovers!Versions \cup {TheCovers!NoRow}]
  /\ coverMemory \subseteq [book : Books, fp : TheCovers!Versions, picture : TheCovers!Versions]
  /\ job \in [Clients -> CoverJobs]
  /\ extractions \in Nat /\ overtaken \subseteq Books

CoversInv ==
  /\ CoversTyping
  /\ \A m \in coverMemory : m.book \notin overtaken => m.fp <= m.picture
  /\ \A b \in Books :
       /\ indexed[b] <= content[b] /\ recorded[b] <= content[b]
       /\ b \notin overtaken /\ coverFile[b] # 0 => recorded[b] <= coverFile[b]
  /\ \A j \in Clients : Carries(j) /\ Evicts(j)
  /\ Together

LEMMA VersionsAreNumbers ==
    /\ TheCovers!Versions \subseteq Nat /\ 0 \in TheCovers!Versions
    /\ \A b \in Books : 1 \in TheCovers!Versions /\ 0..MaxVersion[b] \subseteq TheCovers!Versions
  <1>1. \A b \in Books : MaxVersion[b] \in Nat \ {0}
    BY ServicesAssumption
  <1>2. \A b \in Books : 0..MaxVersion[b] \subseteq Nat /\ 1 \in 0..MaxVersion[b]
    BY <1>1
  <1>3. QED
    BY <1>2 DEF TheCovers!Versions, TheCovers!None

\* A job at rest keeps nothing.
LEMMA IdleIsAJob ==
    /\ TheCovers!Idle \in CoverJobs
    /\ TheCovers!Idle.at = "idle" /\ TheCovers!Idle.rows = <<>> /\ TheCovers!Idle.total = 0
  <1>1. <<>> \in Seq(Books) /\ 0 \in Nat /\ 0 \in TheCovers!Versions
    BY VersionsAreNumbers
  <1>2. QED
    BY <1>1 DEF TheCovers!Idle, CoverJobs, CoverPlaces

LEMMA IdleEvictsNothing ==
    ASSUME NEW j \in Clients, job[j] = TheCovers!Idle PROVE Evicts(j)
  <1>1. Len(job[j].rows) = Len(<<>>) /\ job[j].total = 0 /\ job[j].at = "idle"
    BY IdleIsAJob
  <1>2. Len(<<>>) = 0
    OBVIOUS
  <1>3. QED
    BY <1>1, <1>2 DEF Evicts

LEMMA CoversInitially == ASSUME TheCovers!Init PROVE CoversInv
  <1>1. job = [j \in Clients |-> TheCovers!Idle]
    BY DEF TheCovers!Init
  <1>2. job \in [Clients -> CoverJobs] /\ \A j \in Clients : Carries(j) /\ Evicts(j)
    BY <1>1, IdleIsAJob, IdleEvictsNothing DEF Carries
  <1>3. Together
    BY <1>1, IdleIsAJob DEF Together
  <1>4. coverEntries \in Seq(Books) /\ TheCovers!IsInjective(coverEntries)
    <2>1. coverEntries = <<>> \/ \E b \in Books : coverEntries = <<b>>
      BY DEF TheCovers!Init
    <2>2. ASSUME NEW b \in Books, coverEntries = <<b>>
          PROVE  coverEntries \in Seq(Books) /\ DOMAIN coverEntries = {1}
      BY <2>2
    <2>3. coverEntries = <<>> => coverEntries \in Seq(Books) /\ DOMAIN coverEntries = {}
      OBVIOUS
    <2>4. QED
      BY <2>1, <2>2, <2>3 DEF TheCovers!IsInjective
  <1>5. /\ \A b \in Books : /\ content[b] = 1 /\ indexed[b] = 1
                            /\ coverFile[b] \in {0, 1}
                            /\ recorded[b] = IF coverFile[b] = 1 THEN 1 ELSE TheCovers!NoRow
        /\ content \in [Books -> TheCovers!Versions] /\ indexed \in [Books -> TheCovers!Versions]
        /\ coverFile \in [Books -> TheCovers!Versions]
        /\ recorded \in [Books -> TheCovers!Versions \cup {TheCovers!NoRow}]
    BY VersionsAreNumbers DEF TheCovers!Init, TheCovers!None
  <1>6. coverMemory = {} /\ extractions = 0 /\ overtaken = {}
    BY DEF TheCovers!Init
  <1>7. QED
    BY <1>2, <1>3, <1>4, <1>5, <1>6 DEF CoversInv, CoversTyping, TheCovers!NoRow

\* A job that goes on with its book and its picture leaves the rest sound.
LEMMA JobGoesOn ==
    ASSUME CoversInv, NEW j \in Clients, job[j].at # "idle",
           NEW new \in CoverJobs, job' = [job EXCEPT ![j] = new],
           new.at # "idle", new.book = job[j].book, new.fp = job[j].fp,
           new.picture = job[j].picture,
           Len(new.rows) <= new.total, new.at = "dropping" => new.victims # <<>>,
           coverFile' \in [Books -> TheCovers!Versions],
           \A b \in Books : \/ coverFile'[b] \in {0, coverFile[b]}
                            \/ b = new.book /\ coverFile'[b] = new.picture,
           (/\ new.at \in {"registering", "recording"}
            /\ job[j].at \notin {"registering", "recording"}) => coverFile'[new.book] = new.picture,
           coverEntries' \in Seq(Books), TheCovers!IsInjective(coverEntries'),
           UNCHANGED <<content, indexed, recorded, coverMemory, extractions, overtaken>>
    PROVE  CoversInv'
  <1>1. /\ job' \in [Clients -> CoverJobs] /\ job'[j] = new
        /\ \A i \in Clients \ {j} : job'[i] = job[i]
    BY DEF CoversInv, CoversTyping
  <1>2. /\ Carries(j) /\ new.book \in Books
        /\ \A i \in Clients :
             (job[i].at # "idle" /\ job[i].book = new.book /\ new.book \notin overtaken)
               => job[i].picture = new.picture
    BY DEF CoversInv, Carries, Together
  <1>3. Carries(j)'
    BY <1>1, <1>2 DEF Carries
  <1>4. \A i \in Clients : Evicts(i)'
    BY <1>1 DEF Evicts, CoversInv
  <1>5. ASSUME NEW i \in Clients \ {j} PROVE Carries(i)'
    <2>1. Carries(i) /\ job'[i] = job[i]
      BY <1>1 DEF CoversInv
    <2>2. QED
      BY <1>2, <2>1 DEF Carries
  <1>6. Together'
    BY <1>1 DEF CoversInv, Together
  <1>7. \A b \in Books : b \notin overtaken /\ coverFile'[b] # 0 => recorded[b] <= coverFile'[b]
    BY <1>2 DEF CoversInv, Carries
  <1>8. CoversTyping'
    BY <1>1 DEF CoversInv, CoversTyping
  <1>9. QED
    BY <1>3, <1>4, <1>5, <1>6, <1>7, <1>8 DEF CoversInv

\* The same of a job that only goes to another place.
LEMMA JobGoes ==
    ASSUME NEW w \in CoverJobs, NEW at \in CoverPlaces
    PROVE  LET new == [w EXCEPT !.at = at]
           IN  /\ new \in CoverJobs /\ new.at = at /\ new.book = w.book /\ new.fp = w.fp
               /\ new.picture = w.picture /\ new.rows = w.rows /\ new.total = w.total
               /\ new.victims = w.victims
  BY DEF CoverJobs

\* The steps of a job between its extraction and its end.
LEMMA JobKept ==
    ASSUME CoversInv, NEW j \in Clients,
           \/ TheCovers!MakeRoom(j) \/ TheCovers!Select(j) \/ TheCovers!Examine(j)
           \/ TheCovers!Unlink(j) \/ TheCovers!DropRow(j) \/ TheCovers!WriteAndRename(j)
           \/ TheCovers!Register(j)
    PROVE  CoversInv'
  <1> DEFINE w == job[j]
  <1>1. /\ w \in CoverJobs /\ job \in [Clients -> CoverJobs]
        /\ w.rows \in Seq(Books) /\ w.total \in Nat /\ w.victims \in Seq(Books)
        /\ w.picture \in TheCovers!Versions
        /\ Len(w.rows) <= w.total /\ (w.at = "dropping" => w.victims # <<>>)
        /\ coverEntries \in Seq(Books) /\ TheCovers!IsInjective(coverEntries)
        /\ coverFile \in [Books -> TheCovers!Versions]
        /\ w.at # "idle" => w.book \in Books
    BY DEF CoversInv, CoversTyping, Evicts, Carries, CoverJobs
  <1>2. ASSUME TheCovers!MakeRoom(j) PROVE CoversInv'
    <2>1. PICK at \in {"evicting", "selecting"} : TheCovers!Goto(j, at)
      BY <1>2 DEF TheCovers!MakeRoom
    <2> DEFINE new == [w EXCEPT !.at = at]
    <2>2. job' = [job EXCEPT ![j] = new]
      BY <2>1, <1>1 DEF TheCovers!Goto
    <2>3. at \in CoverPlaces
      BY DEF CoverPlaces
    <2>4. /\ new \in CoverJobs /\ new.at = at /\ new.book = w.book /\ new.fp = w.fp
          /\ new.picture = w.picture /\ new.rows = w.rows /\ new.total = w.total
      BY <1>1, <2>3, JobGoes
    <2>5. w.at = "making room" /\ UNCHANGED <<content, indexed, coverFile, coverEntries,
                                              recorded, coverMemory, extractions, overtaken>>
      BY <1>2 DEF TheCovers!MakeRoom, TheCovers!history
    <2> HIDE DEF new
    <2>6. Len(new.rows) <= new.total
      BY <1>1, <2>4
    <2>7. QED
      BY <1>1, <2>2, <2>4, <2>5, <2>6, JobGoesOn
  <1>3. ASSUME TheCovers!Select(j) PROVE CoversInv'
    <2> DEFINE new == [w EXCEPT !.at = "evicting", !.rows = coverEntries,
                                !.total = Len(coverEntries)]
    <2>1. job' = [job EXCEPT ![j] = new] /\ w.at = "selecting"
      BY <1>1, <1>3 DEF TheCovers!Select
    <2>2. Len(coverEntries) \in Nat
      BY <1>1
    <2>3. /\ new \in CoverJobs /\ new.at = "evicting" /\ new.book = w.book /\ new.fp = w.fp
          /\ new.picture = w.picture /\ new.rows = coverEntries
          /\ new.total = Len(coverEntries)
      BY <1>1, <2>2 DEF CoverJobs, CoverPlaces
    <2> HIDE DEF new
    <2>4. Len(new.rows) <= new.total
      <3>1. Len(new.rows) = Len(coverEntries) /\ new.total = Len(coverEntries)
        BY <2>3
      <3>2. QED
        BY <2>2, <3>1
    <2>5. UNCHANGED <<content, indexed, coverFile, coverEntries, recorded, coverMemory,
                      extractions, overtaken>>
      BY <1>3 DEF TheCovers!Select, TheCovers!history
    <2>6. QED
      BY <1>1, <2>1, <2>3, <2>4, <2>5, JobGoesOn
  <1>4. ASSUME TheCovers!Examine(j) PROVE CoversInv'
    <2> DEFINE o == Head(w.rows)
               rest == [w EXCEPT !.rows = Tail(@)]
               evicted == [rest EXCEPT !.total = @ - 1, !.victims = Append(@, o)]
    <2>1. PICK new \in {rest, evicted} : job' = [job EXCEPT ![j] = new]
      BY <1>4 DEF TheCovers!Examine
    <2>2. w.at = "evicting" /\ w.rows # <<>>
      BY <1>4 DEF TheCovers!Examine
    <2>3. o \in Books /\ Tail(w.rows) \in Seq(Books) /\ Len(Tail(w.rows)) = Len(w.rows) - 1
      BY <1>1, <2>2, HeadTailProperties
    <2>4. Len(w.rows) \in Nat \ {0} /\ w.total - 1 \in Nat
      <3>1. Len(w.rows) \in Nat \ {0}
        BY <1>1, <2>2, EmptySeq
      <3>2. QED
        BY <1>1, <3>1
    <2>5. Append(w.victims, o) \in Seq(Books)
      BY <1>1, <2>3, AppendProperties
    <2> DEFINE tail == Tail(w.rows)
               victims == Append(w.victims, o)
    <2>6. /\ rest = [w EXCEPT !.rows = tail]
          /\ evicted = [w EXCEPT !.rows = tail, !.total = w.total - 1, !.victims = victims]
      BY <1>1 DEF CoverJobs
    <2> HIDE DEF tail, victims, rest, evicted, o
    <2>7. tail \in Seq(Books) /\ victims \in Seq(Books) /\ Len(tail) <= w.total - 1
      BY <1>1, <2>3, <2>4, <2>5 DEF tail, victims
    <2>8. /\ new \in CoverJobs /\ new.at = "evicting" /\ new.book = w.book /\ new.fp = w.fp
          /\ new.picture = w.picture /\ new.rows = tail
          /\ new.total \in {w.total, w.total - 1}
      BY <1>1, <2>1, <2>2, <2>4, <2>6, <2>7 DEF CoverJobs, CoverPlaces
    <2>9. Len(new.rows) <= new.total
      <3>1. Len(tail) \in Nat
        BY <2>7
      <3>2. QED
        BY <1>1, <2>7, <2>8, <3>1
    <2>10. UNCHANGED <<content, indexed, coverFile, coverEntries, recorded, coverMemory,
                       extractions, overtaken>>
      BY <1>4 DEF TheCovers!Examine, TheCovers!history
    <2>11. QED
      BY <1>1, <2>1, <2>2, <2>8, <2>9, <2>10, JobGoesOn
  <1>5. ASSUME TheCovers!Unlink(j) PROVE CoversInv'
    <2> DEFINE new == [w EXCEPT !.at = "dropping"]
    <2>1. /\ job' = [job EXCEPT ![j] = new] /\ w.at = "evicting" /\ w.victims # <<>>
          /\ coverFile' = [coverFile EXCEPT ![Head(w.victims)] = 0]
          /\ UNCHANGED <<content, indexed, coverEntries, recorded, coverMemory,
                         extractions, overtaken>>
      BY <1>1, <1>5 DEF TheCovers!Unlink, TheCovers!Goto, TheCovers!None, TheCovers!history
    <2>2. "dropping" \in CoverPlaces
      BY DEF CoverPlaces
    <2>3. /\ new \in CoverJobs /\ new.at = "dropping" /\ new.book = w.book /\ new.fp = w.fp
          /\ new.picture = w.picture /\ new.rows = w.rows /\ new.total = w.total
          /\ new.victims = w.victims
      BY <1>1, <2>2, JobGoes
    <2> HIDE DEF new
    <2>4. /\ coverFile' \in [Books -> TheCovers!Versions]
          /\ \A b \in Books : coverFile'[b] \in {0, coverFile[b]}
      BY <1>1, <2>1, VersionsAreNumbers
    <2>5. Len(new.rows) <= new.total
      BY <1>1, <2>3
    <2>6. QED
      BY <1>1, <2>1, <2>3, <2>4, <2>5, JobGoesOn
  <1>6. ASSUME TheCovers!DropRow(j) PROVE CoversInv'
    <2> DEFINE new == [w EXCEPT !.at = "evicting", !.victims = Tail(w.victims)]
    <2>1. /\ job' = [job EXCEPT ![j] = new] /\ w.at = "dropping"
          /\ coverEntries' = TheCovers!RemoveFirst(coverEntries, Head(w.victims))
          /\ UNCHANGED <<content, indexed, coverFile, recorded, coverMemory, extractions,
                         overtaken>>
      BY <1>1, <1>6 DEF TheCovers!DropRow, TheCovers!history
    <2>2. Tail(w.victims) \in Seq(Books)
      BY <1>1, <2>1, HeadTailProperties
    <2>3. /\ new \in CoverJobs /\ new.at = "evicting" /\ new.book = w.book /\ new.fp = w.fp
          /\ new.picture = w.picture /\ new.rows = w.rows /\ new.total = w.total
      BY <1>1, <2>2 DEF CoverJobs, CoverPlaces
    <2> HIDE DEF new
    <2>4. coverEntries' \in Seq(Books) /\ TheCovers!IsInjective(coverEntries)'
      BY <1>1, <2>1, FirstRemoved DEF TheCovers!IsInjective
    <2>5. Len(new.rows) <= new.total
      BY <1>1, <2>3
    <2>6. QED
      BY <1>1, <2>1, <2>3, <2>4, <2>5, JobGoesOn
  <1>7. ASSUME TheCovers!WriteAndRename(j) PROVE CoversInv'
    <2> DEFINE new == [w EXCEPT !.at = "registering"]
    <2>1. /\ job' = [job EXCEPT ![j] = new] /\ w.at = "evicting"
          /\ coverFile' = [coverFile EXCEPT ![w.book] = w.picture]
          /\ UNCHANGED <<content, indexed, coverEntries, recorded, coverMemory,
                         extractions, overtaken>>
      BY <1>1, <1>7 DEF TheCovers!WriteAndRename, TheCovers!HasRoom, TheCovers!Writes,
                        TheCovers!Goto, TheCovers!history
    <2>2. "registering" \in CoverPlaces
      BY DEF CoverPlaces
    <2>3. /\ new \in CoverJobs /\ new.at = "registering" /\ new.book = w.book /\ new.fp = w.fp
          /\ new.picture = w.picture /\ new.rows = w.rows /\ new.total = w.total
      BY <1>1, <2>2, JobGoes
    <2> HIDE DEF new
    <2>4. /\ coverFile' \in [Books -> TheCovers!Versions]
          /\ coverFile'[new.book] = new.picture
          /\ \A b \in Books : \/ coverFile'[b] \in {0, coverFile[b]}
                              \/ b = new.book /\ coverFile'[b] = new.picture
      BY <1>1, <2>1, <2>3
    <2>5. Len(new.rows) <= new.total
      BY <1>1, <2>3
    <2>6. QED
      BY <1>1, <2>1, <2>3, <2>4, <2>5, JobGoesOn
  <1>8. ASSUME TheCovers!Register(j) PROVE CoversInv'
    <2> DEFINE new == [w EXCEPT !.at = "recording"]
               r == TheCovers!RemoveFirst(coverEntries, w.book)
    <2>1. /\ job' = [job EXCEPT ![j] = new] /\ w.at = "registering"
          /\ coverEntries' = Append(r, w.book)
          /\ UNCHANGED <<content, indexed, coverFile, recorded, coverMemory,
                         extractions, overtaken>>
      BY <1>1, <1>8 DEF TheCovers!Register, TheCovers!Goto, TheCovers!history
    <2>2. "recording" \in CoverPlaces
      BY DEF CoverPlaces
    <2>3. /\ new \in CoverJobs /\ new.at = "recording" /\ new.book = w.book /\ new.fp = w.fp
          /\ new.picture = w.picture /\ new.rows = w.rows /\ new.total = w.total
      BY <1>1, <2>2, JobGoes
    <2>4. /\ r \in Seq(Books) /\ TheCovers!IsInjective(r)
          /\ \A i \in 1..Len(r) : r[i] # w.book
      BY <1>1, FirstRemoved
    <2> HIDE DEF new, r
    <2>5. coverEntries' \in Seq(Books) /\ TheCovers!IsInjective(coverEntries)'
      <3>1. /\ Append(r, w.book) \in Seq(Books) /\ Len(Append(r, w.book)) = Len(r) + 1
            /\ \A i \in 1..Len(r) : Append(r, w.book)[i] = r[i]
            /\ Append(r, w.book)[Len(r) + 1] = w.book
        BY <1>1, <2>1, <2>4, AppendProperties
      <3>2. QED
        BY <2>1, <2>4, <3>1 DEF TheCovers!IsInjective
    <2>6. Len(new.rows) <= new.total
      BY <1>1, <2>3
    <2>7. QED
      BY <1>1, <2>1, <2>3, <2>5, <2>6, JobGoesOn
  <1>9. QED
    BY <1>2, <1>3, <1>4, <1>5, <1>6, <1>7, <1>8

\* A job that ends leaves the others as they are.
LEMMA JobEnds ==
    ASSUME CoversInv, NEW j \in Clients, job' = [job EXCEPT ![j] = TheCovers!Idle],
           \A b \in Books : \/ recorded'[b] = recorded[b]
                            \/ /\ job[j].at # "idle" /\ b = job[j].book
                               /\ recorded'[b] <= job[j].picture,
           UNCHANGED <<content, indexed, coverFile, coverEntries, extractions, overtaken>>
    PROVE  /\ job' \in [Clients -> CoverJobs] /\ Together'
           /\ \A i \in Clients : Carries(i)' /\ Evicts(i)'
  <1>1. /\ job' \in [Clients -> CoverJobs] /\ job'[j] = TheCovers!Idle
        /\ \A i \in Clients \ {j} : job'[i] = job[i]
    BY IdleIsAJob DEF CoversInv, CoversTyping
  <1>2. job'[j].at = "idle"
    BY <1>1, IdleIsAJob
  <1>3. Together'
    BY <1>1, <1>2 DEF CoversInv, Together
  <1>4. Carries(j)' /\ Evicts(j)'
    <2>1. Len(job'[j].rows) = Len(<<>>) /\ job'[j].total = 0
      BY <1>1, IdleIsAJob
    <2>2. Len(<<>>) = 0
      OBVIOUS
    <2>3. QED
      BY <1>2, <2>1, <2>2 DEF Carries, Evicts
  <1>5. ASSUME NEW i \in Clients \ {j} PROVE Carries(i)' /\ Evicts(i)'
    <2>1. Carries(i) /\ Evicts(i) /\ job'[i] = job[i]
      BY <1>1 DEF CoversInv
    <2>2. (/\ job[i].at # "idle" /\ job[j].at # "idle" /\ job[i].book = job[j].book
           /\ job[i].book \notin overtaken) => job[i].picture = job[j].picture
      BY DEF CoversInv, Together
    <2>3. QED
      BY <2>1, <2>2 DEF Carries, Evicts
  <1>6. QED
    BY <1>1, <1>3, <1>4, <1>5

LEMMA CoversKept == ASSUME CoversInv, [TheCovers!Next]_coversVars PROVE CoversInv'
  <1>1. /\ \A b \in Books : /\ content[b] \in Nat /\ indexed[b] \in Nat /\ coverFile[b] \in Nat
                            /\ recorded[b] \in Int
        /\ \A j \in Clients : job[j].fp \in Nat /\ job[j].picture \in Nat
    <2>1. \A b \in Books : recorded[b] \in TheCovers!Versions \/ recorded[b] = TheCovers!NoRow
      BY DEF CoversInv, CoversTyping
    <2>2. \A b \in Books : recorded[b] \in Nat \/ recorded[b] = -1
      BY <2>1, VersionsAreNumbers DEF TheCovers!NoRow
    <2>3. \A b \in Books : recorded[b] \in Int
      BY <2>2
    <2>4. \A b \in Books : content[b] \in Nat /\ indexed[b] \in Nat /\ coverFile[b] \in Nat
      BY VersionsAreNumbers DEF CoversInv, CoversTyping
    <2>5. \A j \in Clients : job[j].fp \in Nat /\ job[j].picture \in Nat
      BY VersionsAreNumbers DEF CoversInv, CoversTyping, CoverJobs
    <2>6. QED
      BY <2>3, <2>4, <2>5
  <1>2. ASSUME NEW b \in Books, TheCovers!FileChanges(b) PROVE CoversInv'
    <2>1. /\ content' = [content EXCEPT ![b] = @ + 1]
          /\ content[b] + 1 \in 0..MaxVersion[b]
          /\ UNCHANGED <<indexed, coverFile, coverEntries, recorded, coverMemory, job,
                         extractions, overtaken>>
      BY <1>1, <1>2, ServicesAssumption DEF TheCovers!FileChanges, TheCovers!history
    <2>2. content' \in [Books -> TheCovers!Versions]
      BY <2>1, VersionsAreNumbers DEF CoversInv, CoversTyping
    <2>3. \A o \in Books : content[o] <= content'[o] /\ content'[o] \in Nat
      BY <1>1, <2>1, <2>2 DEF CoversInv, CoversTyping
    <2>4. \A j \in Clients : Carries(j)' /\ Evicts(j)'
      BY <1>1, <2>1, <2>3 DEF CoversInv, Carries, Evicts
    <2>5. \A o \in Books : indexed'[o] <= content'[o] /\ recorded'[o] <= content'[o]
      BY <1>1, <2>1, <2>3 DEF CoversInv
    <2>6. QED
      BY <2>1, <2>2, <2>4, <2>5 DEF CoversInv, CoversTyping, Together
  <1>3. ASSUME NEW b \in Books, TheCovers!Reindex(b) PROVE CoversInv'
    <2>1. /\ indexed' = [indexed EXCEPT ![b] = content[b]]
          /\ UNCHANGED <<content, coverFile, coverEntries, recorded, coverMemory, job,
                         extractions, overtaken>>
      BY <1>3 DEF TheCovers!Reindex, TheCovers!history
    <2>2. /\ indexed' \in [Books -> TheCovers!Versions]
          /\ \A o \in Books : indexed'[o] <= content[o]
      BY <1>1, <2>1 DEF CoversInv, CoversTyping
    <2>3. QED
      BY <2>1, <2>2 DEF CoversInv, CoversTyping, Together, Carries, Evicts
  <1>4. ASSUME NEW b \in Books, TheCovers!Enrich(b) PROVE CoversInv'
    <2>1. /\ recorded' = [recorded EXCEPT ![b] = 0]
          /\ UNCHANGED <<content, indexed, coverFile, coverEntries, coverMemory, job,
                         extractions, overtaken>>
      BY <1>4 DEF TheCovers!Enrich, TheCovers!None, TheCovers!history
    <2>2. /\ recorded' \in [Books -> TheCovers!Versions \cup {TheCovers!NoRow}]
          /\ \A o \in Books : recorded'[o] \in {0, recorded[o]}
      BY <2>1, VersionsAreNumbers DEF CoversInv, CoversTyping
    <2>3. \A o \in Books : /\ recorded'[o] <= content[o]
                           /\ o \notin overtaken /\ coverFile[o] # 0 => recorded'[o] <= coverFile[o]
      BY <1>1, <2>2 DEF CoversInv
    <2>4. \A j \in Clients : Carries(j)' /\ Evicts(j)'
      BY <1>1, <2>1, <2>2 DEF CoversInv, Carries, Evicts
    <2>5. QED
      BY <2>1, <2>2, <2>3, <2>4 DEF CoversInv, CoversTyping, Together
  <1>5. ASSUME NEW b \in Books, NEW fp \in TheCovers!Versions,
               NEW picture \in TheCovers!Versions, b \notin overtaken => fp <= picture,
               TheCovers!Keep(b, fp, picture)
        PROVE  /\ coverMemory' \subseteq [book : Books, fp : TheCovers!Versions,
                                          picture : TheCovers!Versions]
               /\ \A m \in coverMemory' : m.book \notin overtaken => m.fp <= m.picture
    BY <1>5 DEF TheCovers!Keep, CoversInv, CoversTyping
  <1>6. ASSUME NEW b \in Books, TheCovers!ReadPersisted(b) PROVE CoversInv'
    <2>1. /\ indexed[b] \in TheCovers!Versions /\ coverFile[b] \in TheCovers!Versions
          /\ b \notin overtaken => indexed[b] <= coverFile[b]
          /\ TheCovers!Keep(b, indexed[b], coverFile[b])
      BY <1>6
      DEF TheCovers!ReadPersisted, TheCovers!Persisted, TheCovers!None, CoversInv, CoversTyping
    <2>2. /\ coverMemory' \subseteq [book : Books, fp : TheCovers!Versions,
                                     picture : TheCovers!Versions]
          /\ \A m \in coverMemory' : m.book \notin overtaken => m.fp <= m.picture
      BY <1>5, <2>1
    <2>3. UNCHANGED <<content, indexed, coverFile, coverEntries, recorded, job, extractions,
                      overtaken>>
      BY <1>6 DEF TheCovers!ReadPersisted, TheCovers!history
    <2>4. QED
      BY <2>2, <2>3 DEF CoversInv, CoversTyping, Together, Carries, Evicts
  <1>7. ASSUME NEW j \in Clients, NEW b \in Books, TheCovers!Extract(j, b) PROVE CoversInv'
    <2> DEFINE new == [TheCovers!Idle EXCEPT !.at = "making room", !.book = b,
                                             !.fp = indexed[b], !.picture = content[b]]
    <2>1. /\ job' = [job EXCEPT ![j] = new] /\ job[j].at = "idle"
          /\ UNCHANGED <<content, indexed, coverFile, coverEntries, recorded, coverMemory>>
          /\ extractions' = extractions + 1
          /\ overtaken' = overtaken \cup
               {o \in {b} : \E i \in TheCovers!Working(b) : job[i].picture # content[b]}
      BY <1>7 DEF TheCovers!Extract
    <2>2. /\ new \in CoverJobs /\ new.at = "making room" /\ new.book = b
          /\ new.fp = indexed[b] /\ new.picture = content[b] /\ new.rows = <<>>
          /\ new.total = 0
      BY IdleIsAJob DEF CoversInv, CoversTyping, CoverJobs, CoverPlaces
    <2> HIDE DEF new
    <2>3. /\ job' \in [Clients -> CoverJobs] /\ job'[j] = new
          /\ \A i \in Clients \ {j} : job'[i] = job[i]
      BY <2>1, <2>2 DEF CoversInv, CoversTyping
    <2>4. /\ overtaken \subseteq overtaken' /\ overtaken' \subseteq Books
          /\ b \notin overtaken' =>
               \A i \in Clients : job[i].book = b => job[i].picture = content[b]
      BY <2>1 DEF CoversInv, CoversTyping, TheCovers!Working
    <2>5. Carries(j)'
      <3>1. /\ indexed[b] <= content[b] /\ recorded[b] <= content[b]
            /\ content[b] <= content[b]
        BY <1>1 DEF CoversInv
      <3>2. QED
        BY <2>1, <2>2, <2>3, <3>1 DEF Carries
    <2>6. \A i \in Clients \ {j} : Carries(i)'
      BY <2>1, <2>3, <2>4 DEF CoversInv, Carries
    <2>7. Evicts(j)'
      <3>1. job'[j].rows = <<>> /\ job'[j].total = 0 /\ job'[j].at = "making room"
        BY <2>2, <2>3
      <3>2. Len(job'[j].rows) = Len(<<>>)
        BY <3>1
      <3>3. Len(<<>>) = 0
        OBVIOUS
      <3>4. Len(job'[j].rows) = 0
        BY <3>2, <3>3
      <3>5. job'[j].total = 0 /\ job'[j].at # "dropping"
        BY <3>1
      <3>6. QED
        BY <3>4, <3>5 DEF Evicts
    <2>8. \A i \in Clients \ {j} : Evicts(i)'
      BY <2>3 DEF CoversInv, Evicts
    <2>9. ASSUME NEW i \in Clients, NEW k \in Clients, job'[i].at # "idle",
                 job'[k].at # "idle", job'[i].book = job'[k].book,
                 job'[i].book \notin overtaken'
          PROVE  job'[i].picture = job'[k].picture
      <3>1. CASE i # j /\ k # j
        <4>1. job'[i] = job[i] /\ job'[k] = job[k] /\ job[i].book \notin overtaken
          BY <2>3, <2>4, <2>9, <3>1
        <4>2. QED
          BY <2>9, <4>1 DEF CoversInv, Together
      <3>2. ASSUME NEW o \in {i, k}, job'[o].book = b
            PROVE  job'[o].picture = content[b]
        <4>1. b \notin overtaken'
          BY <2>9, <3>2
        <4>2. QED
          BY <2>2, <2>3, <2>4, <3>2, <4>1
      <3>3. CASE i = j \/ k = j
        <4>1. job'[i].book = b /\ job'[k].book = b
          BY <2>2, <2>3, <2>9, <3>3
        <4>2. QED
          BY <3>2, <4>1
      <3>4. QED
        BY <3>1, <3>3
    <2>10. CoversTyping'
      BY <2>1, <2>3, <2>4 DEF CoversInv, CoversTyping
    <2>11. QED
      BY <2>1, <2>4, <2>5, <2>6, <2>7, <2>8, <2>9, <2>10 DEF CoversInv, Together
  <1>8. ASSUME NEW j \in Clients, TheCovers!Record(j) PROVE CoversInv'
    <2> DEFINE b == job[j].book
    <2>1. /\ recorded' = [recorded EXCEPT ![b] = IF @ = TheCovers!NoRow THEN job[j].fp ELSE @]
          /\ TheCovers!Keep(b, job[j].fp, job[j].picture)
          /\ job' = [job EXCEPT ![j] = TheCovers!Idle] /\ job[j].at = "recording"
          /\ UNCHANGED <<content, indexed, coverFile, coverEntries, extractions, overtaken>>
      BY <1>8 DEF TheCovers!Record, TheCovers!Idles, TheCovers!history
    <2>2. /\ job[j].fp \in TheCovers!Versions /\ job[j].picture \in TheCovers!Versions
          /\ b \in Books /\ job[j].fp <= job[j].picture /\ job[j].picture <= content[b]
          /\ b \notin overtaken => /\ recorded[b] <= job[j].picture
                                   /\ coverFile[b] \in {0, job[j].picture}
      BY <2>1 DEF CoversInv, CoversTyping, CoverJobs, Carries
    <2> HIDE DEF b
    <2>3. /\ coverMemory' \subseteq [book : Books, fp : TheCovers!Versions,
                                     picture : TheCovers!Versions]
          /\ \A m \in coverMemory' : m.book \notin overtaken => m.fp <= m.picture
      BY <1>5, <2>1, <2>2
    <2>4. /\ recorded' \in [Books -> TheCovers!Versions \cup {TheCovers!NoRow}]
          /\ \A o \in Books \ {b} : recorded'[o] = recorded[o]
          /\ recorded'[b] \in {recorded[b], job[j].fp}
      BY <2>1, <2>2 DEF CoversInv, CoversTyping
    <2>5. /\ recorded'[b] <= content[b]
          /\ b \notin overtaken /\ coverFile[b] # 0 => recorded'[b] <= coverFile[b]
      <3>1. recorded[b] <= content[b]
        BY <2>2 DEF CoversInv
      <3>2. QED
        BY <1>1, <2>2, <2>4, <3>1
    <2>6. /\ job' \in [Clients -> CoverJobs] /\ Together'
          /\ \A i \in Clients : Carries(i)' /\ Evicts(i)'
      <3>1. \A o \in Books : \/ recorded'[o] = recorded[o]
                             \/ /\ job[j].at # "idle" /\ o = job[j].book
                                /\ recorded'[o] <= job[j].picture
        BY <2>1, <2>2, <2>4 DEF b
      <3>2. QED
        BY <2>1, <3>1, JobEnds
    <2>7. CoversTyping'
      BY <2>1, <2>3, <2>4, <2>6 DEF CoversInv, CoversTyping
    <2>8. QED
      BY <2>1, <2>3, <2>4, <2>5, <2>6, <2>7 DEF CoversInv
  <1>9. ASSUME NEW j \in Clients, TheCovers!Fail(j) PROVE CoversInv'
    <2>1. /\ job' = [job EXCEPT ![j] = TheCovers!Idle]
          /\ UNCHANGED <<content, indexed, coverFile, coverEntries, recorded, coverMemory,
                         extractions, overtaken>>
      BY <1>9 DEF TheCovers!Fail, TheCovers!Idles, TheCovers!history
    <2>2. /\ job' \in [Clients -> CoverJobs] /\ Together'
          /\ \A i \in Clients : Carries(i)' /\ Evicts(i)'
      BY <2>1, JobEnds
    <2>3. QED
      BY <2>1, <2>2 DEF CoversInv, CoversTyping
  <1>10. ASSUME coverMemory' \subseteq coverMemory,
                UNCHANGED <<content, indexed, coverFile, coverEntries, recorded, job,
                            extractions, overtaken>>
         PROVE  CoversInv'
    BY <1>10 DEF CoversInv, CoversTyping, Together, Carries, Evicts
  <1>11. ASSUME TheCovers!Forget PROVE CoversInv'
    BY <1>10, <1>11 DEF TheCovers!Forget, TheCovers!history
  <1>12. CASE UNCHANGED coversVars
    BY <1>10, <1>12 DEF coversVars
  <1>13. QED
    BY <1>2, <1>3, <1>4, <1>6, <1>7, <1>8, <1>9, <1>11, <1>12, JobKept DEF TheCovers!Next

\* What is proved of the covers contains the type of their states.
LEMMA CoversTyped == CoversInv => TheCovers!TypeOK
  BY DEF CoversInv, CoversTyping, TheCovers!TypeOK, CoverJobs, CoverPlaces

\* For any books, versions, jobs and capacity: no request gets a picture half written,
\* nor that of an older file than the one the catalog shows, unless a job of the
\* book was overtaken by another.
THEOREM CoversAreCurrent == Spec => []CoverIsCurrent
  <1> DEFINE Inv == active = "covers" => CoversInv
  <1>1. Init => Inv
    BY CoversInitially DEF Init
  <1>2. Inv /\ [Next]_vars => Inv'
    BY CoversStep, CoversKept
  <1>3. Inv => CoverIsCurrent
    <2>1. SUFFICES ASSUME CoversInv, NEW b \in Books, NEW p \in TheCovers!Served(b)
                   PROVE  p # TheCovers!Half /\ (b \in overtaken \/ p >= indexed[b])
      BY DEF CoverIsCurrent, TheCovers!CoverIsCurrent
    <2>2. indexed[b] \in Nat /\ coverFile[b] \in Nat
      BY <2>1, VersionsAreNumbers DEF CoversInv, CoversTyping
    <2>3. ASSUME NEW m \in coverMemory, m.book = b, m.fp = indexed[b]
          PROVE  m.picture \in Nat /\ (b \in overtaken \/ m.picture >= indexed[b])
      BY <2>1, <2>2, <2>3, VersionsAreNumbers DEF CoversInv, CoversTyping
    <2>4. ASSUME TheCovers!Persisted(b)
          PROVE  b \in overtaken \/ coverFile[b] >= indexed[b]
      BY <2>1, <2>2, <2>4 DEF CoversInv, TheCovers!Persisted, TheCovers!None
    <2>5. p \in Nat /\ (b \in overtaken \/ p >= indexed[b])
      BY <2>1, <2>2, <2>3, <2>4 DEF TheCovers!Served
    <2>6. QED
      BY <2>5 DEF TheCovers!Half
  <1>4. QED
    BY <1>1, <1>2, <1>3, PTL DEF Spec

-----------------------------------------------------------------------------
(* Metadata. *)

\* What MetadataProofs proves of one book holds of the service.
MetadataT == INSTANCE MetadataProofs WITH job <- writer

LEMMA MetadataIsProved ==
    /\ TheMetadata!Init => MetadataT!Init
    /\ [TheMetadata!Next]_metadataVars => [MetadataT!Next]_(MetadataT!metadataVars)
    /\ Candidates \subseteq MetadataT!Records
    /\ \A r : TheMetadata!Uncertain(r) = MetadataT!Uncertain(r)
  <1>1. Candidates \subseteq MetadataT!Records
    BY ServicesAssumption DEF TheMetadata!Records, MetadataT!Records
  <1>2. QED
    BY <1>1 DEF metadataVars, MetadataT!metadataVars, TheMetadata!Init, MetadataT!Init,
     TheMetadata!Next, MetadataT!Next, TheMetadata!Enrich, MetadataT!Enrich,
     TheMetadata!ReadForCover, MetadataT!ReadForCover, TheMetadata!SaveMatch,
     MetadataT!SaveMatch, TheMetadata!SaveNoMatch, MetadataT!SaveNoMatch,
     TheMetadata!SaveCover, MetadataT!SaveCover, TheMetadata!Find, MetadataT!Find,
     TheMetadata!Accept, MetadataT!Accept, TheMetadata!Edit, MetadataT!Edit,
     TheMetadata!Write, MetadataT!Write, TheMetadata!Begin, MetadataT!Begin,
     TheMetadata!Save, MetadataT!Save, TheMetadata!Pipeline, MetadataT!Pipeline,
     TheMetadata!KeptTitle, MetadataT!KeptTitle, TheMetadata!Plain, MetadataT!Plain,
     TheMetadata!NoMatch, MetadataT!NoMatch, TheMetadata!NoRow, MetadataT!NoRow,
     TheMetadata!Resting, MetadataT!Resting, TheMetadata!Places, MetadataT!Places,
     TheMetadata!ReviewThreshold, MetadataT!ReviewThreshold,
     TheMetadata!AutoApplyThreshold, MetadataT!AutoApplyThreshold, TheMetadata!Confirmed,
     MetadataT!Confirmed, TheMetadata!Score, MetadataT!Score, TheMetadata!Sum,
     MetadataT!Sum, TheMetadata!If, MetadataT!If, TheMetadata!Uncertain,
     MetadataT!Uncertain

LEMMA MetadataKept ==
    /\ (Init => (active = "metadata" => MetadataT!IInv))
    /\ (active = "metadata" => MetadataT!IInv) /\ [Next]_vars
         => (active = "metadata" => MetadataT!IInv)'
  <1>1. ASSUME Init PROVE MetadataT!IInv
    BY <1>1, MetadataIsProved, MetadataT!NoTitleAtFirst DEF Init
  <1>2. ASSUME MetadataT!IInv, [Next]_vars, active = "metadata" PROVE MetadataT!IInv'
    BY <1>2, MetadataStep, MetadataIsProved, MetadataT!StepIsSound
  <1>3. ASSUME [Next]_vars PROVE active' = active
    BY <1>3, MetadataStep
  <1>4. QED
    BY <1>1, <1>2, <1>3

\* For any records of providers, any jobs and any requests: metadata of another title
\* needs a match of the file's number or title.
THEOREM ForeignTitlesMatch == Spec => []ForeignTitleMatches
  <1> DEFINE Inv == active = "metadata" => MetadataT!IInv
  <1>1. Inv => ForeignTitleMatches
    BY MetadataT!AgreedTitleMatches
    DEF ForeignTitleMatches, TheMetadata!ForeignTitleMatches, MetadataT!ForeignTitleMatches
  <1>2. QED
    BY <1>1, MetadataKept, PTL DEF Spec

\* For any records of providers, any jobs and any requests: an uncertain match is
\* listed for review, unless a request read it and saved it as accepted.
THEOREM UncertainMatchesAreReviewed == Spec => []UncertainIsReviewed
  <1> DEFINE Inv == active = "metadata" => MetadataT!IInv
  <1>1. Inv => UncertainIsReviewed
    BY MetadataIsProved
    DEF UncertainIsReviewed, TheMetadata!UncertainIsReviewed, MetadataT!IInv, MetadataT!Sound
  <1>2. QED
    BY <1>1, MetadataKept, PTL DEF Spec

-----------------------------------------------------------------------------
(* Questions to providers. *)

LEMMA LookupTypedInitially == ASSUME TheLookup!Init PROVE TheLookup!TypeOK
  BY Bounds DEF TheLookup!Init, TheLookup!TypeOK, TheLookup!Closed, TheLookup!Idle,
                TheLookup!None, TheLookup!Answer

LEMMA LookupTypeKept ==
    ASSUME TheLookup!TypeOK, [TheLookup!Next]_lookupVars PROVE TheLookup!TypeOK'
  <1> DEFINE Calls == [attempt : 0..Attempts, got : TheLookup!Answer \cup {TheLookup!None}]
             Breakers == [state : {"closed", "half-open", "open"}, failures : 0..Threshold,
                          cooled : BOOLEAN]
  <1>1. /\ TheLookup!Idle \in Calls /\ TheLookup!Closed \in Breakers
        /\ TheLookup!Known \in TheLookup!Answer
        /\ [attempt |-> 0, got |-> TheLookup!Known] \in Calls
    BY Bounds DEF TheLookup!Idle, TheLookup!Closed, TheLookup!Known, TheLookup!Answer,
                  TheLookup!None
  <1>2. TheLookup!Failed \in Breakers
    BY Bounds DEF TheLookup!Failed, TheLookup!TypeOK
  <1>3. ASSUME NEW c \in Clients, TheLookup!AskCache(c) \/ TheLookup!AskRefused(c)
        PROVE  TheLookup!TypeOK'
    BY <1>3 DEF TheLookup!AskCache, TheLookup!AskRefused, TheLookup!TypeOK, TheLookup!Answer
  <1>4. ASSUME NEW c \in Clients, TheLookup!AskProvider(c) PROVE TheLookup!TypeOK'
    <2>1. 1 \in 0..Attempts
      BY Bounds
    <2>2. call' \in [Clients -> Calls] /\ breaker' \in Breakers
      BY <1>4, <2>1 DEF TheLookup!AskProvider, TheLookup!TypeOK
    <2>3. QED
      BY <1>4, <2>2 DEF TheLookup!AskProvider, TheLookup!TypeOK
  <1>5. ASSUME NEW c \in Clients, TheLookup!AttemptFails(c) PROVE TheLookup!TypeOK'
    <2>1. call[c].attempt < Attempts => call[c].attempt + 1 \in 0..Attempts
      BY Bounds DEF TheLookup!TypeOK
    <2>2. /\ call' \in [Clients -> Calls] /\ breaker' \in Breakers
          /\ result' \in [Clients -> TheLookup!Answer \cup {TheLookup!None}]
      BY <1>1, <1>2, <1>5, <2>1 DEF TheLookup!AttemptFails, TheLookup!TypeOK, TheLookup!Answer
    <2>3. QED
      BY <1>5, <2>2 DEF TheLookup!AttemptFails, TheLookup!TypeOK
  <1>6. ASSUME NEW c \in Clients, TheLookup!Answered(c) PROVE TheLookup!TypeOK'
    BY <1>1, <1>6 DEF TheLookup!Answered, TheLookup!TypeOK
  <1>7. ASSUME NEW c \in Clients, TheLookup!Keep(c) PROVE TheLookup!TypeOK'
    BY <1>1, <1>7 DEF TheLookup!Keep, TheLookup!TypeOK
  <1>8. ASSUME TheLookup!Cool \/ TheLookup!Expire \/ TheLookup!ProviderChanges
               \/ UNCHANGED lookupVars
        PROVE  TheLookup!TypeOK'
    BY <1>8 DEF TheLookup!Cool, TheLookup!Expire, TheLookup!ProviderChanges, lookupVars,
                TheLookup!TypeOK
  <1>9. QED
    BY <1>3, <1>4, <1>5, <1>6, <1>7, <1>8 DEF TheLookup!Next, TheLookup!Step

-----------------------------------------------------------------------------
(* Book numbers. *)

\* What IsbnProofs proves of one number holds of the service.
IsbnT == INSTANCE IsbnProofs WITH Refused <- Placeholders

LEMMA IsbnIsProved ==
    /\ TheIsbn!Init => IsbnT!Init
    /\ [TheIsbn!Ask]_isbnVars => [IsbnT!Ask]_<<isbn, forms>>
    /\ Bases \subseteq IsbnT!Digits
    /\ IsbnT!IsbnsAgree => TheIsbn!IsbnsAgree
  <1>1. Bases \subseteq IsbnT!Digits
    BY ServicesAssumption DEF TheIsbn!Digits, IsbnT!Digits
  <1>2. \A n : /\ TheIsbn!Valid(n) = IsbnT!Valid(n)
               /\ TheIsbn!isbnForms(n) = IsbnT!isbnForms(n)
               /\ TheIsbn!Script(n) = IsbnT!Script(n)
    BY DEF TheIsbn!NoIsbn, IsbnT!NoIsbn, TheIsbn!Nothing, IsbnT!Nothing,
     TheIsbn!isbnForms, IsbnT!isbnForms, TheIsbn!isValidIsbn10, IsbnT!isValidIsbn10,
     TheIsbn!isValidIsbn13, IsbnT!isValidIsbn13, TheIsbn!Valid, IsbnT!Valid,
     TheIsbn!To13, IsbnT!To13, TheIsbn!To10, IsbnT!To10, TheIsbn!Sum10, IsbnT!Sum10,
     TheIsbn!Sum13, IsbnT!Sum13, TheIsbn!Check13, IsbnT!Check13, TheIsbn!Script,
     IsbnT!Script
  <1>3. QED
    BY <1>1, <1>2 DEF isbnVars, TheIsbn!Init, IsbnT!Init, TheIsbn!Ask, IsbnT!Ask,
       TheIsbn!Numbers, IsbnT!Numbers, TheIsbn!NoIsbn, IsbnT!NoIsbn, TheIsbn!Nothing,
       IsbnT!Nothing, TheIsbn!IsbnsAgree, IsbnT!IsbnsAgree, TheIsbn!workId, IsbnT!workId

\* For any sets of nine digits: the forms of a book number are one number, and the
\* script accepts what the server accepts.
THEOREM IsbnsAreOne == Spec => []IsbnsAgree
  <1> DEFINE Inv == active = "isbn" => IsbnT!IInv
  <1>1. Init => Inv
    BY IsbnIsProved, IsbnT!FormsInitially DEF Init
  <1>2. Inv /\ [Next]_vars => Inv'
    BY IsbnStep, IsbnIsProved, IsbnT!FormsKept
  <1>3. Inv => IsbnsAgree
    BY IsbnIsProved, IsbnT!AskedFormsAgree DEF IsbnsAgree
  <1>4. QED
    BY <1>1, <1>2, <1>3, PTL DEF Spec

\* The forms of a number are numbers.
LEMMA IsbnTyped == IsbnT!IInv => TheIsbn!TypeOK
  <1>1. Bases \subseteq IsbnT!Digits
    BY IsbnIsProved
  <1>2. ASSUME NEW n \in IsbnT!Numbers
        PROVE  IsbnT!isbnForms(n) \in [ten : IsbnT!Form, thirteen : IsbnT!Form]
    <2>1. IsbnT!To10(n) \in IsbnT!Numbers /\ IsbnT!To13(n) \in IsbnT!Numbers
      BY <1>1, IsbnT!TenIsUnique, IsbnT!ThirteenIsUnique
    <2>2. QED
      BY <2>1 DEF IsbnT!isbnForms, IsbnT!Nothing, IsbnT!Form
  <1>3. ASSUME IsbnT!IInv
        PROVE  isbn \in IsbnT!Numbers
               /\ forms \in [ten : IsbnT!Form, thirteen : IsbnT!Form] \cup {IsbnT!NoIsbn}
    BY <1>2, <1>3 DEF IsbnT!IInv
  <1>4. IsbnT!Numbers = TheIsbn!Numbers /\ IsbnT!NoIsbn = TheIsbn!NoIsbn
    BY DEF IsbnT!Numbers, TheIsbn!Numbers, IsbnT!NoIsbn, TheIsbn!NoIsbn
  <1>5. QED
    BY <1>3, <1>4 DEF IsbnT!Form, TheIsbn!Form, TheIsbn!TypeOK

-----------------------------------------------------------------------------
(* The list of books. *)

\* What a reconciliation has listed is no older than the index.
Ahead(f) ==
  /\ flight[f].at # "none" => current = {f}
  /\ flight[f].at \in {"listed", "indexed"} => flight[f].listed \in 1..files /\ shown <= flight[f].listed

CatalogueInv ==
  /\ TheCatalogue!TypeOK
  /\ shown <= files
  /\ \A f \in Flights : Ahead(f)
  /\ \A r \in Clients : request[r].at = "assembling" => request[r].read > 0

LEMMA CatalogueInitially == ASSUME TheCatalogue!Init PROVE CatalogueInv
  BY Bounds DEF TheCatalogue!Init, TheCatalogue!NoFlight, TheCatalogue!NoRequest,
                CatalogueInv, Ahead, TheCatalogue!TypeOK

\* Joining or starting a reconciliation keeps it the only one.
LEMMA OneIsShared ==
    ASSUME CatalogueInv, NEW f \in Flights, TheCatalogue!Shared(f), TheCatalogue!Start(f),
           UNCHANGED <<files, shown>>
    PROVE  /\ \A g \in Flights : Ahead(g)'
           /\ current' \in SUBSET Flights
           /\ flight' \in [Flights -> [at : {"none", "listing", "listed", "indexed"},
                                       listed : 0..MaxVersions]]
  <1>1. CASE current # {}
    <2>1. flight' = flight /\ current' = {f} /\ f \in current
      BY <1>1 DEF TheCatalogue!Start, TheCatalogue!Shared
    <2>2. QED
      BY <2>1 DEF CatalogueInv, Ahead, TheCatalogue!TypeOK
  <1>2. CASE current = {}
    <2>1. /\ flight' = [flight EXCEPT ![f] = [at |-> "listing", listed |-> 0]]
          /\ current' = {f}
      BY <1>2 DEF TheCatalogue!Start
    <2>2. \A g \in Flights : flight[g].at = "none"
      BY <1>2 DEF CatalogueInv, Ahead
    <2>3. QED
      BY <2>1, <2>2, Bounds DEF CatalogueInv, Ahead, TheCatalogue!TypeOK
  <1>3. QED
    BY <1>1, <1>2

\* A step of a reconciliation, or its end, leaves the others alone.
LEMMA Landed ==
    ASSUME CatalogueInv, NEW f \in Flights, flight[f].at # "none", TheCatalogue!Land(f),
           UNCHANGED <<files, shown>>, listMemory' \subseteq 1..MaxVersions
    PROVE  CatalogueInv'
  <1>1. \A g \in Flights : g # f => flight[g].at = "none"
    BY DEF CatalogueInv, Ahead
  <1>2. /\ flight' = [flight EXCEPT ![f] = TheCatalogue!NoFlight]
        /\ current' = current \ {f}
        /\ request' = [r \in Clients |-> IF f \in request[r].shares
                                         THEN TheCatalogue!NoRequest ELSE request[r]]
    BY DEF TheCatalogue!Land
  <1>3. \A g \in Flights : flight'[g].at = "none"
    BY <1>1, <1>2 DEF CatalogueInv, TheCatalogue!TypeOK, TheCatalogue!NoFlight
  <1>4. /\ request' \in [Clients -> [at : {"idle", "assembling", "waiting"},
                                     read : 0..MaxVersions, shares : SUBSET Flights]]
        /\ \A r \in Clients : request'[r].at = "assembling" => request'[r].read > 0
    BY <1>2, Bounds DEF CatalogueInv, TheCatalogue!TypeOK, TheCatalogue!NoRequest
  <1>5. flight' \in [Flights -> [at : {"none", "listing", "listed", "indexed"},
                                 listed : 0..MaxVersions]]
    BY <1>2, Bounds DEF CatalogueInv, TheCatalogue!TypeOK, TheCatalogue!NoFlight
  <1>6. QED
    BY <1>2, <1>3, <1>4, <1>5 DEF CatalogueInv, Ahead, TheCatalogue!TypeOK

LEMMA CatalogueKept ==
    ASSUME CatalogueInv, [TheCatalogue!Next]_catalogueVars
    PROVE  CatalogueInv' /\ shown' >= shown
  <1>1. ASSUME TheCatalogue!SourcesChange PROVE CatalogueInv' /\ shown' >= shown
    BY <1>1, Bounds DEF TheCatalogue!SourcesChange, CatalogueInv, Ahead, TheCatalogue!TypeOK
  <1>2. ASSUME UNCHANGED <<files, shown, flight, current, request>>,
               listMemory' \in {listMemory, {}}
        PROVE  CatalogueInv' /\ shown' >= shown
    BY <1>2 DEF CatalogueInv, Ahead, TheCatalogue!TypeOK
  <1>3. ASSUME NEW r \in Clients, NEW q, q \in [at : {"idle", "assembling", "waiting"},
                                     read : 0..MaxVersions, shares : SUBSET Flights],
               q.at = "assembling" => q.read > 0,
               request' = [request EXCEPT ![r] = q],
               NEW f \in Flights, TheCatalogue!Shared(f), TheCatalogue!Start(f),
               UNCHANGED <<files, shown>>, listMemory' \subseteq 1..MaxVersions
        PROVE  CatalogueInv' /\ shown' >= shown
    BY <1>3, OneIsShared DEF CatalogueInv, TheCatalogue!TypeOK
  <1>4. ASSUME NEW r \in Clients, TheCatalogue!AskUnknown(r) \/ TheCatalogue!Refresh(r)
        PROVE  CatalogueInv' /\ shown' >= shown
    <2>1. PICK f \in Flights : TheCatalogue!Wait(r, f)
      BY <1>4 DEF TheCatalogue!AskUnknown, TheCatalogue!Refresh
    <2> DEFINE q == [at |-> "waiting", read |-> 0, shares |-> {f}]
    <2>2. /\ q \in [at : {"idle", "assembling", "waiting"}, read : 0..MaxVersions,
                    shares : SUBSET Flights]
          /\ q.at # "assembling"
      BY Bounds
    <2>3. /\ request' = [request EXCEPT ![r] = q]
          /\ TheCatalogue!Shared(f) /\ TheCatalogue!Start(f)
      BY <2>1 DEF TheCatalogue!Wait
    <2>4. UNCHANGED <<files, shown>> /\ listMemory' \subseteq 1..MaxVersions
      BY <1>4 DEF TheCatalogue!AskUnknown, TheCatalogue!Refresh, CatalogueInv,
                  TheCatalogue!TypeOK
    <2> HIDE DEF q
    <2>5. QED
      BY <1>3, <2>2, <2>3, <2>4
  <1>5. ASSUME NEW r \in Clients, TheCatalogue!ReadIndex(r)
        PROVE  CatalogueInv' /\ shown' >= shown
    BY <1>5 DEF TheCatalogue!ReadIndex, CatalogueInv, Ahead, TheCatalogue!TypeOK
  <1>6. ASSUME NEW r \in Clients, TheCatalogue!AnswerFromIndex(r)
        PROVE  CatalogueInv' /\ shown' >= shown
    <2>1. PICK f \in Flights : TheCatalogue!Shared(f) /\ TheCatalogue!Start(f)
      BY <1>6 DEF TheCatalogue!AnswerFromIndex
    <2>2. /\ TheCatalogue!NoRequest
               \in [at : {"idle", "assembling", "waiting"}, read : 0..MaxVersions,
                    shares : SUBSET Flights]
          /\ TheCatalogue!NoRequest.at # "assembling"
      BY Bounds DEF TheCatalogue!NoRequest
    <2>3. /\ request' = [request EXCEPT ![r] = TheCatalogue!NoRequest]
          /\ UNCHANGED <<files, shown>>
      BY <1>6 DEF TheCatalogue!AnswerFromIndex
    <2>4. listMemory' \subseteq 1..MaxVersions
      BY <1>6 DEF TheCatalogue!AnswerFromIndex, CatalogueInv, TheCatalogue!TypeOK
    <2>5. QED
      BY <1>3, <2>1, <2>2, <2>3, <2>4
  <1>7. ASSUME NEW f \in Flights, TheCatalogue!Discover(f)
        PROVE  CatalogueInv' /\ shown' >= shown
    BY <1>7 DEF TheCatalogue!Discover, CatalogueInv, Ahead, TheCatalogue!TypeOK
  <1>8. ASSUME NEW f \in Flights, TheCatalogue!Index(f)
        PROVE  CatalogueInv' /\ shown' >= shown
    <2>1. /\ flight' = [flight EXCEPT ![f].at = "indexed"] /\ shown' = flight[f].listed
          /\ shown <= shown' /\ shown' \in 1..files
          /\ \A g \in Flights : g # f => flight[g].at = "none"
      BY <1>8 DEF TheCatalogue!Index, CatalogueInv, Ahead
    <2>2. QED
      BY <1>8, <2>1 DEF TheCatalogue!Index, CatalogueInv, Ahead, TheCatalogue!TypeOK
  <1>9. ASSUME NEW f \in Flights, TheCatalogue!Finish(f) \/ TheCatalogue!Fail(f)
        PROVE  CatalogueInv' /\ shown' >= shown
    <2>1. flight[f].at # "none" /\ TheCatalogue!Land(f) /\ UNCHANGED <<files, shown>>
      BY <1>9 DEF TheCatalogue!Finish, TheCatalogue!Fail
    <2>2. CASE TheCatalogue!Finish(f)
      <3>1. listMemory' = {flight[f].listed} /\ flight[f].listed \in 1..files
        BY <2>2 DEF TheCatalogue!Finish, CatalogueInv, Ahead
      <3>2. listMemory' \subseteq 1..MaxVersions
        BY <3>1, Bounds DEF CatalogueInv, TheCatalogue!TypeOK
      <3>3. QED
        BY <2>1, <3>2, Landed DEF CatalogueInv, TheCatalogue!TypeOK
    <2>3. CASE TheCatalogue!Fail(f)
      <3>1. listMemory' \subseteq 1..MaxVersions
        BY <2>3 DEF TheCatalogue!Fail, CatalogueInv, TheCatalogue!TypeOK
      <3>2. QED
        BY <2>1, <3>1, Landed DEF CatalogueInv, TheCatalogue!TypeOK
    <2>4. QED
      BY <1>9, <2>2, <2>3
  <1>10. QED
    BY <1>1, <1>2, <1>4, <1>5, <1>6, <1>7, <1>8, <1>9
    DEF TheCatalogue!Next, TheCatalogue!Forget, catalogueVars

\* For any requests, reconciliations and changes of the sources: the index takes no
\* older listing for a newer (driveService.js:593-608).
THEOREM IndexOnlyAdvances == Spec => IndexNeverGoesBack
  <1> DEFINE Inv == active = "catalogue" => CatalogueInv
             Forward == shown' >= shown
  <1>1. Init => Inv
    BY CatalogueInitially DEF Init
  <1>2. Inv /\ [Next]_vars => Inv'
    BY CatalogueStep, CatalogueKept
  <1>3. Inv /\ [Next]_vars => [Forward]_(TheCatalogue!catalogueVars)
    BY CatalogueStep, CatalogueKept DEF TheCatalogue!catalogueVars, catalogueVars
  <1>4. QED
    BY <1>1, <1>2, <1>3, PTL DEF Spec, IndexNeverGoesBack, TheCatalogue!IndexNeverGoesBack

-----------------------------------------------------------------------------
(* The watcher. *)

Watches(s) == watching[s] # "no"

\* The lock has one owner, who watches owns it or has lost it unawares, and a server
\* that may give it away watches no more.
WatcherInv ==
  /\ TheWatcher!TypeOK
  /\ \A s, t \in owner : s = t
  /\ \A s \in Clients : Watches(s) => s \in owner \cup lost
  /\ \A s \in Clients : Watches(s) => place[s] \in {"up", "stopping"}

LEMMA NobodyWatches == ASSUME TheWatcher!Init PROVE WatcherInv
  <1>1. TheWatcher!TypeOK
    <2>1. behind \in BOOLEAN /\ noticed \in [Clients -> BOOLEAN]
      BY DEF TheWatcher!Init
    <2>2. QED
      BY <2>1, Bounds DEF TheWatcher!Init, TheWatcher!TypeOK, TheWatcher!Jobs
  <1>2. QED
    BY <1>1 DEF TheWatcher!Init, WatcherInv, Watches

\* What is asked of the queue, and what a start recovers, is a row and who holds it.
LEMMA QueueTyped ==
    ASSUME NEW s \in Clients, reconciliation \in TheWatcher!Jobs, holders \subseteq Clients,
           \/ TheWatcher!Ask(s) \/ TheWatcher!AskOrFail(s) \/ TheWatcher!Recover(s)
           \/ UNCHANGED TheWatcher!queueVars
    PROVE  reconciliation' \in TheWatcher!Jobs /\ holders' \subseteq Clients
  BY DEF TheWatcher!Ask, TheWatcher!AskOrFail, TheWatcher!Recover, TheWatcher!queueVars,
         TheWatcher!Jobs

LEMMA WatcherTyped ==
    ASSUME TheWatcher!TypeOK, [TheWatcher!Next]_watcherVars PROVE TheWatcher!TypeOK'
  <1> DEFINE Placed == /\ place \in [Clients -> {"down", "starting", "up", "stopping", "closed",
                                                "released"}]
                       /\ watching \in [Clients -> {"no", "scanning", "ready"}]
                       /\ owner \subseteq Clients /\ lost \subseteq Clients
             Listed == noticed \in [Clients -> BOOLEAN] /\ behind \in BOOLEAN
                       /\ edits \in 0..MaxFileChanges
             Queued == reconciliation \in TheWatcher!Jobs /\ holders \subseteq Clients
  <1>1. Placed /\ Listed /\ Queued
    BY Zenon DEF TheWatcher!TypeOK
  <1>2. Placed' /\ Listed' /\ Queued' => TheWatcher!TypeOK'
    BY Zenon DEF TheWatcher!TypeOK
  <1>3. ASSUME NEW s \in Clients, TheWatcher!Gone(s) PROVE TheWatcher!TypeOK'
    <2>1. Placed'
      BY <1>1, <1>3 DEF TheWatcher!Gone, TheWatcher!Goto, TheWatcher!Watch
    <2>2. Listed'
      BY <1>1, <1>3 DEF TheWatcher!Gone
    <2>3. Queued'
      BY <1>1, <1>3 DEF TheWatcher!Gone, TheWatcher!Jobs
    <2>4. QED
      BY <1>2, <2>1, <2>2, <2>3
  <1>4. ASSUME NEW s \in Clients,
               \/ TheWatcher!Start(s) \/ TheWatcher!Claim(s) \/ TheWatcher!CloseWatcher(s)
               \/ TheWatcher!Release(s)
        PROVE  TheWatcher!TypeOK'
    <2>1. Placed'
      BY <1>1, <1>4 DEF TheWatcher!Start, TheWatcher!Claim, TheWatcher!CloseWatcher,
           TheWatcher!Release, TheWatcher!Goto, TheWatcher!Watch
    <2>2. Listed'
      BY <1>1, <1>4 DEF TheWatcher!Start, TheWatcher!Claim, TheWatcher!CloseWatcher,
           TheWatcher!Release
    <2>3. Queued'
      BY <1>1, <1>4, QueueTyped DEF TheWatcher!Start, TheWatcher!Claim,
           TheWatcher!CloseWatcher, TheWatcher!Release
    <2>4. QED
      BY <1>2, <2>1, <2>2, <2>3
  <1>5. ASSUME NEW s \in Clients,
               \/ TheWatcher!Scanned(s) \/ TheWatcher!Debounced(s) \/ TheWatcher!Periodic(s)
               \/ TheWatcher!Terminate(s) \/ TheWatcher!LoseSession(s)
        PROVE  TheWatcher!TypeOK'
    <2>1. Placed'
      BY <1>1, <1>5 DEF TheWatcher!Scanned, TheWatcher!Debounced, TheWatcher!Periodic,
           TheWatcher!Terminate, TheWatcher!LoseSession, TheWatcher!Goto, TheWatcher!Watch
    <2>2. Listed'
      BY <1>1, <1>5 DEF TheWatcher!Scanned, TheWatcher!Debounced, TheWatcher!Periodic,
           TheWatcher!Terminate, TheWatcher!LoseSession
    <2>3. Queued'
      BY <1>1, <1>5, QueueTyped DEF TheWatcher!Scanned, TheWatcher!Debounced,
           TheWatcher!Periodic, TheWatcher!Terminate, TheWatcher!LoseSession
    <2>4. QED
      BY <1>2, <2>1, <2>2, <2>3
  <1>6. ASSUME NEW s \in Clients,
               TheWatcher!Begin(s) \/ TheWatcher!Reconcile(s) \/ TheWatcher!ReconcileFails(s)
        PROVE  TheWatcher!TypeOK'
    <2>1. Placed'
      BY <1>1, <1>6 DEF TheWatcher!Begin, TheWatcher!Reconcile, TheWatcher!ReconcileFails
    <2>2. behind' \in BOOLEAN
      BY <1>1, <1>6 DEF TheWatcher!Begin, TheWatcher!Reconcile, TheWatcher!ReconcileFails
    <2>3. UNCHANGED <<noticed, edits>>
      BY <1>6 DEF TheWatcher!Begin, TheWatcher!Reconcile, TheWatcher!ReconcileFails
    <2>4. Queued'
      BY <1>1, <1>6 DEF TheWatcher!Begin, TheWatcher!Reconcile, TheWatcher!ReconcileFails,
           TheWatcher!Jobs
    <2>5. QED
      BY <1>1, <1>2, <2>1, <2>2, <2>3, <2>4
  <1>7. CASE TheWatcher!FilesChange
    <2>1. edits' \in 0..MaxFileChanges
      BY <1>1, <1>7, Bounds DEF TheWatcher!FilesChange
    <2>2. noticed' \in [Clients -> BOOLEAN] /\ behind' = TRUE
      BY <1>1, <1>7 DEF TheWatcher!FilesChange
    <2>3. Placed' /\ Queued'
      BY <1>1, <1>7 DEF TheWatcher!FilesChange, TheWatcher!Jobs
    <2>4. QED
      BY <1>2, <2>1, <2>2, <2>3
  <1>8. CASE TheWatcher!Lapse
    <2>1. Placed' /\ Queued'
      BY <1>1, <1>8 DEF TheWatcher!Lapse, TheWatcher!Jobs
    <2>2. UNCHANGED <<noticed, behind, edits>>
      BY <1>8 DEF TheWatcher!Lapse
    <2>3. QED
      BY <1>1, <1>2, <2>1, <2>2
  <1>9. CASE UNCHANGED watcherVars
    BY <1>1, <1>2, <1>9 DEF watcherVars
  <1>10. QED
    BY <1>3, <1>4, <1>5, <1>6, <1>7, <1>8, <1>9
    DEF TheWatcher!Next, TheWatcher!Advance, TheWatcher!Exit, TheWatcher!Die

LEMMA WatcherKept == ASSUME WatcherInv, [TheWatcher!Next]_watcherVars PROVE WatcherInv'
  <1>1. TheWatcher!TypeOK /\ TheWatcher!TypeOK'
    BY WatcherTyped DEF WatcherInv
  <1>2. ASSUME NEW s \in Clients, \/ TheWatcher!Start(s) \/ TheWatcher!CloseWatcher(s)
                                  \/ TheWatcher!Release(s) \/ TheWatcher!Terminate(s)
        PROVE  WatcherInv'
    BY <1>1, <1>2 DEF TheWatcher!Start, TheWatcher!CloseWatcher, TheWatcher!Release,
         TheWatcher!Terminate, TheWatcher!Goto, TheWatcher!Watch, WatcherInv, Watches,
         TheWatcher!TypeOK
  <1>3. ASSUME NEW s \in Clients, TheWatcher!Claim(s) PROVE WatcherInv'
    BY <1>1, <1>3 DEF TheWatcher!Claim, TheWatcher!Goto, TheWatcher!Watch, WatcherInv,
         Watches, TheWatcher!TypeOK
  <1>4. ASSUME NEW s \in Clients, TheWatcher!Scanned(s) PROVE WatcherInv'
    BY <1>1, <1>4 DEF TheWatcher!Scanned, TheWatcher!Watch, WatcherInv, Watches,
         TheWatcher!TypeOK
  <1>5. ASSUME NEW s \in Clients, TheWatcher!Gone(s) PROVE WatcherInv'
    BY <1>1, <1>5 DEF TheWatcher!Gone, TheWatcher!Goto, TheWatcher!Watch, WatcherInv,
         Watches, TheWatcher!TypeOK
  <1>6. ASSUME NEW s \in Clients, TheWatcher!LoseSession(s) PROVE WatcherInv'
    <2>1. owner = {s}
      BY <1>6 DEF TheWatcher!LoseSession, WatcherInv
    <2>2. QED
      BY <1>1, <1>6, <2>1 DEF TheWatcher!LoseSession, WatcherInv, Watches
  <1>7. ASSUME UNCHANGED <<place, watching, owner, lost>> PROVE WatcherInv'
    BY <1>1, <1>7 DEF WatcherInv, Watches
  <1>8. QED
    BY <1>2, <1>3, <1>4, <1>5, <1>6, <1>7 DEF TheWatcher!Next, TheWatcher!Advance,
         TheWatcher!Exit, TheWatcher!Die, watcherVars, TheWatcher!Debounced,
         TheWatcher!Periodic, TheWatcher!FilesChange, TheWatcher!Begin,
         TheWatcher!Reconcile, TheWatcher!ReconcileFails, TheWatcher!Lapse

LEMMA OneOwnerOneWatcher == ASSUME WatcherInv PROVE TheWatcher!OneWatcher
  <1> DEFINE watchers == {s \in Clients : watching[s] # "no"} \ lost
  <1>1. watchers \subseteq owner
    BY DEF WatcherInv, Watches
  <1>2. \A s, t \in watchers : s = t
    BY <1>1 DEF WatcherInv
  <1>3. TheWatcher!OneWatcher <=> Cardinality(watchers) <= 1
    BY DEF TheWatcher!OneWatcher, TheWatcher!Cardinality, Cardinality
  <1>4. CASE watchers = {}
    BY <1>3, <1>4, FS_EmptySet
  <1>5. CASE watchers # {}
    <2>1. PICK s : watchers = {s}
      BY <1>2, <1>5
    <2>2. Cardinality(watchers) = 1
      BY <2>1, FS_Singleton
    <2>3. QED
      BY <1>3, <2>2
  <1>6. QED
    BY <1>4, <1>5

\* For any number of servers that start, stop, die and lose their sessions in any
\* order: one of them watches at a time (libraryWatcher.js:58-62).
THEOREM OneWatches == Spec => []OneWatcher
  <1> DEFINE Inv == active = "watcher" => WatcherInv
  <1>1. Init => Inv
    BY NobodyWatches DEF Init
  <1>2. Inv /\ [Next]_vars => Inv'
    BY WatcherStep, WatcherKept
  <1>3. Inv => OneWatcher
    BY OneOwnerOneWatcher DEF OneWatcher
  <1>4. QED
    BY <1>1, <1>2, <1>3, PTL DEF Spec

-----------------------------------------------------------------------------
(* The reader. *)

\* What was listed or extracted for a file was read from it or from a later one.
Fresh(p) == p.of <= archive /\ (p.of = archive => p.shows = archive)
Listed(i) == i.of <= i.listed /\ i.listed <= archive

ReaderInv ==
  /\ TheReader!TypeOK
  /\ known <= archive
  /\ Listed(entries)
  /\ \A r \in Clients : /\ reader[r].at = "listing" => reader[r].index.of <= archive
                        /\ reader[r].at = "indexed" => Listed(reader[r].index)
  /\ \A i \in DOMAIN kept : Fresh(kept[i])
  /\ Fresh(page)

LEMMA ReaderInitially == ASSUME TheReader!Init PROVE ReaderInv
  BY Bounds DEF TheReader!Init, ReaderInv, Fresh, Listed, TheReader!TypeOK, TheReader!NoIndex,
                TheReader!NoPage, TheReader!Waiting, TheReader!Index, TheReader!Page,
                TheReader!Versions

\* The pages that stay are the new one and pages that were there, and not too many.
LEMMA KeptPages ==
    ASSUME kept \in Seq(TheReader!Page), Len(kept) <= MaxKept, NEW k \in TheReader!Page
    PROVE  /\ TheReader!Keep(k) \in Seq(TheReader!Page)
           /\ Len(TheReader!Keep(k)) <= MaxKept
           /\ \A i \in DOMAIN TheReader!Keep(k) :
                \/ TheReader!Keep(k)[i] = k
                \/ \E j \in DOMAIN kept : TheReader!Keep(k)[i] = kept[j]
  <1> DEFINE placed == [i \in DOMAIN kept |->
                          IF kept[i].of = k.of /\ kept[i].number = k.number THEN k ELSE kept[i]]
  <1>1. placed \in Seq(TheReader!Page) /\ Len(placed) = Len(kept)
    <2>1. DOMAIN kept = 1..Len(kept) /\ Len(kept) \in Nat
      OBVIOUS
    <2>2. \A i \in 1..Len(kept) : placed[i] \in TheReader!Page
      BY <2>1
    <2>3. placed = [i \in 1..Len(kept) |-> placed[i]]
      BY <2>1
    <2>4. QED
      BY <2>1, <2>2, <2>3
  <1>2. \A i \in DOMAIN placed : placed[i] = k \/ placed[i] = kept[i]
    OBVIOUS
  <1> HIDE DEF placed
  <1>3. PICK all \in {Append(kept, k), placed} :
               TheReader!Keep(k) = IF Len(all) > MaxKept THEN Tail(all) ELSE all
    BY DEF TheReader!Keep, placed
  <1>4. /\ all \in Seq(TheReader!Page) /\ Len(all) \in {Len(kept), Len(kept) + 1}
        /\ \A i \in DOMAIN all : all[i] = k \/ \E j \in DOMAIN kept : all[i] = kept[j]
    <2>1. CASE all = Append(kept, k)
      BY <2>1
    <2>2. CASE all = placed
      BY <2>2, <1>1, <1>2
    <2>3. QED
      BY <2>1, <2>2
  <1>5. CASE Len(all) > MaxKept
    <2>1. all # <<>>
      BY <1>4, <1>5, Bounds
    <2>2. /\ Tail(all) \in Seq(TheReader!Page) /\ Len(Tail(all)) = Len(all) - 1
          /\ \A i \in DOMAIN Tail(all) : i + 1 \in DOMAIN all /\ Tail(all)[i] = all[i + 1]
      BY <1>4, <2>1
    <2>3. TheReader!Keep(k) = Tail(all)
      BY <1>3, <1>5
    <2>4. Len(Tail(all)) <= MaxKept
      <3>1. Len(kept) \in Nat
        OBVIOUS
      <3> DEFINE n == Len(kept)
                 m == Len(all)
      <3>2. m \in {n, n + 1} /\ Len(Tail(all)) = m - 1 /\ n \in Nat /\ n <= MaxKept
        BY <1>4, <2>2, <3>1
      <3> HIDE DEF n, m
      <3>3. QED
        BY <3>2, Bounds
    <2>5. \A i \in DOMAIN Tail(all) :
            Tail(all)[i] = k \/ \E j \in DOMAIN kept : Tail(all)[i] = kept[j]
      BY <1>4, <2>2
    <2>6. QED
      BY <2>2, <2>3, <2>4, <2>5
  <1>6. CASE ~(Len(all) > MaxKept)
    BY <1>3, <1>4, <1>6, Bounds
  <1>7. QED
    BY <1>5, <1>6

LEMMA ExtractKeeps ==
    ASSUME ReaderInv, NEW r \in Clients, NEW n \in Pages, TheReader!Extract(r, n)
    PROVE  ReaderInv'
  <1>1. PICK shows \in {archive} \cup (IF reader[r].index.listed = archive THEN {}
                                       ELSE {TheReader!Blank}) :
          /\ page' = [of |-> reader[r].index.of, number |-> n, shows |-> shows]
          /\ reader' = [reader EXCEPT ![r] = TheReader!Waiting]
          /\ kept' = TheReader!Keep([of |-> reader[r].index.of, number |-> n, shows |-> shows])
    BY DEF TheReader!Extract, TheReader!Answer
  <1> DEFINE k == [of |-> reader[r].index.of, number |-> n, shows |-> shows]
  <1>2. k \in TheReader!Page /\ Fresh(k)
    <2>1. /\ archive \in 1..MaxEdits /\ reader[r].index \in TheReader!Index
          /\ Listed(reader[r].index)
      BY DEF TheReader!Extract, ReaderInv, TheReader!TypeOK
    <2>2. /\ reader[r].index.of \in 0..MaxEdits /\ reader[r].index.listed \in 0..MaxEdits
          /\ shows \in 0..MaxEdits
      BY <2>1, Bounds DEF TheReader!Index, TheReader!Versions, TheReader!Blank
    <2>3. reader[r].index.of = archive => shows = archive
      BY <2>1, <2>2, Bounds DEF Listed
    <2>4. QED
      BY <2>1, <2>2, <2>3, Bounds DEF Fresh, Listed, TheReader!Page, TheReader!Versions
  <1>3. page' = k /\ kept' = TheReader!Keep(k)
    BY <1>1
  <1> HIDE DEF k
  <1>4. kept \in Seq(TheReader!Page) /\ Len(kept) <= MaxKept
    BY DEF ReaderInv, TheReader!TypeOK
  <1>5. /\ kept' \in Seq(TheReader!Page) /\ Len(kept') <= MaxKept
        /\ \A i \in DOMAIN kept' : kept'[i] = k \/ \E j \in DOMAIN kept : kept'[i] = kept[j]
    BY <1>2, <1>3, <1>4, KeptPages
  <1>6. UNCHANGED <<archive, known, entries>>
    BY DEF TheReader!Extract
  <1>7. /\ reader' \in [Clients -> [at : {"idle", "listing", "indexed"},
                                    index : TheReader!Index]]
        /\ \A c \in Clients : reader'[c] = reader[c] \/ reader'[c].at = "idle"
    BY <1>1, Bounds DEF ReaderInv, TheReader!TypeOK, TheReader!Waiting, TheReader!NoIndex,
                        TheReader!Index, TheReader!Versions
  <1>8. TheReader!TypeOK'
    BY <1>2, <1>3, <1>5, <1>6, <1>7 DEF ReaderInv, TheReader!TypeOK, TheReader!Index,
       TheReader!Page, TheReader!Versions
  <1>9. \A i \in DOMAIN kept' : Fresh(kept[i])'
    <2>1. \A i \in DOMAIN kept' : Fresh(kept'[i])
      BY <1>2, <1>5 DEF ReaderInv
    <2>2. QED
      BY <1>6, <2>1 DEF Fresh
  <1>10. Fresh(page)'
    BY <1>2, <1>3, <1>6 DEF Fresh
  <1>11. \A c \in Clients : /\ reader'[c].at = "listing" => reader'[c].index.of <= archive'
                            /\ reader'[c].at = "indexed" => Listed(reader[c].index)'
    BY <1>6, <1>7 DEF ReaderInv, Listed
  <1>12. QED
    BY <1>6, <1>8, <1>9, <1>10, <1>11 DEF ReaderInv, Listed

LEMMA ReaderKept == ASSUME ReaderInv, [TheReader!Next]_readerVars PROVE ReaderInv'
  <1>1. ASSUME TheReader!FileReplaced PROVE ReaderInv'
    <2>1. /\ archive \in Nat /\ archive' = archive + 1 /\ archive' \in 1..MaxEdits
          /\ UNCHANGED <<known, entries, kept, reader, page>>
      BY <1>1, Bounds DEF TheReader!FileReplaced, ReaderInv, TheReader!TypeOK
    <2>2. /\ known \in Nat /\ entries \in [of : Nat, listed : Nat] /\ page.of \in Nat
          /\ \A r \in Clients : reader[r].index \in [of : Nat, listed : Nat]
      BY DEF ReaderInv, TheReader!TypeOK, TheReader!Index, TheReader!Page, TheReader!Versions
    <2>3. \A i \in DOMAIN kept : kept[i].of \in Nat
      <3>1. \A i \in DOMAIN kept : kept[i] \in TheReader!Page
        BY DEF ReaderInv, TheReader!TypeOK
      <3>2. QED
        BY <3>1 DEF TheReader!Page, TheReader!Versions
    <2>4. TheReader!TypeOK'
      BY <2>1 DEF ReaderInv, TheReader!TypeOK, TheReader!Index, TheReader!Page,
                  TheReader!Versions
    <2>5. QED
      BY <2>1, <2>2, <2>3, <2>4 DEF ReaderInv, Fresh, Listed
  <1>2. ASSUME TheReader!FileNoticed PROVE ReaderInv'
    BY <1>2 DEF TheReader!FileNoticed, ReaderInv, TheReader!TypeOK, TheReader!Index,
                TheReader!Page, TheReader!Versions, Fresh, Listed
  <1>3. ASSUME NEW r \in Clients,
               NEW w \in [at : {"idle", "listing", "indexed"}, index : TheReader!Index],
               reader' = [reader EXCEPT ![r] = w],
               w.at = "listing" => w.index.of <= archive,
               w.at = "indexed" => Listed(w.index),
               entries' \in TheReader!Index, Listed(entries)',
               page' \in TheReader!Page, Fresh(page)', UNCHANGED <<archive, known, kept>>
        PROVE  ReaderInv'
    <2>1. \A c \in Clients : reader'[c] = IF c = r THEN w ELSE reader[c]
      BY <1>3 DEF ReaderInv, TheReader!TypeOK
    <2>2. TheReader!TypeOK'
      BY <1>3 DEF ReaderInv, TheReader!TypeOK, TheReader!Index, TheReader!Page,
                  TheReader!Versions
    <2>3. QED
      BY <1>3, <2>1, <2>2 DEF ReaderInv, Fresh, Listed
  <1> DEFINE waiting == TheReader!Waiting
             listing == [at |-> "listing", index |-> [of |-> known, listed |-> 0]]
             holding(i) == [at |-> "indexed", index |-> i]
             Requests == [at : {"idle", "listing", "indexed"}, index : TheReader!Index]
  <1>4. waiting \in Requests /\ waiting.at = "idle"
    BY Bounds DEF TheReader!Waiting, TheReader!NoIndex, TheReader!Index, TheReader!Versions
  <1>5. listing \in Requests /\ listing.at = "listing" /\ listing.index.of = known
    BY Bounds DEF ReaderInv, TheReader!TypeOK, TheReader!Index, TheReader!Versions
  <1>6. \A i \in TheReader!Index : holding(i) \in Requests /\ holding(i).at = "indexed"
                                     /\ holding(i).index = i
    OBVIOUS
  <1>7. ASSUME NEW r \in Clients, TheReader!Ask(r) PROVE ReaderInv'
    <2>1. UNCHANGED <<archive, known, entries, kept, page>>
      BY <1>7 DEF TheReader!Ask
    <2>2. /\ entries \in TheReader!Index /\ page \in TheReader!Page /\ known <= archive
          /\ Listed(entries) /\ Fresh(page)
      BY DEF ReaderInv, TheReader!TypeOK
    <2>3. Listed(entries)' /\ Fresh(page)'
      BY <2>1, <2>2 DEF Listed, Fresh
    <2>4. CASE entries.of = known
      <3>1. reader' = [reader EXCEPT ![r] = holding(entries)]
        BY <1>7, <2>4 DEF TheReader!Ask
      <3> HIDE DEF holding
      <3>2. QED
        BY <1>3, <1>6, <2>1, <2>2, <2>3, <3>1
    <2>5. CASE entries.of # known
      <3>1. reader' = [reader EXCEPT ![r] = listing]
        BY <1>7, <2>5 DEF TheReader!Ask
      <3> HIDE DEF listing
      <3>2. QED
        BY <1>3, <1>5, <2>1, <2>2, <2>3, <3>1
    <2>6. QED
      BY <2>4, <2>5
  <1>8. ASSUME NEW r \in Clients, TheReader!List(r) PROVE ReaderInv'
    <2>1. /\ reader[r].index.of \in 0..MaxEdits /\ reader[r].index.of <= archive
          /\ archive \in 1..MaxEdits
      BY <1>8 DEF TheReader!List, ReaderInv, TheReader!TypeOK, TheReader!Index,
                  TheReader!Versions
    <2>2. /\ entries' = [of |-> reader[r].index.of, listed |-> archive]
          /\ reader' = [reader EXCEPT ![r] = holding(entries')]
          /\ UNCHANGED <<archive, known, kept, page>>
      BY <1>8 DEF TheReader!List
    <2>3. entries' \in TheReader!Index /\ Listed(entries)' /\ Listed(entries')
      BY <2>1, <2>2, Bounds DEF TheReader!Index, TheReader!Versions, Listed
    <2>4. page' \in TheReader!Page /\ Fresh(page)'
      BY <2>2 DEF ReaderInv, TheReader!TypeOK, Fresh
    <2> HIDE DEF holding
    <2>5. QED
      BY <1>3, <1>6, <2>2, <2>3, <2>4
  <1>9. ASSUME NEW r \in Clients, TheReader!ListFails(r) \/ TheReader!GiveUp(r)
        PROVE  ReaderInv'
    <2>1. /\ reader' = [reader EXCEPT ![r] = waiting]
          /\ UNCHANGED <<archive, known, entries, kept, page>>
      BY <1>9 DEF TheReader!ListFails, TheReader!GiveUp
    <2>2. /\ entries' \in TheReader!Index /\ Listed(entries)'
          /\ page' \in TheReader!Page /\ Fresh(page)'
      BY <2>1 DEF ReaderInv, TheReader!TypeOK, Listed, Fresh
    <2> HIDE DEF waiting
    <2>3. QED
      BY <1>3, <1>4, <2>1, <2>2
  <1>10. ASSUME NEW r \in Clients, NEW n \in Pages, TheReader!ServeKept(r, n)
         PROVE  ReaderInv'
    <2>1. PICK i \in DOMAIN kept :
             /\ kept[i].of = reader[r].index.of
             /\ page' = [of |-> reader[r].index.of, number |-> n, shows |-> kept[i].shows]
             /\ reader' = [reader EXCEPT ![r] = waiting]
      BY <1>10 DEF TheReader!ServeKept, TheReader!Answer, TheReader!Kept, TheReader!SamePage
    <2>2. UNCHANGED <<archive, known, entries, kept>>
      BY <1>10 DEF TheReader!ServeKept
    <2>3. kept[i] \in TheReader!Page /\ Fresh(kept[i])
      BY DEF ReaderInv, TheReader!TypeOK
    <2>4. page' \in TheReader!Page /\ Fresh(page)'
      BY <2>1, <2>2, <2>3 DEF TheReader!Page, Fresh
    <2>5. entries' \in TheReader!Index /\ Listed(entries)'
      BY <2>2 DEF ReaderInv, TheReader!TypeOK, Listed
    <2> HIDE DEF waiting
    <2>6. QED
      BY <1>3, <1>4, <2>1, <2>2, <2>4, <2>5
  <1>11. CASE UNCHANGED readerVars
    BY <1>11 DEF readerVars, ReaderInv, TheReader!TypeOK, TheReader!Index, TheReader!Page,
                 TheReader!Versions, Fresh, Listed
  <1>12. QED
    BY <1>1, <1>2, <1>7, <1>8, <1>9, <1>10, <1>11, ExtractKeeps DEF TheReader!Next

\* For any readers, pages and versions of the file: a page that is answered for the
\* file as it is shows that file.
THEOREM PagesAreOfTheirFiles == Spec => []PageIsOfTheFile
  <1> DEFINE Inv == active = "reader" => ReaderInv
  <1>1. Init => Inv
    BY ReaderInitially DEF Init
  <1>2. Inv /\ [Next]_vars => Inv'
    BY ReaderStep, ReaderKept
  <1>3. Inv => PageIsOfTheFile
    BY DEF PageIsOfTheFile, TheReader!PageIsOfTheFile, ReaderInv, Fresh
  <1>4. QED
    BY <1>1, <1>2, <1>3, PTL DEF Spec

-----------------------------------------------------------------------------
(* Parts of files. *)

\* What the two readers of a header have in common: a part is refused, or begins in
\* the file and ends behind its beginning, at the end of the file at the latest.
Within(piece, size) ==
  \/ piece = TheRanges!Refused
  \/ \E a \in Nat, x \in Int :
       /\ a < size /\ a <= x
       /\ piece = [start |-> a, end |-> TheRanges!Min(x, size - 1)]

LEMMA RangeNumbers ==
    ASSUME NEW h \in TheRanges!Header
    PROVE  /\ TheRanges!None = -1 /\ MaxSafe \in Nat /\ MaxSize \in Nat /\ MaxSize <= MaxSafe
           /\ h.size \in 0..MaxSize /\ h.first \in Int /\ h.last \in Int
           /\ h.first # -1 => h.first \in Nat
           /\ h.last # -1 => h.last \in Nat
  BY Bounds DEF TheRanges!Header, TheRanges!Number, TheRanges!None

LEMMA LocalIsWithin ==
    ASSUME NEW h \in TheRanges!Header PROVE Within(TheRanges!Local(h), h.size)
  <1> DEFINE start == IF h.first = -1 THEN 0 ELSE h.first
             x == IF h.last = -1 THEN h.size - 1 ELSE h.last
             end == IF h.last = -1 THEN h.size - 1 ELSE TheRanges!Min(h.last, h.size - 1)
  <1>1. start \in Nat /\ x \in Int /\ h.size \in Nat
    BY RangeNumbers
  <1>2. end = TheRanges!Min(x, h.size - 1)
    BY RangeNumbers DEF TheRanges!Min
  <1>3. TheRanges!Local(h) = IF start > end \/ start >= h.size THEN TheRanges!Refused
                             ELSE [start |-> start, end |-> end]
    BY RangeNumbers DEF TheRanges!Local
  <1> HIDE DEF start, x, end
  <1>4. CASE start > end \/ start >= h.size
    BY <1>3, <1>4 DEF Within
  <1>5. CASE ~(start > end \/ start >= h.size)
    <2>1. start < h.size /\ start <= x
      BY <1>1, <1>2, <1>5 DEF TheRanges!Min
    <2>2. TheRanges!Local(h) = [start |-> start, end |-> TheRanges!Min(x, h.size - 1)]
      BY <1>2, <1>3, <1>5
    <2>3. QED
      BY <1>1, <2>1, <2>2 DEF Within
  <1>6. QED
    BY <1>4, <1>5

LEMMA RemoteIsWithin ==
    ASSUME NEW h \in TheRanges!Header
    PROVE  /\ Within(TheRanges!Remote(h), h.size)
           /\ ~TheRanges!Suffix(h) /\ h.last <= MaxSafe
                => TheRanges!Remote(h) = TheRanges!Local(h)
  <1> DEFINE none == TheRanges!None
             start == CASE TheRanges!Suffix(h) -> IF h.last > h.size THEN 0 ELSE h.size - h.last
                        [] h.first = none /\ ~TheRanges!Suffix(h) -> 0
                        [] OTHER -> h.first
             x == IF TheRanges!Suffix(h) \/ h.last = none THEN h.size - 1 ELSE h.last
             refused == start > MaxSafe \/ x > MaxSafe \/ x < start \/ start >= h.size
  <1>1. none = -1 /\ h.size \in Nat /\ h.size <= MaxSafe /\ MaxSafe \in Nat
    BY RangeNumbers
  <1>2. /\ start \in Nat /\ x \in Int
        /\ ~TheRanges!Suffix(h) => start = IF h.first = -1 THEN 0 ELSE h.first
    <2>1. CASE TheRanges!Suffix(h)
      <3>1. h.last \in Nat
        BY <2>1, RangeNumbers DEF TheRanges!Suffix
      <3>2. start = IF h.last > h.size THEN 0 ELSE h.size - h.last
        BY <2>1
      <3>3. start \in Nat
        BY <1>1, <3>1, <3>2
      <3>4. QED
        BY <1>1, <2>1, <3>3
    <2>2. CASE ~TheRanges!Suffix(h) /\ h.first = none
      BY <2>2, RangeNumbers
    <2>3. CASE ~TheRanges!Suffix(h) /\ h.first # none
      <3>1. start = h.first
        BY <2>3
      <3>2. QED
        BY <1>1, <2>3, <3>1, RangeNumbers
    <2>4. QED
      BY <2>1, <2>2, <2>3
  <1>3. TheRanges!Remote(h) = IF refused THEN TheRanges!Refused
                              ELSE [start |-> start, end |-> TheRanges!Min(x, h.size - 1)]
    BY DEF TheRanges!Remote
  <1>4. Within(TheRanges!Remote(h), h.size)
    <2> HIDE DEF start, x
    <2>1. CASE refused
      BY <1>3, <2>1 DEF Within
    <2>2. CASE ~refused
      BY <1>1, <1>2, <1>3, <2>2 DEF Within
    <2>3. QED
      BY <2>1, <2>2
  <1>5. ASSUME ~TheRanges!Suffix(h), h.last <= MaxSafe
        PROVE  TheRanges!Remote(h) = TheRanges!Local(h)
    <2> DEFINE cut == IF h.last = none THEN h.size - 1 ELSE TheRanges!Min(h.last, h.size - 1)
    <2>1. x \in Int /\ x <= MaxSafe /\ cut = TheRanges!Min(x, h.size - 1)
      BY <1>1, <1>2, <1>5 DEF TheRanges!Min
    <2>2. TheRanges!Local(h) = IF start > cut \/ start >= h.size THEN TheRanges!Refused
                               ELSE [start |-> start, end |-> cut]
      <3>1. start = IF h.first = none THEN 0 ELSE h.first
        BY <1>1, <1>2, <1>5
      <3> HIDE DEF start
      <3>2. QED
        BY <3>1 DEF TheRanges!Local
    <2> HIDE DEF start, x, cut
    <2>3. refused <=> start > cut \/ start >= h.size
      BY <1>1, <1>2, <2>1 DEF TheRanges!Min
    <2> HIDE DEF refused
    <2>4. QED
      BY <1>3, <2>1, <2>2, <2>3
  <1>6. QED
    BY <1>4, <1>5

\* Such a part is a part of the file.
LEMMA PiecesAreParts ==
    ASSUME NEW size \in 0..MaxSize, NEW piece, Within(piece, size)
    PROVE  /\ piece \in TheRanges!Piece
           /\ piece # TheRanges!Refused => piece.start <= piece.end /\ piece.end < size
  <1>1. MaxSize \in Nat
    BY Bounds
  <1>2. CASE piece = TheRanges!Refused
    BY <1>1, <1>2 DEF TheRanges!Refused, TheRanges!Piece, TheRanges!None
  <1>3. ASSUME NEW a \in Nat, NEW x \in Int, a < size, a <= x,
               piece = [start |-> a, end |-> TheRanges!Min(x, size - 1)]
        PROVE  piece \in TheRanges!Piece /\ piece.start <= piece.end /\ piece.end < size
    <2> DEFINE e == TheRanges!Min(x, size - 1)
    <2>1. e \in Nat /\ a <= e /\ e < size
      BY <1>1, <1>3 DEF TheRanges!Min
    <2> HIDE DEF e
    <2>2. piece = [start |-> a, end |-> e]
      BY <1>3 DEF e
    <2>3. a \in 0..MaxSize /\ e \in -1..MaxSize
      BY <1>1, <1>3, <2>1
    <2>4. QED
      BY <2>1, <2>2, <2>3 DEF TheRanges!Piece, TheRanges!None
  <1>4. QED
    BY <1>2, <1>3 DEF Within

RangesInv == /\ range.header \in TheRanges!Header
             /\ range = TheRanges!Answered(range.header)

LEMMA RangesInitially == ASSUME TheRanges!Init PROVE RangesInv
  <1>1. [first |-> TheRanges!None, last |-> TheRanges!None, size |-> 0] \in TheRanges!Header
    BY Bounds DEF TheRanges!Header, TheRanges!Number, TheRanges!None
  <1>2. QED
    BY <1>1 DEF TheRanges!Init, RangesInv, TheRanges!Answered

LEMMA RangesKept == ASSUME RangesInv, [TheRanges!Ask]_rangesVars PROVE RangesInv'
  <1>1. ASSUME NEW h \in TheRanges!Header, range' = TheRanges!Answered(h) PROVE RangesInv'
    BY <1>1 DEF RangesInv, TheRanges!Answered
  <1>2. ASSUME UNCHANGED rangesVars PROVE RangesInv'
    BY <1>2 DEF RangesInv, rangesVars
  <1>3. QED
    BY <1>1, <1>2 DEF TheRanges!Ask

\* What RangesInv says of the two answers.
LEMMA AnswersAreParts ==
    ASSUME RangesInv
    PROVE  /\ range.header \in TheRanges!Header
           /\ range = [header |-> range.header, local |-> range.local, remote |-> range.remote]
           /\ range.local = TheRanges!Local(range.header)
           /\ range.remote = TheRanges!Remote(range.header)
           /\ \A piece \in {range.local, range.remote} :
                /\ piece \in TheRanges!Piece
                /\ piece # TheRanges!Refused =>
                     piece.start <= piece.end /\ piece.end < range.header.size
  <1>1. /\ range.header \in TheRanges!Header
        /\ range.local = TheRanges!Local(range.header)
        /\ range.remote = TheRanges!Remote(range.header)
        /\ range = [header |-> range.header, local |-> range.local, remote |-> range.remote]
    BY DEF RangesInv, TheRanges!Answered
  <1>2. \A piece \in {range.local, range.remote} : Within(piece, range.header.size)
    BY <1>1, LocalIsWithin, RemoteIsWithin
  <1>3. QED
    BY <1>1, <1>2, RangeNumbers, PiecesAreParts

\* For files and headers of any size: what is answered is a part of the file, the same
\* wherever it is kept, unless only the last bytes are asked for or the last byte is
\* not a safe integer.
THEOREM RangesAreAlike == Spec => []RangesAgree
  <1> DEFINE Inv == active = "ranges" => RangesInv
  <1>1. Init => Inv
    BY RangesInitially DEF Init
  <1>2. Inv /\ [Next]_vars => Inv'
    BY RangesStep, RangesKept
  <1>3. Inv => RangesAgree
    <2>1. ASSUME RangesInv PROVE TheRanges!RangesAgree
      BY <2>1, AnswersAreParts, RemoteIsWithin DEF TheRanges!RangesAgree
    <2>2. QED
      BY <2>1 DEF RangesAgree
  <1>4. QED
    BY <1>1, <1>2, <1>3, PTL DEF Spec

LEMMA RangesTyped == RangesInv => TheRanges!TypeOK
  BY AnswersAreParts DEF TheRanges!TypeOK

-----------------------------------------------------------------------------
(* Reading states. *)

\* What ReadingStateProofs proves of the devices holds of the service.
ReadingT == INSTANCE ReadingStateProofs WITH Devices <- Clients

LEMMA ReadingIsProved ==
    /\ TheReading!Init => ReadingT!Init
    /\ [TheReading!Next]_readingVars => [ReadingT!Next]_(ReadingT!vars)
    /\ \A d \in Clients : TheReading!Save(d, TRUE) => ReadingT!Save(d, TRUE)
  BY DEF readingVars, ReadingT!vars, TheReading!Init, ReadingT!Init, TheReading!NoRow,
     ReadingT!NoRow, TheReading!Nothing, ReadingT!Nothing, TheReading!Next, ReadingT!Next,
     TheReading!Read, ReadingT!Read, TheReading!Save, ReadingT!Save, TheReading!Expected,
     ReadingT!Expected, TheReading!Upsert, ReadingT!Upsert, TheReading!Conflict,
     ReadingT!Conflict, TheReading!Backup, ReadingT!Backup, TheReading!Restore,
     ReadingT!Restore, TheReading!Repair, ReadingT!Repair, TheReading!Remove,
     ReadingT!Remove

\* For any devices and any number of saves, backups, restores and repairs: a save that
\* names a version loses no other save.
THEOREM NoReadingIsLost == Spec => NothingLost
  <1> DEFINE Inv == active = "reading" => ReadingT!IInv
             Kept == \A d \in Clients :
                       TheReading!Save(d, TRUE) => rewritten \/ seen[d].version = 0
                                                   \/ seen[d] = state
  <1>1. Init => Inv
    BY ReadingIsProved, ReadingT!ReadInitially, Bounds DEF Init
  <1>2. Inv /\ [Next]_vars => Inv'
    BY ReadingStep, ReadingIsProved, ReadingT!StepKeepsPast, Bounds
  <1>3. Inv /\ [Next]_vars => [Kept]_(TheReading!vars)
    BY ReadingStep, ReadingIsProved, ReadingT!SaveOfVersion
    DEF TheReading!vars, readingVars
  <1>4. QED
    BY <1>1, <1>2, <1>3, PTL DEF Spec, NothingLost, TheReading!NothingLost

\* A version counts saves, and so does what is shown.
ReadingTyping ==
  /\ TheReading!TypeOK
  /\ \A r \in {state, backup} : r.version <= saves /\ r.shows <= saves

LEMMA NoRowIsARow ==
    /\ TheReading!NoRow \in TheReading!Row
    /\ \A n \in Nat : TheReading!NoRow.version <= n /\ TheReading!NoRow.shows <= n
  BY Bounds DEF TheReading!NoRow, TheReading!Row

LEMMA ReadingTypedInitially == ASSUME TheReading!Init PROVE ReadingTyping
  <1>1. /\ state = TheReading!NoRow /\ backup = TheReading!NoRow /\ saves = 0
        /\ rewritten = FALSE /\ seen = [d \in Clients |-> TheReading!Nothing]
    BY DEF TheReading!Init
  <1>2. \A r \in {state, backup} : r.version <= saves /\ r.shows <= saves
    BY <1>1, NoRowIsARow
  <1>3. saves \in 0..MaxSaves
    <2>1. saves = 0 /\ MaxSaves \in Nat
      BY <1>1, Bounds
    <2>2. QED
      BY <2>1
  <1>4. /\ state \in TheReading!Row /\ backup \in TheReading!Row
        /\ seen \in [Clients -> TheReading!Row \cup {TheReading!Nothing}]
    BY <1>1, NoRowIsARow
  <1>5. QED
    BY <1>1, <1>2, <1>3, <1>4 DEF ReadingTyping, TheReading!TypeOK

LEMMA ReadingTypeKept ==
    ASSUME ReadingTyping, [TheReading!Next]_readingVars PROVE ReadingTyping'
  <1>1. /\ state \in TheReading!Row /\ backup \in TheReading!Row /\ saves \in 0..MaxSaves
        /\ state.version \in 0..saves /\ state.shows \in 0..saves
        /\ backup.version \in 0..saves /\ backup.shows \in 0..saves
    BY DEF ReadingTyping, TheReading!TypeOK, TheReading!Row
  <1>2. ASSUME saves < MaxSaves
        PROVE  /\ saves + 1 \in 0..MaxSaves /\ state.version + 1 \in 0..MaxSaves
               /\ state.version + 1 <= saves + 1
               /\ \A r \in {state, backup} : r.version <= saves + 1 /\ r.shows <= saves + 1
    BY <1>1, <1>2, Bounds
  <1>3. TheReading!NoRow.version <= saves /\ TheReading!NoRow.shows <= saves
    BY <1>1, NoRowIsARow, Bounds
  <1>4. ASSUME NEW d \in Clients, TheReading!Read(d) \/ TheReading!Conflict(d)
        PROVE  ReadingTyping'
    BY <1>4 DEF TheReading!Read, TheReading!Conflict, ReadingTyping, TheReading!TypeOK
  <1>5. ASSUME NEW d \in Clients, NEW sent \in BOOLEAN, TheReading!Save(d, sent)
        PROVE  ReadingTyping'
    <2>1. /\ saves < MaxSaves /\ saves' = saves + 1 /\ UNCHANGED <<backup, rewritten>>
          /\ state' = [version |-> state.version + 1, shows |-> saves + 1]
          /\ seen' = [seen EXCEPT ![d] = TheReading!Nothing]
      BY <1>5 DEF TheReading!Save, TheReading!Upsert
    <2>2. state' \in TheReading!Row /\ state'.version <= saves' /\ state'.shows <= saves'
      BY <1>2, <2>1 DEF TheReading!Row
    <2>3. backup'.version <= saves' /\ backup'.shows <= saves' /\ saves' \in 0..MaxSaves
      BY <1>2, <2>1
    <2>4. QED
      BY <2>1, <2>2, <2>3 DEF ReadingTyping, TheReading!TypeOK
  <1>6. ASSUME TheReading!Repair PROVE ReadingTyping'
    <2>1. /\ saves < MaxSaves /\ saves' = saves + 1 /\ UNCHANGED <<seen, backup>>
          /\ state' = [state EXCEPT !.shows = saves + 1] /\ rewritten' = TRUE
      BY <1>6 DEF TheReading!Repair
    <2>2. /\ state' \in TheReading!Row /\ state'.version <= saves' /\ state'.shows <= saves'
      BY <1>1, <1>2, <2>1 DEF TheReading!Row
    <2>3. backup'.version <= saves' /\ backup'.shows <= saves' /\ saves' \in 0..MaxSaves
      BY <1>2, <2>1
    <2>4. QED
      BY <2>1, <2>2, <2>3 DEF ReadingTyping, TheReading!TypeOK
  <1>7. ASSUME \/ TheReading!Backup \/ TheReading!Restore \/ TheReading!Remove
               \/ UNCHANGED readingVars
        PROVE  ReadingTyping'
    <2>1. /\ state' \in {state, backup, TheReading!NoRow} /\ backup' \in {state, backup}
          /\ UNCHANGED <<seen, saves>> /\ rewritten' \in {TRUE, rewritten}
      BY <1>7 DEF TheReading!Backup, TheReading!Restore, TheReading!Remove, readingVars
    <2>2. \A r \in {state', backup'} : r.version <= saves' /\ r.shows <= saves'
      BY <1>1, <1>3, <2>1 DEF ReadingTyping
    <2>3. TheReading!TypeOK'
      BY <2>1, NoRowIsARow DEF ReadingTyping, TheReading!TypeOK
    <2>4. QED
      BY <2>2, <2>3 DEF ReadingTyping
  <1>8. QED
    BY <1>4, <1>5, <1>6, <1>7 DEF TheReading!Next

-----------------------------------------------------------------------------
(* The schema. *)

\* What each book shows is what its row names.
SchemaInv == TheSchema!TypeOK /\ TheSchema!BookShowsItsLibrary

\* The blocks record the versions 1 to 13.
LEMMA BlockVersions ==
    ASSUME NEW i \in 1..10
    PROVE  TheSchema!Blocks[i].versions \subseteq 1..13
  BY DEF TheSchema!Blocks, TheSchema!Block, TheSchema!Foundation, TheSchema!Content,
         TheSchema!Language, TheSchema!Theme, TheSchema!LocalLibrary, TheSchema!AppSettings,
         TheSchema!JobCenter, TheSchema!Connections, TheSchema!Roles, TheSchema!Links

LEMMA BlockOfPlace ==
    ASSUME TheSchema!TypeOK, NEW p \in Clients, NEW block, TheSchema!Run(p, block)
    PROVE  /\ applied' \subseteq 1..13
           /\ tables' \subseteq UNION {TheSchema!Blocks[i].creates : i \in DOMAIN TheSchema!Blocks}
           /\ starter' \in [Clients -> TheSchema!Idle..TheSchema!Up]
  <1>1. PICK i \in DOMAIN TheSchema!Blocks : starter[p] = i /\ TheSchema!Blocks[i] = block
    BY DEF TheSchema!Run
  <1>2. DOMAIN TheSchema!Blocks = 1..10 /\ TheSchema!Up = 11 /\ TheSchema!Idle = 0
    BY DEF TheSchema!Blocks, TheSchema!Up, TheSchema!Idle
  <1>3. block.versions \subseteq 1..13
    BY <1>1, <1>2, BlockVersions
  <1>4. /\ tables' = tables \cup TheSchema!Blocks[i].creates
        /\ applied' = applied \cup block.versions
        /\ starter' = [starter EXCEPT ![p] = i + 1]
    BY <1>1 DEF TheSchema!Run, TheSchema!Goto
  <1>5. i + 1 \in TheSchema!Idle..TheSchema!Up
    BY <1>2
  <1>6. starter' \in [Clients -> TheSchema!Idle..TheSchema!Up]
    BY <1>4, <1>5 DEF TheSchema!TypeOK
  <1>7. tables' \subseteq UNION {TheSchema!Blocks[n].creates : n \in DOMAIN TheSchema!Blocks}
    BY <1>4 DEF TheSchema!TypeOK
  <1>8. QED
    BY <1>3, <1>4, <1>6, <1>7 DEF TheSchema!TypeOK

LEMMA SchemaInitially == ASSUME TheSchema!Init PROVE SchemaInv
  <1>1. PICK n \in {0, 4, Len(TheSchema!Blocks) - 1} :
          /\ applied = TheSchema!Older(n)
          /\ tables = UNION {TheSchema!Blocks[i].creates : i \in 1..n}
          /\ payload \in [Books -> {TheSchema!NoLibrary}]
    BY DEF TheSchema!Init
  <1>2. DOMAIN TheSchema!Blocks = 1..10 /\ TheSchema!Up = 11 /\ TheSchema!Idle = 0
        /\ Len(TheSchema!Blocks) = 10
    BY DEF TheSchema!Blocks, TheSchema!Up, TheSchema!Idle
  <1>3. 1..n \subseteq DOMAIN TheSchema!Blocks
    BY <1>1, <1>2
  <1>4. \A i \in DOMAIN TheSchema!Blocks : TheSchema!Blocks[i].versions \subseteq 1..13
    BY <1>2, BlockVersions
  <1>5. applied \subseteq 1..13
    BY <1>1, <1>3, <1>4 DEF TheSchema!Older
  <1>6. tables \subseteq UNION {TheSchema!Blocks[i].creates : i \in DOMAIN TheSchema!Blocks}
    BY <1>1, <1>3
  <1>7. libraries \subseteq {"local"}
    BY DEF TheSchema!Init
  <1>8. /\ starter \in [Clients -> TheSchema!Idle..TheSchema!Up] /\ stops \in 0..MaxStops
        /\ missing = {} /\ sources = {}
        /\ \A f \in Books : bound[f] = TheSchema!NoLibrary
        /\ bound \in [Books -> {TheSchema!NoLibrary}]
    BY <1>2, Bounds DEF TheSchema!Init
  <1>9. "local" \in TheSchema!Libraries
    BY ServicesAssumption DEF TheSchema!Libraries
  <1>10. TheSchema!TypeOK
    BY <1>1, <1>5, <1>6, <1>7, <1>8, <1>9 DEF TheSchema!TypeOK
  <1>11. QED
    BY <1>8, <1>10 DEF SchemaInv, TheSchema!BookShowsItsLibrary

LEMMA Linked == ASSUME SchemaInv, NEW p \in Clients, TheSchema!Link(p) PROVE SchemaInv'
  <1>1. TheSchema!TypeOK /\ TheSchema!BookShowsItsLibrary /\ TheSchema!Run(p, TheSchema!Links)
    BY DEF SchemaInv, TheSchema!Link
  <1>2. \A f \in Books : ProviderOf[f] \in TheSchema!Libraries
    BY ServicesAssumption DEF TheSchema!Libraries
  <1>3. TheSchema!TypeOK'
    <2>1. /\ bound' \in [Books -> TheSchema!Libraries \cup {TheSchema!NoLibrary}]
          /\ payload' \in [Books -> TheSchema!Libraries \cup {TheSchema!NoLibrary}]
      BY <1>1, <1>2 DEF TheSchema!Link, TheSchema!TypeOK
    <2>2. libraries' \subseteq TheSchema!Libraries
          /\ sources' \subseteq TheSchema!Libraries \X Providers
          /\ UNCHANGED <<stops, missing>>
      BY <1>1 DEF TheSchema!Link, TheSchema!TypeOK, TheSchema!Libraries
    <2>3. QED
      BY <1>1, <2>1, <2>2, BlockOfPlace DEF TheSchema!TypeOK
  <1>4. TheSchema!BookShowsItsLibrary'
    BY <1>1 DEF TheSchema!Link, TheSchema!TypeOK, TheSchema!BookShowsItsLibrary
  <1>5. QED
    BY <1>3, <1>4 DEF SchemaInv

LEMMA Reconciled ==
    ASSUME SchemaInv, NEW found_ \in SUBSET Books, TheSchema!Reconcile(found_)
    PROVE  SchemaInv'
  <1>1. ASSUME NEW f \in found_
        PROVE  (CHOOSE l \in TheSchema!SourceOf(f) : TRUE) \in TheSchema!Libraries
    <2>1. TheSchema!SourceOf(f) # {}
      BY DEF TheSchema!Reconcile
    <2>2. TheSchema!SourceOf(f) \subseteq TheSchema!Libraries
      BY DEF TheSchema!SourceOf, TheSchema!Libraries
    <2>3. QED
      BY <2>1, <2>2
  <1>2. /\ bound' \in [Books -> TheSchema!Libraries \cup {TheSchema!NoLibrary}]
        /\ payload' \in [Books -> TheSchema!Libraries \cup {TheSchema!NoLibrary}]
        /\ \A f \in Books : \/ bound'[f] = payload'[f]
                            \/ bound'[f] = bound[f] /\ payload'[f] = payload[f]
    BY <1>1 DEF SchemaInv, TheSchema!Reconcile, TheSchema!TypeOK
  <1>3. UNCHANGED <<applied, tables, starter, stops, missing, libraries, sources>>
    BY DEF TheSchema!Reconcile
  <1>4. QED
    BY <1>2, <1>3 DEF SchemaInv, TheSchema!TypeOK, TheSchema!BookShowsItsLibrary

LEMMA SchemaKept == ASSUME SchemaInv, [TheSchema!Next]_schemaVars PROVE SchemaInv'
  <1>1. ASSUME NEW p \in Clients, NEW block, TheSchema!Run(p, block),
               libraries' \subseteq TheSchema!Libraries, missing' \subseteq Clients,
               UNCHANGED <<stops, sources, bound, payload>>
        PROVE  SchemaInv'
    BY <1>1, BlockOfPlace DEF SchemaInv, TheSchema!TypeOK, TheSchema!BookShowsItsLibrary
  <1>2. ASSUME NEW p \in Clients, NEW n \in TheSchema!Idle..TheSchema!Up, 
               starter' = [starter EXCEPT ![p] = n], missing' \subseteq missing \cup {p},
               stops' \in 0..MaxStops,
               UNCHANGED <<applied, tables, libraries, sources, bound, payload>>
        PROVE  SchemaInv'
    BY <1>2 DEF SchemaInv, TheSchema!TypeOK, TheSchema!BookShowsItsLibrary
  <1>3. ASSUME NEW p \in Clients, TheSchema!Advance(p) PROVE SchemaInv'
    <2>1. CASE TheSchema!Start(p)
      <3>1. 1 \in TheSchema!Idle..TheSchema!Up
        BY DEF TheSchema!Idle, TheSchema!Up, TheSchema!Blocks
      <3>2. QED
        BY <1>2, <2>1, <3>1 DEF TheSchema!Start, TheSchema!Goto, SchemaInv, TheSchema!TypeOK
    <2>2. CASE TheSchema!Look(p)
      <3>1. starter[p] + 1 \in TheSchema!Idle..TheSchema!Up
        BY <2>2 DEF TheSchema!Look, TheSchema!Idle, TheSchema!Up, TheSchema!Blocks
      <3>2. starter[p] \in TheSchema!Idle..TheSchema!Up
            /\ starter = [starter EXCEPT ![p] = starter[p]] /\ stops \in 0..MaxStops
        BY DEF SchemaInv, TheSchema!TypeOK
      <3>3. QED
        BY <1>2, <2>2, <3>1, <3>2 DEF TheSchema!Look, TheSchema!Goto
    <2>3. CASE TheSchema!AddLocalLibrary(p)
      <3>1. "local" \in TheSchema!Libraries
        BY ServicesAssumption DEF TheSchema!Libraries
      <3>2. QED
        BY <1>1, <2>3, <3>1 DEF TheSchema!AddLocalLibrary, SchemaInv, TheSchema!TypeOK
    <2>4. CASE TheSchema!Link(p)
      BY <2>4, Linked
    <2>5. CASE TheSchema!FailOnDuplicate(p)
      <3>1. TheSchema!Idle \in TheSchema!Idle..TheSchema!Up
        BY DEF TheSchema!Idle, TheSchema!Up, TheSchema!Blocks
      <3>2. QED
        BY <1>2, <2>5, <3>1 DEF TheSchema!FailOnDuplicate, TheSchema!Stop, TheSchema!Goto,
                                SchemaInv, TheSchema!TypeOK
    <2>6. ASSUME NEW i \in DOMAIN TheSchema!Blocks, TheSchema!Migrate(p, TheSchema!Blocks[i])
          PROVE  SchemaInv'
      BY <1>1, <2>6 DEF TheSchema!Migrate, SchemaInv, TheSchema!TypeOK
    <2>7. QED
      BY <1>3, <2>1, <2>2, <2>3, <2>4, <2>5, <2>6 DEF TheSchema!Advance
  <1>4. ASSUME NEW p \in Clients, TheSchema!StopOrFail(p) PROVE SchemaInv'
    <2>1. TheSchema!Idle \in TheSchema!Idle..TheSchema!Up
      BY DEF TheSchema!Idle, TheSchema!Up, TheSchema!Blocks
    <2>2. stops' \in 0..MaxStops
      BY <1>4, Bounds DEF TheSchema!StopOrFail, SchemaInv, TheSchema!TypeOK
    <2>3. QED
      BY <1>2, <1>4, <2>1, <2>2 DEF TheSchema!StopOrFail, TheSchema!Stop, TheSchema!Goto
  <1>5. ASSUME NEW q \in Providers, TheSchema!CreateLibrary(q) PROVE SchemaInv'
    BY <1>5 DEF TheSchema!CreateLibrary, SchemaInv, TheSchema!TypeOK,
                TheSchema!BookShowsItsLibrary, TheSchema!Libraries
  <1>6. ASSUME NEW l \in TheSchema!Libraries, TheSchema!DeleteLibrary(l) PROVE SchemaInv'
    BY <1>6 DEF TheSchema!DeleteLibrary, SchemaInv, TheSchema!TypeOK,
                TheSchema!BookShowsItsLibrary
  <1>7. CASE UNCHANGED schemaVars
    BY <1>7 DEF schemaVars, SchemaInv, TheSchema!TypeOK, TheSchema!BookShowsItsLibrary
  <1>8. QED
    BY <1>3, <1>4, <1>5, <1>6, <1>7, Reconciled DEF TheSchema!Next

\* For any processes, files, libraries and providers, and migrations that several
\* processes begin and break off: a book shows the library of its row.
THEOREM BooksShowTheirLibraries == Spec => []BookShowsItsLibrary
  <1> DEFINE Inv == active = "schema" => SchemaInv
  <1>1. Init => Inv
    BY SchemaInitially DEF Init
  <1>2. Inv /\ [Next]_vars => Inv'
    BY SchemaStep, SchemaKept
  <1>3. Inv => BookShowsItsLibrary
    BY DEF BookShowsItsLibrary, SchemaInv
  <1>4. QED
    BY <1>1, <1>2, <1>3, PTL DEF Spec

-----------------------------------------------------------------------------
(* All services. *)

LEMMA MetadataTyped == MetadataT!IInv => TheMetadata!TypeOK
  <1>1. MetadataT!Title = TheMetadata!Title /\ MetadataT!Places = TheMetadata!Places
    BY DEF MetadataT!Title, TheMetadata!Title, MetadataT!NoMatch, TheMetadata!NoMatch,
           MetadataT!Places, TheMetadata!Places
  <1>2. MetadataT!Row = TheMetadata!Row
    BY <1>1 DEF MetadataT!Row, TheMetadata!Row
  <1>3. QED
    BY <1>1, <1>2 DEF MetadataT!IInv, MetadataT!TypeOK, TheMetadata!TypeOK

\* The active service is one of the thirteen, and what is proved of each holds of it.
ServiceNames == {"settings", "access", "renamer", "covers", "metadata", "lookup", "isbn",
                 "catalogue", "watcher", "reader", "ranges", "reading", "schema"}
ServicesInv ==
  /\ active \in ServiceNames
  /\ active = "settings" => SettingsTyping
  /\ active = "access" => AccessInv
  /\ active = "renamer" => RenamerInv
  /\ active = "covers" => CoversInv
  /\ active = "metadata" => MetadataT!IInv
  /\ active = "lookup" => TheLookup!TypeOK
  /\ active = "isbn" => IsbnT!IInv
  /\ active = "catalogue" => CatalogueInv
  /\ active = "watcher" => WatcherInv
  /\ active = "reader" => ReaderInv
  /\ active = "ranges" => RangesInv
  /\ active = "reading" => ReadingTyping
  /\ active = "schema" => SchemaInv

LEMMA ServicesInitially == Init => ServicesInv
  <1> SUFFICES ASSUME Init PROVE ServicesInv
    OBVIOUS
  <1>1. /\ active \in ServiceNames
        /\ SettingsTyping /\ AccessInv /\ (active = "renamer" => RenamerInv)
        /\ active = "covers" => CoversInv
    BY SettingsTypedInitially, AccessInitially, RenamerInitially, CoversInitially
    DEF Init, ServiceNames
  <1>2. /\ MetadataT!IInv /\ TheLookup!TypeOK /\ (active = "isbn" => IsbnT!IInv)
        /\ CatalogueInv
    BY MetadataIsProved, MetadataT!NoTitleAtFirst, LookupTypedInitially, IsbnIsProved,
       IsbnT!FormsInitially, CatalogueInitially
    DEF Init
  <1>3. WatcherInv /\ ReaderInv /\ ReadingTyping /\ (active = "schema" => SchemaInv)
    BY NobodyWatches, ReaderInitially, ReadingTypedInitially, SchemaInitially DEF Init
  <1>4. RangesInv
    BY RangesInitially DEF Init
  <1>5. QED
    BY <1>1, <1>2, <1>3, <1>4 DEF ServicesInv

LEMMA ServicesKept == ServicesInv /\ [Next]_vars => ServicesInv'
  <1> SUFFICES ASSUME ServicesInv, [Next]_vars PROVE ServicesInv'
    OBVIOUS
  <1>1. active' = active
    BY SettingsStep
  <1>2. CASE active \in {"settings", "access", "renamer", "covers"}
    BY <1>1, <1>2, SettingsStep, SettingsTypeKept, AccessStep, AccessKept, RenamerStep,
       RenamerKept, CoversStep, CoversKept
    DEF ServicesInv
  <1>3. CASE active \in {"metadata", "lookup", "isbn", "catalogue"}
    BY <1>1, <1>3, MetadataStep, MetadataIsProved, MetadataT!StepIsSound, LookupStep,
       LookupTypeKept, IsbnStep, IsbnIsProved, IsbnT!FormsKept, CatalogueStep, CatalogueKept
    DEF ServicesInv
  <1>4. CASE active \in {"watcher", "reader", "ranges", "reading", "schema"}
    BY <1>1, <1>4, WatcherStep, WatcherKept, ReaderStep, ReaderKept, RangesStep, RangesKept,
       ReadingStep, ReadingTypeKept, SchemaStep, SchemaKept
    DEF ServicesInv
  <1>5. QED
    BY <1>2, <1>3, <1>4 DEF ServicesInv, ServiceNames

\* For any clients, books, libraries and bounds: every service stays within the types
\* of its module.
THEOREM ServicesStayTyped == Spec => []ServicesTyped
  <1>1. ServicesInv => ServicesTyped
    <2> SUFFICES ASSUME ServicesInv PROVE ServicesTyped
      OBVIOUS
    <2>1. /\ active = "settings" => TheSettings!TypeOK
          /\ active = "access" => TheAccess!TypeOK
          /\ active = "renamer" => TheRenamer!TypeOK
          /\ active = "covers" => TheCovers!TypeOK
          /\ active = "metadata" => TheMetadata!TypeOK
          /\ active = "lookup" => TheLookup!TypeOK
          /\ active = "isbn" => TheIsbn!TypeOK
          /\ active = "catalogue" => TheCatalogue!TypeOK
          /\ active = "watcher" => TheWatcher!TypeOK
          /\ active = "reader" => TheReader!TypeOK
          /\ active = "ranges" => TheRanges!TypeOK
          /\ active = "reading" => TheReading!TypeOK
          /\ active = "schema" => TheSchema!TypeOK
      BY SettingsTyped, RenamerTyped, CoversTyped, MetadataTyped, IsbnTyped, RangesTyped
      DEF ServicesInv, AccessInv, CatalogueInv, WatcherInv, ReaderInv,
          ReadingTyping, SchemaInv
    <2>2. active \in ServiceNames
      BY DEF ServicesInv
    <2>3. CASE active = "settings"
      BY <2>1, <2>3 DEF ServicesTyped
    <2>4. CASE active = "access"
      BY <2>1, <2>4 DEF ServicesTyped
    <2>5. CASE active = "renamer"
      BY <2>1, <2>5 DEF ServicesTyped
    <2>6. CASE active = "covers"
      BY <2>1, <2>6 DEF ServicesTyped
    <2>7. CASE active = "metadata"
      BY <2>1, <2>7 DEF ServicesTyped
    <2>8. CASE active = "lookup"
      BY <2>1, <2>8 DEF ServicesTyped
    <2>9. CASE active = "isbn"
      BY <2>1, <2>9 DEF ServicesTyped
    <2>10. CASE active = "catalogue"
      BY <2>1, <2>10 DEF ServicesTyped
    <2>11. CASE active = "watcher"
      BY <2>1, <2>11 DEF ServicesTyped
    <2>12. CASE active = "reader"
      BY <2>1, <2>12 DEF ServicesTyped
    <2>13. CASE active = "ranges"
      BY <2>1, <2>13 DEF ServicesTyped
    <2>14. CASE active = "reading"
      BY <2>1, <2>14 DEF ServicesTyped
    <2>15. CASE active = "schema"
      BY <2>1, <2>15 DEF ServicesTyped
    <2>16. QED
      BY <2>2, <2>3, <2>4, <2>5, <2>6, <2>7, <2>8, <2>9, <2>10, <2>11, <2>12, <2>13, <2>14, <2>15 DEF ServiceNames
  <1>2. QED
    BY <1>1, ServicesInitially, ServicesKept, PTL DEF Spec
=============================================================================
