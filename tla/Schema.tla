------------------------------- MODULE Schema -------------------------------
(***************************************************************************)
(* The migrations that every process runs at every start, servers and      *)
(* workers alike and side by side (postgresMigrations.js), and what they   *)
(* make of the libraries: the default library and source of each provider, *)
(* and the books bound to them, next to the administrators who delete      *)
(* libraries and the reconciliations that bind the books they find         *)
(* (libraryAdminService.js, connectionService.js, libraryIndexService.js). *)
(* Of the tables the model keeps which exist, and the rows of libraries,   *)
(* library_sources and library_files.                                      *)
(***************************************************************************)
EXTENDS Integers, Sequences

CONSTANTS Processes, Files, Providers,
          ProviderOf,    \* [Files -> Providers], the storage of each file
          MaxStops       \* how often processes stop or a statement fails

VARIABLES applied,    \* schema_migrations
          tables,     \* the tables that exist
          starter,    \* the next block of each process that starts
          stops,      \* (bound)
          missing,    \* processes that found version 8 missing
          libraries,  \* the rows of libraries
          sources,    \* library_sources: <<library, provider>>
          bound,      \* library_files.library_id
          payload     \* the libraryId inside library_files.payload

schemaVars == <<applied, tables, starter, stops, missing, libraries, sources, bound, payload>>

NoLibrary == "none"
Own == "own"          \* a library an administrator made
Libraries == Providers \cup {Own}   \* a default library has its provider's name

\* The blocks, one transaction each, the versions they record, the tables they
\* create and the ones their foreign keys name.
Block(versions, creates, names) ==
  [versions |-> versions, creates |-> creates, names |-> names]

Foundation ==
  Block(1..4,
    {"users", "user_password_history", "profiles", "library_files", "livros",
     "categorias", "reading_state", "background_jobs", "secure_credentials",
     "source_sync_state", "works", "work_files", "saved_views",
     "book_preferences", "series", "work_series", "offline_items",
     "cache_entries", "integrity_reports", "reader_metrics", "feature_flags",
     "duplicate_decisions", "backup_history", "system_settings",
     "user_profiles", "user_sessions", "admin_audit_log", "libraries",
     "storage_provider_settings"}, {})
Content ==
  Block({5}, {"creators", "work_creators", "collections", "collection_works",
              "chapters", "cover_variants"}, {"works", "library_files"})
Language == Block({6}, {}, {"profiles", "users"})
Theme == Block({7}, {}, {"profiles", "users"})
LocalLibrary == Block({8}, {}, {"libraries"})
AppSettings == Block({9}, {"app_settings"}, {"users"})
JobCenter ==
  Block({10}, {"job_definitions", "job_schedules", "job_logs"},
        {"users", "background_jobs"})
Connections ==
  Block({11}, {"storage_connections", "library_sources"}, {"libraries"})
Roles ==
  Block({12}, {"roles", "role_permissions", "role_library_access"},
        {"users", "libraries"})
Links ==
  Block({13}, {}, {"library_files", "libraries", "library_sources"})

Blocks ==
  <<Foundation, Content, Language, Theme, LocalLibrary, AppSettings, JobCenter,
    Connections, Roles, Links>>

Up == Len(Blocks) + 1
Idle == 0

\* A database that is new, or that older releases left: the tables of version 5
\* without a default library, or all but the links.
Older(n) == UNION {Blocks[i].versions : i \in 1..n}
Init ==
  /\ \E n \in {0, 4, Len(Blocks) - 1} :
       /\ applied = Older(n)
       /\ tables = UNION {Blocks[i].creates : i \in 1..n}
       /\ payload \in [Files -> {NoLibrary}]
  /\ starter = [p \in Processes |-> Idle]
  /\ missing = {}
  /\ stops = 0
  /\ libraries = IF 8 \in applied THEN {"local"} ELSE {}
  /\ sources = {}
  /\ bound = [f \in Files |-> NoLibrary]

Goto(p, block) == starter' = [starter EXCEPT ![p] = block]

Start(p) ==
  /\ starter[p] = Idle
  /\ Goto(p, 1)
  /\ UNCHANGED <<applied, tables, stops, missing, libraries, sources, bound, payload>>

\* The transaction of the next block: CREATE TABLE IF NOT EXISTS, and the record
\* of its versions ON CONFLICT DO NOTHING.
Run(p, block) ==
  /\ starter[p] \in DOMAIN Blocks /\ Blocks[starter[p]] = block
  /\ block.names \subseteq tables \cup block.creates
  /\ tables' = tables \cup block.creates
  /\ applied' = applied \cup block.versions
  /\ Goto(p, starter[p] + 1)

Migrate(p, block) ==
  /\ block \notin {LocalLibrary, Links}
  /\ Run(p, block)
  /\ UNCHANGED <<stops, missing, libraries, sources, bound, payload>>

\* A slip: version 8 is applied without a look, as the other blocks are.
LookNot(p) ==
  /\ starter[p] \in DOMAIN Blocks /\ Blocks[starter[p]] = LocalLibrary
  /\ missing' = missing \cup {p}
  /\ UNCHANGED <<applied, tables, starter, stops, libraries, sources, bound, payload>>

\* Version 8 looks whether it is recorded before its transaction begins.
Look(p) ==
  /\ starter[p] \in DOMAIN Blocks /\ Blocks[starter[p]] = LocalLibrary
  /\ p \notin missing
  /\ IF 8 \in applied THEN Goto(p, starter[p] + 1) /\ UNCHANGED missing
     ELSE missing' = missing \cup {p} /\ UNCHANGED starter
  /\ UNCHANGED <<applied, tables, stops, libraries, sources, bound, payload>>

AddLocalLibrary(p) ==
  /\ p \in missing
  /\ 8 \notin applied
  /\ Run(p, LocalLibrary)
  /\ missing' = missing \ {p}
  /\ libraries' = libraries \cup {"local"}
  /\ UNCHANGED <<stops, sources, bound, payload>>

Stop(p) ==
  /\ Goto(p, Idle)
  /\ missing' = missing \ {p}
  /\ UNCHANGED <<applied, tables, libraries, sources, bound, payload>>

\* The version was recorded since the look: its key is taken, the start fails.
FailOnDuplicate(p) ==
  /\ p \in missing /\ 8 \in applied
  /\ Stop(p)
  /\ UNCHANGED stops

\* Any statement fails or the process dies, and its transaction is undone; a
\* process that is up is stopped.
StopOrFail(p) ==
  /\ starter[p] # Idle
  /\ stops < MaxStops /\ stops' = stops + 1
  /\ Stop(p)

\* A slip: the copy of the library in the payload is left as it was.
LinkColumnOnly(p) ==
  /\ Run(p, Links)
  /\ libraries' = libraries \cup Providers
  /\ sources' = sources \cup {<<q, q>> : q \in Providers}
  /\ bound' = [f \in Files |-> IF bound[f] = NoLibrary THEN ProviderOf[f] ELSE bound[f]]
  /\ UNCHANGED <<payload, stops, missing>>

\* At every start, also for libraries that were deleted since.
Link(p) ==
  /\ Run(p, Links)
  /\ libraries' = libraries \cup Providers
  /\ sources' = sources \cup {<<q, q>> : q \in Providers}
  /\ bound' = [f \in Files |-> IF bound[f] = NoLibrary THEN ProviderOf[f] ELSE bound[f]]
  /\ payload' = [f \in Files |-> IF bound[f] = NoLibrary THEN ProviderOf[f] ELSE payload[f]]
  /\ UNCHANGED <<stops, missing>>

SomeoneIsUp == \E p \in Processes : starter[p] = Up

\* A library with a source for a part of a provider's files.
CreateLibrary(q) ==
  /\ SomeoneIsUp
  /\ Own \notin libraries
  /\ libraries' = libraries \cup {Own}
  /\ sources' = sources \cup {<<Own, q>>}
  /\ UNCHANGED <<applied, tables, starter, stops, missing, bound, payload>>

\* The foreign keys delete its sources and clear the column of its books.
DeleteLibrary(l) ==
  /\ SomeoneIsUp
  /\ l \in libraries
  /\ libraries' = libraries \ {l}
  /\ sources' = {s \in sources : s[1] # l}
  /\ bound' = [f \in Files |-> IF bound[f] = l THEN NoLibrary ELSE bound[f]]
  /\ UNCHANGED <<applied, tables, starter, stops, missing, payload>>

\* resolveSourceBinding: the most specific source of the provider.
SourceOf(f) ==
  IF <<Own, ProviderOf[f]>> \in sources THEN {Own}
  ELSE {l \in Providers : <<l, ProviderOf[f]>> \in sources}

\* One transaction, which fails when a book that was found has no source.
Reconcile(found) ==
  /\ SomeoneIsUp
  /\ \A f \in found : SourceOf(f) # {}
  /\ bound' = [f \in Files |-> IF f \in found THEN CHOOSE l \in SourceOf(f) : TRUE
                               ELSE bound[f]]
  /\ payload' = [f \in Files |-> IF f \in found THEN bound'[f] ELSE payload[f]]
  /\ UNCHANGED <<applied, tables, starter, stops, missing, libraries, sources>>

Advance(p) ==
  \/ Start(p) \/ Look(p) \/ AddLocalLibrary(p) \/ Link(p) \/ FailOnDuplicate(p)
  \/ \E i \in DOMAIN Blocks : Migrate(p, Blocks[i])

Next ==
  \/ \E p \in Processes : Advance(p) \/ StopOrFail(p)
  \/ \E q \in Providers : CreateLibrary(q)
  \/ \E l \in Libraries : DeleteLibrary(l)
  \/ \E found \in SUBSET Files : Reconcile(found)

\* Who stopped is started again, and a start goes on.
Fairness == \A p \in Processes : WF_schemaVars(Advance(p))

Spec == Init /\ [][Next]_schemaVars /\ Fairness

TypeOK ==
  /\ applied \subseteq 1..13
  /\ tables \subseteq UNION {Blocks[i].creates : i \in DOMAIN Blocks}
  /\ starter \in [Processes -> Idle..Up]
  /\ stops \in 0..MaxStops /\ missing \subseteq Processes
  /\ libraries \subseteq Libraries
  /\ sources \subseteq Libraries \X Providers
  /\ bound \in [Files -> Libraries \cup {NoLibrary}]
  /\ payload \in [Files -> Libraries \cup {NoLibrary}]

\* The library a book shows, by which users are allowed to see it, is the one of
\* its row, through restarts, deleted libraries and reconciliations; only a book
\* without one still shows what it had (postgresMigrations.js:465-472,
\* libraryIndexService.js:54, authorizationService.js:33).
BookShowsItsLibrary ==
  \A f \in Files : bound[f] # NoLibrary => payload[f] = bound[f]

\* A process that is started again when its start fails comes up in the end,
\* though others start at the same time and can make it fail
\* (postgresMigrations.js:360-368).
StartsSucceed == \A p \in Processes : <>[](starter[p] = Up)
=============================================================================
