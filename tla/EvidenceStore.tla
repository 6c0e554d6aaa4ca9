----------------------------- MODULE EvidenceStore -----------------------------
(***************************************************************************)
(* The two databases behind the repositories and how a process comes to    *)
(* use one of them.                                                        *)
(*                                                                         *)
(* A schema is the set of its objects: tables, the unique keys beside the  *)
(* primary key that upserts name in ON CONFLICT, the columns added after   *)
(* the table first appeared, the indexes made apart from their table.  The *)
(* same schema is written down four times: as the Alembic revisions, as    *)
(* the SQLAlchemy metadata, as the script SQLiteStore.initialize runs on   *)
(* every start, and as the tables PostgresStore.verify_schema expects.     *)
(*                                                                         *)
(* An operator migrates PostgreSQL up and down while the API server and    *)
(* the worker start, each on its own: a process verifies PostgreSQL in two *)
(* reads, and without it (if it may fall back) brings the SQLite file up   *)
(* to date, one statement at a time, beside the other process.             *)
(***************************************************************************)
EXTENDS Naturals, Sequences, FiniteSets, SequencesExt

CONSTANTS
    Settings,     \* kinds of DATABASE_URL and whether AMD_ALLOW_SQLITE_FALLBACK is set
    Procs,        \* the processes that open a registry
    Phases,       \* the revisions at which the SQLite file may have been left
    Targets,      \* the revisions the operator migrates to
    MaxMigrations \* bound on migrations

VARIABLES
    env,    \* the kind of DATABASE_URL, AMD_ALLOW_SQLITE_FALLBACK, migrations so far
    pg,     \* the PostgreSQL database: its objects and alembic_version
    file,   \* the objects of the SQLite file
    proc,   \* what each process is doing
    failed  \* history: statements that raised

vars == <<env, pg, file, proc, failed>>

----------------------------------------------------------------------------
(* Objects and the statements that make them. *)

Table(t) == <<"table", t>>
Key(t) == <<"key", t>>
Column(t, c) == <<"column", t, c>>
Version == Table("alembic_version")
Hypertable == <<"hypertable", "bars">>

Create(t, with) == [makes |-> Table(t), with |-> with, needs |-> {}]
Tables(ts) == [i \in DOMAIN ts |-> Create(ts[i], {})]
Keyed(ts) == [i \in DOMAIN ts |-> Create(ts[i], {Key(ts[i])})]
Columns(t, cs) ==
    [i \in DOMAIN cs |-> [makes |-> Column(t, cs[i]), with |-> {}, needs |-> {Table(t)}]]
Index(t, i, cs) == [makes |-> <<"index", t, i>>, with |-> {},
                    needs |-> {Table(t)} \union {Column(t, c) : c \in cs}]
Hyper == [makes |-> Hypertable, with |-> {}, needs |-> {Table("bars")}]

Objects(statements) ==
    UNION {{s.makes} \union s.with : s \in ToSet(statements)}

\* A revision: what its statements make, and what they build on that none before them makes.
Revision(strict, ups) == [strict |-> strict, ups |-> ToSet(ups),
    needs |-> UNION {ups[i].needs \ Objects(SubSeq(ups, 1, i - 1)) : i \in DOMAIN ups}]

\* Of a schema, what a repository reads and writes by name.
Shape(schema) == {o \in schema : o[1] \in {"table", "key", "column"}} \ {Version}

----------------------------------------------------------------------------
(* The columns that came after their table, the SQLAlchemy metadata, and what *)
(* verify_schema expects.                                                     *)

ReplayColumns == <<"config_hash", "input_fingerprint", "candidate_fingerprint",
    "replay_config_version", "feature_set_version", "candidate_config_version",
    "label_config_version", "stale_window_status_json">>
LeaseColumns == <<"lease_owner", "lease_expires_at", "heartbeat_at", "attempt_count",
    "max_attempts", "timeout_seconds", "last_error">>
ReviewColumns == <<"operator_review_status", "reviewed_by", "reviewed_at", "review_notes">>

MetadataMarket == Tables(<<"symbols">>)
    \o Keyed(<<"bars", "features", "candidate_signals", "labels">>)
    \o Tables(<<"validation_reports", "validation_windows">>)
MetadataModels == Tables(<<"model_runs", "model_artifacts">>)
    \o Keyed(<<"model_evidence_cells", "candidate_score_audits", "model_calibration_audits">>)
    \o Tables(<<"model_calibration_bins", "model_comparisons">>)
MetadataReview == Tables(<<"replay_window_sets", "replay_window_results",
    "model_calibration_drift_reports", "model_calibration_drift_windows", "model_review_reports">>)
MetadataGovernance == Keyed(<<"research_cycles">>)
    \o Tables(<<"research_cycle_artifacts", "champion_challenger_comparisons">>)
    \o Keyed(<<"model_proposals", "model_decision_ledger">>)
MetadataRuntime == Keyed(<<"scheduler_jobs">>) \o Columns("scheduler_jobs", LeaseColumns)
    \o Keyed(<<"scheduler_job_events", "active_models">>)
    \o Tables(<<"live_signals", "closed_signals", "scanner_runs", "provider_requests">>)
MetadataProvider == Keyed(<<"provider_capability_checks">>)
    \o Columns("provider_capability_checks", ReviewColumns)
    \o Keyed(<<"ingestion_runs", "quote_snapshots", "data_freshness_reports">>)
    \o Tables(<<"exports">>)
MetadataReplay == Tables(<<"replay_runs">>) \o Columns("replay_runs", ReplayColumns)
    \o Tables(<<"replay_sensitivity_runs", "replay_sensitivity_scenarios",
                "backtest_comparisons", "simulated_trades">>)
    \o Keyed(<<"pipeline_build_windows", "daily_reviews">>)
Metadata == MetadataMarket \o MetadataModels \o MetadataReview \o MetadataGovernance
    \o MetadataRuntime \o MetadataProvider \o MetadataReplay

ExpectedTables == {"active_models", "alembic_version", "bars", "backtest_comparisons",
    "candidate_signals", "candidate_score_audits", "champion_challenger_comparisons",
    "closed_signals", "daily_reviews", "exports", "features", "labels", "live_signals",
    "model_artifacts", "model_calibration_audits", "model_calibration_bins",
    "model_calibration_drift_reports", "model_calibration_drift_windows", "model_comparisons",
    "model_evidence_cells", "model_review_reports", "model_runs", "pipeline_build_windows",
    "ingestion_runs", "quote_snapshots", "data_freshness_reports", "provider_capability_checks",
    "provider_requests", "model_decision_ledger", "model_proposals", "research_cycle_artifacts",
    "research_cycles", "replay_runs", "replay_sensitivity_runs", "replay_sensitivity_scenarios",
    "replay_window_results", "replay_window_sets", "scheduler_job_events", "scheduler_jobs",
    "scanner_runs", "simulated_trades", "symbols", "validation_reports", "validation_windows"}

----------------------------------------------------------------------------
(* The Alembic revisions. *)

Baseline1 == Tables(<<"symbols">>)
    \o Keyed(<<"bars", "features", "candidate_signals", "labels">>)
    \o Tables(<<"validation_reports", "validation_windows">>)
Baseline2 == Tables(<<"model_runs", "model_artifacts">>) \o Keyed(<<"active_models">>)
    \o Tables(<<"live_signals", "closed_signals", "scanner_runs", "provider_requests", "exports">>)
    \o Keyed(<<"daily_reviews">>)

\* Mutant: the first revision creates the metadata of today.
InitialFromMetadata == Revision(TRUE,
    Metadata \o
    <<Index("bars", "lookup", {}), Index("features", "lookup", {}),
      Index("live_signals", "latest", {})>>)

Initial == Revision(TRUE,
    Baseline1 \o Baseline2 \o
    <<Index("bars", "lookup", {}), Index("features", "lookup", {}),
      Index("live_signals", "latest", {})>>)
Phase5Indexes == Revision(TRUE,
    <<Index("features", "lookup_version", {}), Index("labels", "symbol_ts_setup_side_outcome", {}),
      Index("live_signals", "ticker_ts_status", {}),
      Index("validation_reports", "model_purpose_created", {}),
      Index("scanner_runs", "started", {})>>)
Phase6Replay == Revision(FALSE,
    Tables(<<"replay_runs", "simulated_trades">>) \o Keyed(<<"pipeline_build_windows">>) \o
    <<Index("candidate_signals", "replay_lookup", {}),
      Index("live_signals", "symbol_ts_status_model", {})>>)
Phase7Audit == Revision(FALSE,
    Columns("replay_runs", ReplayColumns) \o
    <<Index("replay_runs", "config_hash", {"config_hash"})>> \o
    Tables(<<"replay_sensitivity_runs", "replay_sensitivity_scenarios", "backtest_comparisons">>) \o
    <<Hyper>>)
Phase8ReplayAware == Revision(FALSE,
    Keyed(<<"model_evidence_cells", "candidate_score_audits">>))
Phase9Calibration == Revision(FALSE,
    Keyed(<<"model_calibration_audits">>) \o
    Tables(<<"model_calibration_bins", "model_comparisons">>))
Phase10Review == Revision(FALSE,
    Tables(<<"replay_window_sets", "replay_window_results", "model_calibration_drift_reports",
             "model_calibration_drift_windows", "model_review_reports">>))
Phase11Governance == Revision(TRUE,
    Keyed(<<"research_cycles">>) \o
    Tables(<<"research_cycle_artifacts", "champion_challenger_comparisons">>) \o
    Keyed(<<"model_proposals", "model_decision_ledger">>))
Phase13Scheduler == Revision(TRUE,
    Keyed(<<"scheduler_jobs", "scheduler_job_events">>))
Phase14Worker == Revision(TRUE,
    Columns("scheduler_jobs", LeaseColumns) \o
    <<Index("scheduler_jobs", "lease_expires", {"lease_expires_at"}),
      Index("scheduler_jobs", "lease_owner", {"lease_owner"})>>)
Phase15Provider == Revision(TRUE,
    Keyed(<<"provider_capability_checks", "ingestion_runs">>))
Phase16Freshness == Revision(TRUE,
    Columns("provider_capability_checks", ReviewColumns) \o
    <<Index("provider_capability_checks", "review", {"operator_review_status"})>> \o
    Keyed(<<"quote_snapshots", "data_freshness_reports">>))

Revisions == <<Initial, Phase5Indexes, Phase6Replay, Phase7Audit, Phase8ReplayAware,
    Phase9Calibration, Phase10Review, Phase11Governance, Phase13Scheduler, Phase14Worker,
    Phase15Provider, Phase16Freshness>>
ExpectedRevision == 12

ASSUME RevisionsAssumption == Phases \union Targets \subseteq 0..ExpectedRevision

Raised == {<<"raised", "">>}

\* CREATE and ADD COLUMN, strict or IF NOT EXISTS: a statement whose object is there does nothing
\* or raises, one that lacks what it builds on raises.
Up(schema, r) ==
    LET fresh == {s \in r.ups : s.makes \notin schema}
    IN  IF schema = Raised \/ (r.strict /\ fresh # r.ups) \/ ~(r.needs \subseteq schema)
        THEN Raised
        ELSE schema \union UNION {{s.makes} \union s.with : s \in fresh}

\* DROP, strict or IF EXISTS; a table takes all that is its own with it, and nothing drops the
\* hypertable but its table.
Back(schema, r) ==
    LET dropped == {s.makes : s \in r.ups} \ {Hypertable}
        tables == {o[2] : o \in {x \in dropped : x[1] = "table"}}
    IN  IF schema = Raised \/ (r.strict /\ ~(dropped \subseteq schema))
        THEN Raised
        ELSE {o \in schema : o \notin dropped /\ o[2] \notin tables}

Upgrade(schema, from, to) ==
    LET db[v \in from..to] == IF v = from THEN schema ELSE Up(db[v - 1], Revisions[v])
    IN  db[to]
Downgrade(schema, from, to) ==
    LET db[v \in to..from] == IF v = from THEN schema ELSE Back(db[v + 1], Revisions[v + 1])
    IN  db[to]

\* What a database new at revision n holds.
SchemaAt == [n \in 0..ExpectedRevision |-> Upgrade({}, 0, n)]

----------------------------------------------------------------------------
(* What SQLiteStore.initialize runs, statement by statement. *)

ScriptMarket == Tables(<<"symbols">>)
    \o Keyed(<<"bars", "features", "candidate_signals", "labels">>)
    \o Tables(<<"validation_reports", "validation_windows">>)
ScriptModels == Tables(<<"model_runs", "model_artifacts">>)
    \o Keyed(<<"model_evidence_cells", "candidate_score_audits", "model_calibration_audits">>)
    \o Tables(<<"model_calibration_bins", "model_comparisons">>)
ScriptReview == Tables(<<"replay_window_sets", "replay_window_results",
    "model_calibration_drift_reports", "model_calibration_drift_windows", "model_review_reports">>)
ScriptGovernance == Keyed(<<"research_cycles">>)
    \o Tables(<<"research_cycle_artifacts", "champion_challenger_comparisons">>)
    \o Keyed(<<"model_proposals", "model_decision_ledger">>)
ScriptRuntime ==
    <<Create("scheduler_jobs", {Key("scheduler_jobs")} \union Objects(Columns("scheduler_jobs", LeaseColumns)))>>
    \o Keyed(<<"scheduler_job_events", "active_models">>)
    \o Tables(<<"live_signals", "closed_signals", "scanner_runs", "provider_requests">>)
ScriptProvider ==
    <<Create("provider_capability_checks", {Key("provider_capability_checks")}
        \union Objects(Columns("provider_capability_checks", ReviewColumns)))>>
    \o Keyed(<<"ingestion_runs", "quote_snapshots", "data_freshness_reports">>)
    \o Tables(<<"exports">>)
ScriptReplay == <<Create("replay_runs", Objects(Columns("replay_runs", ReplayColumns)))>>
    \o Tables(<<"replay_sensitivity_runs", "replay_sensitivity_scenarios",
                "backtest_comparisons", "simulated_trades">>)
    \o <<Index("candidate_signals", "replay_lookup", {}),
         Index("live_signals", "symbol_ts_status_model", {})>>
ScriptReviews == Keyed(<<"pipeline_build_windows", "daily_reviews">>)

\* Mutant: the last column of revision 0010 was forgotten.
AlterationsForgotten == Columns("replay_runs", ReplayColumns)
    \o Columns("scheduler_jobs", Front(LeaseColumns))
    \o Columns("provider_capability_checks", ReviewColumns)

Alterations == Columns("replay_runs", ReplayColumns) \o Columns("scheduler_jobs", LeaseColumns)
    \o Columns("provider_capability_checks", ReviewColumns)
LateIndexes == <<Index("replay_runs", "config_hash", {"config_hash"}),
    Index("scheduler_jobs", "lease_expires", {"lease_expires_at"}),
    Index("scheduler_jobs", "lease_owner", {"lease_owner"}),
    Index("provider_capability_checks", "review", {"operator_review_status"})>>

Initialize == ScriptMarket \o ScriptModels \o ScriptReview \o ScriptGovernance \o ScriptRuntime
    \o ScriptProvider \o ScriptReplay \o ScriptReviews \o Alterations \o LateIndexes

\* The file an earlier version left: that version's tables, keys and columns.
OldFile(n) == Shape(SchemaAt[n])

Full == SchemaAt[ExpectedRevision]
Made == Objects(Initialize)
Steps == Len(Initialize)
HeadShape == Shape(SchemaAt[ExpectedRevision])
Required == Objects(Metadata)

----------------------------------------------------------------------------
Kinds == {"postgresql", "sqlite"}

ASSUME SettingsAssumption == Settings \subseteq [kind : Kinds, fallback : BOOLEAN] /\ MaxMigrations \in Nat

Down == [at |-> "down", missing |-> FALSE, next |-> 1]

TypeOK ==
    /\ env.kind \in Kinds /\ env.fallback \in BOOLEAN /\ env.migrations \in 0..MaxMigrations
    /\ pg.version \in 0..ExpectedRevision
    /\ pg.schema \subseteq Full \union {Version, Hypertable}
    /\ file \subseteq Made
    /\ proc \in [Procs -> [at : {"down", "tables", "version", "init", "pg", "file"},
                           missing : BOOLEAN, next : 1..(Steps + 1)]]
    /\ failed \subseteq {"migration", "initialize"}

Init ==
    /\ \E s \in Settings : env = [kind |-> s.kind, fallback |-> s.fallback, migrations |-> 0]
    /\ pg = [schema |-> {}, version |-> 0]
    /\ file \in {OldFile(n) : n \in Phases}
    /\ proc = [p \in Procs |-> Down]
    /\ failed = {}

\* alembic upgrade or downgrade: all revisions on the way in one transaction, which a statement
\* that raises rolls back.
Migrate(to) ==
    LET from == pg.version
        schema == IF from <= to THEN Upgrade(pg.schema, from, to) ELSE Downgrade(pg.schema, from, to)
    IN  /\ env.kind = "postgresql" /\ env.migrations < MaxMigrations /\ from # to
        /\ env' = [env EXCEPT !.migrations = @ + 1]
        /\ IF schema = Raised
           THEN failed' = failed \union {"migration"} /\ UNCHANGED pg
           ELSE pg' = [schema |-> schema \union {Version}, version |-> to] /\ UNCHANGED failed
        /\ UNCHANGED <<file, proc>>

\* The first request of a process opens its registry; one that raised is asked for again.
Open(p) ==
    /\ proc[p].at = "down"
    /\ proc' = [proc EXCEPT ![p].at = IF env.kind = "postgresql" THEN "tables" ELSE "init"]
    /\ UNCHANGED <<env, pg, file, failed>>

ReadTables(p) ==
    /\ proc[p].at = "tables"
    /\ proc' = [proc EXCEPT ![p].at = "version",
                            ![p].missing = \E t \in ExpectedTables : Table(t) \notin pg.schema]
    /\ UNCHANGED <<env, pg, file, failed>>

\* Mutant: complete tables are enough.
VerifiedTables(p) == ~proc[p].missing

Verified(p) == ~proc[p].missing /\ pg.version = ExpectedRevision

\* A refusal falls back to SQLite where that is allowed.
Refused(p) == proc' = [proc EXCEPT ![p] = [Down EXCEPT !.at = IF env.fallback THEN "init" ELSE "down"]]

\* The second read, of alembic_version, decides.
ReadVersion(p) ==
    /\ proc[p].at = "version"
    /\ IF Verified(p) THEN proc' = [proc EXCEPT ![p] = [Down EXCEPT !.at = "pg"]] ELSE Refused(p)
    /\ UNCHANGED <<env, pg, file, failed>>

\* PostgreSQL does not answer one of the reads.
Unreachable(p) ==
    /\ proc[p].at \in {"tables", "version"}
    /\ Refused(p)
    /\ UNCHANGED <<env, pg, file, failed>>

\* The next statement of initialize: each commits on its own, and one that finds what it makes
\* (or the column already there) does nothing.
InitializeStep(p) ==
    LET s == Initialize[proc[p].next]
    IN  /\ proc[p].at = "init" /\ proc[p].next <= Steps
        /\ IF s.makes \notin file /\ ~(s.needs \subseteq file)
           THEN /\ failed' = failed \union {"initialize"} /\ UNCHANGED file
                /\ proc' = [proc EXCEPT ![p] = Down]
           ELSE /\ file' = IF s.makes \in file THEN file ELSE file \union {s.makes} \union s.with
                /\ UNCHANGED failed
                /\ proc' = [proc EXCEPT ![p].next = @ + 1]
        /\ UNCHANGED <<env, pg>>

Initialized(p) ==
    /\ proc[p].at = "init" /\ proc[p].next > Steps
    /\ proc' = [proc EXCEPT ![p] = [Down EXCEPT !.at = "file"]]
    /\ UNCHANGED <<env, pg, file, failed>>

\* A process may die at any point; the cached registry dies with it.
Crash(p) ==
    /\ proc[p].at # "down"
    /\ proc' = [proc EXCEPT ![p] = Down]
    /\ UNCHANGED <<env, pg, file, failed>>

Next ==
    \/ \E to \in Targets : Migrate(to)
    \/ \E p \in Procs : Open(p) \/ ReadTables(p) \/ ReadVersion(p) \/ Unreachable(p)
                        \/ InitializeStep(p) \/ Initialized(p) \/ Crash(p)

Spec == Init /\ [][Next]_vars

----------------------------------------------------------------------------
\* Every revision applies to what the ones before it left, upgrading and downgrading, from any
\* version to any other, and the startup script applies to any of these files: no statement
\* raises because its object was made already, so that this stops no migration and no start (a
\* start may still be refused, or a lock time out); and the database holds what its version says (but for the hypertable, which a
\* downgrade leaves), as the static test in test_migrations.py wants of the first revision.
ScriptsApply ==
    /\ failed = {}
    /\ pg.schema \ {Version, Hypertable} = SchemaAt[pg.version] \ {Hypertable}

\* verify_schema reads the tables and the version one after the other while an operator may
\* migrate: a registry is still opened on PostgreSQL only at a moment when the database has
\* every table, key and column of the metadata.
AcceptedIsCurrent ==
    [][\A p \in Procs : proc[p].at # "pg" /\ proc'[p].at = "pg" =>
        Required \subseteq pg.schema]_vars

\* A registry on SQLite has the tables, keys and columns that the migrated PostgreSQL database
\* has, whatever version the file was left at, wherever an earlier start stopped and whatever
\* another process that starts at the same time does.
BackendsAgree ==
    \A p \in Procs : proc[p].at = "file" => Shape(file) = HeadShape
=============================================================================
