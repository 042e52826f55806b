-------------------------------- MODULE Schema --------------------------------
(***************************************************************************)
(* The tables of PingWake as the Alembic revisions 0001 to 0004 build them, *)
(* and as the ORM models of the current release expect them.               *)
(*                                                                         *)
(* A column is what it accepts: whether it may be NULL, its server default, *)
(* the values its CHECK admits (none: any), the width of its VARCHAR (0: no *)
(* limit that matters).  Indexes, types and foreign keys are left out, but *)
(* a statement that creates or drops a table names the ones it refers to.  *)
(* A migration is the sequence of its statements; that a table's indexes   *)
(* are dropped is one of them, since it locks the table.                   *)
(***************************************************************************)
EXTENDS Integers, Sequences, SequencesExt, FiniteSets, TLC

NoDefault == "no default"
Unset == "null"

Optional == [null |-> TRUE, default |-> NoDefault, values |-> {}, width |-> 0]
Required == [Optional EXCEPT !.null = FALSE]
WithDefault(value) == [Required EXCEPT !.default = value]

\* sa.Enum(..., native_enum=False, create_constraint=True) without a length is a
\* VARCHAR as wide as its longest value, with a CHECK.
Enumerated(values) ==
  [Required EXCEPT !.values = values, !.width = Max({Len(v) : v \in values})]

Columns(required, optional, enumerated) ==
  [c \in required \union optional \union DOMAIN enumerated |->
     CASE c \in required -> Required
       [] c \in optional -> Optional
       [] OTHER -> Enumerated(enumerated[c])]

-----------------------------------------------------------------------------
(* The statements of a migration. *)

CreateTable(t, refs, columns) ==
  [do |-> "create", table |-> t, refs |-> refs, columns |-> columns]
DropTable(t, refs) == [do |-> "drop", table |-> t, refs |-> refs]
AddColumn(t, c, column) ==
  [do |-> "add", table |-> t, refs |-> {}, name |-> c, column |-> column]
DropColumn(t, c) == [do |-> "remove", table |-> t, refs |-> {}, name |-> c]
DropIndexes(t) == [do |-> "index", table |-> t, refs |-> {}]
DropDefault(t, c) == [do |-> "undefault", table |-> t, refs |-> {}, name |-> c]

\* drop_constraint and create_check_constraint: the CHECK changes, the VARCHAR stays.
ReplaceCheck(t, c, values) ==
  [do |-> "check", table |-> t, refs |-> {}, name |-> c, values |-> values]

CheckStatuses == {"pending", "healthy", "degraded", "unhealthy", "timeout",
                  "configuration_error"}

-----------------------------------------------------------------------------
(* 20260707_0001 *)

Targets0001 == Columns(
  {"id", "name", "url", "expected_status_code", "interval_minutes", "timeout_seconds",
   "enabled", "next_check_at", "consecutive_failures", "consecutive_successes",
   "created_at", "updated_at"},
  {"description", "project_name", "devbase_project_id", "provider", "last_checked_at"},
  [target_type |-> {"api", "database", "website", "webhook"},
   monitoring_mode |-> {"monitor", "keep_awake", "database_activity"},
   environment |-> {"development", "staging", "production"},
   http_method |-> {"GET", "HEAD"},
   last_status |-> CheckStatuses])

CheckRuns0001 == Columns(
  {"id", "target_id", "started_at", "finished_at", "attempt_number", "trigger_source",
   "created_at"},
  {"http_status_code", "latency_ms", "error_type", "error_message"},
  [status |-> CheckStatuses])

Incidents0001 == Columns(
  {"id", "target_id", "started_at", "first_failure_run_id", "last_failure_run_id",
   "consecutive_failures", "consecutive_successes", "summary", "created_at", "updated_at"},
  {"resolved_at"},
  [status |-> {"open", "acknowledged", "resolved"}])

Upgrade0001 == <<CreateTable("monitoring_targets", {}, Targets0001),
                 CreateTable("check_runs", {"monitoring_targets"}, CheckRuns0001),
                 CreateTable("incidents", {"monitoring_targets"}, Incidents0001)>>

Downgrade0001 == <<DropIndexes("incidents"), DropTable("incidents", {"monitoring_targets"}),
                   DropIndexes("check_runs"), DropTable("check_runs", {"monitoring_targets"}),
                   DropIndexes("monitoring_targets"), DropTable("monitoring_targets", {})>>

(* 20260707_0002 *)

Events0002 == Columns(
  {"id", "incident_id", "target_id", "created_at"},
  {"sent_at", "error_message"},
  [event_type |-> {"incident_opened", "incident_resolved"},
   channel |-> {"discord"},
   status |-> {"sent", "failed"}])

EventParents == {"incidents", "monitoring_targets"}
Upgrade0002 == <<CreateTable("notification_events", EventParents, Events0002)>>
Downgrade0002 == <<DropIndexes("notification_events"),
                   DropTable("notification_events", EventParents)>>

(* 20260708_0003 *)

\* Mutant: a required column without a default for the rows that exist.
Upgrade0003WithoutDefault ==
  LET t == "monitoring_targets"
  IN  <<AddColumn(t, "request_headers_encrypted", Optional),
        AddColumn(t, "request_body_encrypted", Optional),
        AddColumn(t, "has_custom_headers", Required),
        AddColumn(t, "has_request_body", Required),
        ReplaceCheck(t, "http_method", {"GET", "HEAD", "POST"})>>

Upgrade0003 ==
  LET t == "monitoring_targets"
  IN  <<AddColumn(t, "request_headers_encrypted", Optional),
        AddColumn(t, "request_body_encrypted", Optional),
        AddColumn(t, "has_custom_headers", WithDefault("false")),
        AddColumn(t, "has_request_body", WithDefault("false")),
        DropDefault(t, "has_custom_headers"), DropDefault(t, "has_request_body"),
        ReplaceCheck(t, "http_method", {"GET", "HEAD", "POST"})>>

Downgrade0003 ==
  LET t == "monitoring_targets"
  IN  <<ReplaceCheck(t, "http_method", {"GET", "HEAD"}),
        DropColumn(t, "has_request_body"), DropColumn(t, "has_custom_headers"),
        DropColumn(t, "request_body_encrypted"),
        DropColumn(t, "request_headers_encrypted")>>

(* 20260708_0004 *)

SchedulerRuns0004 == Columns(
  {"id", "started_at", "selected_targets", "completed_targets", "healthy_targets",
   "failed_targets", "retried_notifications", "pruned_check_runs",
   "pruned_notifications", "created_at"},
  {"finished_at", "error_message"},
  [status |-> {"running", "completed", "partial", "failed"}])

Policy0004 == <<"degraded_latency_ms", "failure_threshold", "recovery_threshold">>
AddPolicy == [i \in 1..3 |-> AddColumn("monitoring_targets", Policy0004[i], Optional)]

Upgrade0004 ==
  LET t == "notification_events"
  IN  AddPolicy \o
      <<AddColumn(t, "attempt_count", WithDefault("1")),
        AddColumn(t, "max_attempts", WithDefault("4")),
        AddColumn(t, "last_attempt_at", Optional), AddColumn(t, "next_retry_at", Optional),
        ReplaceCheck(t, "status", {"pending", "retrying", "sent", "failed"}),
        DropDefault(t, "attempt_count"), DropDefault(t, "max_attempts"),
        CreateTable("scheduler_runs", {}, SchedulerRuns0004)>>

Downgrade0004 ==
  LET t == "notification_events"
  IN  <<DropIndexes("scheduler_runs"), DropTable("scheduler_runs", {}), DropIndexes(t),
        ReplaceCheck(t, "status", {"sent", "failed"}),
        DropColumn(t, "next_retry_at"), DropColumn(t, "last_attempt_at"),
        DropColumn(t, "max_attempts"), DropColumn(t, "attempt_count")>>
      \o [i \in 1..3 |-> DropColumn("monitoring_targets", Policy0004[4 - i])]

-----------------------------------------------------------------------------
(* The models of the current release. *)

MonitoringTarget == Columns(
  {"id", "name", "url", "expected_status_code", "interval_minutes", "timeout_seconds",
   "enabled", "has_custom_headers", "has_request_body", "next_check_at",
   "consecutive_failures", "consecutive_successes", "created_at", "updated_at"},
  {"description", "project_name", "devbase_project_id", "provider", "degraded_latency_ms",
   "failure_threshold", "recovery_threshold", "request_headers_encrypted",
   "request_body_encrypted", "last_checked_at"},
  [target_type |-> {"api", "database", "website", "webhook"},
   monitoring_mode |-> {"monitor", "keep_awake", "database_activity"},
   environment |-> {"development", "staging", "production"},
   http_method |-> {"GET", "HEAD", "POST"},
   last_status |-> CheckStatuses])

CheckRun == Columns(
  {"id", "target_id", "started_at", "finished_at", "attempt_number", "trigger_source",
   "created_at"},
  {"http_status_code", "latency_ms", "error_type", "error_message"},
  [status |-> CheckStatuses])

Incident == Columns(
  {"id", "target_id", "started_at", "first_failure_run_id", "last_failure_run_id",
   "consecutive_failures", "consecutive_successes", "summary", "created_at", "updated_at"},
  {"resolved_at"},
  [status |-> {"open", "acknowledged", "resolved"}])

NotificationEvent == Columns(
  {"id", "incident_id", "target_id", "attempt_count", "max_attempts", "created_at"},
  {"sent_at", "last_attempt_at", "next_retry_at", "error_message"},
  [event_type |-> {"incident_opened", "incident_resolved"},
   channel |-> {"discord"},
   status |-> {"pending", "retrying", "sent", "failed"}])

SchedulerRun == Columns(
  {"id", "started_at", "selected_targets", "completed_targets", "healthy_targets",
   "failed_targets", "retried_notifications", "pruned_check_runs",
   "pruned_notifications", "created_at"},
  {"finished_at", "error_message"},
  [status |-> {"running", "completed", "partial", "failed"}])

Models == [monitoring_targets |-> MonitoringTarget, check_runs |-> CheckRun,
           incidents |-> Incident, notification_events |-> NotificationEvent,
           scheduler_runs |-> SchedulerRun]
=============================================================================
