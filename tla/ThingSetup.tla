----------------------------- MODULE ThingSetup -----------------------------
(***************************************************************************)
(* worker-thing-setup: setup_thing.py receives configdb_update and runs    *)
(* the handlers database, minio, mqtt, grafana, frost and crontab for the  *)
(* thing, one after the other.  A handler is a list of steps; each step is *)
(* one transaction or one request to a service and may fail, and the       *)
(* process may die at any step.  A handler that raises is noted and the    *)
(* next one runs; the message is acknowledged either way.                  *)
(*                                                                         *)
(* What exists outside of the worker is a set of pairs <<step, owner>>:    *)
(* what the step provides for its owner, the thing or its project (whose   *)
(* database user and schema all things of the project share).              *)
(***************************************************************************)
EXTENDS Integers, Sequences, FiniteSets

CONSTANTS
  Things, Projects,
  ProjectOf,     \* the project of each thing
  HasStorage,    \* things with an s3_store
  HasSync,       \* things with an ext_sftp or an ext_api
  NoThing,
  MaxFaults      \* bound: faults

(***************************************************************************)
(* The handlers in the order of setup_thing.py, and their steps in the     *)
(* order of the code.                                                      *)
(***************************************************************************)
Handlers == <<"database", "minio", "mqtt", "grafana", "frost", "crontab">>

Steps ==
  [database |-> <<"look", "role", "schema", "tables", "data", "sta_role",
                  "grf_role", "row", "frost_views", "sta_grant",
                  "grafana_views", "grf_grant">>,
   minio    |-> <<"s3_user", "s3_policy", "s3_assign", "bucket", "retention",
                  "notification">>,
   mqtt     |-> <<"mqtt_user">>,
   grafana  |-> <<"org", "org_source", "org_folder", "org_access",
                  "org_boards", "main_source", "main_team", "main_folder",
                  "main_access", "main_boards">>,
   frost    |-> <<"context">>,
   crontab  |-> <<"job">>]

HandlerNames == {Handlers[i] : i \in DOMAIN Handlers}
StepsOf(h) == {Steps[h][i] : i \in DOMAIN Steps[h]}
AllSteps == UNION {StepsOf(h) : h \in HandlerNames}

\* Steps whose result belongs to the thing; the others serve its project.
ThingSteps ==
  StepsOf("minio") \cup {"row", "mqtt_user", "org_boards", "main_boards", "job"}

ASSUME SetupAssumption ==
  /\ ProjectOf \in [Things -> Projects]
  /\ HasStorage \subseteq Things /\ HasSync \subseteq Things
  /\ NoThing \notin Things
  /\ MaxFaults \in Nat

VARIABLES
  have,      \* what exists in the database, MinIO, Grafana, Tomcat and cron
  cur,       \* the thing of the message in work, or NoThing
  at,        \* <<handler, step>> in work: numbers in Handlers and Steps
  seen,      \* what "look" saw: user_exists, tables_exist
  failed,    \* the handlers that raised for this message
  faults     \* history: faults so far

vars == <<have, cur, at, seen, failed, faults>>

TypeOK ==
  /\ have \subseteq AllSteps \X (Things \cup Projects)
  /\ cur \in Things \cup {NoThing}
  /\ at[1] \in 1..Len(Handlers) + 1
  /\ at[1] <= Len(Handlers) => at[2] \in 1..Len(Steps[Handlers[at[1]]])
  /\ cur = NoThing => at = <<1, 1>>
  /\ seen \in [user : BOOLEAN, tables : BOOLEAN]
  /\ failed \subseteq HandlerNames
  /\ faults \in 0..MaxFaults
-----------------------------------------------------------------------------
Owner(s, t) == IF s \in ThingSteps THEN t ELSE ProjectOf[t]
Has(s, t) == <<s, Owner(s, t)>> \in have

Working == cur # NoThing /\ at[1] <= Len(Handlers)
Handler == Handlers[at[1]]
Step == Steps[Handler][at[2]]

(***************************************************************************)
(* Steps the code skips for thing t: those it guards with a look, before   *)
(* the first step for the user and the tables, right before the step for   *)
(* the read-only users, the bucket and what Grafana has.  Only a thing     *)
(* with a storage has a bucket; only one with a sync has a job.            *)
(***************************************************************************)
CheckedSteps ==
  {"sta_role", "grf_role", "bucket", "retention", "org", "org_source",
   "org_folder", "main_source", "main_team", "main_folder"}

\* Variant of Skipped: the tables are not looked for.
Skipped_UserOnly(s, t) ==
  \/ s \in {"role", "schema", "tables", "data"} /\ seen.user
  \/ s \in CheckedSteps /\ Has(s, t)
  \/ s \in StepsOf("minio") /\ t \notin HasStorage
  \/ s = "job" /\ t \notin HasSync

\* Variant of Skipped: the tables are always deployed.
Skipped_NoTables(s, t) ==
  \/ s \in {"role", "schema"} /\ seen.user
  \/ s \in CheckedSteps /\ Has(s, t)
  \/ s \in StepsOf("minio") /\ t \notin HasStorage
  \/ s = "job" /\ t \notin HasSync

\* The look at the user and the tables, and the looks of single steps.
Skipped(s, t) ==
  \/ s \in {"role", "schema"} /\ seen.user
  \/ s \in {"tables", "data"} /\ seen.tables
  \/ s \in CheckedSteps /\ Has(s, t)
  \/ s \in StepsOf("minio") /\ t \notin HasStorage
  \/ s = "job" /\ t \notin HasSync

(***************************************************************************)
(* What a step needs to exist; without it the service answers with an      *)
(* error.  CREATE ROLE and CREATE TABLE need that their object does not.   *)
(***************************************************************************)
Needs ==
  [s \in AllSteps |->
     CASE s = "schema" -> {"role"}
       [] s = "tables" -> {"role", "schema"}
       [] s \in {"data", "row", "frost_views", "grafana_views"} -> {"schema", "tables"}
       [] s \in {"sta_role", "grf_role"} -> {"schema"}
       [] s = "sta_grant" -> {"schema", "sta_role"}
       [] s = "grf_grant" -> {"schema", "grf_role", "tables", "frost_views", "grafana_views"}
       [] s = "s3_assign" -> {"s3_user", "s3_policy"}
       [] s \in {"retention", "notification"} -> {"bucket"}
       [] s \in {"org_source", "org_folder"} -> {"org"}
       [] s = "org_access" -> {"org_folder"}
       [] s = "org_boards" -> {"org_folder", "org_source"}
       [] s = "main_access" -> {"main_folder", "main_team"}
       [] s = "main_boards" -> {"main_folder", "main_source"}
       [] OTHER -> {}]

NotTwice == {"role", "tables", "sta_role", "grf_role", "bucket"}

Possible(s, t) ==
  /\ \A n \in Needs[s] : Has(n, t)
  /\ s \in NotTwice => ~Has(s, t)

(***************************************************************************)
(* The views are dropped and created anew, and their privileges go with    *)
(* them.  "look" changes nothing.                                          *)
(***************************************************************************)
Revoked(s) ==
  CASE s = "frost_views" -> {"sta_grant", "grf_grant"}
    [] s = "grafana_views" -> {"grf_grant"}
    [] OTHER -> {}

Provided(s, t) ==
  IF s = "look" THEN have
  ELSE (have \cup {<<s, Owner(s, t)>>}) \ {<<r, Owner(r, t)>> : r \in Revoked(s)}

Advance ==
  IF at[2] < Len(Steps[Handler]) THEN <<at[1], at[2] + 1>> ELSE <<at[1] + 1, 1>>
-----------------------------------------------------------------------------
\* A message for a thing arrives, published for the first time or again.
Receive(t) ==
  /\ cur = NoThing
  /\ cur' = t
  /\ failed' = {}
  /\ UNCHANGED <<have, at, seen, faults>>

(***************************************************************************)
(* A message of publish_all_things arrives.  It names the thing by another *)
(* key than "thing", so that every handler raises at its first line.       *)
(***************************************************************************)
ReceiveRepublished ==
  /\ cur = NoThing
  /\ failed' = HandlerNames
  /\ UNCHANGED <<have, cur, at, seen, faults>>

\* The code does not take the step.
Skip ==
  /\ Working
  /\ Skipped(Step, cur)
  /\ at' = Advance
  /\ UNCHANGED <<have, cur, seen, failed, faults>>

\* The step succeeds; "look" reads what later steps are guarded with.
Do ==
  /\ Working
  /\ ~Skipped(Step, cur)
  /\ Possible(Step, cur)
  /\ have' = Provided(Step, cur)
  /\ seen' = IF Step = "look"
       THEN [user |-> Has("role", cur), tables |-> Has("role", cur) /\ Has("tables", cur)]
       ELSE seen
  /\ at' = Advance
  /\ UNCHANGED <<cur, failed, faults>>

\* Variant of NextHandler: the first handler that raises ends the work.
NextHandler_Stop == <<Len(Handlers) + 1, 1>>

\* The loop over the handlers goes on after an exception.
NextHandler == <<at[1] + 1, 1>>

\* The step cannot be done: the handler raises.
Raise ==
  /\ Working
  /\ ~Skipped(Step, cur)
  /\ ~Possible(Step, cur)
  /\ failed' = failed \cup {Handler}
  /\ at' = NextHandler
  /\ UNCHANGED <<have, cur, seen, faults>>

(***************************************************************************)
(* A service does not answer, or answers too late: the step raises, with   *)
(* or without its effect.                                                  *)
(***************************************************************************)
Strike ==
  /\ Working /\ ~Skipped(Step, cur)
  /\ faults < MaxFaults
  /\ faults' = faults + 1
  /\ \E effect \in BOOLEAN :
       /\ effect => Possible(Step, cur)
       /\ have' = IF effect THEN Provided(Step, cur) ELSE have

Fault ==
  /\ Strike
  /\ failed' = failed \cup {Handler}
  /\ at' = NextHandler
  /\ UNCHANGED <<cur, seen>>

\* The process dies; whether the message comes again is the broker's business.
Crash ==
  /\ Strike
  /\ cur' = NoThing /\ at' = <<1, 1>> /\ failed' = {}
  /\ UNCHANGED seen

\* The summary is logged and the message acknowledged.
Finish ==
  /\ cur # NoThing
  /\ at[1] = Len(Handlers) + 1
  /\ cur' = NoThing /\ at' = <<1, 1>>
  /\ UNCHANGED <<have, seen, failed, faults>>
-----------------------------------------------------------------------------
Init ==
  /\ have = {}
  /\ cur = NoThing /\ at = <<1, 1>>
  /\ seen = [user |-> FALSE, tables |-> FALSE]
  /\ failed = {}
  /\ faults = 0

Work == Skip \/ Do \/ Raise \/ Finish

Next ==
  \/ \E t \in Things : Receive(t)
  \/ ReceiveRepublished
  \/ Work
  \/ Fault
  \/ Crash

Spec == Init /\ [][Next]_vars

(***************************************************************************)
(* The worker goes on with its message, and every thing is saved in the    *)
(* frontend again and again, also while the other one is set up.           *)
(***************************************************************************)
FairSpec == Spec /\ WF_vars(Work) /\ \A t \in Things : SF_vars(Receive(t))
-----------------------------------------------------------------------------
(***************************************************************************)
(* Properties.                                                             *)
(***************************************************************************)
Wanted(h, t) ==
  {s \in StepsOf(h) \ {"look"} :
     /\ h = "minio" => t \in HasStorage
     /\ s = "job" => t \in HasSync}

Ended == cur # NoThing /\ at[1] = Len(Handlers) + 1

\* The faults the code does not recover from: what a fault between two steps
\* leaves for ever undone, and the step that then fails.
NoSchema(t) == Has("role", t) /\ ~Has("schema", t)
NoData(t) == Has("tables", t) /\ ~Has("data", t)

Stranded(h, t) ==
  CASE h = "database" /\ NoSchema(t) -> StepsOf(h)
    [] h = "database" /\ NoData(t) -> {"data"}
    [] OTHER -> {}

(***************************************************************************)
(* A handler that is logged as successful leaves everything of its thing   *)
(* in place, whatever failed or crashed in earlier messages, for this or   *)
(* for another thing of the project: the guards that skip what is there    *)
(* never skip what is missing, but for the first data of tables that are   *)
(* there.                                                                  *)
(***************************************************************************)
SuccessIsProvisioned ==
  Ended => \A h \in HandlerNames \ failed :
             \A s \in Wanted(h, cur) : Has(s, cur) \/ (s = "data" /\ NoData(cur))

(***************************************************************************)
(* Setting a thing up again never fails by itself: CREATE ROLE and CREATE  *)
(* TABLE are not repeated, and what a step builds on is there, also after  *)
(* a failure or a crash in any step.  The one exception are the tables of  *)
(* a user whose schema was not created.                                    *)
(***************************************************************************)
Repeatable ==
  (Working /\ ~Skipped(Step, cur) /\ ~Possible(Step, cur)) =>
     Step = "tables" /\ NoSchema(cur)

(***************************************************************************)
(* Every thing is set up for good eventually, once the faults are over,    *)
(* but for what a fault left stranded in the database.                     *)
(***************************************************************************)
EventuallyProvisioned ==
  \A t \in Things :
    <>[](cur = NoThing =>
           \A h \in HandlerNames :
             \A s \in Wanted(h, t) \ Stranded(h, t) : Has(s, t))
=============================================================================
