-------------------------- MODULE ThingSetup_proofs --------------------------
(***************************************************************************)
(* Proofs about the worker that sets things up: what a handler that does   *)
(* not raise leaves in place, and that a set-up can be repeated.           *)
(***************************************************************************)
EXTENDS ThingSetup, TLAPS

(***************************************************************************)
(* The handlers and their steps, spelled out.                              *)
(***************************************************************************)
LEMMA HandlersTable ==
  /\ Len(Handlers) = 6
  /\ Handlers[1] = "database" /\ Handlers[2] = "minio" /\ Handlers[3] = "mqtt"
  /\ Handlers[4] = "grafana" /\ Handlers[5] = "frost" /\ Handlers[6] = "crontab"
  /\ HandlerNames = {"database", "minio", "mqtt", "grafana", "frost", "crontab"}
<1>1. Len(Handlers) = 6 /\ DOMAIN Handlers = 1..6
  BY DEF Handlers
<1>2. /\ Handlers[1] = "database" /\ Handlers[2] = "minio" /\ Handlers[3] = "mqtt"
      /\ Handlers[4] = "grafana" /\ Handlers[5] = "frost" /\ Handlers[6] = "crontab"
  BY DEF Handlers
<1>3. QED
  BY <1>1, <1>2 DEF HandlerNames

LEMMA StepsTable ==
  /\ Steps["database"] =
       <<"look", "role", "schema", "tables", "data", "sta_role", "grf_role", "row",
         "frost_views", "sta_grant", "grafana_views", "grf_grant">>
  /\ Steps["minio"] =
       <<"s3_user", "s3_policy", "s3_assign", "bucket", "retention", "notification">>
  /\ Steps["mqtt"] = <<"mqtt_user">>
  /\ Steps["grafana"] =
       <<"org", "org_source", "org_folder", "org_access", "org_boards",
         "main_source", "main_team", "main_folder", "main_access", "main_boards">>
  /\ Steps["frost"] = <<"context">>
  /\ Steps["crontab"] = <<"job">>
  BY DEF Steps

LEMMA StepsLengths ==
  /\ Len(Steps["database"]) = 12 /\ Len(Steps["minio"]) = 6
  /\ Len(Steps["mqtt"]) = 1 /\ Len(Steps["grafana"]) = 10
  /\ Len(Steps["frost"]) = 1 /\ Len(Steps["crontab"]) = 1
  BY StepsTable

\* Step j of handler k, and the positions there are.
StepAt(k, j) == Steps[Handlers[k]][j]
Position(k, j) == k \in 1..6 /\ j \in 1..Len(Steps[Handlers[k]])

LEMMA HandlersDiffer ==
  \A i, k \in 1..6 : i # k => Handlers[i] # Handlers[k]
  BY HandlersTable

LEMMA EveryHandlerSteps ==
  ASSUME NEW k \in 1..6
  PROVE  /\ Len(Steps[Handlers[k]]) \in Nat
         /\ 1 \in 1..Len(Steps[Handlers[k]])
<1>1. CASE k = 1
  BY <1>1, HandlersTable, StepsLengths
<1>2. CASE k = 2
  BY <1>2, HandlersTable, StepsLengths
<1>3. CASE k = 3
  BY <1>3, HandlersTable, StepsLengths
<1>4. CASE k = 4
  BY <1>4, HandlersTable, StepsLengths
<1>5. CASE k = 5
  BY <1>5, HandlersTable, StepsLengths
<1>6. CASE k = 6
  BY <1>6, HandlersTable, StepsLengths
<1>7. QED
  BY <1>1, <1>2, <1>3, <1>4, <1>5, <1>6

LEMMA DatabaseSteps ==
  ASSUME NEW j \in 1..12
  PROVE  \/ j = 1 /\ StepAt(1, j) = "look"
         \/ j = 2 /\ StepAt(1, j) = "role"
         \/ j = 3 /\ StepAt(1, j) = "schema"
         \/ j = 4 /\ StepAt(1, j) = "tables"
         \/ j = 5 /\ StepAt(1, j) = "data"
         \/ j = 6 /\ StepAt(1, j) = "sta_role"
         \/ j = 7 /\ StepAt(1, j) = "grf_role"
         \/ j = 8 /\ StepAt(1, j) = "row"
         \/ j = 9 /\ StepAt(1, j) = "frost_views"
         \/ j = 10 /\ StepAt(1, j) = "sta_grant"
         \/ j = 11 /\ StepAt(1, j) = "grafana_views"
         \/ j = 12 /\ StepAt(1, j) = "grf_grant"
<1>1. StepAt(1, j) = Steps["database"][j]
  BY HandlersTable DEF StepAt
<1>2. QED
  BY <1>1, StepsTable

LEMMA MinioSteps ==
  ASSUME NEW j \in 1..6
  PROVE  \/ j = 1 /\ StepAt(2, j) = "s3_user"
         \/ j = 2 /\ StepAt(2, j) = "s3_policy"
         \/ j = 3 /\ StepAt(2, j) = "s3_assign"
         \/ j = 4 /\ StepAt(2, j) = "bucket"
         \/ j = 5 /\ StepAt(2, j) = "retention"
         \/ j = 6 /\ StepAt(2, j) = "notification"
<1>1. StepAt(2, j) = Steps["minio"][j]
  BY HandlersTable DEF StepAt
<1>2. QED
  BY <1>1, StepsTable

LEMMA GrafanaSteps ==
  ASSUME NEW j \in 1..10
  PROVE  \/ j = 1 /\ StepAt(4, j) = "org"
         \/ j = 2 /\ StepAt(4, j) = "org_source"
         \/ j = 3 /\ StepAt(4, j) = "org_folder"
         \/ j = 4 /\ StepAt(4, j) = "org_access"
         \/ j = 5 /\ StepAt(4, j) = "org_boards"
         \/ j = 6 /\ StepAt(4, j) = "main_source"
         \/ j = 7 /\ StepAt(4, j) = "main_team"
         \/ j = 8 /\ StepAt(4, j) = "main_folder"
         \/ j = 9 /\ StepAt(4, j) = "main_access"
         \/ j = 10 /\ StepAt(4, j) = "main_boards"
<1>1. StepAt(4, j) = Steps["grafana"][j]
  BY HandlersTable DEF StepAt
<1>2. QED
  BY <1>1, StepsTable

\* Where each step is, all handlers together.
LEMMA Places ==
  ASSUME NEW k, NEW j, Position(k, j)
  PROVE  \/ k = 1 /\ j \in 1..12
         \/ k = 2 /\ j \in 1..6
         \/ k = 3 /\ j = 1 /\ StepAt(k, j) = "mqtt_user"
         \/ k = 4 /\ j \in 1..10
         \/ k = 5 /\ j = 1 /\ StepAt(k, j) = "context"
         \/ k = 6 /\ j = 1 /\ StepAt(k, j) = "job"
<1>1. k \in 1..6 /\ j \in 1..Len(Steps[Handlers[k]])
  BY DEF Position
<1>2. CASE k \in {1, 2, 4}
  BY <1>1, <1>2, HandlersTable, StepsLengths
<1>3. CASE k \in {3, 5, 6}
  <2>1. Len(Steps[Handlers[k]]) = 1
    BY <1>3, HandlersTable, StepsLengths
  <2>2. j = 1
    BY <1>1, <2>1
  <2>3. QED
    BY <1>3, <2>2, HandlersTable, StepsTable DEF StepAt
<1>4. QED
  BY <1>1, <1>2, <1>3

\* The places of the steps that "look" guards.
LEMMA GuardedPlaces ==
  ASSUME NEW k, NEW j, Position(k, j)
  PROVE  /\ StepAt(k, j) = "look" <=> (k = 1 /\ j = 1)
         /\ StepAt(k, j) = "role" <=> (k = 1 /\ j = 2)
         /\ StepAt(k, j) = "schema" <=> (k = 1 /\ j = 3)
         /\ StepAt(k, j) = "tables" <=> (k = 1 /\ j = 4)
         /\ StepAt(k, j) = "data" <=> (k = 1 /\ j = 5)
<1>1. CASE k = 1
  BY <1>1, Places, DatabaseSteps
<1>2. CASE k = 2
  BY <1>2, Places, MinioSteps
<1>3. CASE k = 4
  BY <1>3, Places, GrafanaSteps
<1>4. CASE k \in {3, 5, 6}
  BY <1>4, Places
<1>5. QED
  BY <1>1, <1>2, <1>3, <1>4, Places

\* The sets of steps the definitions name.
LEMMA StepSets ==
  /\ StepsOf("minio") =
       {"s3_user", "s3_policy", "s3_assign", "bucket", "retention", "notification"}
  /\ ThingSteps = {"s3_user", "s3_policy", "s3_assign", "bucket", "retention",
                   "notification", "row", "mqtt_user", "org_boards", "main_boards", "job"}
<1>1. DOMAIN Steps["minio"] = 1..6
  BY StepsTable
<1>2. StepsOf("minio") =
       {"s3_user", "s3_policy", "s3_assign", "bucket", "retention", "notification"}
  <2>1. \A i \in 1..6 : Steps["minio"][i] = StepAt(2, i)
    BY HandlersTable DEF StepAt
  <2>2. /\ StepAt(2, 1) = "s3_user" /\ StepAt(2, 2) = "s3_policy"
        /\ StepAt(2, 3) = "s3_assign" /\ StepAt(2, 4) = "bucket"
        /\ StepAt(2, 5) = "retention" /\ StepAt(2, 6) = "notification"
    BY MinioSteps
  <2>3. StepsOf("minio") = {StepAt(2, i) : i \in 1..6}
    BY <1>1, <2>1 DEF StepsOf
  <2>4. \A i \in 1..6 : i \in {1, 2, 3, 4, 5, 6}
    OBVIOUS
  <2>5. QED
    BY <2>2, <2>3, <2>4
<1>3. QED
  BY <1>2 DEF ThingSteps

LEMMA StepIsStep ==
  ASSUME NEW k, NEW j, Position(k, j)
  PROVE  /\ Handlers[k] \in HandlerNames
         /\ StepAt(k, j) \in StepsOf(Handlers[k])
         /\ StepAt(k, j) \in AllSteps
<1>1. k \in 1..6 /\ j \in 1..Len(Steps[Handlers[k]])
  BY DEF Position
<1>2. Handlers[k] \in HandlerNames
  BY <1>1, HandlersTable
<1>3. DOMAIN Steps[Handlers[k]] = 1..Len(Steps[Handlers[k]])
  BY <1>1, HandlersTable, StepsTable
<1>4. StepAt(k, j) \in StepsOf(Handlers[k])
  BY <1>1, <1>3 DEF StepAt, StepsOf
<1>5. QED
  BY <1>2, <1>4 DEF AllSteps

\* Every step of a handler has a place in it.
LEMMA PlaceOfStep ==
  ASSUME NEW k \in 1..6, NEW s \in StepsOf(Handlers[k])
  PROVE  \E j : Position(k, j) /\ StepAt(k, j) = s
<1>1. DOMAIN Steps[Handlers[k]] = 1..Len(Steps[Handlers[k]])
  BY HandlersTable, StepsTable
<1>2. QED
  BY <1>1 DEF StepsOf, StepAt, Position

\* The views are created anew before the privileges on them are granted.
LEMMA RevokedIsLater ==
  ASSUME NEW k, NEW j, Position(k, j), NEW i, NEW l, Position(i, l),
         i < k \/ (i = k /\ l < j)
  PROVE  StepAt(i, l) \notin Revoked(StepAt(k, j))
<1>1. CASE StepAt(k, j) = "frost_views"
  <2>1. k = 1 /\ j = 9
    BY <1>1, Places, DatabaseSteps, MinioSteps, GrafanaSteps
  <2>2. i = 1 /\ l \in 1..8
    BY <2>1, Places
  <2>3. StepAt(i, l) \notin {"sta_grant", "grf_grant"}
    BY <2>2, DatabaseSteps
  <2>4. QED
    BY <1>1, <2>3 DEF Revoked
<1>2. CASE StepAt(k, j) = "grafana_views"
  <2>1. k = 1 /\ j = 11
    BY <1>2, Places, DatabaseSteps, MinioSteps, GrafanaSteps
  <2>2. i = 1 /\ l \in 1..10
    BY <2>1, Places
  <2>3. StepAt(i, l) # "grf_grant"
    BY <2>2, DatabaseSteps
  <2>4. QED
    BY <1>2, <2>3 DEF Revoked
<1>3. CASE StepAt(k, j) # "frost_views" /\ StepAt(k, j) # "grafana_views"
  BY <1>3 DEF Revoked
<1>4. QED
  BY <1>1, <1>2, <1>3


\* What the code of a step builds on, step by step.
LEMMA NeedsTable ==
  ASSUME NEW s \in AllSteps
  PROVE  /\ s = "schema" => Needs[s] = {"role"}
         /\ s = "tables" => Needs[s] = {"role", "schema"}
         /\ s \in {"data", "row", "frost_views", "grafana_views"} =>
              Needs[s] = {"schema", "tables"}
         /\ s \in {"sta_role", "grf_role"} => Needs[s] = {"schema"}
         /\ s = "sta_grant" => Needs[s] = {"schema", "sta_role"}
         /\ s = "grf_grant" =>
              Needs[s] = {"schema", "grf_role", "tables", "frost_views", "grafana_views"}
         /\ s = "s3_assign" => Needs[s] = {"s3_user", "s3_policy"}
         /\ s \in {"retention", "notification"} => Needs[s] = {"bucket"}
         /\ s \in {"org_source", "org_folder"} => Needs[s] = {"org"}
         /\ s = "org_access" => Needs[s] = {"org_folder"}
         /\ s = "org_boards" => Needs[s] = {"org_folder", "org_source"}
         /\ s = "main_access" => Needs[s] = {"main_folder", "main_team"}
         /\ s = "main_boards" => Needs[s] = {"main_folder", "main_source"}
         /\ s \in {"look", "role", "s3_user", "s3_policy", "bucket", "mqtt_user", "org",
                   "main_source", "main_team", "main_folder", "context", "job"} =>
              Needs[s] = {}
  BY DEF Needs

LEMMA DatabaseNeeds ==
  ASSUME NEW j \in 1..12, NEW n \in Needs[StepAt(1, j)]
  PROVE  /\ \E l \in 1..12 : l < j /\ StepAt(1, l) = n
         /\ n \notin {"look", "data", "job"}
         /\ (n = "schema" /\ j <= 4) => StepAt(1, j) = "tables"
<1>1. /\ StepAt(1, 2) = "role" /\ StepAt(1, 3) = "schema" /\ StepAt(1, 4) = "tables"
      /\ StepAt(1, 6) = "sta_role" /\ StepAt(1, 7) = "grf_role"
      /\ StepAt(1, 9) = "frost_views" /\ StepAt(1, 11) = "grafana_views"
  BY DatabaseSteps
<1>2. StepAt(1, j) \in AllSteps
  <2>1. Position(1, j)
    BY HandlersTable, StepsLengths DEF Position
  <2>2. QED
    BY <2>1, StepIsStep
<1>3. CASE j \in {1, 2, 3, 4}
  BY <1>1, <1>2, <1>3, NeedsTable, DatabaseSteps
<1>4. CASE j \in {5, 6, 7, 8}
  BY <1>1, <1>2, <1>4, NeedsTable, DatabaseSteps
<1>5. CASE j \in {9, 10, 11}
  BY <1>1, <1>2, <1>5, NeedsTable, DatabaseSteps
<1>6. CASE j = 12
  BY <1>1, <1>2, <1>6, NeedsTable, DatabaseSteps
<1>7. QED
  BY <1>3, <1>4, <1>5, <1>6

LEMMA MinioNeeds ==
  ASSUME NEW j \in 1..6, NEW n \in Needs[StepAt(2, j)]
  PROVE  /\ \E l \in 1..6 : l < j /\ StepAt(2, l) = n
         /\ n \notin {"look", "data", "job", "schema"}
<1>1. /\ StepAt(2, 1) = "s3_user" /\ StepAt(2, 2) = "s3_policy" /\ StepAt(2, 4) = "bucket"
  BY MinioSteps
<1>2. StepAt(2, j) \in AllSteps
  <2>1. Position(2, j)
    BY HandlersTable, StepsLengths DEF Position
  <2>2. QED
    BY <2>1, StepIsStep
<1>3. QED
  BY <1>1, <1>2, NeedsTable, MinioSteps

LEMMA GrafanaNeeds ==
  ASSUME NEW j \in 1..10, NEW n \in Needs[StepAt(4, j)]
  PROVE  /\ \E l \in 1..10 : l < j /\ StepAt(4, l) = n
         /\ n \notin {"look", "data", "job", "schema"}
<1>1. /\ StepAt(4, 1) = "org" /\ StepAt(4, 2) = "org_source" /\ StepAt(4, 3) = "org_folder"
      /\ StepAt(4, 6) = "main_source" /\ StepAt(4, 7) = "main_team"
      /\ StepAt(4, 8) = "main_folder"
  BY GrafanaSteps
<1>2. StepAt(4, j) \in AllSteps
  <2>1. Position(4, j)
    BY HandlersTable, StepsLengths DEF Position
  <2>2. QED
    BY <2>1, StepIsStep
<1>3. CASE j \in {1, 2, 3, 4, 5}
  BY <1>1, <1>2, <1>3, NeedsTable, GrafanaSteps
<1>4. CASE j \in {6, 7, 8, 9, 10}
  BY <1>1, <1>2, <1>4, NeedsTable, GrafanaSteps
<1>5. QED
  BY <1>3, <1>4

(***************************************************************************)
(* What a step needs is provided by earlier steps of its handler, among    *)
(* which only the first data are never needed.                             *)
(***************************************************************************)
LEMMA NeedsAreEarlier ==
  ASSUME NEW k, NEW j, Position(k, j), NEW n \in Needs[StepAt(k, j)]
  PROVE  /\ \E l : Position(k, l) /\ l < j /\ StepAt(k, l) = n
         /\ n \notin {"look", "data", "job"}
         /\ n = "schema" => k = 1 /\ (j <= 4 => StepAt(k, j) = "tables")
<1>1. StepAt(k, j) \in AllSteps
  BY StepIsStep
<1>2. CASE k = 1
  <2>1. j \in 1..12 /\ \A l : Position(1, l) <=> l \in 1..12
    BY <1>2, Places, HandlersTable, StepsLengths DEF Position
  <2>2. QED
    BY <1>2, <2>1, DatabaseNeeds
<1>3. CASE k = 2
  <2>1. j \in 1..6 /\ \A l : Position(2, l) <=> l \in 1..6
    BY <1>3, Places, HandlersTable, StepsLengths DEF Position
  <2>2. QED
    BY <1>3, <2>1, MinioNeeds
<1>4. CASE k = 4
  <2>1. j \in 1..10 /\ \A l : Position(4, l) <=> l \in 1..10
    BY <1>4, Places, HandlersTable, StepsLengths DEF Position
  <2>2. QED
    BY <1>4, <2>1, GrafanaNeeds
<1>5. CASE k \in {3, 5, 6}
  <2>1. StepAt(k, j) \in {"mqtt_user", "context", "job"}
    BY <1>5, Places
  <2>2. QED
    BY <1>1, <2>1, NeedsTable
<1>6. k \in 1..6
  BY DEF Position
<1>7. QED
  BY <1>2, <1>3, <1>4, <1>5, <1>6

(***************************************************************************)
(* The invariant.  The tables of a project imply its user and its schema.  *)
(***************************************************************************)
TablesInv ==
  \A t \in Things : Has("tables", t) => Has("role", t) /\ Has("schema", t)

\* What "look" saw is still so when the steps it guards are reached.
SeenInv ==
  (cur # NoThing /\ at[1] = 1 /\ at[2] > 1) =>
    /\ seen.user => Has("role", cur)
    /\ seen.tables => Has("tables", cur)
    /\ at[2] = 2 => (Has("role", cur) => seen.user)
    /\ at[2] <= 4 => (Has("tables", cur) => seen.tables)

\* A handler is not noted as failed before its turn.
TurnInv == cur # NoThing => \A k \in 1..6 : k >= at[1] => Handlers[k] \notin failed

Passed(k, j) == k < at[1] \/ (k = at[1] /\ j < at[2])

(***************************************************************************)
(* What is left of a step that a handler has passed: it is provided, or it *)
(* is the first data of old tables, or the schema of an old user before    *)
(* the tables of that user are tried.                                      *)
(***************************************************************************)
Held(s) ==
  \/ Has(s, cur)
  \/ s = "data" /\ NoData(cur)
  \/ s = "schema" /\ NoSchema(cur) /\ at[1] = 1 /\ at[2] <= 4

PassedInv ==
  cur # NoThing =>
    \A k, j : (Position(k, j) /\ Passed(k, j) /\ Handlers[k] \notin failed /\
               StepAt(k, j) \in Wanted(Handlers[k], cur))
                => Held(StepAt(k, j))

SetupInv ==
  /\ TypeOK
  /\ TablesInv
  /\ SeenInv
  /\ TurnInv
  /\ PassedInv

\* What a step of the worker may do to what exists.
Effect == have' = have \/ (Possible(Step, cur) /\ have' = Provided(Step, cur))

LEMMA AtWork ==
  ASSUME SetupInv, Working
  PROVE  /\ cur \in Things
         /\ at[1] \in 1..6 /\ at[2] \in Nat /\ Position(at[1], at[2])
         /\ Handler = Handlers[at[1]] /\ Step = StepAt(at[1], at[2])
         /\ Handler \notin failed
<1>1. /\ cur \in Things /\ at[1] \in 1..7
      /\ at[1] <= 6 => at[2] \in 1..Len(Steps[Handlers[at[1]]])
      /\ at[1] <= 6 /\ cur # NoThing
  BY HandlersTable DEF SetupInv, TypeOK, Working
<1>2. at[1] \in 1..6 /\ at[2] \in 1..Len(Steps[Handlers[at[1]]])
  BY <1>1
<1>3. at[2] \in Nat
  BY <1>2, HandlersTable, StepsLengths
<1>4. Handler = Handlers[at[1]] /\ Step = StepAt(at[1], at[2])
  BY DEF Handler, Step, StepAt
<1>5. Handler \notin failed
  BY <1>1, <1>2, <1>4 DEF SetupInv, TurnInv
<1>6. QED
  BY <1>1, <1>2, <1>3, <1>4, <1>5 DEF Position

LEMMA OwnerIs ==
  ASSUME NEW s, NEW t \in Things
  PROVE  Owner(s, t) \in Things \cup Projects
  BY SetupAssumption DEF Owner

\* A step adds itself and revokes at most the two grants.
LEMMA ProvidedIs ==
  ASSUME NEW s, NEW t \in Things
  PROVE  /\ s # "look" => <<s, Owner(s, t)>> \in Provided(s, t)
         /\ \A n, u : (<<n, Owner(n, u)>> \in have /\ n \notin Revoked(s))
                        => <<n, Owner(n, u)>> \in Provided(s, t)
         /\ \A x \in Provided(s, t) : x \in have \/ x = <<s, Owner(s, t)>>
         /\ Revoked(s) \subseteq {"sta_grant", "grf_grant"}
         /\ s = "look" => Provided(s, t) = have
<1>1. Revoked(s) \subseteq {"sta_grant", "grf_grant"} /\ s \notin Revoked(s)
  BY DEF Revoked
<1>2. QED
  BY <1>1 DEF Provided

LEMMA EffectKeeps ==
  ASSUME SetupInv, Working, Effect
  PROVE  /\ have' \subseteq AllSteps \X (Things \cup Projects)
         /\ TablesInv'
         /\ \A n, u : (Has(n, u) /\ n \notin Revoked(Step)) => Has(n, u)'
         /\ \A u : /\ Has("role", u) => Has("role", u)'
                   /\ Has("schema", u) => Has("schema", u)'
                   /\ Has("tables", u) => Has("tables", u)'
         /\ \A n, u : (Has(n, u)' /\ n # Step) => Has(n, u)
<1>1. cur \in Things /\ Step \in AllSteps
  BY AtWork, StepIsStep
<1>2. Owner(Step, cur) \in Things \cup Projects
  BY <1>1, OwnerIs
<1>3. /\ \A n, u : (Has(n, u) /\ n \notin Revoked(Step)) => Has(n, u)'
      /\ \A x \in have' : x \in have \/ x = <<Step, Owner(Step, cur)>>
      /\ Revoked(Step) \subseteq {"sta_grant", "grf_grant"}
  BY <1>1, ProvidedIs DEF Effect, Has
<1>4. have' \subseteq AllSteps \X (Things \cup Projects)
  BY <1>1, <1>2, <1>3 DEF SetupInv, TypeOK
<1>5. \A u : /\ Has("role", u) => Has("role", u)'
             /\ Has("schema", u) => Has("schema", u)'
             /\ Has("tables", u) => Has("tables", u)'
  BY <1>3
<1>6. \A n, u : (Has(n, u)' /\ n # Step) => Has(n, u)
  BY <1>3 DEF Has
<1>7. TablesInv'
  <2>1. SUFFICES ASSUME NEW t \in Things, Has("tables", t)'
                 PROVE  Has("role", t)' /\ Has("schema", t)'
    BY DEF TablesInv
  <2>2. CASE Has("tables", t)
    BY <1>5, <2>2 DEF SetupInv, TablesInv
  <2>3. CASE ~Has("tables", t)
    <3>1. Step = "tables" /\ <<"tables", Owner("tables", t)>> = <<Step, Owner(Step, cur)>>
      BY <1>3, <2>1, <2>3 DEF Has
    <3>2. Possible("tables", cur)
      BY <2>1, <2>3, <3>1 DEF Effect, Has
    <3>3. Has("role", cur) /\ Has("schema", cur)
      BY <1>1, <3>1, <3>2, NeedsTable DEF Possible
    <3>4. ProjectOf[t] = ProjectOf[cur]
      BY <3>1, StepSets DEF Owner
    <3>5. Has("role", t) /\ Has("schema", t)
      BY <3>3, <3>4, StepSets DEF Has, Owner
    <3>6. QED
      BY <1>5, <3>5
  <2>4. QED
    BY <2>2, <2>3
<1>8. QED
  BY <1>3, <1>4, <1>5, <1>6, <1>7

\* What a passed step has left stays, but for the place that excuses the schema.
LEMMA HeldStays ==
  ASSUME SetupInv, Working, Effect, NEW k, NEW j, Position(k, j), Passed(k, j),
         Handlers[k] \notin failed, StepAt(k, j) \in Wanted(Handlers[k], cur)
  PROVE  \/ <<StepAt(k, j), Owner(StepAt(k, j), cur)>> \in have'
         \/ /\ StepAt(k, j) = "data"
            /\ <<"tables", Owner("tables", cur)>> \in have'
            /\ <<"data", Owner("data", cur)>> \notin have'
         \/ /\ StepAt(k, j) = "schema" /\ at[1] = 1 /\ at[2] <= 4
            /\ <<"role", Owner("role", cur)>> \in have'
            /\ <<"schema", Owner("schema", cur)>> \notin have'
<1> DEFINE s == StepAt(k, j)
<1>1. Held(s)
  BY DEF SetupInv, PassedInv, Working
<1>2. s \notin Revoked(Step)
  BY AtWork, RevokedIsLater DEF Passed
<1>3. CASE Has(s, cur)
  BY <1>2, <1>3, EffectKeeps DEF Has
<1>4. CASE s = "data" /\ NoData(cur)
  BY <1>4, EffectKeeps DEF Has, NoData
<1>5. CASE s = "schema" /\ NoSchema(cur) /\ at[1] = 1 /\ at[2] <= 4
  BY <1>5, EffectKeeps DEF Has, NoSchema
<1>6. QED
  BY <1>1, <1>3, <1>4, <1>5 DEF Held

\* The next handler starts after one has raised.
LEMMA AfterRaise ==
  ASSUME SetupInv, Working, Effect, at' = NextHandler,
         failed' = failed \cup {Handler}, cur' = cur, seen' = seen,
         faults' \in 0..MaxFaults
  PROVE  SetupInv'
<1>1. /\ cur \in Things /\ cur # NoThing /\ at[1] \in 1..6 /\ at[2] \in Nat
      /\ Handler = Handlers[at[1]] /\ Handler \in HandlerNames
      /\ at'[1] = at[1] + 1 /\ at'[2] = 1
  BY AtWork, StepIsStep DEF Working, NextHandler
<1>2. TypeOK'
  <2>1. at'[1] \in 1..Len(Handlers) + 1
    BY <1>1, HandlersTable
  <2>2. at'[1] <= Len(Handlers) => at'[2] \in 1..Len(Steps[Handlers[at'[1]]])
    <3>1. CASE at'[1] = 7
      BY <3>1, HandlersTable
    <3>2. CASE at'[1] \in 2..6
      <4>1. 1 \in 1..Len(Steps[Handlers[at'[1]]])
        BY <3>2, EveryHandlerSteps
      <4>2. QED
        BY <1>1, <4>1
    <3>3. QED
      BY <1>1, <3>1, <3>2
  <2>3. have' \subseteq AllSteps \X (Things \cup Projects)
    BY EffectKeeps
  <2>4. QED
    BY <1>1, <2>1, <2>2, <2>3 DEF SetupInv, TypeOK
<1>3. TablesInv'
  BY EffectKeeps
<1>4. SeenInv'
  BY <1>1 DEF SeenInv
<1>5. TurnInv'
  BY <1>1, HandlersDiffer DEF SetupInv, TurnInv
<1>6. PassedInv'
  <2>1. SUFFICES ASSUME NEW k, NEW j, Position(k, j), Passed(k, j)',
                        Handlers[k] \notin failed',
                        StepAt(k, j) \in Wanted(Handlers[k], cur)
                 PROVE  Held(StepAt(k, j))'
    BY DEF PassedInv, Position, StepAt, Wanted
  <2>2. Handlers[k] \notin failed /\ k # at[1] /\ k \in 1..6
    BY <1>1, <2>1 DEF Position
  <2>3. k < at[1]
    <3>1. j \in Nat /\ j >= 1
      BY <2>1, <2>2, EveryHandlerSteps DEF Position
    <3>2. QED
      BY <1>1, <2>1, <2>2, <3>1 DEF Passed
  <2>4. Passed(k, j) /\ at[1] # 1
    BY <1>1, <2>2, <2>3 DEF Passed
  <2>5. QED
    BY <2>1, <2>2, <2>4, HeldStays DEF Held, Has, NoData
<1>7. QED
  BY <1>2, <1>3, <1>4, <1>5, <1>6 DEF SetupInv

\* The next step follows one that is done or skipped.
LEMMA AfterStep ==
  ASSUME SetupInv, Working, Effect, at' = Advance, UNCHANGED <<failed, cur, faults>>,
         seen' \in [user : BOOLEAN, tables : BOOLEAN], SeenInv',
         Step \in Wanted(Handler, cur) =>
           \/ <<Step, Owner(Step, cur)>> \in have'
           \/ /\ Step = "data"
              /\ <<"tables", Owner("tables", cur)>> \in have'
              /\ <<"data", Owner("data", cur)>> \notin have'
           \/ /\ Step = "schema"
              /\ <<"role", Owner("role", cur)>> \in have'
              /\ <<"schema", Owner("schema", cur)>> \notin have',
         Step = "tables" => <<"tables", Owner("tables", cur)>> \in have'
  PROVE  SetupInv'
<1>1. /\ cur \in Things /\ cur # NoThing /\ at[1] \in 1..6 /\ at[2] \in Nat
      /\ Handler = Handlers[at[1]] /\ Step = StepAt(at[1], at[2])
      /\ Position(at[1], at[2])
  BY AtWork DEF Working
<1> DEFINE n == Len(Steps[Handler])
<1>2. n \in Nat /\ n >= 1 /\ at[2] \in 1..n /\ (at[1] = 1 => n = 12)
  BY <1>1, HandlersTable, StepsLengths DEF Position
<1>3. \/ at[2] < n /\ at'[1] = at[1] /\ at'[2] = at[2] + 1
      \/ at[2] = n /\ at'[1] = at[1] + 1 /\ at'[2] = 1
  BY <1>2 DEF Advance
<1> HIDE DEF n
<1>4. TypeOK'
  <2>1. at'[1] \in 1..Len(Handlers) + 1
    BY <1>1, <1>3, HandlersTable
  <2>2. at'[1] <= Len(Handlers) => at'[2] \in 1..Len(Steps[Handlers[at'[1]]])
    <3>1. CASE at[2] < n
      BY <1>1, <1>2, <1>3, <3>1 DEF n
    <3>2. CASE at[2] = n /\ at[1] = 6
      BY <1>2, <1>3, <3>2, HandlersTable
    <3>3. CASE at[2] = n /\ at[1] \in 1..5
      <4>1. at'[1] \in 2..6 /\ at'[2] = 1
        BY <1>2, <1>3, <3>3
      <4>2. QED
        BY <4>1, EveryHandlerSteps
    <3>4. QED
      BY <1>1, <1>2, <3>1, <3>2, <3>3
  <2>3. have' \subseteq AllSteps \X (Things \cup Projects)
    BY EffectKeeps
  <2>4. QED
    BY <1>1, <2>1, <2>2, <2>3 DEF SetupInv, TypeOK
<1>5. TablesInv'
  BY EffectKeeps
<1>6. TurnInv'
  BY <1>1, <1>3 DEF SetupInv, TurnInv
<1>7. PassedInv'
  <2>1. SUFFICES ASSUME NEW k, NEW j, Position(k, j), Passed(k, j)',
                        Handlers[k] \notin failed',
                        StepAt(k, j) \in Wanted(Handlers[k], cur)
                 PROVE  Held(StepAt(k, j))'
    BY DEF PassedInv, Position, StepAt, Wanted
  <2>2. Handlers[k] \notin failed
    BY <2>1
  <2>3. Passed(k, j) \/ (k = at[1] /\ j = at[2])
    <3>1. k \in 1..6 /\ j \in Nat /\ j >= 1 /\ j <= Len(Steps[Handlers[k]])
      BY <2>1, EveryHandlerSteps DEF Position
    <3>2. k < at'[1] \/ (k = at'[1] /\ j < at'[2])
      BY <2>1 DEF Passed
    <3>3. k = at[1] => j <= n
      BY <1>1, <3>1 DEF n
    <3>4. k < at[1] \/ (k = at[1] /\ j < at[2]) \/ (k = at[1] /\ j = at[2])
      BY <1>1, <1>2, <1>3, <3>1, <3>2, <3>3
    <3>5. QED
      BY <3>4 DEF Passed
  <2>4. CASE Passed(k, j)
    <3>1. CASE at[1] = 1 /\ at[2] <= 3
      <4>1. at'[1] = 1 /\ at'[2] <= 4
        BY <1>1, <1>2, <1>3, <3>1
      <4>2. QED
        BY <2>1, <2>2, <2>4, <4>1, HeldStays DEF Held, Has, NoData, NoSchema
    <3>2. CASE at[1] = 1 /\ at[2] = 4
      <4>1. Step = "tables"
        BY <1>1, <3>2, DatabaseSteps
      <4>2. <<"schema", Owner("schema", cur)>> \in have'
        BY <1>1, <1>5, <4>1 DEF TablesInv, Has
      <4>3. QED
        BY <2>1, <2>2, <2>4, <4>2, HeldStays DEF Held, Has, NoData
    <3>3. CASE ~(at[1] = 1 /\ at[2] <= 4)
      BY <2>1, <2>2, <2>4, <3>3, HeldStays DEF Held, Has, NoData
    <3>4. QED
      BY <1>1, <3>1, <3>2, <3>3
  <2>5. CASE k = at[1] /\ j = at[2]
    <3>1. StepAt(k, j) = Step /\ Step \in Wanted(Handler, cur)
      BY <1>1, <2>1, <2>5
    <3>2. ASSUME Step = "schema" PROVE at[1] = 1 /\ at[2] = 3
      <4>1. Position(at[1], at[2]) /\ StepAt(at[1], at[2]) = "schema"
        BY <1>1, <3>2
      <4>2. QED
        BY <4>1, GuardedPlaces
    <3>3. Step = "schema" => at'[1] = 1 /\ at'[2] <= 4
      BY <1>2, <1>3, <3>2
    <3>4. QED
      BY <2>5, <3>1, <3>3 DEF Held, Has, NoData, NoSchema
  <2>6. QED
    BY <2>3, <2>4, <2>5
<1>8. QED
  BY <1>4, <1>5, <1>6, <1>7 DEF SetupInv

\* Which steps are skipped without being provided, and which need not be.
LEMMA SkipIsSafe ==
  ASSUME SetupInv, Working, Skipped(Step, cur)
  PROVE  /\ Step \in Wanted(Handler, cur) =>
              \/ Has(Step, cur)
              \/ Step = "data" /\ NoData(cur)
              \/ Step = "schema" /\ NoSchema(cur)
         /\ Step = "tables" => Has("tables", cur)
         /\ Step # "look"
<1>1. /\ at[1] \in 1..6 /\ at[2] \in Nat /\ Position(at[1], at[2]) /\ cur # NoThing
      /\ Handler = Handlers[at[1]] /\ Step = StepAt(at[1], at[2])
  BY AtWork DEF Working
<1>2. CASE Step \in {"role", "schema"} /\ seen.user
  <2>1. at[1] = 1 /\ at[2] \in {2, 3}
    BY <1>1, <1>2, GuardedPlaces
  <2>2. Has("role", cur)
    BY <1>1, <1>2, <2>1 DEF SetupInv, SeenInv
  <2>3. QED
    BY <1>2, <2>2 DEF NoSchema
<1>3. CASE Step \in {"tables", "data"} /\ seen.tables
  <2>1. at[1] = 1 /\ at[2] \in {4, 5}
    BY <1>1, <1>3, GuardedPlaces
  <2>2. Has("tables", cur)
    BY <1>1, <1>3, <2>1 DEF SetupInv, SeenInv
  <2>3. QED
    BY <1>3, <2>2 DEF NoData
<1>4. CASE Step \in CheckedSteps /\ Has(Step, cur)
  BY <1>4 DEF CheckedSteps
<1>5. CASE Step \in StepsOf("minio") /\ cur \notin HasStorage
  <2>1. at[1] = 2
    BY <1>1, <1>5, StepSets, Places, DatabaseSteps, GrafanaSteps
  <2>2. Handler = "minio"
    BY <1>1, <2>1, HandlersTable
  <2>3. QED
    BY <1>5, <2>2, StepSets DEF Wanted
<1>6. CASE Step = "job" /\ cur \notin HasSync
  BY <1>6 DEF Wanted
<1>7. QED
  BY <1>2, <1>3, <1>4, <1>5, <1>6 DEF Skipped

LEMMA SkipInv == SetupInv /\ Skip => SetupInv'
<1>. SUFFICES ASSUME SetupInv, Skip PROVE SetupInv'
  OBVIOUS
<1>1. /\ Working /\ Skipped(Step, cur) /\ at' = Advance /\ have' = have /\ seen' = seen
      /\ UNCHANGED <<failed, cur, faults>>
  BY DEF Skip
<1>2. Effect
  BY <1>1 DEF Effect
<1>3. at[1] \in 1..6 /\ at[2] \in Nat /\ Position(at[1], at[2])
      /\ Step = StepAt(at[1], at[2]) /\ cur # NoThing
  BY <1>1, AtWork DEF Working
<1>4. SeenInv'
  <2>1. CASE at'[1] = 1
    <3>1. at[1] = 1 /\ at'[2] = at[2] + 1
      BY <1>1, <1>3, <2>1 DEF Advance
    <3>2. at[2] # 1 /\ at[2] >= 1
      <4>1. Step # "look"
        BY <1>1, SkipIsSafe
      <4>2. at[2] # 1
        BY <1>3, <3>1, <4>1, GuardedPlaces
      <4>3. at[2] \in 1..12
        BY <1>3, <3>1, Places
      <4>4. QED
        BY <4>2, <4>3
    <3>3. QED
      BY <1>1, <1>3, <3>1, <3>2 DEF SetupInv, SeenInv, Has
  <2>2. QED
    BY <2>1 DEF SeenInv
<1>5. seen' \in [user : BOOLEAN, tables : BOOLEAN]
  BY <1>1 DEF SetupInv, TypeOK
<1>6. /\ Step \in Wanted(Handler, cur) =>
           \/ Has(Step, cur)
           \/ Step = "data" /\ NoData(cur)
           \/ Step = "schema" /\ NoSchema(cur)
      /\ Step = "tables" => Has("tables", cur)
  BY <1>1, SkipIsSafe
<1>7. QED
  BY <1>1, <1>2, <1>4, <1>5, <1>6, AfterStep DEF Has, NoData, NoSchema

LEMMA DoInv == SetupInv /\ Do => SetupInv'
<1>. SUFFICES ASSUME SetupInv, Do PROVE SetupInv'
  OBVIOUS
<1>1. /\ Working /\ Possible(Step, cur) /\ at' = Advance /\ have' = Provided(Step, cur)
      /\ seen' = IF Step = "look"
           THEN [user |-> Has("role", cur), tables |-> Has("role", cur) /\ Has("tables", cur)]
           ELSE seen
      /\ UNCHANGED <<failed, cur, faults>>
  BY DEF Do
<1>2. Effect
  BY <1>1 DEF Effect
<1>3. at[1] \in 1..6 /\ at[2] \in Nat /\ Position(at[1], at[2]) /\ cur \in Things
      /\ Step = StepAt(at[1], at[2]) /\ cur # NoThing
  BY <1>1, AtWork DEF Working
<1>4. Has("role", cur) \in BOOLEAN /\ Has("tables", cur) \in BOOLEAN
  BY DEF Has
<1>5. seen' \in [user : BOOLEAN, tables : BOOLEAN]
  <2>1. CASE Step = "look"
    <3> DEFINE u == Has("role", cur)
               w == Has("role", cur) /\ Has("tables", cur)
    <3>1. seen' = [user |-> u, tables |-> w]
      BY <1>1, <2>1
    <3>2. u \in BOOLEAN /\ w \in BOOLEAN
      BY <1>4
    <3> HIDE DEF u, w
    <3>3. QED
      BY <3>1, <3>2
  <2>2. CASE Step # "look"
    BY <1>1, <2>2 DEF SetupInv, TypeOK
  <2>3. QED
    BY <2>1, <2>2
<1>6. SeenInv'
  <2>1. CASE at'[1] = 1
    <3>1. at[1] = 1 /\ at'[2] = at[2] + 1
      BY <1>1, <1>3, <2>1 DEF Advance
    <3>2. at[2] \in 1..12
      BY <1>3, <3>1, Places
    <3>3. CASE at[2] = 1
      <4>1. Step = "look"
        BY <1>3, <3>1, <3>3, GuardedPlaces
      <4>2. have' = have
        BY <1>1, <1>3, <4>1, ProvidedIs
      <4>3. Has("role", cur)' = Has("role", cur) /\ Has("tables", cur)' = Has("tables", cur)
        BY <1>1, <4>2 DEF Has
      <4>4. seen'.user = Has("role", cur)
            /\ seen'.tables = (Has("role", cur) /\ Has("tables", cur))
        BY <1>1, <4>1
      <4>5. Has("tables", cur) => Has("role", cur)
        BY <1>3 DEF SetupInv, TablesInv
      <4>6. QED
        BY <4>3, <4>4, <4>5 DEF SeenInv
    <3>4. CASE at[2] > 1
      <4>1. Step # "look" /\ seen' = seen
        BY <1>1, <1>3, <3>1, <3>4, GuardedPlaces
      <4>2. /\ seen.user => Has("role", cur)
            /\ seen.tables => Has("tables", cur)
            /\ at[2] <= 4 => (Has("tables", cur) => seen.tables)
        BY <1>3, <3>1, <3>4 DEF SetupInv, SeenInv
      <4>3. Has("role", cur) => Has("role", cur)'
        BY <1>1, <1>2, EffectKeeps DEF Has
      <4>4. Has("tables", cur) => Has("tables", cur)'
        BY <1>1, <1>2, EffectKeeps DEF Has
      <4>5. ASSUME at[2] <= 3, Has("tables", cur)' PROVE Has("tables", cur)
        <5>1. Step # "tables"
          BY <1>3, <3>1, <4>5, GuardedPlaces
        <5>2. QED
          BY <1>1, <1>2, <4>5, <5>1, EffectKeeps DEF Has
      <4>6. QED
        BY <3>1, <3>2, <3>4, <4>1, <4>2, <4>3, <4>4, <4>5 DEF SeenInv
    <3>5. QED
      BY <3>2, <3>3, <3>4
  <2>2. QED
    BY <2>1 DEF SeenInv
<1>7. /\ Step \in Wanted(Handler, cur) => <<Step, Owner(Step, cur)>> \in have'
      /\ Step = "tables" => <<"tables", Owner("tables", cur)>> \in have'
  BY <1>1, <1>3, ProvidedIs DEF Wanted
<1>8. QED
  BY <1>1, <1>2, <1>5, <1>6, <1>7, AfterStep

LEMMA RaiseInv == SetupInv /\ Raise => SetupInv'
<1>. SUFFICES ASSUME SetupInv, Raise PROVE SetupInv'
  OBVIOUS
<1>1. /\ Working /\ have' = have /\ at' = NextHandler /\ failed' = failed \cup {Handler}
      /\ cur' = cur /\ seen' = seen /\ faults' = faults
  BY DEF Raise
<1>2. Effect /\ faults' \in 0..MaxFaults
  BY <1>1 DEF Effect, SetupInv, TypeOK
<1>3. QED
  BY <1>1, <1>2, AfterRaise

LEMMA StrikeIs ==
  ASSUME SetupInv, Strike
  PROVE  Working /\ Effect /\ faults' \in 0..MaxFaults
<1>1. Working /\ Effect
  BY DEF Strike, Effect
<1>2. faults \in 0..MaxFaults /\ faults < MaxFaults /\ faults' = faults + 1
  BY DEF Strike, SetupInv, TypeOK
<1>3. QED
  BY <1>1, <1>2, SetupAssumption

LEMMA FaultInv == SetupInv /\ Fault => SetupInv'
<1>. SUFFICES ASSUME SetupInv, Fault PROVE SetupInv'
  OBVIOUS
<1>1. /\ Strike /\ at' = NextHandler /\ failed' = failed \cup {Handler}
      /\ cur' = cur /\ seen' = seen
  BY DEF Fault
<1>2. QED
  BY <1>1, StrikeIs, AfterRaise

LEMMA CrashInv == SetupInv /\ Crash => SetupInv'
<1>. SUFFICES ASSUME SetupInv, Crash PROVE SetupInv'
  OBVIOUS
<1>1. /\ Strike /\ cur' = NoThing /\ at' = <<1, 1>> /\ failed' = {} /\ seen' = seen
  BY DEF Crash
<1>2. have' \subseteq AllSteps \X (Things \cup Projects) /\ TablesInv'
      /\ faults' \in 0..MaxFaults
  BY <1>1, StrikeIs, EffectKeeps
<1>3. 1 \in 1..Len(Steps[Handlers[1]]) /\ 1 \in 1..Len(Handlers) + 1
  BY EveryHandlerSteps, HandlersTable
<1>4. TypeOK'
  BY <1>1, <1>2, <1>3 DEF SetupInv, TypeOK
<1>5. QED
  BY <1>1, <1>2, <1>4 DEF SetupInv, SeenInv, TurnInv, PassedInv

LEMMA InitSetup == Init => SetupInv
<1>. SUFFICES ASSUME Init PROVE SetupInv
  OBVIOUS
<1>1. 1 \in 1..Len(Steps[Handlers[1]]) /\ 1 \in 1..Len(Handlers) + 1
  BY EveryHandlerSteps, HandlersTable
<1>2. TypeOK
  BY <1>1, SetupAssumption DEF Init, TypeOK
<1>3. TablesInv
  BY DEF Init, TablesInv, Has
<1>4. QED
  BY <1>2, <1>3 DEF Init, SetupInv, SeenInv, TurnInv, PassedInv

LEMMA ReceiveInv ==
  ASSUME SetupInv, NEW t \in Things, Receive(t)
  PROVE  SetupInv'
<1>1. /\ cur = NoThing /\ cur' = t /\ failed' = {} /\ at' = at /\ at = <<1, 1>>
      /\ UNCHANGED <<have, seen, faults>>
  BY DEF Receive, SetupInv, TypeOK
<1>2. TypeOK'
  BY <1>1, SetupAssumption DEF SetupInv, TypeOK
<1>3. TablesInv'
  BY <1>1 DEF SetupInv, TablesInv, Has
<1>4. \A k, j : Position(k, j) => ~Passed(k, j)'
  <2>1. ASSUME NEW k, NEW j, Position(k, j) PROVE ~Passed(k, j)'
    <3>1. k \in 1..6 /\ j \in Nat /\ j >= 1
      BY <2>1, EveryHandlerSteps DEF Position
    <3>2. QED
      BY <1>1, <3>1 DEF Passed
  <2>2. QED
    BY <2>1
<1>5. PassedInv'
  BY <1>4 DEF PassedInv, Position
<1>6. QED
  BY <1>1, <1>2, <1>3, <1>5 DEF SetupInv, SeenInv, TurnInv

LEMMA RestInv == SetupInv /\ (ReceiveRepublished \/ Finish \/ UNCHANGED vars) => SetupInv'
<1>. SUFFICES ASSUME SetupInv, ReceiveRepublished \/ Finish \/ UNCHANGED vars
              PROVE  SetupInv'
  OBVIOUS
<1>1. CASE ReceiveRepublished
  <2>1. /\ cur = NoThing /\ failed' = HandlerNames
        /\ UNCHANGED <<have, cur, at, seen, faults>>
    BY <1>1 DEF ReceiveRepublished
  <2>2. TypeOK'
    BY <2>1 DEF SetupInv, TypeOK
  <2>3. TablesInv'
    BY <2>1 DEF SetupInv, TablesInv, Has
  <2>4. QED
    BY <2>1, <2>2, <2>3 DEF SetupInv, SeenInv, TurnInv, PassedInv
<1>2. CASE Finish
  <2>1. /\ cur' = NoThing /\ at' = <<1, 1>>
        /\ UNCHANGED <<have, seen, failed, faults>>
    BY <1>2 DEF Finish
  <2>2. 1 \in 1..Len(Steps[Handlers[1]]) /\ 1 \in 1..Len(Handlers) + 1
    BY EveryHandlerSteps, HandlersTable
  <2>3. TypeOK'
    BY <2>1, <2>2 DEF SetupInv, TypeOK
  <2>4. TablesInv'
    BY <2>1 DEF SetupInv, TablesInv, Has
  <2>5. QED
    BY <2>1, <2>3, <2>4 DEF SetupInv, SeenInv, TurnInv, PassedInv
<1>3. CASE UNCHANGED vars
  <2>1. UNCHANGED <<have, cur, at, seen, failed, faults>>
    BY <1>3 DEF vars
  <2>2. TypeOK'
    BY <2>1 DEF SetupInv, TypeOK
  <2>3. TablesInv' /\ SeenInv' /\ TurnInv'
    BY <2>1 DEF SetupInv, TablesInv, SeenInv, TurnInv, Has
  <2>4. \A s : Held(s)' <=> Held(s)
    BY <2>1 DEF Held, Has, NoData, NoSchema
  <2>5. PassedInv'
    BY <2>1, <2>4 DEF SetupInv, PassedInv, Passed, Position, StepAt, Wanted
  <2>6. QED
    BY <2>2, <2>3, <2>5 DEF SetupInv
<1>4. QED
  BY <1>1, <1>2, <1>3

LEMMA SetupInvariance == Spec => []SetupInv
<1>1. SetupInv /\ [Next]_vars => SetupInv'
  BY ReceiveInv, SkipInv, DoInv, RaiseInv, FaultInv, CrashInv, RestInv DEF Next, Work
<1>2. QED
  BY <1>1, InitSetup, PTL DEF Spec

\* The types of the state: the position in the handlers is always one there is.
THEOREM TypeCorrect == Spec => []TypeOK
<1>1. SetupInv => TypeOK
  BY DEF SetupInv
<1>2. QED
  BY <1>1, SetupInvariance, PTL

(***************************************************************************)
(* A handler that setup_thing.py logs as successful has left everything of *)
(* its thing in place, for any things and projects and any number of       *)
(* faults and crashes before: the looks that skip a step never skip what   *)
(* is missing, but for the first data of tables that are there.            *)
(***************************************************************************)
THEOREM SuccessMeansProvisioned == Spec => []SuccessIsProvisioned
<1>1. SetupInv => SuccessIsProvisioned
  <2>. SUFFICES ASSUME SetupInv, Ended, NEW h \in HandlerNames \ failed,
                       NEW s \in Wanted(h, cur)
                PROVE  Has(s, cur) \/ (s = "data" /\ NoData(cur))
    BY DEF SuccessIsProvisioned
  <2>1. at[1] = 7 /\ cur # NoThing
    BY HandlersTable DEF Ended
  <2>2. PICK k \in 1..6 : h = Handlers[k]
    BY HandlersTable DEF HandlerNames
  <2>3. s \in StepsOf(h)
    BY DEF Wanted
  <2>4. PICK j : Position(k, j) /\ StepAt(k, j) = s
    BY <2>2, <2>3, PlaceOfStep
  <2>5. Passed(k, j)
    BY <2>1, <2>2 DEF Passed
  <2>6. Held(s)
    BY <2>1, <2>2, <2>4, <2>5 DEF SetupInv, PassedInv
  <2>7. QED
    BY <2>1, <2>6 DEF Held
<1>2. QED
  BY <1>1, SetupInvariance, PTL

(***************************************************************************)
(* Setting a thing up again never fails by itself: what a step builds on   *)
(* is there when its turn comes, and what CREATE ROLE and CREATE TABLE     *)
(* make is not, whatever failed before.  The exception is the user without *)
(* a schema that a fault between the two transactions leaves behind.       *)
(***************************************************************************)
THEOREM SetupRepeatable == Spec => []Repeatable
<1>1. SetupInv => Repeatable
  <2>. SUFFICES ASSUME SetupInv, Working, ~Skipped(Step, cur), ~Possible(Step, cur)
                PROVE  Step = "tables" /\ NoSchema(cur)
    BY DEF Repeatable
  <2>1. /\ cur \in Things /\ cur # NoThing /\ at[1] \in 1..6 /\ at[2] \in Nat
        /\ Position(at[1], at[2]) /\ Handler = Handlers[at[1]]
        /\ Step = StepAt(at[1], at[2]) /\ Handler \notin failed
    BY AtWork DEF Working
  <2>2. Step \in NotTwice => ~Has(Step, cur)
    <3>1. CASE Step = "role"
      <4>1. at[1] = 1 /\ at[2] = 2
        BY <2>1, <3>1, GuardedPlaces
      <4>2. ~seen.user
        BY <3>1 DEF Skipped
      <4>3. QED
        BY <2>1, <3>1, <4>1, <4>2 DEF SetupInv, SeenInv
    <3>2. CASE Step = "tables"
      <4>1. at[1] = 1 /\ at[2] = 4
        BY <2>1, <3>2, GuardedPlaces
      <4>2. ~seen.tables
        BY <3>2 DEF Skipped
      <4>3. QED
        BY <2>1, <3>2, <4>1, <4>2 DEF SetupInv, SeenInv
    <3>3. CASE Step \in {"sta_role", "grf_role", "bucket"}
      BY <3>3 DEF Skipped, CheckedSteps
    <3>4. QED
      BY <3>1, <3>2, <3>3 DEF NotTwice
  <2>3. PICK n \in Needs[Step] : ~Has(n, cur)
    BY <2>2 DEF Possible
  <2>4. PICK j : Position(at[1], j) /\ j < at[2] /\ StepAt(at[1], j) = n
    BY <2>1, <2>3, NeedsAreEarlier
  <2>5. n \notin {"look", "data", "job"}
        /\ (n = "schema" => at[1] = 1 /\ (at[2] <= 4 => Step = "tables"))
    BY <2>1, <2>3, NeedsAreEarlier
  <2>6. n \in Wanted(Handler, cur)
    <3>1. n \in StepsOf(Handler)
      BY <2>1, <2>4, StepIsStep
    <3>2. Handler = "minio" => cur \in HasStorage
      BY <2>1, StepIsStep DEF Skipped
    <3>3. QED
      BY <2>5, <3>1, <3>2 DEF Wanted
  <2>7. Held(n)
    BY <2>1, <2>4, <2>6 DEF SetupInv, PassedInv, Passed
  <2>8. QED
    BY <2>3, <2>5, <2>7 DEF Held
<1>2. QED
  BY <1>1, SetupInvariance, PTL
=============================================================================
