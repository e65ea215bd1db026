--------------------------- MODULE ScheduledSync ---------------------------
(***************************************************************************)
(* The jobs of cron that bring in data from outside: sync_thing and        *)
(* sync_sms of mqtt_sync_wrapper.py publish a message each, to the worker  *)
(* that the sections of the thing ask for.  A behaviour is about one job:  *)
(* jobs share nothing but the queues of their workers, which the parts     *)
(* model with several messages.                                            *)
(***************************************************************************)
EXTENDS SftpSync, ApiSync, SmsSync

CONSTANT SectionSets      \* the sections that a thing may have

VARIABLES
  job,            \* the line of the crontab
  sections        \* the sections of the thing that say where its data are

vars == <<job, sections, sftpVars, apiVars, smsVars>>

ASSUME SectionsAssumption == SectionSets \subseteq SUBSET {"ext_api", "ext_sftp"}

\* The message that the job publishes: that of the API if there is one.
Dispatched ==
  IF job = "sync_sms" THEN "sms"
  ELSE IF "ext_api" \in sections THEN "api"
  ELSE IF "ext_sftp" \in sections THEN "sftp"
  ELSE "none"

OfSftp(A) == Dispatched = "sftp" /\ A /\ UNCHANGED <<job, sections, apiVars, smsVars>>
OfApi(A) == Dispatched = "api" /\ A /\ UNCHANGED <<job, sections, sftpVars, smsVars>>
OfSms(A) == Dispatched = "sms" /\ A /\ UNCHANGED <<job, sections, sftpVars, apiVars>>

\* The parts that the job does not reach start in one state.
Init ==
  /\ job \in {"sync_thing", "sync_sms"}
  /\ sections \in IF job = "sync_sms" THEN {{}} ELSE SectionSets
  /\ SftpInit /\ ApiInit /\ SmsInit
  /\ Dispatched # "sftp" => unreadable = {} /\ mqttQos = 2
  /\ Dispatched # "api" => api = (CHOOSE a \in Apis : TRUE) /\ https /\ apiQos = 2
  /\ Dispatched # "sms" => pinned = {} /\ broken = {} /\ smsQos = 2
       /\ \A t \in TableNames : local[t].kind = "none"

Next == OfSftp(SftpNext) \/ OfApi(ApiNext) \/ OfSms(SmsNext)

Spec == Init /\ [][Next]_vars

\* The workers and cron go on.
Fairness ==
  /\ WF_vars(OfSftp(SftpWork)) /\ WF_vars(OfSftp(PublishSftp))
  /\ WF_vars(OfApi(ApiWork))
  /\ WF_vars(OfSms(SmsWork))
  /\ \A origin \in {"sms_cv", "sms_backend"} :
       WF_vars(OfSms(PublishSms(origin)))

FairSpec == Spec /\ Fairness

TypeOK == SftpTypeOK /\ ApiTypeOK /\ SmsTypeOK

\* When the edits come to rest and the jobs of the SMS go on, the copy and the
\* views catch up with the SMS, also with the entries that a run missed because
\* others were removed between two of its pages (timeio/sms.py:72), unless a
\* table or a view that fails each time takes the others with it: at QoS 1 a
\* table takes the views with it, too, as both kinds of runs wait in one queue.
SmsJobCatchesUp == <>[](job = "sync_sms" => CaughtUpWithSms)
=============================================================================
