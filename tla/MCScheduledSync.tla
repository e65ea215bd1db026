-------------------------- MODULE MCScheduledSync --------------------------
(***************************************************************************)
(* Instances of ScheduledSync: a server with two files, all types of APIs  *)
(* over two days of three hours, two vocabularies and two views.           *)
(***************************************************************************)
EXTENDS ScheduledSync

CONSTANTS f1, f2

MCFiles == {f1, f2}
MCOrder == <<f1, f2>>
MCUnreadableSets == {{}, {f2}}
MCTables == <<"sms_cv_license", "sms_cv_unit">>
MCViews == <<"sms_device", "sms_site">>
=============================================================================
