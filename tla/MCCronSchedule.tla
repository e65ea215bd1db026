--------------------------- MODULE MCCronSchedule ---------------------------
(***************************************************************************)
(* An instance of CronSchedule for TLC.                                    *)
(***************************************************************************)
EXTENDS CronSchedule

\* Of every range that adjust_interval tells apart; up to 15 days, the longest
\* step that get_current_interval measures right whatever the first day is.
Common == {0, 7, 45, 60, 500, 2000, 11519, 21600}
=============================================================================
