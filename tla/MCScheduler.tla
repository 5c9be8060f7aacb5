----------------------------- MODULE MCScheduler ----------------------------
(***************************************************************************)
(* Small instances of Scheduler for TLC: `hourly` and `nightly` are        *)
(* expressions APScheduler accepts, `alias` one that only the validator    *)
(* accepts (croniter takes @daily, which has neither five nor six fields). *)
(***************************************************************************)
EXTENDS Scheduler

CONSTANTS hourly, nightly, alias

Plain == {hourly, nightly}
All == Plain \cup {alias}
=============================================================================
