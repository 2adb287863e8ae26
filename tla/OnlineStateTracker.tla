------------------------- MODULE OnlineStateTracker -------------------------
(***************************************************************************)
(* What the client believes of its connection (remote/                     *)
(* online_state_tracker.cc).  The tracker is a record; each operator is a  *)
(* method and returns the tracker it leaves.  A count of failures at or    *)
(* above kMaxWatchStreamFailures acts like that maximum, so it stops there.*)
(***************************************************************************)
EXTENDS Naturals

Trackers == [state : {"Unknown", "Online", "Offline"},
             timer : {"off", "running"},
             failures : {0, 1},
             asserts : {"hold", "failed"}]

NewTracker == [state |-> "Unknown", timer |-> "off", failures |-> 0,
               asserts |-> "hold"]

kMaxWatchStreamFailures == 1

Require(condition, o) ==
  IF condition THEN o ELSE [o EXCEPT !.asserts = "failed"]

HandleWatchStreamStart(o) ==
  IF o.failures # 0 THEN o
  ELSE [Require(o.timer = "off", o) EXCEPT !.state = "Unknown",
                                           !.timer = "running"]

HandleWatchStreamFailure(o) ==
  IF o.state = "Online"
  THEN [Require(o.failures = 0 /\ o.timer = "off", o) EXCEPT !.state = "Unknown"]
  ELSE [o EXCEPT !.failures = kMaxWatchStreamFailures,
                 !.timer = "off", !.state = "Offline"]

\* Mutant: the timer of an earlier attempt goes on running.
UpdateStateOnly(o, s) == [o EXCEPT !.failures = 0, !.state = s]

UpdateState(o, s) == [o EXCEPT !.timer = "off", !.failures = 0, !.state = s]

TimeoutElapses(o) ==
  [Require(o.state = "Unknown", o) EXCEPT !.timer = "off", !.state = "Offline"]
=============================================================================
