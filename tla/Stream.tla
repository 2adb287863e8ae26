------------------------------- MODULE Stream -------------------------------
(***************************************************************************)
(* The life of one connection of the Firestore client (remote/stream.cc),  *)
(* which the write stream and the watch stream share.  A stream is a       *)
(* record; each operator is a method and returns the stream it leaves.     *)
(* What a method tells its delegate is in the modules of the two streams.  *)
(*                                                                         *)
(* Credentials are asked for with close_count_ at hand and answered later: *)
(* "current" is an answer for the present count, "stale" one that an       *)
(* earlier count asked for.  Answers of one kind have one effect, so a set *)
(* holds them.                                                             *)
(***************************************************************************)
EXTENDS Naturals

States == {"Initial", "Starting", "Open", "Healthy", "Error", "Backoff"}

Streams == [state : States,
            timers : SUBSET {"idle", "backoff", "health"},
            creds : SUBSET {"current", "stale"},
            asserts : {"hold", "failed"}]  \* a HARD_ASSERT ends the process

NewStream == [state |-> "Initial", timers |-> {}, creds |-> {},
              asserts |-> "hold"]

IsOpen(s) == s.state \in {"Open", "Healthy"}

IsStarted(s) == s.state \in {"Starting", "Backoff"} \/ IsOpen(s)

HardAssert(condition, s) ==
  IF condition THEN s ELSE [s EXCEPT !.asserts = "failed"]

\* After an error the stream waits; otherwise it asks for credentials.
Start(s) ==
  IF s.state = "Error"
  THEN [s EXCEPT !.state = "Backoff", !.timers = @ \cup {"backoff"}]
  ELSE [HardAssert(s.state = "Initial", s) EXCEPT
          !.state = "Starting", !.creds = @ \cup {"current"}]

\* Mutant: the stream is ready again, but not started.
BackoffElapsesOnly(s) ==
  [s EXCEPT !.state = "Initial", !.timers = @ \ {"backoff"}]

BackoffElapses(s) ==
  Start([HardAssert(s.state = "Backoff", s) EXCEPT
           !.state = "Initial", !.timers = @ \ {"backoff"}])

InhibitBackoff(s) ==
  [HardAssert(~IsStarted(s), s) EXCEPT !.state = "Initial"]

\* The gRPC call opens at once, without waiting for the server.
ResumeStartWithCredentials(s) ==
  [HardAssert(s.state = "Starting", s) EXCEPT
     !.state = "Open", !.creds = @ \ {"current"},
     !.timers = @ \cup {"health"}]

HealthCheck(s) ==
  [s EXCEPT !.state = IF IsOpen(s) THEN "Healthy" ELSE @,
            !.timers = @ \ {"health"}]

MarkIdle(s) ==
  IF IsOpen(s) THEN [s EXCEPT !.timers = @ \cup {"idle"}] ELSE s

Write(s) == [HardAssert(IsOpen(s), s) EXCEPT !.timers = @ \ {"idle"}]

\* Mutant: credentials that an earlier start asked for count as this one's.
CloseUncounted(s, graceful) ==
  [HardAssert(IsStarted(s), s) EXCEPT
     !.state = IF graceful THEN "Initial" ELSE "Error", !.timers = {}]

\* Close, once it is known to have something to do (see Stopped): stop all
\* timers and outdate the credentials under way.
Close(s, graceful) ==
  [HardAssert(IsStarted(s), s) EXCEPT
     !.state = IF graceful THEN "Initial" ELSE "Error",
     !.timers = {},
     !.creds = IF @ = {} THEN {} ELSE {"stale"}]
=============================================================================
