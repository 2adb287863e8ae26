--------------------------- MODULE GrpcProperties ---------------------------
(* What GrpcStream must do, and small instances of it for TLC.               *)
EXTENDS GrpcStream

\* The state has its type; the buffer is never taken from when it is empty.
TypeOK ==
  /\ stream \in {"alive", "gone"}
  /\ worker \in {"free", "lastWrite", "failing", "shutting", "draining"}
  /\ completions \subseteq Ids /\ op \in [Ids -> Completions]
  /\ queue \in Seq(Ids) /\ call \in {"open", "ended", "cancelled"}
  /\ finished \in {"yes", "no"} /\ active \in {"yes", "no"}
  /\ asserts \in {"hold", "failed"}
  /\ buffered \in Nat /\ messages \in Nat /\ writes \in Nat

\* While gRPC has an operation, what belongs to its call exists; a callback
\* that is not cancelled finds its stream alive and itself among the stream's
\* completions, however the threads interleave.
NoUseAfterFree ==
  \A id \in Ids :
    /\ op[id].at = "grpc" => stream = "alive"
    /\ op[id].at # "free" /\ op[id].callback = "set" =>
         stream = "alive" /\ id \in completions

\* The call is finished once, as gRPC demands, whichever operations fail in
\* whichever order (HARD_ASSERT in FinishGrpcCall).
FinishedOnce == asserts = "hold"

\* gRPC takes one read and one write at a time.
OneAtATime ==
  \A id, other \in Ids :
    /\ op[id].at = "grpc" /\ op[other].at = "grpc"
    /\ op[id].type = op[other].type /\ op[id].type \in {"Read", "Write"}
    => id = other

\* A message in the buffer has a write before it that will fetch it, unless
\* the call is over.
BufferIsEmptied ==
  buffered > 0 /\ finished = "no" =>
    \E id \in Ids : op[id].at # "free" /\ op[id].type = "Write"
                      /\ op[id].callback = "set"

\* The worker queue, which everything else in the client needs, is not blocked
\* for ever, whether or not the server ends the call.
WorkerIsFreed == worker # "free" ~> worker = "free"

\* A call that is over is noticed and released, though no timer watches it.
EndIsNoticed == call # "open" ~> stream = "gone"
=============================================================================
