----------------------------- MODULE GrpcStream -----------------------------
(***************************************************************************)
(* One gRPC call of a stream (remote/grpc_stream.cc) between two threads:  *)
(* the worker queue, which issues operations and reacts to their results,  *)
(* and the thread that polls gRPC's completion queue                       *)
(* (Datastore::PollGrpcQueue, remote/grpc_completion.cc).  gRPC may use    *)
(* what belongs to the call until each operation came off its queue, so    *)
(* the worker cancels, and waits for the other thread, before it lets go   *)
(* of the call.                                                            *)
(*                                                                         *)
(* Steps of the worker are whole tasks, except that a task stops where it  *)
(* waits; "worker" says where.  A completion goes from gRPC ("grpc") to    *)
(* the polling thread ("off", where the promise is fulfilled) and to the   *)
(* worker queue ("queued").                                                *)
(***************************************************************************)
EXTENDS Naturals, Sequences

CONSTANTS
  Ids,         \* what tells completions apart; those of finished ones return
  MaxMessages, \* bound: messages the server sends
  MaxWrites    \* bound: messages the client writes

ASSUME BoundsAssumption == MaxMessages \in Nat /\ MaxWrites \in Nat

VARIABLES
  stream,       \* is the GrpcStream "alive" or "gone"
  worker,       \* "free", or what its present task waits for
  completions,  \* completions_
  finished,     \* is_grpc_call_finished_
  active,       \* has_active_write_
  buffered,     \* messages in the queue of buffered_writer_
  op,           \* the completions there are
  queue,        \* callbacks on the worker queue
  call,         \* the call at gRPC: "open", "ended" or "cancelled"
  asserts,      \* a HARD_ASSERT ends the process
  messages, writes

vars == <<stream, worker, completions, finished, active, buffered, op, queue,
          call, asserts, messages, writes>>

Completions == [type : {"Read", "Write", "Finish"},
                at : {"free", "grpc", "off", "queued"},
                ok : {"yes", "no"},
                callback : {"set", "none"}]

Free == [type |-> "Read", at |-> "free", ok |-> "no", callback |-> "none"]

Issued(type) == [type |-> type, at |-> "grpc", ok |-> "no", callback |-> "set"]

FreeIds == {id \in Ids : op[id].at = "free"}

-----------------------------------------------------------------------------
(* Parts of the worker's tasks *)

\* Mutant: the callbacks stay as they are.
CancelNone(o, cs) == o

CancelAll(o, cs) ==
  [id \in Ids |-> IF id \in cs THEN [o[id] EXCEPT !.callback = "none"] ELSE o[id]]

\* FastFinishCompletionsBlocking goes on once no completion is with gRPC.
Drained == \A id \in completions : op[id].at # "grpc"

\* FinishGrpcCall, up to where it waits.
FinishGrpcCall(o, cs, where) ==
  /\ asserts' = IF finished = "no" THEN asserts ELSE "failed"
  /\ finished' = "yes"
  /\ op' = CancelAll(o, cs) /\ completions' = cs
  /\ worker' = where

\* Mutant: the call is not cancelled first.
ShutdownUncancelled(o, cs) ==
  /\ UNCHANGED call
  /\ IF cs # {} /\ finished = "no"
     THEN FinishGrpcCall(o, cs, "shutting")
     ELSE /\ op' = CancelAll(o, cs) /\ completions' = cs
          /\ worker' = "draining"
          /\ UNCHANGED <<finished, asserts>>

Shutdown(o, cs) ==
  IF cs # {} /\ finished = "no"
  THEN call' = "cancelled" /\ FinishGrpcCall(o, cs, "shutting")
  ELSE /\ op' = CancelAll(o, cs) /\ completions' = cs
       /\ worker' = "draining"
       /\ UNCHANGED <<call, finished, asserts>>

WorkerIsFree == worker = "free" /\ stream = "alive"

-----------------------------------------------------------------------------
(* The stream's calls *)

\* Mutant: another write does not have to be over.
WriteAtOnce ==
  /\ WorkerIsFree /\ writes < MaxWrites /\ writes' = writes + 1
  /\ \E id \in FreeIds : /\ op' = [op EXCEPT ![id] = Issued("Write")]
                         /\ completions' = completions \cup {id}
  /\ active' = "yes"
  /\ UNCHANGED <<stream, worker, finished, buffered, queue, call, asserts, messages>>

Write ==
  /\ WorkerIsFree /\ writes < MaxWrites /\ writes' = writes + 1
  /\ active' = "yes"
  /\ IF active = "yes" THEN buffered' = buffered + 1 /\ UNCHANGED <<op, completions>>
     ELSE /\ \E id \in FreeIds : /\ op' = [op EXCEPT ![id] = Issued("Write")]
                                 /\ completions' = completions \cup {id}
          /\ UNCHANGED buffered
  /\ UNCHANGED <<stream, worker, finished, queue, call, asserts, messages>>

\* The stream is stopped, or the connectivity changed (FinishAndNotify).
FinishImmediately ==
  /\ WorkerIsFree
  /\ Shutdown(op, completions)
  /\ UNCHANGED <<stream, active, buffered, queue, messages, writes>>

\* A stopped write stream says good-bye first, if it can do so at once.
WriteAndFinish ==
  /\ WorkerIsFree
  /\ IF finished = "no" /\ active = "no"
     THEN /\ \E id \in FreeIds : /\ op' = [op EXCEPT ![id] = Issued("Write")]
                                 /\ completions' = completions \cup {id}
          /\ active' = "yes" /\ worker' = "lastWrite"
          /\ UNCHANGED <<call, finished, asserts, buffered>>
     ELSE /\ buffered' = IF finished = "no" THEN buffered + 1 ELSE buffered
          /\ Shutdown(op, completions)
          /\ UNCHANGED active
  /\ UNCHANGED <<stream, queue, messages, writes>>

-----------------------------------------------------------------------------
(* The worker goes on after waiting *)

\* After the last write, or half a second.
LastWriteEnds ==
  /\ worker = "lastWrite"
  /\ Shutdown(op, completions)
  /\ UNCHANGED <<stream, active, buffered, queue, messages, writes>>

\* FinishGrpcCall ends.  Called by Shutdown, it is followed by another wait.
CallIsFinished ==
  /\ worker \in {"failing", "shutting"} /\ Drained
  /\ \E id \in FreeIds :
       /\ completions' = {id}
       /\ op' = [op EXCEPT ![id] =
                   [Issued("Finish") EXCEPT !.callback =
                      IF worker = "failing" THEN "set" ELSE "none"]]
  /\ worker' = IF worker = "failing" THEN "free" ELSE "draining"
  /\ UNCHANGED <<stream, finished, active, buffered, queue, call, asserts,
                 messages, writes>>

\* Shutdown ends, the observer is told if it is to be, and Stream::Close lets
\* go of the call.
StreamIsReleased ==
  /\ worker = "draining" /\ Drained
  /\ completions' = {} /\ worker' = "free" /\ stream' = "gone"
  /\ UNCHANGED <<finished, active, buffered, op, queue, call, asserts,
                 messages, writes>>

-----------------------------------------------------------------------------
(* Callbacks on the worker queue *)

\* Op, when the completion id is off the queue for good.
Without(id) == [op EXCEPT ![id] = Free]

\* The next callback in the queue is id's; RemoveCompletion if it is not
\* cancelled.
Runs(id) ==
  /\ worker = "free" /\ queue # <<>> /\ id = Head(queue)
  /\ queue' = Tail(queue)
  /\ UNCHANGED <<messages, writes>>

IsSet(id, type, ok) ==
  /\ op[id].callback = "set" /\ op[id].type = type /\ op[id].ok = ok

RunCancelled(id) ==
  /\ Runs(id) /\ op[id].callback = "none"
  /\ op' = Without(id)
  /\ UNCHANGED <<stream, worker, completions, finished, active, buffered, call, asserts>>

\* Mutant: the observer hears of the message first and nobody reads on.
OnReadOnly(id) ==
  /\ Runs(id) /\ IsSet(id, "Read", "yes")
  /\ op' = Without(id) /\ completions' = completions \ {id}
  /\ UNCHANGED <<stream, worker, finished, active, buffered, call, asserts>>

\* The next read is issued before the observer hears of this message, which
\* may make it stop the call.
OnRead(id) ==
  /\ Runs(id) /\ IsSet(id, "Read", "yes")
  /\ \E next \in FreeIds :
       LET o == [Without(id) EXCEPT ![next] = Issued("Read")]
           cs == (completions \ {id}) \cup {next}
       IN \/ /\ op' = o /\ completions' = cs
             /\ UNCHANGED <<worker, finished, call, asserts>>
          \/ Shutdown(o, cs)
  /\ UNCHANGED <<stream, active, buffered>>

\* Mutant: the buffer is left to the next write.
OnWriteOnly(id) ==
  /\ Runs(id) /\ IsSet(id, "Write", "yes")
  /\ active' = "no"
  /\ op' = Without(id) /\ completions' = completions \ {id}
  /\ UNCHANGED <<stream, worker, finished, buffered, call, asserts>>

OnWrite(id) ==
  /\ Runs(id) /\ IsSet(id, "Write", "yes")
  /\ IF buffered = 0
     THEN /\ active' = "no"
          /\ op' = Without(id) /\ completions' = completions \ {id}
          /\ UNCHANGED buffered
     ELSE /\ buffered' = buffered - 1
          /\ \E next \in FreeIds :
               /\ op' = [Without(id) EXCEPT ![next] = Issued("Write")]
               /\ completions' = (completions \ {id}) \cup {next}
          /\ UNCHANGED active
  /\ UNCHANGED <<stream, worker, finished, call, asserts>>

\* Mutant: each failure is taken for the first.
OnOperationFailedAgain(id) ==
  /\ Runs(id) /\ \E type \in {"Read", "Write"} : IsSet(id, type, "no")
  /\ FinishGrpcCall(Without(id), completions \ {id}, "failing")
  /\ UNCHANGED <<stream, active, buffered, call>>

OnOperationFailed(id) ==
  /\ Runs(id) /\ \E type \in {"Read", "Write"} : IsSet(id, type, "no")
  /\ IF finished = "yes"
     THEN /\ op' = Without(id) /\ completions' = completions \ {id}
          /\ UNCHANGED <<worker, finished, asserts>>
     ELSE FinishGrpcCall(Without(id), completions \ {id}, "failing")
  /\ UNCHANGED <<stream, active, buffered, call>>

\* The status is there: FinishAndNotify.
OnFinish(id) ==
  /\ Runs(id) /\ IsSet(id, "Finish", "yes")
  /\ Shutdown(Without(id), completions \ {id})
  /\ UNCHANGED <<stream, active, buffered>>

-----------------------------------------------------------------------------
(* gRPC and the polling thread *)

Outcomes(type) ==
  CASE type = "Read" -> (IF call # "cancelled" /\ messages < MaxMessages
                         THEN {"yes"} ELSE {})
                        \cup (IF call # "open" THEN {"no"} ELSE {})
    [] type = "Write" -> IF call = "open" THEN {"yes"} ELSE {"no"}
    [] type = "Finish" -> IF call = "open" THEN {} ELSE {"yes"}

\* GrpcCompletion::Complete fulfils the promise ...
ComesOff(id) ==
  /\ \A other \in Ids : op[other].at # "off"
  /\ op[id].at = "grpc"
  /\ \E ok \in Outcomes(op[id].type) :
       /\ op' = [op EXCEPT ![id].at = "off", ![id].ok = ok]
       /\ messages' = IF op[id].type = "Read" /\ ok = "yes"
                      THEN messages + 1 ELSE messages
  /\ UNCHANGED <<stream, worker, completions, finished, active, buffered, queue,
                 call, asserts, writes>>

\* ... and then puts the callback on the worker queue.
IsEnqueued(id) ==
  /\ op[id].at = "off"
  /\ op' = [op EXCEPT ![id].at = "queued"]
  /\ queue' = Append(queue, id)
  /\ UNCHANGED <<stream, worker, completions, finished, active, buffered, call,
                 asserts, messages, writes>>

\* The server or the network ends the call.
CallEnds ==
  /\ call = "open" /\ call' = "ended"
  /\ UNCHANGED <<stream, worker, completions, finished, active, buffered, op,
                 queue, asserts, messages, writes>>

-----------------------------------------------------------------------------

\* The call was started with a read (GrpcStream::Start).
Init ==
  /\ stream = "alive" /\ worker = "free" /\ finished = "no"
  /\ active = "no" /\ buffered = 0 /\ queue = <<>> /\ call = "open"
  /\ asserts = "hold" /\ messages = 0 /\ writes = 0
  /\ \E id \in Ids :
       /\ completions = {id}
       /\ op = [i \in Ids |-> IF i = id THEN Issued("Read") ELSE Free]

Waits == LastWriteEnds \/ CallIsFinished \/ StreamIsReleased

Callback(id) == \/ RunCancelled(id) \/ OnRead(id) \/ OnWrite(id)
                \/ OnOperationFailed(id) \/ OnFinish(id)

Next == \/ Write \/ FinishImmediately \/ WriteAndFinish \/ Waits \/ CallEnds
        \/ \E id \in Ids : Callback(id) \/ ComesOff(id) \/ IsEnqueued(id)

Spec == Init /\ [][Next]_vars

\* Both threads go on, and gRPC gives back what it can.
FairSpec ==
  /\ Spec
  /\ WF_vars(Waits) /\ WF_vars(\E id \in Ids : Callback(id))
  /\ \A id \in Ids : WF_vars(ComesOff(id)) /\ WF_vars(IsEnqueued(id))
=============================================================================
