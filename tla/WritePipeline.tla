---------------------------- MODULE WritePipeline ----------------------------
(***************************************************************************)
(* How queued writes reach the server: the write half of RemoteStore       *)
(* (remote/remote_store.cc), the write stream (remote/write_stream.cc) and *)
(* the life of its connection (Stream).  Each action is one task of the    *)
(* client's worker queue, with everything it calls; the local store's      *)
(* queue, the server and the network are at the other ends.                *)
(*                                                                         *)
(* Batches are numbered in the order they are made, and everything that    *)
(* holds batches here (the local queue, the pipeline, what is on the wire) *)
(* is filled in that order and emptied from the front, so a set of numbers *)
(* stands for a queue and its least element for the front.                 *)
(***************************************************************************)
EXTENDS Stream, FiniteSets

CONSTANTS
  MaxWrites,          \* bound: batches made
  kMaxPendingWrites,
  Refused,            \* batches the server refuses, whenever they come
  Statuses,           \* how the server or the network ends a call
  MaxFaults           \* bound: faults and outside events

ASSUME BoundsAssumption == MaxWrites \in Nat /\ MaxFaults \in Nat
ASSUME PipelineAssumption == kMaxPendingWrites \in Nat \ {0}
ASSUME StatusAssumption == Statuses \subseteq {"ok", "transient", "permanent"}

Batches == 1..MaxWrites

VARIABLES
  made,       \* number of the last batch made
  mutations,  \* the local store's queue, on disk
  network,    \* is_network_enabled_
  stream,     \* the write stream's connection
  handshake,  \* handshake_complete_
  pipeline,   \* write_pipeline_
  call,       \* the gRPC call: handshake, requests and responses under way
  committed,  \* batches the server has carried out
  acked, rejected,  \* batches reported to the user
  faults

vars == <<made, mutations, network, stream, handshake, pipeline, call,
          committed, acked, rejected, faults>>

\* A call carries the handshake ahead of all batches; "end" is its status.
NoCall == [hello |-> "none", up |-> {}, down |-> {}, end |-> "none"]
Calls == [hello : {"none", "sent", "answered", "read"},
          up : SUBSET (Nat \ {0}), down : SUBSET (Nat \ {0}),
          end : {"none", "ok", "transient", "permanent"}]

First(S) == {b \in S : \A c \in S : b <= c}

Init ==
  /\ made = 0 /\ mutations = {} /\ network = "enabled"
  /\ stream = NewStream /\ handshake = "incomplete" /\ pipeline = {}
  /\ call = NoCall /\ committed = {} /\ acked = {} /\ rejected = {}
  /\ faults = 0

-----------------------------------------------------------------------------
(* RemoteStore *)

ShouldStartWriteStream(p, s, net) ==
  net = "enabled" /\ ~IsStarted(s) /\ p # {}

\* The batches FillWritePipeline takes over from the local queue m.
NextBatches(m, p, net) ==
  LET later == {b \in m : \A c \in p : c < b}
      upTo(b) == {c \in later : c <= b}
  IN IF net # "enabled" THEN {} ELSE
     {b \in later :
        Cardinality(p) + Cardinality(upTo(b)) <= kMaxPendingWrites}

\* With nothing queued the stream may become idle; what is added goes out at
\* once on a stream that has shaken hands; a stopped stream is started.
FillWritePipeline(m, p, s, c, net) ==
  LET added == NextBatches(m, p, net)
      sends == added # {} /\ IsOpen(s) /\ handshake = "complete"
      filled == IF sends THEN Write(s)
                ELSE IF net = "enabled" /\ p \cup added = {} THEN MarkIdle(s)
                ELSE s
  IN /\ pipeline' = p \cup added
     /\ call' = IF sends THEN [c EXCEPT !.up = @ \cup added] ELSE c
     /\ stream' = IF ShouldStartWriteStream(p \cup added, filled, net)
                  THEN Start(filled) ELSE filled

\* The user's write reaches the worker queue (SyncEngine::WriteMutations).
WriteMutations ==
  /\ made < MaxWrites
  /\ made' = made + 1
  /\ mutations' = mutations \cup {made + 1}
  /\ FillWritePipeline(mutations', pipeline, stream, call, network)
  /\ UNCHANGED <<network, handshake, committed, acked, rejected, faults>>

-----------------------------------------------------------------------------
(* The end of a stream *)

\* Stop: the stream must not be needed any more, says OnWriteStreamClose.
Stopped(s, net) ==
  IF ~IsStarted(s) THEN s
  ELSE HardAssert(~ShouldStartWriteStream(pipeline, Close(s, TRUE), net),
                  Close(s, TRUE))

\* Mutant: the next connection takes this one's handshake for its own.
KeepHandshake == UNCHANGED handshake

ResetHandshake == handshake' = "incomplete"

\* A permanent error of a stream that has shaken hands is the front batch's.
BlamesFront(status) ==
  pipeline # {} /\ handshake = "complete" /\ status = "permanent"

\* HandleWriteError of such an error.
RejectFront(s) ==
  /\ rejected' = rejected \cup First(pipeline)
  /\ mutations' = mutations \ First(pipeline)
  /\ FillWritePipeline(mutations', pipeline \ First(pipeline),
                       InhibitBackoff(s), NoCall, network)

\* Stream::OnStreamFinish with OnWriteStreamClose.
OnStreamFinish(s, status) ==
  /\ ResetHandshake
  /\ IF BlamesFront(status) THEN RejectFront(Close(s, FALSE)) ELSE
       /\ call' = NoCall
       /\ UNCHANGED <<mutations, pipeline, rejected>>
       /\ stream' =
            IF status = "ok" THEN Stopped(s, network)
            ELSE IF ShouldStartWriteStream(pipeline, Close(s, FALSE), network)
                 THEN Start(Close(s, FALSE)) ELSE Close(s, FALSE)
  /\ UNCHANGED <<made, network, committed, acked>>

-----------------------------------------------------------------------------
(* Timers and credentials of the stream *)

\* Faults and outside events are counted; all else happens without end.
Fault == faults < MaxFaults /\ faults' = faults + 1

StreamOnly ==
  UNCHANGED <<made, mutations, network, pipeline, committed, acked, rejected,
              faults>>

\* Credentials open the call, and OnWriteStreamOpen sends the handshake.
CredentialsArrive ==
  /\ "current" \in stream.creds
  /\ stream' = HardAssert(handshake = "incomplete",
                          Write(ResumeStartWithCredentials(stream)))
  /\ call' = [NoCall EXCEPT !.hello = "sent"]
  /\ UNCHANGED handshake /\ StreamOnly

CredentialsFail ==
  /\ "current" \in stream.creds /\ Fault
  /\ OnStreamFinish([HardAssert(stream.state = "Starting", stream) EXCEPT
                       !.creds = @ \ {"current"}], "transient")

\* The close count has moved on.
StaleCredentialsArrive ==
  /\ "stale" \in stream.creds
  /\ stream' = [stream EXCEPT !.creds = @ \ {"stale"}]
  /\ UNCHANGED <<handshake, call>> /\ StreamOnly

BackoffTimer ==
  /\ "backoff" \in stream.timers
  /\ stream' = BackoffElapses(stream)
  /\ UNCHANGED <<handshake, call>> /\ StreamOnly

HealthTimer ==
  /\ "health" \in stream.timers
  /\ stream' = HealthCheck(stream)
  /\ UNCHANGED <<handshake, call>> /\ StreamOnly

IdleTimer ==
  /\ "idle" \in stream.timers
  /\ stream' = Stopped(stream, network)
  /\ call' = NoCall
  /\ ResetHandshake /\ StreamOnly

-----------------------------------------------------------------------------
(* Responses, and the end of the call *)

\* What is left of the call after its next response was read.
AfterRead ==
  IF call.hello = "answered" THEN {[call EXCEPT !.hello = "read"]}
  ELSE {[call EXCEPT !.down = @ \ {b}] : b \in First(call.down)}

\* The first response is taken for the handshake's; the pipeline goes out.
OnHandshakeComplete ==
  /\ handshake = "incomplete"
  /\ handshake' = "complete"
  /\ \E c \in AfterRead : call' = [c EXCEPT !.up = @ \cup pipeline]
  /\ stream' = IF pipeline = {} THEN stream ELSE Write(stream)
  /\ StreamOnly

\* Mutant: nobody looks for further batches after a result.
OnMutationResultOnly ==
  /\ handshake = "complete"
  /\ acked' = acked \cup First(pipeline)
  /\ mutations' = mutations \ First(pipeline)
  /\ pipeline' = pipeline \ First(pipeline)
  /\ call' \in AfterRead
  /\ stream' = HardAssert(pipeline # {}, stream)
  /\ UNCHANGED <<made, network, handshake, committed, rejected, faults>>

\* Any later one is taken for the result of the front batch.
OnMutationResult ==
  /\ handshake = "complete"
  /\ acked' = acked \cup First(pipeline)
  /\ mutations' = mutations \ First(pipeline)
  /\ \E c \in AfterRead :
       FillWritePipeline(mutations', pipeline \ First(pipeline),
                         HardAssert(pipeline # {}, stream), c, network)
  /\ UNCHANGED <<made, network, handshake, committed, rejected, faults>>

\* A response that cannot be parsed (permanent: kErrorDataLoss).
OnGarbledResponse ==
  /\ AfterRead # {} /\ Fault
  /\ OnStreamFinish(stream, "permanent")

\* All responses are read, and the next read fails.
ReadFails ==
  /\ call.end # "none" /\ AfterRead = {}
  /\ OnStreamFinish(stream, call.end)
  /\ UNCHANGED faults

\* A write that the dead call does not take fails first; the responses not yet
\* read are given up (GrpcStream::OnOperationFailed).
WriteFails ==
  /\ call.end # "none" /\ call.up # {}
  /\ OnStreamFinish(stream, call.end)
  /\ UNCHANGED faults

-----------------------------------------------------------------------------
(* The network switch and the process *)

\* DisableNetworkInternal, after is_network_enabled_ was taken back.
Disabled(s) == /\ stream' = s
               /\ pipeline' = {} /\ call' = NoCall
               /\ ResetHandshake

DisableNetwork ==
  /\ Fault
  /\ network' = "disabled"
  /\ Disabled(Stopped(stream, "disabled"))
  /\ UNCHANGED <<made, mutations, committed, acked, rejected>>

EnableNetwork ==
  /\ IF network = "disabled" THEN UNCHANGED faults ELSE Fault
  /\ network' = "enabled"
  /\ FillWritePipeline(mutations, pipeline, stream, call, "enabled")
  /\ UNCHANGED <<made, mutations, handshake, committed, acked, rejected>>

Restart(s) ==
  /\ ResetHandshake
  /\ network' = "enabled"
  /\ FillWritePipeline(mutations, {}, s, NoCall, "enabled")
  /\ UNCHANGED <<made, mutations, committed, acked, rejected>>

\* The connectivity changed, or the credentials.
RestartNetwork ==
  /\ network = "enabled" /\ Fault
  /\ Restart(InhibitBackoff(Stopped(stream, "disabled")))

\* The process dies and is started again; only the local store is left.
Crash == Fault /\ Restart(NewStream)

-----------------------------------------------------------------------------
(* The server *)

ServerOnly == UNCHANGED <<made, mutations, network, stream, handshake,
                          pipeline, acked, rejected>>

ServerShakesHands ==
  /\ call.hello = "sent" /\ call.end = "none"
  /\ call' = [call EXCEPT !.hello = "answered"]
  /\ ServerOnly /\ UNCHANGED <<committed, faults>>

ServerCommits(b) ==
  /\ b \in First(call.up) \ Refused /\ call.end = "none"
  /\ call' = [call EXCEPT !.up = @ \ {b}, !.down = @ \cup {b}]
  /\ committed' = committed \cup {b}
  /\ ServerOnly /\ UNCHANGED faults

ServerRefuses(b) ==
  /\ b \in First(call.up) \cap Refused /\ call.end = "none"
  /\ call' = [call EXCEPT !.up = @ \ {b}, !.end = "permanent"]
  /\ ServerOnly /\ UNCHANGED <<committed, faults>>

\* The call ends otherwise, and the last responses may be lost.  A permanent
\* status that is no refusal can only be the handshake's.
CallEnds(status, kept) ==
  /\ call.hello # "none" /\ call.end = "none" /\ Fault
  /\ status = "permanent" => call.hello = "sent"
  /\ \A b \in kept, c \in call.down : c < b => c \in kept
  /\ call' = [call EXCEPT !.end = status, !.down = kept]
  /\ ServerOnly /\ UNCHANGED committed

-----------------------------------------------------------------------------

Worker == \/ CredentialsArrive \/ StaleCredentialsArrive \/ BackoffTimer
          \/ HealthTimer \/ IdleTimer
          \/ OnHandshakeComplete \/ OnMutationResult \/ ReadFails

Server == ServerShakesHands \/ \E b \in Batches : ServerCommits(b) \/ ServerRefuses(b)

Faults == \/ CredentialsFail \/ OnGarbledResponse \/ WriteFails
          \/ DisableNetwork \/ RestartNetwork \/ Crash
          \/ \E status \in Statuses, kept \in SUBSET call.down :
               CallEnds(status, kept)

Next == WriteMutations \/ Worker \/ Server \/ Faults \/ EnableNetwork

Spec == Init /\ [][Next]_vars

\* Timers elapse, credentials and responses arrive and the server answers; a
\* call that ended fails its next read.  Nothing obliges users or faults.
FairSpec ==
  /\ Spec
  /\ WF_vars(CredentialsArrive) /\ WF_vars(BackoffTimer)
  /\ WF_vars(OnHandshakeComplete) /\ WF_vars(OnMutationResult)
  /\ WF_vars(ReadFails) /\ WF_vars(Server)
=============================================================================
