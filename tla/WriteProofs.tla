---------------------------- MODULE WriteProofs ----------------------------
(***************************************************************************)
(* The write path keeps its assertions and its promise (WriteLedger), for  *)
(* any number of writes, faults and refusals and any size of the pipeline. *)
(*                                                                         *)
(* The inductive invariant has four parts: the pipeline is the head of the *)
(* local queue (QueueOK); timers and credentials belong to the state the   *)
(* stream is in (StreamOK); the call exists while the stream is open, its  *)
(* responses are the pipeline's first batches, and together with the       *)
(* requests they are the pipeline (CallOK); the stream runs while it is    *)
(* needed, unless an assertion has ended the process, and may become idle  *)
(* only with an empty pipeline (NeedOK).  Whether an assertion has failed  *)
(* is kept apart: only the status OK of a call makes one fail.             *)
(***************************************************************************)
EXTENDS WriteProperties, FiniteSetTheorems, NaturalsInduction,
        WellFoundedInduction, TLAPS

QueueOK(m, p, n) ==
  /\ m \subseteq 1..n /\ p \subseteq m
  /\ \A b \in p, c \in m : c < b => c \in p

StreamOK(s) ==
  /\ s \in Streams
  /\ "current" \in s.creds => s.state = "Starting"
  /\ "backoff" \in s.timers => s.state = "Backoff"
  /\ "idle" \in s.timers => IsOpen(s)

CallOK(p, s, c, h, cm) ==
  /\ c \in Calls /\ c.end \in Statuses \cup {"none", "permanent"}
  /\ ~IsOpen(s) => c = NoCall
  /\ IsOpen(s) => c.hello # "none"
  /\ h = "complete" <=> c.hello = "read"
  /\ c.hello # "read" => c.up = {} /\ c.down = {}
  /\ c.up \subseteq p /\ c.down \subseteq p /\ c.down \subseteq cm
  /\ c.up \cap c.down = {}
  /\ \A b \in c.down, d \in p : d < b => d \in c.down
  /\ c.hello = "read" /\ c.end = "none" => p = c.up \cup c.down

NeedOK(p, s, h, net) ==
  /\ "idle" \in s.timers => p = {} /\ h = "complete"
  /\ IsStarted(s) /\ h = "incomplete" => p # {}
  /\ net = "enabled" /\ p # {} /\ s.asserts = "hold" => IsStarted(s)

HeadOK(m, p, net) == net = "enabled" /\ m # {} => p # {}

IInv ==
  /\ made \in Nat /\ faults \in Nat
  /\ network \in {"enabled", "disabled"}
  /\ handshake \in {"incomplete", "complete"}
  /\ committed \subseteq 1..made
  /\ acked \subseteq 1..made /\ rejected \subseteq 1..made
  /\ QueueOK(mutations, pipeline, made)
  /\ StreamOK(stream)
  /\ CallOK(pipeline, stream, call, handshake, committed)
  /\ NeedOK(pipeline, stream, handshake, network)
  /\ HeadOK(mutations, pipeline, network)

NoOk == "ok" \notin Statuses

\* No assertion fails in this step.
SameAsserts == stream'.asserts = stream.asserts

-----------------------------------------------------------------------------

\* What FillWritePipeline takes over continues the pipeline without a gap.
LEMMA NextContinue ==
  ASSUME NEW m, NEW p, NEW n \in Nat, NEW net, QueueOK(m, p, n)
  PROVE  /\ QueueOK(m, p \cup NextBatches(m, p, net), n)
         /\ \A b \in NextBatches(m, p, net), c \in p : c < b
<1> DEFINE later == {b \in m : \A c \in p : c < b}
           upTo(b) == {c \in later : c <= b}
           added == NextBatches(m, p, net)
<1>1. m \subseteq Nat /\ p \subseteq m
  BY 1..n \subseteq Nat DEF QueueOK
<1>2. IsFiniteSet(1..n)
  BY FS_Interval, 1 \in Int, n \in Int
<1>3. IsFiniteSet(m)
  BY <1>2, FS_Subset DEF QueueOK
<1>4. added \subseteq later
  BY DEF NextBatches
<1>5. ASSUME NEW b \in added, NEW c \in m, c < b, c \notin p
      PROVE  c \in added
  <2>1. \A d \in p : d < c
    BY <1>1, <1>5 DEF QueueOK
  <2>2. c \in later /\ b \in later
    BY <2>1, <1>4, <1>5
  <2>3. upTo(c) \subseteq upTo(b) /\ upTo(b) \subseteq m
    <3>1. ASSUME NEW d \in upTo(c) PROVE d \in upTo(b)
      <4>1. d \in m /\ d <= c /\ c < b /\ d \in later
        BY <1>5
      <4>2. d \in Nat /\ c \in Nat /\ b \in Nat
        BY <4>1, <1>1, <1>4
      <4> QED BY <4>1, <4>2
    <3> QED BY <3>1
  <2>4. IsFiniteSet(upTo(b))
    BY <2>3, <1>3, FS_Subset
  <2>5. IsFiniteSet(upTo(c)) /\ Cardinality(upTo(c)) <= Cardinality(upTo(b))
    BY <2>3, <2>4, FS_Subset
  <2>6. Cardinality(upTo(b)) \in Nat /\ Cardinality(upTo(c)) \in Nat
    BY <2>4, <2>5, FS_CardinalityType
  <2>7. Cardinality(p) \in Nat
    BY <1>1, <1>3, FS_Subset, FS_CardinalityType
  <2>8. net = "enabled" /\ Cardinality(p) + Cardinality(upTo(b)) <= kMaxPendingWrites
    BY <1>5 DEF NextBatches
  <2>9. Cardinality(p) + Cardinality(upTo(c)) <= kMaxPendingWrites
    BY <2>5, <2>6, <2>7, <2>8, PipelineAssumption
  <2> QED BY <2>2, <2>8, <2>9 DEF NextBatches
<1>6. \A b \in added, c \in p : c < b
  BY <1>4
<1>7. p \cup added \subseteq m
  BY <1>1, <1>4
<1>8. ASSUME NEW b \in p \cup added, NEW c \in m, c < b
      PROVE  c \in p \cup added
  BY <1>5, <1>8 DEF QueueOK
<1> QED BY <1>6, <1>7, <1>8 DEF QueueOK

\* A set of batches that is not empty has a front.
LEMMA FrontExists ==
  ASSUME NEW S \in SUBSET Nat, S # {}
  PROVE  First(S) # {}
<1> DEFINE R == OpToRel(<, Nat)
<1>1. PICK b \in S : \A c \in S : ~(<<c, b>> \in R)
  BY NatLessThanWellFounded, WFMin
<1>2. \A c \in S : c < b => <<c, b>> \in R
  BY DEF OpToRel
<1> HIDE DEF R
<1>3. ASSUME NEW c \in S PROVE b <= c
  <2>1. ~(c < b) /\ b \in Nat /\ c \in Nat
    BY <1>1, <1>2
  <2> QED BY <2>1
<1> QED BY <1>3 DEF First

\* From an empty pipeline FillWritePipeline takes over the front of the queue.
LEMMA NextTakesFront ==
  ASSUME NEW m, NEW p, NEW n \in Nat, NEW net, QueueOK(m, p, n),
         net = "enabled", m # {}
  PROVE  p \cup NextBatches(m, p, net) # {}
<1> SUFFICES ASSUME p = {} PROVE NextBatches(m, p, net) # {}
  OBVIOUS
<1>1. m \subseteq Nat
  BY 1..n \subseteq Nat DEF QueueOK
<1>2. PICK b \in First(m) : TRUE
  BY <1>1, FrontExists
<1> DEFINE later == {d \in m : \A c \in p : c < d}
<1>3. {c \in later : c <= b} = {b}
  <2>1. ASSUME NEW c \in m, c <= b PROVE c = b
    BY <2>1, <1>1, <1>2 DEF First
  <2> QED BY <2>1, <1>1, <1>2 DEF First
<1>4. Cardinality({}) = 0 /\ Cardinality({b}) = 1
  BY FS_EmptySet, FS_Singleton
<1>5. Cardinality(p) + Cardinality({c \in later : c <= b}) <= kMaxPendingWrites
  BY <1>3, <1>4, PipelineAssumption
<1>6. b \in m
  BY <1>2 DEF First
<1> QED BY <1>5, <1>6 DEF NextBatches

-----------------------------------------------------------------------------
(* The methods of Stream *)

LEMMA WriteKeeps ==
  ASSUME NEW s, StreamOK(s), IsOpen(s)
  PROVE  /\ StreamOK(Write(s))
         /\ Write(s).state = s.state /\ Write(s).timers = s.timers \ {"idle"}
         /\ Write(s).asserts = s.asserts
<1>1. Write(s) = [s EXCEPT !.timers = @ \ {"idle"}]
  BY DEF Write, HardAssert
<1> QED BY <1>1 DEF StreamOK, Streams

LEMMA MarkIdleKeeps ==
  ASSUME NEW s, StreamOK(s)
  PROVE  /\ StreamOK(MarkIdle(s)) /\ MarkIdle(s).state = s.state
         /\ MarkIdle(s).asserts = s.asserts
<1>1. CASE IsOpen(s)
  <2>1. MarkIdle(s) = [s EXCEPT !.timers = @ \cup {"idle"}]
    BY <1>1 DEF MarkIdle
  <2>2. /\ MarkIdle(s).state = s.state /\ MarkIdle(s).creds = s.creds
        /\ MarkIdle(s).timers = s.timers \cup {"idle"}
        /\ MarkIdle(s).asserts = s.asserts /\ MarkIdle(s) \in Streams
    BY <2>1 DEF StreamOK, Streams
  <2> QED BY <2>2, <1>1 DEF StreamOK, IsOpen
<1>2. CASE ~IsOpen(s)
  BY <1>2 DEF MarkIdle
<1> QED BY <1>1, <1>2

LEMMA StartKeeps ==
  ASSUME NEW s, StreamOK(s), ~IsStarted(s)
  PROVE  /\ StreamOK(Start(s)) /\ IsStarted(Start(s)) /\ ~IsOpen(Start(s))
         /\ "idle" \notin Start(s).timers /\ Start(s).asserts = s.asserts
<1>1. CASE s.state = "Error"
  <2>1. Start(s) = [s EXCEPT !.state = "Backoff", !.timers = @ \cup {"backoff"}]
    BY <1>1 DEF Start
  <2>2. /\ Start(s).state = "Backoff" /\ Start(s).timers = s.timers \cup {"backoff"}
        /\ Start(s).creds = s.creds /\ Start(s).asserts = s.asserts
    BY <2>1 DEF StreamOK, Streams
  <2>3. Start(s) \in Streams
    BY <2>1 DEF StreamOK, Streams, States
  <2>4. "current" \notin s.creds /\ "idle" \notin s.timers
    BY <1>1 DEF StreamOK, IsOpen
  <2> QED BY <2>2, <2>3, <2>4 DEF StreamOK, IsStarted, IsOpen
<1>2. CASE s.state # "Error"
  <2>1. s.state = "Initial"
    BY <1>2 DEF StreamOK, Streams, IsStarted, IsOpen, States
  <2>2. Start(s) = [s EXCEPT !.state = "Starting", !.creds = @ \cup {"current"}]
    BY <1>2, <2>1 DEF Start, HardAssert
  <2>3. /\ Start(s).state = "Starting" /\ Start(s).timers = s.timers
        /\ Start(s).asserts = s.asserts
    BY <2>2 DEF StreamOK, Streams
  <2>4. Start(s) \in Streams
    BY <2>2 DEF StreamOK, Streams, States
  <2>5. "backoff" \notin s.timers /\ "idle" \notin s.timers
    BY <2>1 DEF StreamOK, IsOpen
  <2> QED BY <2>3, <2>4, <2>5 DEF StreamOK, IsStarted, IsOpen
<1> QED BY <1>1, <1>2

LEMMA CloseKeeps ==
  ASSUME NEW s, StreamOK(s), IsStarted(s), NEW graceful \in BOOLEAN
  PROVE  /\ StreamOK(Close(s, graceful))
         /\ Close(s, graceful).timers = {} /\ Close(s, graceful).asserts = s.asserts
         /\ Close(s, graceful).state = IF graceful THEN "Initial" ELSE "Error"
<1> DEFINE t == IF graceful THEN "Initial" ELSE "Error"
           r == IF s.creds = {} THEN {} ELSE {"stale"}
<1>1. Close(s, graceful) = [s EXCEPT !.state = t, !.timers = {}, !.creds = r]
  BY DEF Close, HardAssert
<1>2. t \in States /\ r \in SUBSET {"current", "stale"} /\ "current" \notin r
  BY DEF States
<1> HIDE DEF t, r
<1> QED BY <1>1, <1>2 DEF StreamOK, Streams, t

LEMMA InhibitKeeps ==
  ASSUME NEW s, StreamOK(s), ~IsStarted(s)
  PROVE  /\ StreamOK(InhibitBackoff(s)) /\ ~IsStarted(InhibitBackoff(s))
         /\ InhibitBackoff(s).asserts = s.asserts
<1>1. InhibitBackoff(s) = [s EXCEPT !.state = "Initial"]
  BY DEF InhibitBackoff, HardAssert
<1>2. /\ InhibitBackoff(s).state = "Initial" /\ InhibitBackoff(s).creds = s.creds
      /\ InhibitBackoff(s).timers = s.timers
      /\ InhibitBackoff(s).asserts = s.asserts /\ InhibitBackoff(s) \in Streams
  BY <1>1 DEF StreamOK, Streams, States
<1>3. "current" \notin s.creds /\ "backoff" \notin s.timers /\ "idle" \notin s.timers
  BY DEF StreamOK, IsStarted
<1> QED BY <1>2, <1>3 DEF StreamOK, IsStarted, IsOpen

\* A stream may be stopped when the network is off or nothing is in the pipeline.
LEMMA StoppedKeeps ==
  ASSUME NEW s, NEW net, StreamOK(s), net = "enabled" => pipeline = {}
  PROVE  /\ StreamOK(Stopped(s, net)) /\ ~IsStarted(Stopped(s, net))
         /\ Stopped(s, net).asserts = s.asserts
<1>1. CASE ~IsStarted(s)
  BY <1>1 DEF Stopped
<1>2. CASE IsStarted(s)
  <2>1. Stopped(s, net) = Close(s, TRUE)
    BY <1>2 DEF Stopped, HardAssert, ShouldStartWriteStream
  <2>2. /\ StreamOK(Close(s, TRUE)) /\ Close(s, TRUE).state = "Initial"
        /\ Close(s, TRUE).asserts = s.asserts
    BY <1>2, CloseKeeps
  <2> QED BY <2>1, <2>2 DEF IsStarted, IsOpen
<1> QED BY <1>1, <1>2

\* Stopped while it is needed, it fails an assertion; it is stopped all the same.
LEMMA StoppedAnyway ==
  ASSUME NEW s, NEW net, StreamOK(s), IsStarted(s)
  PROVE  /\ StreamOK(Stopped(s, net)) /\ ~IsStarted(Stopped(s, net))
         /\ Stopped(s, net).asserts = "hold" => net # "enabled" \/ pipeline = {}
<1> DEFINE e == Close(s, TRUE)
<1>1. StreamOK(e) /\ ~IsStarted(e)
  <2>1. StreamOK(e) /\ e.state = "Initial"
    BY CloseKeeps
  <2> QED BY <2>1 DEF IsStarted, IsOpen
<1>2. Stopped(s, net) = HardAssert(~ShouldStartWriteStream(pipeline, e, net), e)
  BY DEF Stopped
<1> HIDE DEF e
<1>3. CASE ShouldStartWriteStream(pipeline, e, net)
  <2>1. Stopped(s, net) = [e EXCEPT !.asserts = "failed"]
    BY <1>2, <1>3 DEF HardAssert
  <2>2. /\ Stopped(s, net).state = e.state /\ Stopped(s, net).creds = e.creds
        /\ Stopped(s, net).timers = e.timers
        /\ Stopped(s, net).asserts = "failed" /\ Stopped(s, net) \in Streams
    BY <1>1, <2>1 DEF StreamOK, Streams
  <2> QED BY <1>1, <2>2 DEF StreamOK, IsStarted, IsOpen
<1>4. CASE ~ShouldStartWriteStream(pipeline, e, net)
  BY <1>1, <1>2, <1>4 DEF HardAssert, ShouldStartWriteStream
<1> QED BY <1>3, <1>4

LEMMA PopKeeps ==
  ASSUME NEW m, NEW p, NEW n, QueueOK(m, p, n)
  PROVE  QueueOK(m \ First(p), p \ First(p), n)
BY DEF QueueOK, First

-----------------------------------------------------------------------------

\* FillWritePipeline keeps stream and call right, on an open stream as on a
\* stopped one, and leaves no idle timer with a batch nor a batch without a
\* stream.
LEMMA FillKeeps ==
  ASSUME NEW m, NEW p, NEW n \in Nat, NEW s, NEW c, NEW net, NEW h, NEW cm,
         QueueOK(m, p, n), StreamOK(s), CallOK(p, s, c, h, cm),
         IsOpen(s) => h = handshake,
         h \in {"incomplete", "complete"},
         "idle" \in s.timers => p = {} /\ h = "complete",
         IsStarted(s) /\ h = "incomplete" => p # {},
         FillWritePipeline(m, p, s, c, net)
  PROVE  /\ QueueOK(m, pipeline', n)
         /\ StreamOK(stream') /\ stream'.asserts = s.asserts
         /\ CallOK(pipeline', stream', call', h, cm)
         /\ NeedOK(pipeline', stream', h, net)
         /\ HeadOK(m, pipeline', net)
<1> DEFINE added == NextBatches(m, p, net)
           sends == added # {} /\ IsOpen(s) /\ handshake = "complete"
           filled == IF sends THEN Write(s)
                     ELSE IF net = "enabled" /\ p \cup added = {} THEN MarkIdle(s)
                     ELSE s
<1>1. /\ QueueOK(m, p \cup added, n)
      /\ \A b \in added, d \in p : d < b
  BY NextContinue
<1>2. pipeline' = p \cup added
  BY DEF FillWritePipeline
<1>3. call' = IF sends THEN [c EXCEPT !.up = @ \cup added] ELSE c
  BY DEF FillWritePipeline
<1>4. stream' = IF ShouldStartWriteStream(p \cup added, filled, net)
                THEN Start(filled) ELSE filled
  BY DEF FillWritePipeline
<1>5. /\ StreamOK(filled)
      /\ filled.state = s.state /\ filled.asserts = s.asserts
      /\ "idle" \in filled.timers => p \cup added = {} /\ h = "complete"
  <2>1. CASE sends
    BY <2>1, WriteKeeps
  <2>2. CASE ~sends /\ net = "enabled" /\ p \cup added = {}
    <3>1. filled = MarkIdle(s)
      BY <2>2
    <3>2. CASE IsOpen(s)
      BY <3>1, <3>2, <2>2, MarkIdleKeeps DEF IsStarted
    <3>3. CASE ~IsOpen(s)
      BY <3>1, <3>3, <2>2, MarkIdleKeeps DEF MarkIdle
    <3> QED BY <3>2, <3>3
  <2>3. CASE ~sends /\ ~(net = "enabled" /\ p \cup added = {})
    <3>1. filled = s
      BY <2>3
    <3>2. CASE "idle" \in s.timers
      <4>1. p = {} /\ h = "complete" /\ IsOpen(s)
        BY <3>2 DEF StreamOK
      <4>2. added = {}
        BY <4>1, <2>3
      <4> QED BY <3>1, <4>1, <4>2
    <3> QED BY <3>1, <3>2
  <2> QED BY <2>1, <2>2, <2>3
<1>6. IsOpen(filled) = IsOpen(s) /\ IsStarted(filled) = IsStarted(s)
  BY <1>5 DEF IsOpen, IsStarted
<1>7. CallOK(p \cup added, s, call', h, cm)
  <2>1. CASE sends
    <3>1. call' = [c EXCEPT !.up = @ \cup added]
      BY <1>3, <2>1
    <3>2. /\ call'.up = c.up \cup added /\ call'.down = c.down
          /\ call'.hello = c.hello /\ call'.end = c.end
      BY <3>1 DEF CallOK, Calls
    <3>3. added \subseteq Nat \ {0}
      BY <1>1, 1..n \subseteq Nat \ {0} DEF QueueOK
    <3>4. call' \in Calls
      BY <3>1, <3>3 DEF CallOK, Calls
    <3>5. c.hello = "read"
      BY <2>1 DEF CallOK
    <3>6. \A b \in c.down, d \in p \cup added : d < b => d \in c.down
      BY <1>1, 1..n \subseteq Nat DEF CallOK, QueueOK
    <3>7. added \cap p = {}
      <4>1. p \subseteq Nat
        BY 1..n \subseteq Nat DEF QueueOK
      <4>2. \A b \in p : ~(b < b)
        BY <4>1
      <4> HIDE DEF added
      <4> QED BY <1>1, <4>2
    <3>8. call'.up \cap call'.down = {}
      BY <3>2, <3>7 DEF CallOK
    <3> QED BY <3>2, <3>4, <3>5, <3>6, <3>8, <2>1 DEF CallOK
  <2>2. CASE ~sends
    <3>1. call' = c
      BY <1>3, <2>2
    <3>2. \A b \in c.down, d \in p \cup added : d < b => d \in c.down
      BY <1>1, 1..n \subseteq Nat DEF CallOK, QueueOK
    <3>3. c.hello = "read" => added = {}
      BY <2>2 DEF CallOK, NoCall
    <3> QED BY <3>1, <3>2, <3>3 DEF CallOK
  <2> QED BY <2>1, <2>2
<1>7a. HeadOK(m, p \cup added, net)
  BY NextTakesFront DEF HeadOK
<1>8. CASE ShouldStartWriteStream(p \cup added, filled, net)
  <2>1. stream' = Start(filled) /\ ~IsStarted(filled) /\ p \cup added # {}
    BY <1>4, <1>8 DEF ShouldStartWriteStream
  <2>2. /\ StreamOK(stream') /\ IsStarted(stream') /\ ~IsOpen(stream')
        /\ "idle" \notin stream'.timers /\ stream'.asserts = s.asserts
    BY <1>5, <2>1, StartKeeps
  <2>3. ~IsOpen(s)
    BY <1>6, <2>1 DEF IsStarted
  <2>4. CallOK(p \cup added, stream', call', h, cm)
    BY <1>7, <2>2, <2>3 DEF CallOK
  <2> QED BY <1>1, <1>2, <1>7a, <2>1, <2>2, <2>4 DEF NeedOK
<1>9. CASE ~ShouldStartWriteStream(p \cup added, filled, net)
  <2>1. stream' = filled
    BY <1>4, <1>9
  <2>2. CallOK(p \cup added, filled, call', h, cm)
    BY <1>6, <1>7 DEF CallOK
  <2>3. NeedOK(p \cup added, filled, h, net)
    BY <1>5, <1>6, <1>9 DEF NeedOK, ShouldStartWriteStream
  <2> QED BY <1>1, <1>2, <1>5, <1>7a, <2>1, <2>2, <2>3
<1> QED BY <1>8, <1>9

\* The end of a call, whatever it ends with, leaves the front batch out of the
\* pipeline at most and starts the stream again if it is still needed.
LEMMA FinishKeeps ==
  ASSUME IInv, NEW s, NEW status, StreamOK(s), IsStarted(s), status # "ok",
         OnStreamFinish(s, status), UNCHANGED faults \/ Fault
  PROVE  IInv' /\ stream'.asserts = s.asserts
<1> DEFINE e == Close(s, FALSE)
<1>1. /\ StreamOK(e) /\ ~IsStarted(e) /\ ~IsOpen(e) /\ e.timers = {}
      /\ e.asserts = s.asserts
  <2>1. StreamOK(e) /\ e.timers = {} /\ e.state = "Error" /\ e.asserts = s.asserts
    BY CloseKeeps
  <2> QED BY <2>1 DEF IsStarted, IsOpen
<1>2. /\ handshake' = "incomplete" /\ made' = made /\ network' = network
      /\ committed' = committed /\ acked' = acked /\ faults' \in Nat
  BY DEF OnStreamFinish, ResetHandshake, IInv, Fault
<1>3. NoCall \in Calls
  BY DEF NoCall, Calls
<1>4. CASE BlamesFront(status)
  <2> DEFINE p == pipeline \ First(pipeline)
             m == mutations \ First(pipeline)
             i == InhibitBackoff(e)
  <2>1. QueueOK(m, p, made)
    BY PopKeeps DEF IInv
  <2>2. StreamOK(i) /\ ~IsStarted(i) /\ i.asserts = s.asserts
    BY <1>1, InhibitKeeps
  <2>3. CallOK(p, i, NoCall, "incomplete", committed)
    BY <2>2, <1>3 DEF CallOK, NoCall, IsStarted
  <2>4. /\ rejected' = rejected \cup First(pipeline) /\ mutations' = m
        /\ FillWritePipeline(m, p, i, NoCall, network)
    BY <1>4 DEF OnStreamFinish, RejectFront
  <2>5. ~IsOpen(i) /\ "idle" \notin i.timers /\ made \in Nat
    BY <2>2 DEF IsStarted, StreamOK, IInv
  <2>6. /\ QueueOK(m, pipeline', made) /\ StreamOK(stream')
        /\ CallOK(pipeline', stream', call', "incomplete", committed)
        /\ NeedOK(pipeline', stream', "incomplete", network)
        /\ HeadOK(m, pipeline', network) /\ stream'.asserts = s.asserts
    BY <2>1, <2>2, <2>3, <2>4, <2>5, FillKeeps
  <2>7. rejected' \subseteq 1..made
    BY <2>4 DEF First, IInv, QueueOK
  <2> QED BY <1>2, <2>4, <2>6, <2>7 DEF IInv
<1>5. CASE ~BlamesFront(status)
  <2>1. /\ call' = NoCall /\ mutations' = mutations /\ pipeline' = pipeline
        /\ rejected' = rejected
        /\ stream' = IF ShouldStartWriteStream(pipeline, e, network)
                     THEN Start(e) ELSE e
    BY <1>5 DEF OnStreamFinish
  <2>2. CASE ShouldStartWriteStream(pipeline, e, network)
    <3>1. /\ StreamOK(stream') /\ IsStarted(stream') /\ ~IsOpen(stream')
          /\ "idle" \notin stream'.timers /\ pipeline # {}
          /\ stream'.asserts = s.asserts
      BY <1>1, <2>1, <2>2, StartKeeps DEF ShouldStartWriteStream
    <3>2. CallOK(pipeline', stream', call', handshake', committed')
      BY <1>2, <1>3, <2>1, <3>1 DEF CallOK, NoCall
    <3>3. NeedOK(pipeline', stream', handshake', network')
      BY <2>1, <3>1 DEF NeedOK
    <3> QED BY <1>2, <2>1, <3>1, <3>2, <3>3 DEF IInv
  <2>3. CASE ~ShouldStartWriteStream(pipeline, e, network)
    <3>1. CallOK(pipeline', stream', call', handshake', committed')
      BY <1>1, <1>2, <1>3, <2>1, <2>3 DEF CallOK, NoCall
    <3>2. NeedOK(pipeline', stream', handshake', network')
      BY <1>1, <1>2, <2>1, <2>3 DEF NeedOK, ShouldStartWriteStream
    <3> QED BY <1>1, <1>2, <2>1, <2>3, <3>1, <3>2 DEF IInv
  <2> QED BY <2>2, <2>3
<1> QED BY <1>4, <1>5

\* A call that the server ends with OK stops the stream, needed or not.
LEMMA FinishOkKeeps ==
  ASSUME IInv, NEW s, StreamOK(s), IsStarted(s), OnStreamFinish(s, "ok"),
         UNCHANGED faults
  PROVE  IInv'
<1>1. /\ handshake' = "incomplete" /\ call' = NoCall
      /\ stream' = Stopped(s, network)
      /\ UNCHANGED <<made, mutations, network, pipeline, committed, acked, rejected>>
  BY DEF OnStreamFinish, ResetHandshake, BlamesFront
<1>2. /\ StreamOK(stream') /\ ~IsStarted(stream')
      /\ stream'.asserts = "hold" => network # "enabled" \/ pipeline = {}
  BY <1>1, StoppedAnyway
<1>3. CallOK(pipeline', stream', call', handshake', committed')
  BY <1>1, <1>2 DEF CallOK, NoCall, Calls, IsStarted
<1>4. NeedOK(pipeline', stream', handshake', network')
  BY <1>1, <1>2 DEF NeedOK, StreamOK, IsStarted
<1> QED BY <1>1, <1>2, <1>3, <1>4 DEF IInv

\* A restart, from a stopped stream or a new one, takes the pipeline from the
\* local queue again.
LEMMA RestartKeeps ==
  ASSUME IInv, NEW s, StreamOK(s), ~IsStarted(s), Restart(s), Fault
  PROVE  IInv' /\ stream'.asserts = s.asserts
<1>1. /\ handshake' = "incomplete" /\ network' = "enabled"
      /\ FillWritePipeline(mutations, {}, s, NoCall, "enabled")
      /\ UNCHANGED <<made, mutations, committed, acked, rejected>>
      /\ faults' \in Nat
  BY DEF Restart, ResetHandshake, Fault, IInv
<1>2. QueueOK(mutations, {}, made)
  BY DEF IInv, QueueOK
<1>3. CallOK({}, s, NoCall, "incomplete", committed)
  BY DEF CallOK, NoCall, Calls, IsStarted
<1>4. ~IsOpen(s) /\ "idle" \notin s.timers /\ made \in Nat
  BY DEF IsStarted, StreamOK, IInv
<1>5. /\ QueueOK(mutations, pipeline', made) /\ StreamOK(stream')
      /\ CallOK(pipeline', stream', call', "incomplete", committed)
      /\ NeedOK(pipeline', stream', "incomplete", "enabled")
      /\ HeadOK(mutations, pipeline', "enabled") /\ stream'.asserts = s.asserts
  BY <1>1, <1>2, <1>3, <1>4, FillKeeps
<1> QED BY <1>1, <1>5 DEF IInv

-----------------------------------------------------------------------------
(* The responses *)

\* After a response the rest of the call is still right for the pipeline
\* without its front, which is the batch the response was about.
LEMMA ResultIsFronts ==
  ASSUME IInv, handshake = "complete", NEW c \in AfterRead
  PROVE  /\ IsOpen(stream) /\ pipeline # {}
         /\ \E b \in pipeline : First(pipeline) = {b} /\ b \in committed
         /\ CallOK(pipeline \ First(pipeline), stream, c, "complete", committed)
<1>1. call.hello = "read" /\ IsOpen(stream)
  BY DEF IInv, CallOK, NoCall
<1>2. PICK b \in First(call.down) : c = [call EXCEPT !.down = @ \ {b}]
  BY <1>1 DEF AfterRead
<1>3. /\ b \in call.down /\ b \in pipeline /\ b \in committed /\ b \in Nat
      /\ \A d \in call.down : b <= d
  BY <1>2 DEF First, IInv, CallOK, Calls
<1>4. pipeline \subseteq Nat
  BY 1..made \subseteq Nat DEF IInv, QueueOK
<1>5. \A d \in pipeline : b <= d
  BY <1>3, <1>4 DEF IInv, CallOK
<1>6. First(pipeline) = {b}
  <2>1. b \in First(pipeline)
    BY <1>3, <1>5 DEF First
  <2>2. ASSUME NEW x \in First(pipeline) PROVE x = b
    BY <2>2, <1>3, <1>4, <1>5 DEF First
  <2> QED BY <2>1, <2>2
<1>7. /\ c \in Calls /\ c.hello = "read" /\ c.up = call.up
      /\ c.down = call.down \ {b} /\ c.end = call.end
  BY <1>1, <1>2 DEF IInv, CallOK, Calls
<1>8. b \notin call.up
  BY <1>3 DEF IInv, CallOK
<1>9. CallOK(pipeline \ {b}, stream, c, "complete", committed)
  BY <1>1, <1>3, <1>7, <1>8 DEF IInv, CallOK
<1> QED BY <1>1, <1>3, <1>6, <1>9

LEMMA OnHandshakeCompleteKeeps ==
  ASSUME IInv, OnHandshakeComplete
  PROVE  IInv' /\ SameAsserts
<1>1. PICK c \in AfterRead : call' = [c EXCEPT !.up = @ \cup pipeline]
  BY DEF OnHandshakeComplete
<1>2. /\ handshake = "incomplete" /\ handshake' = "complete"
      /\ stream' = IF pipeline = {} THEN stream ELSE Write(stream)
      /\ StreamOnly
  BY DEF OnHandshakeComplete
<1>3. call.hello # "read" /\ call.up = {} /\ call.down = {}
  BY <1>2 DEF IInv, CallOK
<1>4. call.hello = "answered" /\ c = [call EXCEPT !.hello = "read"]
  BY <1>3 DEF AfterRead, First
<1>5. IsOpen(stream) /\ IsStarted(stream) /\ pipeline # {}
  BY <1>2, <1>4 DEF IInv, CallOK, NoCall, IsStarted, NeedOK
<1>6. /\ StreamOK(stream') /\ stream'.state = stream.state
      /\ "idle" \notin stream'.timers
  BY <1>2, <1>5, WriteKeeps DEF IInv
<1>7. pipeline \subseteq Nat \ {0}
  BY 1..made \subseteq Nat \ {0} DEF IInv, QueueOK
<1>8. /\ c.hello = "read" /\ c.up = {} /\ c.down = {} /\ c.end = call.end
      /\ c \in Calls
  BY <1>3, <1>4 DEF IInv, CallOK, Calls
<1>9. /\ call'.hello = "read" /\ call'.up = pipeline /\ call'.down = {}
      /\ call' \in Calls /\ call'.end = call.end
  BY <1>1, <1>7, <1>8 DEF Calls
<1>10. CallOK(pipeline, stream', call', "complete", committed)
  <2>1. call'.end \in Statuses \cup {"none", "permanent"}
    <3>1. call.end \in Statuses \cup {"none", "permanent"}
      BY DEF IInv, CallOK
    <3> QED BY <1>9, <3>1
  <2> QED BY <2>1, <1>5, <1>6, <1>9 DEF CallOK, IsOpen
<1>11. NeedOK(pipeline, stream', "complete", network)
  BY <1>5, <1>6 DEF NeedOK, IsStarted, IsOpen
<1>12. SameAsserts
  BY <1>2, <1>5, WriteKeeps DEF SameAsserts, IInv
<1> QED BY <1>2, <1>6, <1>10, <1>11, <1>12 DEF IInv, StreamOnly

LEMMA OnMutationResultKeeps ==
  ASSUME IInv, OnMutationResult
  PROVE  IInv' /\ SameAsserts
<1> DEFINE p == pipeline \ First(pipeline)
           m == mutations \ First(pipeline)
           s == HardAssert(pipeline # {}, stream)
<1>1. PICK c \in AfterRead : FillWritePipeline(m, p, s, c, network)
  BY DEF OnMutationResult
<1>2. /\ handshake = "complete" /\ acked' = acked \cup First(pipeline)
      /\ mutations' = m
      /\ UNCHANGED <<made, network, handshake, committed, rejected, faults>>
  BY DEF OnMutationResult
<1>3. /\ IsOpen(stream) /\ pipeline # {}
      /\ CallOK(p, stream, c, "complete", committed)
  BY <1>2, ResultIsFronts
<1>4. s = stream
  BY <1>3 DEF HardAssert
<1>5. QueueOK(m, p, made) /\ made \in Nat /\ StreamOK(stream)
  BY PopKeeps DEF IInv
<1>6. "idle" \in stream.timers => p = {}
  BY DEF IInv, NeedOK
<1>7. /\ QueueOK(m, pipeline', made) /\ StreamOK(stream')
      /\ CallOK(pipeline', stream', call', "complete", committed)
      /\ NeedOK(pipeline', stream', "complete", network)
      /\ HeadOK(m, pipeline', network) /\ SameAsserts
  BY <1>1, <1>2, <1>3, <1>4, <1>5, <1>6, FillKeeps DEF SameAsserts
<1>8. acked' \subseteq 1..made
  BY <1>2 DEF First, IInv, QueueOK
<1> QED BY <1>2, <1>7, <1>8 DEF IInv

-----------------------------------------------------------------------------
(* The server *)

LEMMA ServerKeeps ==
  ASSUME IInv, Server \/ \E status \in Statuses, kept \in SUBSET call.down :
                           CallEnds(status, kept)
  PROVE  IInv' /\ SameAsserts
<1> USE DEF ServerOnly
<1>1. ASSUME ServerShakesHands PROVE IInv'
  <2>1. /\ call' = [call EXCEPT !.hello = "answered"] /\ call.hello = "sent"
        /\ UNCHANGED <<made, mutations, network, stream, handshake, pipeline,
                       acked, rejected, committed, faults>>
    BY <1>1 DEF ServerShakesHands
  <2>2. /\ call'.hello = "answered" /\ call'.up = call.up /\ call'.down = call.down
        /\ call'.end = call.end /\ call' \in Calls
    BY <2>1 DEF IInv, CallOK, Calls
  <2>3. IsOpen(stream)
    BY <2>1 DEF IInv, CallOK, NoCall
  <2>4. CallOK(pipeline, stream, call', handshake, committed)
    BY <2>1, <2>2, <2>3 DEF IInv, CallOK
  <2> QED BY <2>1, <2>4 DEF IInv
<1>2. ASSUME NEW b \in Batches, ServerCommits(b) PROVE IInv'
  <2>1. /\ call' = [call EXCEPT !.up = @ \ {b}, !.down = @ \cup {b}]
        /\ committed' = committed \cup {b} /\ b \in call.up /\ call.end = "none"
        /\ \A d \in call.up : b <= d
        /\ UNCHANGED <<made, mutations, network, stream, handshake, pipeline,
                       acked, rejected, faults>>
    BY <1>2 DEF ServerCommits, First
  <2>2. b \in Nat \ {0} /\ b \in pipeline /\ pipeline \subseteq 1..made
    BY <2>1 DEF IInv, CallOK, QueueOK, Calls
  <2>3. /\ call'.hello = call.hello /\ call'.up = call.up \ {b}
        /\ call'.down = call.down \cup {b}
        /\ call'.end = call.end /\ call' \in Calls
    BY <2>1, <2>2 DEF IInv, CallOK, Calls
  <2>4. call.hello = "read" /\ IsOpen(stream) /\ pipeline = call.up \cup call.down
    BY <2>1 DEF IInv, CallOK, NoCall
  <2>5. \A d \in pipeline : d < b => d \in call.down
    <3>1. \A d \in call.up : ~(d < b)
      BY <2>1, <2>2, <2>4, 1..made \subseteq Nat
    <3> QED BY <2>4, <3>1
  <2>6. CallOK(pipeline, stream, call', handshake, committed')
    BY <2>1, <2>2, <2>3, <2>4, <2>5 DEF IInv, CallOK
  <2>7. committed' \subseteq 1..made
    BY <2>1, <2>2 DEF IInv
  <2> QED BY <2>1, <2>6, <2>7 DEF IInv
<1>3. ASSUME NEW b \in Batches, ServerRefuses(b) PROVE IInv'
  <2>1. /\ call' = [call EXCEPT !.up = @ \ {b}, !.end = "permanent"]
        /\ b \in call.up
        /\ UNCHANGED <<made, mutations, network, stream, handshake, pipeline,
                       acked, rejected, committed, faults>>
    BY <1>3 DEF ServerRefuses, First
  <2>2. /\ call'.hello = call.hello /\ call'.up = call.up \ {b}
        /\ call'.down = call.down
        /\ call'.end = "permanent" /\ call' \in Calls
    BY <2>1 DEF IInv, CallOK, Calls
  <2>3. IsOpen(stream)
    BY <2>1 DEF IInv, CallOK, NoCall
  <2>4. CallOK(pipeline, stream, call', handshake, committed)
    BY <2>1, <2>2, <2>3 DEF IInv, CallOK
  <2> QED BY <2>1, <2>4 DEF IInv
<1>4. ASSUME NEW status \in Statuses, NEW kept \in SUBSET call.down,
             CallEnds(status, kept)
      PROVE  IInv'
  <2>1. /\ call' = [call EXCEPT !.end = status, !.down = kept]
        /\ call.hello # "none"
        /\ \A b \in kept, d \in call.down : d < b => d \in kept
        /\ UNCHANGED <<made, mutations, network, stream, handshake, pipeline,
                       acked, rejected, committed>>
        /\ Fault
    BY <1>4 DEF CallEnds
  <2>2. /\ call'.hello = call.hello /\ call'.up = call.up /\ call'.down = kept
        /\ call'.end = status /\ call' \in Calls
    BY <2>1, StatusAssumption DEF IInv, CallOK, Calls
  <2>3. IsOpen(stream)
    BY <2>1 DEF IInv, CallOK, NoCall
  <2>4. status # "none"
    BY StatusAssumption
  <2>5. \A b \in kept, d \in pipeline : d < b => d \in kept
    BY <2>1 DEF IInv, CallOK
  <2>6. CallOK(pipeline, stream, call', handshake, committed)
    BY <2>1, <2>2, <2>3, <2>4, <2>5 DEF IInv, CallOK
  <2>7. faults' \in Nat
    BY <2>1 DEF Fault, IInv
  <2> QED BY <2>1, <2>6, <2>7 DEF IInv
<1>5. SameAsserts
  BY DEF SameAsserts, Server, ServerShakesHands, ServerCommits, ServerRefuses, CallEnds
<1> QED BY <1>1, <1>2, <1>3, <1>4, <1>5 DEF Server

-----------------------------------------------------------------------------
(* The user, the timers, the credentials and the network switch *)

LEMMA WriteMutationsKeeps ==
  ASSUME IInv, WriteMutations
  PROVE  IInv' /\ SameAsserts
<1>1. /\ made' = made + 1 /\ mutations' = mutations \cup {made + 1}
      /\ FillWritePipeline(mutations', pipeline, stream, call, network)
      /\ UNCHANGED <<network, handshake, committed, acked, rejected, faults>>
  BY DEF WriteMutations
<1>2. made \in Nat /\ made' \in Nat /\ 1..made \subseteq 1..made'
  BY <1>1 DEF IInv
<1>3. QueueOK(mutations', pipeline, made')
  <2>1. mutations' \subseteq 1..made' /\ pipeline \subseteq mutations'
    BY <1>1, <1>2 DEF IInv, QueueOK
  <2>2. \A b \in pipeline : ~(made + 1 < b)
    BY <1>2 DEF IInv, QueueOK
  <2> QED BY <1>1, <2>1, <2>2 DEF IInv, QueueOK
<1>4. /\ QueueOK(mutations', pipeline', made') /\ StreamOK(stream')
      /\ CallOK(pipeline', stream', call', handshake, committed)
      /\ NeedOK(pipeline', stream', handshake, network)
      /\ HeadOK(mutations', pipeline', network) /\ SameAsserts
  <2>1. /\ StreamOK(stream) /\ CallOK(pipeline, stream, call, handshake, committed)
        /\ "idle" \in stream.timers => pipeline = {} /\ handshake = "complete"
        /\ IsStarted(stream) /\ handshake = "incomplete" => pipeline # {}
        /\ handshake \in {"incomplete", "complete"}
    BY DEF IInv, NeedOK
  <2> QED BY <1>1, <1>2, <1>3, <2>1, FillKeeps DEF SameAsserts
<1>5. committed' \subseteq 1..made' /\ acked' \subseteq 1..made'
      /\ rejected' \subseteq 1..made'
  BY <1>1, <1>2 DEF IInv
<1> QED BY <1>1, <1>2, <1>4, <1>5 DEF IInv

LEMMA EnableNetworkKeeps ==
  ASSUME IInv, EnableNetwork
  PROVE  IInv' /\ SameAsserts
<1>1. /\ network' = "enabled"
      /\ FillWritePipeline(mutations, pipeline, stream, call, "enabled")
      /\ UNCHANGED <<made, mutations, handshake, committed, acked, rejected>>
      /\ faults' \in Nat
  BY DEF EnableNetwork, IInv, Fault
<1>2. /\ StreamOK(stream) /\ CallOK(pipeline, stream, call, handshake, committed)
      /\ "idle" \in stream.timers => pipeline = {} /\ handshake = "complete"
      /\ IsStarted(stream) /\ handshake = "incomplete" => pipeline # {}
      /\ handshake \in {"incomplete", "complete"}
      /\ QueueOK(mutations, pipeline, made) /\ made \in Nat
  BY DEF IInv, NeedOK
<1>3. /\ QueueOK(mutations, pipeline', made) /\ StreamOK(stream')
      /\ CallOK(pipeline', stream', call', handshake, committed)
      /\ NeedOK(pipeline', stream', handshake, "enabled")
      /\ HeadOK(mutations, pipeline', "enabled") /\ SameAsserts
  BY <1>1, <1>2, FillKeeps DEF SameAsserts
<1> QED BY <1>1, <1>3 DEF IInv

LEMMA CredentialsArriveKeeps ==
  ASSUME IInv, CredentialsArrive
  PROVE  IInv' /\ SameAsserts
<1> DEFINE r == ResumeStartWithCredentials(stream)
<1>1. /\ "current" \in stream.creds
      /\ stream' = HardAssert(handshake = "incomplete", Write(r))
      /\ call' = [NoCall EXCEPT !.hello = "sent"]
      /\ UNCHANGED handshake /\ StreamOnly
  BY DEF CredentialsArrive
<1>2. stream.state = "Starting" /\ ~IsOpen(stream) /\ IsStarted(stream)
  BY <1>1 DEF IInv, StreamOK, IsOpen, IsStarted
<1>3. handshake = "incomplete" /\ pipeline # {}
  BY <1>2 DEF IInv, CallOK, NoCall, NeedOK
<1>4. r = [stream EXCEPT !.state = "Open", !.creds = @ \ {"current"},
                         !.timers = @ \cup {"health"}]
  BY <1>2 DEF ResumeStartWithCredentials, HardAssert
<1>5. /\ r.state = "Open" /\ r.timers = stream.timers \cup {"health"}
      /\ r.creds = stream.creds \ {"current"} /\ r.asserts = stream.asserts
      /\ r \in Streams
  <2>1. stream \in Streams
    BY DEF IInv, StreamOK
  <2>2. r.state = "Open" /\ r.asserts = stream.asserts
    BY <1>4, <2>1 DEF Streams
  <2>3. r.timers = stream.timers \cup {"health"} /\ r.creds = stream.creds \ {"current"}
    BY <1>4, <2>1 DEF Streams
  <2>4. r \in Streams
    BY <1>4, <2>1 DEF Streams, States
  <2> QED
    BY <2>2, <2>3, <2>4
<1>6. "backoff" \notin stream.timers /\ "idle" \notin stream.timers
  BY <1>2 DEF IInv, StreamOK
<1>7. StreamOK(r) /\ IsOpen(r)
  BY <1>5, <1>6 DEF IInv, StreamOK, IsOpen
<1>8. /\ stream' = Write(r) /\ StreamOK(stream') /\ stream'.state = "Open"
      /\ "idle" \notin stream'.timers /\ SameAsserts
  BY <1>1, <1>3, <1>5, <1>7, WriteKeeps DEF HardAssert, SameAsserts
<1>9. /\ call' \in Calls /\ call'.hello = "sent" /\ call'.up = {}
      /\ call'.down = {} /\ call'.end = "none"
  BY <1>1 DEF NoCall, Calls
<1>10. CallOK(pipeline, stream', call', handshake, committed)
  BY <1>3, <1>8, <1>9 DEF CallOK, IsOpen
<1>11. NeedOK(pipeline, stream', handshake, network)
  BY <1>3, <1>8 DEF NeedOK, IsStarted, IsOpen
<1> QED BY <1>1, <1>8, <1>10, <1>11 DEF IInv, StreamOnly

\* A timer, or credentials that came too late, change the stream alone.
LEMMA StreamAloneKeeps ==
  ASSUME IInv, UNCHANGED <<handshake, call>>, StreamOnly,
         StreamOK(stream'),
         IsOpen(stream') <=> IsOpen(stream),
         IsStarted(stream') <=> IsStarted(stream),
         stream'.timers \subseteq stream.timers, SameAsserts
  PROVE  IInv'
<1>1. CallOK(pipeline, stream', call', handshake', committed)
  BY DEF IInv, CallOK
<1>2. NeedOK(pipeline, stream', handshake', network)
  BY DEF IInv, NeedOK, StreamOnly, SameAsserts
<1> QED BY <1>1, <1>2 DEF IInv, StreamOnly

LEMMA TimersKeep ==
  ASSUME IInv, StaleCredentialsArrive \/ BackoffTimer \/ HealthTimer
  PROVE  IInv' /\ SameAsserts
<1>1. ASSUME StaleCredentialsArrive PROVE IInv' /\ SameAsserts
  <2>1. stream' = [stream EXCEPT !.creds = @ \ {"stale"}]
    BY <1>1 DEF StaleCredentialsArrive
  <2>2. /\ stream'.state = stream.state /\ stream'.timers = stream.timers
        /\ stream'.creds = stream.creds \ {"stale"}
        /\ stream'.asserts = stream.asserts /\ stream' \in Streams
    BY <2>1 DEF IInv, StreamOK, Streams
  <2>3. StreamOK(stream')
    BY <2>2 DEF IInv, StreamOK, IsOpen
  <2>4. UNCHANGED <<handshake, call>> /\ StreamOnly
    BY <1>1 DEF StaleCredentialsArrive
  <2> QED BY <2>2, <2>3, <2>4, StreamAloneKeeps DEF IsOpen, IsStarted, SameAsserts
<1>2. ASSUME BackoffTimer PROVE IInv' /\ SameAsserts
  <2> DEFINE i == [stream EXCEPT !.state = "Initial", !.timers = @ \ {"backoff"}]
  <2>1. stream.state = "Backoff" /\ "backoff" \in stream.timers
    BY <1>2 DEF BackoffTimer, IInv, StreamOK
  <2>2. /\ i.state = "Initial" /\ i.timers = stream.timers \ {"backoff"}
        /\ i.creds = stream.creds /\ i.asserts = stream.asserts /\ i \in Streams
    BY DEF IInv, StreamOK, Streams, States
  <2>3. "current" \notin stream.creds /\ "idle" \notin stream.timers
    BY <2>1 DEF IInv, StreamOK, IsOpen
  <2>4. StreamOK(i) /\ ~IsStarted(i)
    BY <2>2, <2>3 DEF IInv, StreamOK, IsStarted, IsOpen
  <2>5. stream' = Start(i)
    BY <1>2, <2>1 DEF BackoffTimer, BackoffElapses, HardAssert
  <2>6. Start(i) = [i EXCEPT !.state = "Starting", !.creds = @ \cup {"current"}]
    BY <2>2 DEF Start, HardAssert
  <2>7. Start(i).timers = i.timers
    BY <2>2, <2>6 DEF Streams
  <2> HIDE DEF i
  <2>8. /\ StreamOK(stream') /\ IsStarted(stream') /\ ~IsOpen(stream')
        /\ stream'.timers \subseteq stream.timers /\ SameAsserts
    BY <2>2, <2>4, <2>5, <2>7, StartKeeps DEF SameAsserts
  <2>9. IsStarted(stream) /\ ~IsOpen(stream)
    BY <2>1 DEF IsStarted, IsOpen
  <2>10. UNCHANGED <<handshake, call>> /\ StreamOnly
    BY <1>2 DEF BackoffTimer
  <2> QED BY <2>8, <2>9, <2>10, StreamAloneKeeps
<1>3. ASSUME HealthTimer PROVE IInv' /\ SameAsserts
  <2> DEFINE t == IF IsOpen(stream) THEN "Healthy" ELSE stream.state
  <2>1. stream' = [stream EXCEPT !.state = t, !.timers = @ \ {"health"}]
    BY <1>3 DEF HealthTimer, HealthCheck
  <2>2. t \in States
    BY DEF IInv, StreamOK, Streams, States
  <2>3. /\ stream'.state = t /\ stream'.timers = stream.timers \ {"health"}
        /\ stream'.creds = stream.creds
        /\ stream'.asserts = stream.asserts /\ stream' \in Streams
    <3> HIDE DEF t
    <3> QED BY <2>1, <2>2 DEF IInv, StreamOK, Streams
  <2>4. IsOpen(stream') = IsOpen(stream) /\ IsStarted(stream') = IsStarted(stream)
    BY <2>3 DEF IsOpen, IsStarted
  <2>5. StreamOK(stream')
    <3>1. t # stream.state => IsOpen(stream) /\ t = "Healthy"
      OBVIOUS
    <3> QED BY <2>3, <2>4, <3>1 DEF IInv, StreamOK, IsOpen
  <2>6. UNCHANGED <<handshake, call>> /\ StreamOnly
    BY <1>3 DEF HealthTimer
  <2> QED BY <2>3, <2>4, <2>5, <2>6, StreamAloneKeeps DEF SameAsserts
<1> QED BY <1>1, <1>2, <1>3

\* The stream is stopped: for want of work, or with the network.
LEMMA StopsKeep ==
  ASSUME IInv, IdleTimer \/ DisableNetwork
  PROVE  IInv' /\ SameAsserts
<1>1. ASSUME IdleTimer PROVE IInv' /\ SameAsserts
  <2>1. /\ "idle" \in stream.timers /\ stream' = Stopped(stream, network)
        /\ call' = NoCall /\ handshake' = "incomplete" /\ StreamOnly
    BY <1>1 DEF IdleTimer, ResetHandshake
  <2>2. pipeline = {}
    BY <2>1 DEF IInv, NeedOK
  <2>3. StreamOK(stream') /\ ~IsStarted(stream') /\ SameAsserts
    BY <2>1, <2>2, StoppedKeeps DEF IInv, SameAsserts
  <2>4. CallOK(pipeline, stream', call', handshake', committed)
    BY <2>1, <2>2, <2>3 DEF CallOK, NoCall, Calls, IsStarted
  <2>5. NeedOK(pipeline, stream', handshake', network)
    BY <2>2, <2>3 DEF NeedOK, StreamOK, IsStarted
  <2> QED BY <2>1, <2>3, <2>4, <2>5 DEF IInv, StreamOnly
<1>2. ASSUME DisableNetwork PROVE IInv' /\ SameAsserts
  <2>1. /\ network' = "disabled" /\ stream' = Stopped(stream, "disabled")
        /\ pipeline' = {} /\ call' = NoCall /\ handshake' = "incomplete"
        /\ UNCHANGED <<made, mutations, committed, acked, rejected>>
        /\ faults' \in Nat
    BY <1>2 DEF DisableNetwork, Disabled, ResetHandshake, Fault, IInv
  <2>2. StreamOK(stream') /\ ~IsStarted(stream') /\ SameAsserts
    BY <2>1, StoppedKeeps DEF IInv, SameAsserts
  <2>3. CallOK(pipeline', stream', call', handshake', committed)
    BY <2>1, <2>2 DEF CallOK, NoCall, Calls, IsStarted
  <2>4. NeedOK(pipeline', stream', handshake', network')
    BY <2>1, <2>2 DEF NeedOK, StreamOK, IsStarted
  <2>5. QueueOK(mutations, {}, made)
    BY DEF IInv, QueueOK
  <2> QED BY <2>1, <2>2, <2>3, <2>4, <2>5 DEF IInv, HeadOK
<1> QED BY <1>1, <1>2

\* The ways a stream ends.
LEMMA EndsKeep ==
  ASSUME IInv, CredentialsFail \/ OnGarbledResponse \/ ReadFails \/ WriteFails
  PROVE  IInv' /\ (NoOk => SameAsserts)
<1>1. ASSUME CredentialsFail PROVE IInv' /\ SameAsserts
  <2> DEFINE s == [stream EXCEPT !.creds = @ \ {"current"}]
  <2>1. "current" \in stream.creds /\ stream.state = "Starting"
    BY <1>1 DEF CredentialsFail, IInv, StreamOK
  <2>2. OnStreamFinish(s, "transient") /\ Fault
    BY <1>1, <2>1 DEF CredentialsFail, HardAssert
  <2>3. /\ s.state = stream.state /\ s.timers = stream.timers
        /\ s.creds = stream.creds \ {"current"}
        /\ s.asserts = stream.asserts /\ s \in Streams
    BY DEF IInv, StreamOK, Streams
  <2>4. StreamOK(s) /\ IsStarted(s)
    BY <2>1, <2>3 DEF IInv, StreamOK, IsOpen, IsStarted
  <2> HIDE DEF s
  <2> QED BY <2>2, <2>3, <2>4, FinishKeeps DEF SameAsserts
<1>2. AfterRead # {} => call.hello # "none"
  BY DEF AfterRead, First, IInv, CallOK
<1>3. call.end # "none" \/ call.hello # "none" => IsOpen(stream)
  BY DEF IInv, CallOK, NoCall
<1>4. StreamOK(stream) /\ (NoOk => call.end # "ok")
  BY DEF IInv, CallOK, NoOk
<1>5. ASSUME OnGarbledResponse PROVE IInv' /\ SameAsserts
  BY <1>2, <1>3, <1>4, <1>5, FinishKeeps
     DEF OnGarbledResponse, IsStarted, SameAsserts
<1>6. ASSUME ReadFails \/ WriteFails PROVE IInv' /\ (NoOk => SameAsserts)
  <2>1. /\ OnStreamFinish(stream, call.end) /\ UNCHANGED faults
        /\ IsStarted(stream)
    BY <1>3, <1>6 DEF ReadFails, WriteFails, IsStarted
  <2>2. CASE call.end = "ok"
    BY <1>4, <2>1, <2>2, FinishOkKeeps
  <2>3. CASE call.end # "ok"
    BY <1>4, <2>1, <2>3, FinishKeeps DEF SameAsserts
  <2> QED BY <2>2, <2>3
<1> QED BY <1>1, <1>5, <1>6

LEMMA RestartsKeep ==
  ASSUME IInv, RestartNetwork \/ Crash
  PROVE  IInv' /\ stream'.asserts \in {stream.asserts, "hold"}
<1>1. ASSUME RestartNetwork PROVE IInv' /\ SameAsserts
  <2> DEFINE s == InhibitBackoff(Stopped(stream, "disabled"))
  <2>1. StreamOK(s) /\ ~IsStarted(s) /\ s.asserts = stream.asserts
    BY StoppedKeeps, InhibitKeeps DEF IInv
  <2> QED BY <1>1, <2>1, RestartKeeps DEF RestartNetwork, SameAsserts
<1>2. ASSUME Crash PROVE IInv' /\ stream'.asserts = "hold"
  <2>1. StreamOK(NewStream) /\ ~IsStarted(NewStream) /\ NewStream.asserts = "hold"
    BY DEF NewStream, StreamOK, Streams, States, IsStarted, IsOpen
  <2> QED BY <1>2, <2>1, RestartKeeps DEF Crash
<1> QED BY <1>1, <1>2 DEF SameAsserts

-----------------------------------------------------------------------------

LEMMA InitInv ==
  ASSUME Init
  PROVE  IInv /\ AssertionsHold
<1>1. QueueOK(mutations, pipeline, made)
  BY DEF Init, QueueOK
<1>2. StreamOK(stream) /\ ~IsStarted(stream)
  BY DEF Init, NewStream, StreamOK, Streams, States, IsStarted, IsOpen
<1>3. CallOK(pipeline, stream, call, handshake, committed)
  BY <1>2 DEF Init, CallOK, NoCall, Calls, IsStarted
<1>4. NeedOK(pipeline, stream, handshake, network)
  BY <1>2 DEF Init, NeedOK, StreamOK, IsStarted
<1>5. AssertionsHold
  BY DEF Init, NewStream, AssertionsHold
<1> QED BY <1>1, <1>2, <1>3, <1>4, <1>5 DEF Init, IInv, HeadOK

LEMMA InvStep ==
  ASSUME IInv, [Next]_vars
  PROVE  IInv' /\ (NoOk => stream'.asserts \in {stream.asserts, "hold"})
<1> DEFINE Kept == IInv' /\ (NoOk => stream'.asserts \in {stream.asserts, "hold"})
<1> USE DEF SameAsserts
<1>1. ASSUME UNCHANGED vars PROVE Kept
  BY <1>1 DEF vars, IInv
<1>2. ASSUME WriteMutations \/ EnableNetwork PROVE Kept
  BY <1>2, WriteMutationsKeeps, EnableNetworkKeeps
<1>3. ASSUME Worker PROVE Kept
  BY <1>3, CredentialsArriveKeeps, TimersKeep, StopsKeep,
     OnHandshakeCompleteKeeps, OnMutationResultKeeps, EndsKeep DEF Worker
<1>4. ASSUME Server PROVE Kept
  BY <1>4, ServerKeeps
<1>5. ASSUME Faults PROVE Kept
  BY <1>5, EndsKeep, StopsKeep, RestartsKeep, ServerKeeps DEF Faults
<1> QED BY <1>1, <1>2, <1>3, <1>4, <1>5 DEF Next

\* The variables stay in their types, however many writes and faults there are.
THEOREM TypeCorrect == Spec => []TypeOK
<1>1. IInv /\ [Next]_vars => IInv'
  BY InvStep
<1>2. Init => IInv
  BY InitInv
<1>3. IInv => TypeOK
  BY 1..made \subseteq Nat \ {0}
     DEF IInv, TypeOK, QueueOK, StreamOK, CallOK
<1> QED BY <1>1, <1>2, <1>3, PTL DEF Spec

\* As long as the server ends no call with the status OK, no HARD_ASSERT of the
\* write path fails, for every stream, pipeline and history.
THEOREM AssertionsHoldAlways ==
  ASSUME NoOk
  PROVE  Spec => []AssertionsHold
<1>1. IInv /\ AssertionsHold /\ [Next]_vars => (IInv /\ AssertionsHold)'
  BY InvStep DEF AssertionsHold
<1>2. Init => IInv /\ AssertionsHold
  BY InitInv
<1> QED BY <1>1, <1>2, PTL DEF Spec

\* With the network on, the client is always at work on its first writes, until
\* an assertion ends it; whatever the server ends its calls with.
THEOREM UnderWayAlways == Spec => []WritesAreUnderWay
<1>1. IInv /\ [Next]_vars => IInv'
  BY InvStep
<1>2. Init => IInv
  BY InitInv
<1>3. IInv => WritesAreUnderWay
  BY DEF IInv, HeadOK, NeedOK, CallOK, AssertionsHold, WritesAreUnderWay
<1> QED BY <1>1, <1>2, <1>3, PTL DEF Spec

-----------------------------------------------------------------------------
(* The write path implements WriteLedger. *)

Same == UNCHANGED <<mutations, committed, acked, rejected>>

\* The front of the pipeline is the front of the queue.
LEMMA FrontIsFirst ==
  ASSUME IInv, NEW b \in First(pipeline)
  PROVE  Ledger!IsFirst(b, mutations) /\ b \in 1..made /\ First(pipeline) = {b}
<1>1. mutations \subseteq Nat /\ b \in pipeline /\ b \in mutations /\ b \in 1..made
  BY 1..made \subseteq Nat DEF IInv, QueueOK, First
<1>2. \A c \in pipeline : b <= c
  BY DEF First
<1>3. ASSUME NEW c \in mutations PROVE b <= c
  <2>1. CASE c \in pipeline
    BY <1>2, <2>1
  <2>2. CASE c \notin pipeline
    <3>1. ~(c < b)
      BY <1>1, <2>2 DEF IInv, QueueOK
    <3> QED BY <1>1, <3>1
  <2> QED BY <2>1, <2>2
<1>4. ASSUME NEW c \in First(pipeline) PROVE c = b
  <2>1. c \in pipeline /\ c <= b /\ b <= c /\ c \in mutations
    BY <1>1, <1>2, <1>4 DEF First, IInv, QueueOK
  <2> QED BY <1>1, <2>1
<1> QED BY <1>1, <1>3, <1>4 DEF Ledger!IsFirst

\* The numbers of all batches are those given out so far.
LEMMA MadeBounds ==
  ASSUME [Next]_vars, made \in Nat, made <= MaxWrites
  PROVE  made' \in Nat /\ made' <= MaxWrites
<1>1. made' = made \/ WriteMutations
  BY DEF Next, Worker, Server, Faults, vars, StreamOnly, ServerOnly, Restart,
     CredentialsArrive, StaleCredentialsArrive, BackoffTimer, HealthTimer,
     IdleTimer, OnHandshakeComplete, OnMutationResult, ReadFails, WriteFails,
     OnStreamFinish, CredentialsFail, OnGarbledResponse, DisableNetwork,
     EnableNetwork, RestartNetwork, Crash, ServerShakesHands, ServerCommits,
     ServerRefuses, CallEnds
<1>2. ASSUME WriteMutations PROVE made' \in Nat /\ made' <= MaxWrites
  BY <1>2, BoundsAssumption DEF WriteMutations
<1> QED BY <1>1, <1>2

LEMMA MakeStep ==
  ASSUME IInv, WriteMutations
  PROVE  Ledger!Next
<1>1. made + 1 \in Batches /\ made \in Nat
  BY BoundsAssumption DEF WriteMutations, IInv, Batches
<1>2. \A c \in 1..made : c < made + 1
  BY <1>1
<1>3. Ledger!Make(made + 1)
  BY <1>2 DEF WriteMutations, Ledger!Make, IInv, QueueOK
<1> QED BY <1>1, <1>3 DEF Ledger!Next

LEMMA CommitStep ==
  ASSUME IInv, NEW b \in Batches, ServerCommits(b)
  PROVE  Ledger!Next
<1>1. /\ b \in call.up /\ call.end = "none" /\ committed' = committed \cup {b}
      /\ \A d \in call.up : b <= d
      /\ UNCHANGED <<mutations, acked, rejected>>
  BY DEF ServerCommits, First, ServerOnly
<1>2. pipeline = call.up \cup call.down /\ call.down \subseteq committed
  BY <1>1 DEF IInv, CallOK
<1>3. b \in mutations /\ mutations \subseteq Nat
  BY <1>1, <1>2, 1..made \subseteq Nat DEF IInv, QueueOK
<1>4. ASSUME NEW c \in mutations, c < b PROVE c \in committed
  <2>1. c \in pipeline
    BY <1>1, <1>2, <1>4 DEF IInv, QueueOK
  <2>2. c \notin call.up
    BY <1>1, <1>3, <1>4
  <2> QED BY <1>2, <2>1, <2>2
<1>5. Ledger!Commit(b)
  BY <1>1, <1>3, <1>4 DEF Ledger!Commit
<1> QED BY <1>5 DEF Ledger!Next

LEMMA AcknowledgeStep ==
  ASSUME IInv, made <= MaxWrites, OnMutationResult
  PROVE  Ledger!Next
<1>1. /\ handshake = "complete" /\ acked' = acked \cup First(pipeline)
      /\ mutations' = mutations \ First(pipeline)
      /\ UNCHANGED <<committed, rejected>>
  BY DEF OnMutationResult
<1>2. PICK c \in AfterRead : TRUE
  BY DEF OnMutationResult
<1>3. PICK b \in pipeline : First(pipeline) = {b} /\ b \in committed
  BY <1>1, <1>2, ResultIsFronts
<1>4. Ledger!IsFirst(b, mutations) /\ b \in 1..made
  BY <1>3, FrontIsFirst
<1>5. b \in Batches
  BY <1>4, BoundsAssumption DEF Batches, IInv
<1>6. Ledger!Acknowledge(b)
  BY <1>1, <1>3, <1>4 DEF Ledger!Acknowledge
<1> QED BY <1>5, <1>6 DEF Ledger!Next

LEMMA FinishStep ==
  ASSUME IInv, made <= MaxWrites, NEW s, NEW status, OnStreamFinish(s, status)
  PROVE  Ledger!Next \/ Same
<1>1. UNCHANGED <<committed, acked>>
  BY DEF OnStreamFinish
<1>2. CASE BlamesFront(status)
  <2>1. /\ rejected' = rejected \cup First(pipeline)
        /\ mutations' = mutations \ First(pipeline)
    BY <1>2 DEF OnStreamFinish, RejectFront
  <2>2. pipeline \in SUBSET Nat /\ pipeline # {}
    BY <1>2, 1..made \subseteq Nat DEF BlamesFront, IInv, QueueOK
  <2>3. PICK b \in First(pipeline) : TRUE
    BY <2>2, FrontExists
  <2>4. Ledger!IsFirst(b, mutations) /\ b \in 1..made /\ First(pipeline) = {b}
    BY FrontIsFirst
  <2>5. b \in Batches
    BY <2>4, BoundsAssumption DEF Batches, IInv
  <2>6. Ledger!Reject(b)
    BY <1>1, <2>1, <2>4 DEF Ledger!Reject
  <2> QED BY <2>5, <2>6 DEF Ledger!Next
<1>3. CASE ~BlamesFront(status)
  BY <1>1, <1>3 DEF OnStreamFinish, Same
<1> QED BY <1>2, <1>3

LEMMA LedgerStep ==
  ASSUME IInv, made <= MaxWrites, [Next]_vars
  PROVE  Ledger!Next \/ Same
<1>1. ASSUME UNCHANGED vars PROVE Same
  BY <1>1 DEF vars, Same
<1>2. ASSUME WriteMutations PROVE Ledger!Next
  BY <1>2, MakeStep
<1>3. ASSUME EnableNetwork \/ DisableNetwork \/ RestartNetwork \/ Crash PROVE Same
  BY <1>3 DEF EnableNetwork, DisableNetwork, RestartNetwork, Crash, Restart, Same
<1>4. ASSUME Server PROVE Ledger!Next \/ Same
  BY <1>4, CommitStep DEF Server, ServerShakesHands, ServerRefuses, ServerOnly, Same
<1>5. ASSUME OnMutationResult PROVE Ledger!Next
  BY <1>5, AcknowledgeStep
<1>6. ASSUME ReadFails \/ WriteFails \/ CredentialsFail \/ OnGarbledResponse
      PROVE  Ledger!Next \/ Same
  BY <1>6, FinishStep DEF ReadFails, WriteFails, CredentialsFail, OnGarbledResponse
<1>7. ASSUME CredentialsArrive \/ StaleCredentialsArrive \/ BackoffTimer
             \/ HealthTimer \/ IdleTimer \/ OnHandshakeComplete
      PROVE  Same
  BY <1>7 DEF CredentialsArrive, StaleCredentialsArrive, BackoffTimer, HealthTimer,
     IdleTimer, OnHandshakeComplete, StreamOnly, Same
<1>8. ASSUME NEW status, NEW kept, CallEnds(status, kept) PROVE Same
  BY <1>8 DEF CallEnds, ServerOnly, Same
<1> QED BY <1>1, <1>2, <1>3, <1>4, <1>5, <1>6, <1>7, <1>8 DEF Next, Worker, Faults

\* Every step of the write path is a step of the ledger or none: writes are
\* carried out in order and reported in order, for the write they are about.
THEOREM LedgerHolds == Spec => LedgerSpec
<1> DEFINE J == IInv /\ made <= MaxWrites
<1>1. Init => J
  BY InitInv, BoundsAssumption DEF Init
<1>2. J /\ [Next]_vars => J'
  BY InvStep, MadeBounds DEF IInv
<1>3. Init => Ledger!Init
  BY DEF Init, Ledger!Init
<1>4. J /\ [Next]_vars => [Ledger!Next]_(Ledger!vars)
  BY LedgerStep DEF Same, Ledger!vars
<1> HIDE DEF J
<1> QED BY <1>1, <1>2, <1>3, <1>4, PTL DEF Spec, LedgerSpec, Ledger!Spec
=============================================================================
