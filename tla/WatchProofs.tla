----------------------------- MODULE WatchProofs ----------------------------
(***************************************************************************)
(* Machine-checked facts about WatchTarget, for any finite set of          *)
(* documents, any contents and any bounds, in three parts:                 *)
(*                                                                         *)
(*   The target    TypeCorrect, AssertionsHoldAlways, AcksAreDueAlways     *)
(*   The messages  what a sequence of messages makes of a set of           *)
(*                 documents, and what those under way bring the target to *)
(*   Resuming      ResumePointHolds, UpToDateHolds: what the target has is *)
(*                 what the query matched at its token                     *)
(***************************************************************************)
EXTENDS WatchProperties, FiniteSetTheorems, SequenceTheorems, TLAPS

-----------------------------------------------------------------------------
(***************************************************************************)
(* PART 1.  The target: types; which timers and credentials belong to      *)
(* which state, and that a target's changes fit the view; that each        *)
(* request and each answer under way counts once, unless a rejection is    *)
(* among the responses.                                                    *)
(***************************************************************************)

(* Types *)

Kinds == {"Added", "Modified", "Removed"}
DocChanges == UNION {[D -> Kinds] : D \in SUBSET Docs}
Flags == {"yes", "no"}

\* Tokens and versions.
Marks == 0..Len(Contents)

TargetStates ==
  [held : Flags, acks : Int, current : Flags, changed : Flags, token : Marks,
   docs : DocChanges]

Caches == [keys : SUBSET Docs, token : Marks, docs : SUBSET Docs, last : Marks]

Requests == [kind : {"watch", "unwatch"}, token : Marks]

AnswerKinds == {"added", "removed", "error"}
DocKinds == {"found", "gone"}
Answer == [kind : AnswerKinds, token : {0}]
OfDoc == [kind : DocKinds, token : {0}, doc : Docs]
Filter == [kind : {"filter"}, token : {0}, count : Nat]
OfTarget == [kind : {"current", "snapshot"}, token : Versions]
Reset == [kind : {"reset"}, token : {0}]
\* What a server sends of a target that it follows.
Sent == OfDoc \cup Filter \cup OfTarget \cup Reset
Responses == Answer \cup Sent

TypeOK ==
  /\ network \in {"enabled", "disabled"}
  /\ stream \in Streams
  /\ online \in Trackers
  /\ listening \in Flags
  /\ token \in Marks
  /\ state \in TargetStates
  /\ mismatch \in Flags
  /\ updates \in [found : SUBSET Docs, gone : SUBSET Docs]
  /\ view \in [keys : SUBSET Docs, current : Flags]
  /\ data \in Marks
  /\ cache \in Caches
  /\ requests \in Seq(Requests)
  /\ responses \in Seq(Responses)
  /\ server \in [state : {"no", "fresh", "current"}, at : Marks]
  /\ latest \in Nat
  /\ stops \in Nat /\ faults \in Nat /\ errors \in Nat

-----------------------------------------------------------------------------
(* What the operators of TargetState leave *)

LEMMA NoChange == <<>> \in DocChanges /\ DOMAIN <<>> = {}
<1>1. <<>> \in [{} -> Kinds] /\ {} \in SUBSET Docs
  OBVIOUS
<1> QED
  BY <1>1 DEF DocChanges

LEMMA ZeroMark == 0 \in Marks /\ Marks \subseteq Nat
<1>1. Len(Contents) \in Nat
  BY ContentsAssumption, LenProperties
<1> QED
  BY <1>1 DEF Marks

LEMMA ErasedType == NewState \in TargetStates /\ Erased \in TargetStates
BY NoChange, ZeroMark DEF NewState, Erased, TargetStates, Flags

LEMMA PutType ==
  ASSUME NEW f \in DocChanges, NEW d \in Docs,
         NEW k \in Kinds
  PROVE  /\ Put(f, d, k) \in DocChanges
         /\ DOMAIN Put(f, d, k) = DOMAIN f \cup {d}
         /\ \A e \in DOMAIN f \cup {d} : Put(f, d, k)[e] = IF e = d THEN k ELSE f[e]
BY DEF Put, DocChanges

LEMMA DropType ==
  ASSUME NEW f \in DocChanges, NEW d
  PROVE  [e \in DOMAIN f \ {d} |-> f[e]] \in DocChanges
<1>1. PICK D \in SUBSET Docs : f \in [D -> Kinds]
  BY DEF DocChanges
<1>2. [e \in D \ {d} |-> f[e]] \in [D \ {d} -> Kinds]
  BY <1>1
<1>3. DOMAIN f = D
  BY <1>1
<1> QED
  BY <1>2, <1>3 DEF DocChanges

LEMMA StateTypes ==
  ASSUME NEW s \in TargetStates
  PROVE  /\ Ensure(s) \in TargetStates
         /\ RecordPendingTargetRequest(s) \in TargetStates
         /\ \A t \in Marks : UpdateResumeToken(s, t) \in TargetStates
         /\ ClearPendingChanges(s) \in TargetStates
         /\ OnAdded(s) \in TargetStates
         /\ OnRemoved(s) \in TargetStates
         /\ MarkCurrent(s) \in TargetStates
<1>1. Ensure(s) \in TargetStates
  BY DEF Ensure, TargetStates, Flags
<1>2. RecordPendingTargetRequest(s) \in TargetStates
  BY <1>1 DEF RecordPendingTargetRequest, TargetStates
<1>3. \A t \in Marks : UpdateResumeToken(s, t) \in TargetStates
  BY DEF UpdateResumeToken, TargetStates, Flags
<1>4. ClearPendingChanges(s) \in TargetStates
  BY NoChange DEF ClearPendingChanges, TargetStates, Flags
<1>5. [Ensure(s) EXCEPT !.acks = @ - 1] \in TargetStates
  BY <1>1 DEF TargetStates
<1>6. OnAdded(s) \in TargetStates
  BY <1>5, NoChange DEF OnAdded, ClearPendingChanges, TargetStates, Flags
<1>7. OnRemoved(s) \in TargetStates
  BY <1>5, ErasedType DEF OnRemoved
<1>8. MarkCurrent(s) \in TargetStates
  BY DEF MarkCurrent, TargetStates, Flags
<1> QED
  BY <1>1, <1>2, <1>3, <1>4, <1>6, <1>7, <1>8

LEMMA ResetType ==
  ASSUME NEW s \in TargetStates, NEW keys \in SUBSET Docs
  PROVE  ResetTarget(s, keys) \in TargetStates
<1>1. [e \in keys |-> "Removed"] \in DocChanges
  BY DEF Kinds, DocChanges
<1> QED
  BY <1>1, ErasedType DEF ResetTarget, TargetStates

LEMMA DocumentTypes ==
  ASSUME NEW s \in TargetStates, NEW d \in Docs, NEW keys \in SUBSET Docs
  PROVE  /\ AddDocument(s, d, keys) \in TargetStates
         /\ RemoveDocument(s, d, keys) \in TargetStates
<1>1. Ensure(s) \in TargetStates /\ s.docs \in DocChanges
  BY StateTypes DEF TargetStates
<1>2. \A k \in Kinds : Put(Ensure(s).docs, d, k) \in DocChanges
  BY <1>1, PutType DEF Ensure, TargetStates
<1>3. AddDocument(s, d, keys) \in TargetStates
  BY <1>1, <1>2 DEF AddDocument, TargetStates, Kinds, Flags
<1>4. [e \in DOMAIN Ensure(s).docs \ {d} |-> Ensure(s).docs[e]]
        \in DocChanges
  <2>1. Ensure(s).docs \in DocChanges
    BY <1>1 DEF TargetStates
  <2> QED
    BY <2>1, DropType
<1>5. RemoveDocument(s, d, keys) \in TargetStates
  BY <1>1, <1>2, <1>4 DEF RemoveDocument, TargetStates, Kinds, Flags
<1> QED
  BY <1>3, <1>5

LEMMA ChangedType ==
  ASSUME NEW s \in TargetStates, NEW k
  PROVE  Changed(s, k) \subseteq DOMAIN s.docs /\ DOMAIN s.docs \subseteq Docs
BY DEF Changed, TargetStates, DocChanges

-----------------------------------------------------------------------------
(* Sequences of messages *)

\* Every document of a finite set is sent once.
LEMMA MessagesAre ==
  ASSUME NEW kind \in DocKinds, NEW S \in SUBSET Docs
  PROVE  /\ Messages(kind, S) \in Seq(OfDoc)
         /\ \A i \in 1..Len(Messages(kind, S)) :
              /\ Messages(kind, S)[i].kind = kind
              /\ Messages(kind, S)[i].doc \in S
              /\ \A j \in 1..Len(Messages(kind, S)) :
                   Messages(kind, S)[i].doc = Messages(kind, S)[j].doc => i = j
         /\ \A d \in S : \E i \in 1..Len(Messages(kind, S)) :
              Messages(kind, S)[i].doc = d
<1>1. IsFiniteSet(S)
  BY DocsAssumption, FS_Subset
<1> DEFINE n == Cardinality(S)
           f == SetToSeq(S)
<1>2. n \in Nat /\ ExistsBijection(1..n, S)
  BY <1>1, FS_CardinalityType
<1>3. PICK g \in [1..n -> S] : IsInjective(g)
  BY <1>2 DEF ExistsBijection, Bijection, Injection
<1>4. f \in [1..n -> S] /\ IsInjective(f)
  <2>1. \E h \in [1..n -> S] : IsInjective(h)
    BY <1>3
  <2> QED
    BY <2>1 DEF SetToSeq
<1>5. f \in Injection(1..n, S)
  BY <1>4 DEF Injection
<1>6. IsFiniteSet(1..n) /\ Cardinality(1..n) = n
  BY <1>2, FS_CountingElements, FS_NatBijection, FS_Interval
<1>7. f \in Surjection(1..n, S)
  BY <1>1, <1>5, <1>6, FS_Injection
<1>8. \A d \in S : \E i \in 1..n : f[i] = d
  BY <1>7 DEF Surjection
<1> DEFINE m == Messages(kind, S)
<1>9. Len(f) = n /\ DOMAIN f = 1..n
  BY <1>4, <1>2
<1>10. m = [i \in 1..n |-> [kind |-> kind, token |-> 0, doc |-> f[i]]]
  BY <1>9 DEF Messages
<1> HIDE DEF m, f, n
<1>11. \A i \in 1..n : f[i] \in S
  BY <1>4
<1>12. \A i \in 1..n : [kind |-> kind, token |-> 0, doc |-> f[i]] \in OfDoc
  BY <1>11 DEF OfDoc
<1>13. m \in [1..n -> OfDoc]
  BY <1>10, <1>12
<1>14. m \in Seq(OfDoc) /\ Len(m) = n
  BY <1>13, <1>2
<1>15. \A i \in 1..n : m[i].kind = kind /\ m[i].doc = f[i]
  BY <1>10
<1>16. \A d \in S : \E i \in 1..Len(m) : m[i].doc = d
  BY <1>8, <1>14, <1>15
<1>17. \A i \in 1..Len(m) : m[i].kind = kind /\ m[i].doc \in S
  BY <1>11, <1>14, <1>15
<1>18. \A i, j \in 1..Len(m) : m[i].doc = m[j].doc => i = j
  BY <1>4, <1>14, <1>15 DEF IsInjective
<1> QED
  BY <1>14, <1>16, <1>17, <1>18 DEF m

LEMMA VersionTypes ==
  /\ \A v \in Marks : ContentAt(v) \in SUBSET Docs
  /\ Len(Contents) \in Nat
  /\ Versions \subseteq Marks \ {0}
<1>1. Len(Contents) \in Nat
  BY ContentsAssumption, LenProperties
<1>2. \A v \in 1..Len(Contents) : Contents[v] \in SUBSET Docs
  BY ContentsAssumption, ElementOfSeq
<1> QED
  BY <1>1, <1>2 DEF ContentAt, Marks, Versions

-----------------------------------------------------------------------------
(* Type correctness *)

LEMMA StreamTypes ==
  ASSUME NEW s \in Streams
  PROVE  /\ Start(s) \in Streams /\ BackoffElapses(s) \in Streams
         /\ InhibitBackoff(s) \in Streams
         /\ ResumeStartWithCredentials(s) \in Streams
         /\ HealthCheck(s) \in Streams /\ MarkIdle(s) \in Streams
         /\ Write(s) \in Streams
         /\ Close(s, TRUE) \in Streams /\ Close(s, FALSE) \in Streams
<1> USE DEF Streams, States, HardAssert
<1>1. Start(s) \in Streams
  BY DEF Start
<1>2. BackoffElapses(s) \in Streams
  BY DEF BackoffElapses, Start
<1>3. InhibitBackoff(s) \in Streams /\ ResumeStartWithCredentials(s) \in Streams
  BY DEF InhibitBackoff, ResumeStartWithCredentials
<1>4. HealthCheck(s) \in Streams /\ MarkIdle(s) \in Streams /\ Write(s) \in Streams
  BY DEF HealthCheck, MarkIdle, Write
<1>5. Close(s, TRUE) \in Streams
  BY DEF Close
<1>6. Close(s, FALSE) \in Streams
  BY DEF Close
<1> QED
  BY <1>1, <1>2, <1>3, <1>4, <1>5, <1>6

LEMMA StoppedType ==
  ASSUME NEW s \in Streams, NEW l, NEW net
  PROVE  Stopped(s, l, net) \in Streams
<1>1. Close(s, TRUE) \in Streams
  BY StreamTypes
<1>2. [Close(s, TRUE) EXCEPT !.asserts = "failed"] \in Streams
  BY <1>1 DEF Streams
<1> QED
  BY <1>1, <1>2 DEF Stopped, HardAssert

LEMMA TrackerTypes ==
  ASSUME NEW o \in Trackers
  PROVE  /\ HandleWatchStreamStart(o) \in Trackers
         /\ HandleWatchStreamFailure(o) \in Trackers
         /\ \A s \in {"Unknown", "Online", "Offline"} : UpdateState(o, s) \in Trackers
         /\ TimeoutElapses(o) \in Trackers
<1> USE DEF Trackers, Require, kMaxWatchStreamFailures
<1>1. HandleWatchStreamStart(o) \in Trackers
  BY DEF HandleWatchStreamStart
<1>2. HandleWatchStreamFailure(o) \in Trackers
  BY DEF HandleWatchStreamFailure
<1>3. \A s \in {"Unknown", "Online", "Offline"} : UpdateState(o, s) \in Trackers
  BY DEF UpdateState
<1>4. TimeoutElapses(o) \in Trackers
  BY DEF TimeoutElapses
<1> QED
  BY <1>1, <1>2, <1>3, <1>4

Views == [keys : SUBSET Docs, current : Flags]

\* The tracker's and the view's new values keep their types.
LEMMA BroadcastType ==
  ASSUME TypeOK, NEW o \in Trackers, Broadcast(o)
  PROVE  online' \in Trackers /\ view' \in Views
BY DEF Broadcast, TypeOK, Views, Flags

LEMMA StartOrType ==
  ASSUME TypeOK, NEW l, NEW s \in Streams, NEW net, NEW o \in Trackers,
         NEW idle \in Trackers, StartOr(l, s, net, o, idle)
  PROVE  stream' \in Streams /\ online' \in Trackers /\ view' \in Views
<1>1. CASE ShouldStartWatchStream(l, s, net)
  <2>1. stream' = Start(s) /\ Broadcast(HandleWatchStreamStart(o))
    BY <1>1 DEF StartOr
  <2> QED
    BY <2>1, StreamTypes, TrackerTypes, BroadcastType
<1>2. CASE ~ShouldStartWatchStream(l, s, net)
  <2>1. stream' = s /\ Broadcast(idle)
    BY <1>2 DEF StartOr
  <2> QED
    BY <2>1, BroadcastType
<1> QED
  BY <1>1, <1>2

LEMMA CleanUpType ==
  ASSUME CleanUpWatchStreamState
  PROVE  /\ state' \in TargetStates /\ mismatch' \in Flags
         /\ updates' \in [found : SUBSET Docs, gone : SUBSET Docs]
         /\ requests' \in Seq(Requests) /\ responses' \in Seq(Responses)
         /\ server' \in [state : {"no", "fresh", "current"}, at : Marks]
BY ErasedType, ZeroMark DEF CleanUpWatchStreamState, Flags, NoUpdates, NoServer

LEMMA WatchTypes ==
  /\ \A t \in Marks : Watch(t) \in Requests
  /\ Unwatch \in Requests
BY ZeroMark DEF Watch, Unwatch, Requests

LEMMA InitType == Init => TypeOK
<1> SUFFICES ASSUME Init PROVE TypeOK
  OBVIOUS
<1>1. stream \in Streams /\ online \in Trackers
  BY DEF Init, NewStream, Streams, States, NewTracker, Trackers
<1>2. requests \in Seq(Requests) /\ responses \in Seq(Responses)
  BY DEF Init
<1>3. cache \in Caches /\ server \in [state : {"no", "fresh", "current"}, at : Marks]
  BY ZeroMark DEF Init, Caches, NoServer
<1> QED
  BY <1>1, <1>2, <1>3, ErasedType, ZeroMark DEF Init, TypeOK, Flags, NoUpdates, NoView

LEMMA ListenType == TypeOK /\ Listen => TypeOK'
<1> SUFFICES ASSUME TypeOK, Listen PROVE TypeOK'
  OBVIOUS
<1>1. cache.token \in Marks /\ cache.keys \in SUBSET Docs
  BY DEF TypeOK, Caches
<1>2. stream' \in Streams
  BY StreamTypes DEF TypeOK, Listen
<1>3. online' \in Trackers
  BY TrackerTypes DEF TypeOK, Listen
<1>4. state' \in TargetStates
  BY StateTypes, ErasedType DEF TypeOK, Listen
<1>5. requests' \in Seq(Requests)
  <2>1. Watch(cache.token) \in Requests
    BY <1>1, WatchTypes
  <2>2. Append(requests, Watch(cache.token)) \in Seq(Requests)
    BY <2>1, AppendProperties DEF TypeOK
  <2> QED
    BY <2>2 DEF TypeOK, Listen
<1>6. updates' \in [found : SUBSET Docs, gone : SUBSET Docs] /\ mismatch' \in Flags
  BY DEF TypeOK, Listen, NoUpdates, Flags
<1>7. view' \in [keys : SUBSET Docs, current : Flags]
  BY <1>1 DEF TypeOK, Listen, Flags
<1> QED
  BY <1>1, <1>2, <1>3, <1>4, <1>5, <1>6, <1>7 DEF TypeOK, Listen, Flags

LEMMA StopType == TypeOK /\ StopListening => TypeOK'
<1> SUFFICES ASSUME TypeOK, StopListening PROVE TypeOK'
  OBVIOUS
<1>1. stream' \in Streams
  <2>1. MarkIdle(Write(stream)) \in Streams
    BY StreamTypes DEF TypeOK
  <2> QED
    BY <2>1 DEF TypeOK, StopListening
<1>2. online' \in Trackers
  BY TrackerTypes DEF TypeOK, StopListening
<1>3. state' \in TargetStates
  BY StateTypes DEF TypeOK, StopListening
<1>4. requests' \in Seq(Requests)
  <2>1. Append(requests, Unwatch) \in Seq(Requests)
    BY WatchTypes, AppendProperties DEF TypeOK
  <2> QED
    BY <2>1 DEF TypeOK, StopListening
<1>5. cache' \in Caches
  BY DEF TypeOK, StopListening, Caches
<1> QED
  BY <1>1, <1>2, <1>3, <1>4, <1>5, ZeroMark DEF TypeOK, StopListening, Flags, NoView

LEMMA FailedType ==
  ASSUME TypeOK, NEW s \in Streams, OnStreamFailed(s), faults' \in Nat
  PROVE  TypeOK'
<1>1. stream' \in Streams /\ online' \in Trackers /\ view' \in Views
  BY StartOrType, StreamTypes, TrackerTypes DEF OnStreamFailed, TypeOK
<1> QED
  BY <1>1, CleanUpType DEF OnStreamFailed, TypeOK, Views

LEMMA ConnectionType == TypeOK /\ Connection => TypeOK'
<1> SUFFICES ASSUME TypeOK, Connection PROVE TypeOK'
  OBVIOUS
<1>1. CASE CredentialsArrive
  <2>1. stream' \in Streams
    BY <1>1, StreamTypes DEF CredentialsArrive, TypeOK
  <2>2. requests' \in Seq(Requests)
    <3>1. Append(requests, Watch(token)) \in Seq(Requests)
      BY WatchTypes, AppendProperties DEF TypeOK
    <3> QED
      BY <1>1, <3>1 DEF CredentialsArrive, TypeOK
  <2>3. state' \in TargetStates
    BY <1>1, StateTypes DEF CredentialsArrive, TypeOK
  <2> QED
    BY <1>1, <2>1, <2>2, <2>3 DEF CredentialsArrive, StreamOnly, TypeOK
<1>2. CASE StaleCredentialsArrive
  BY <1>2 DEF StaleCredentialsArrive, StreamOnly, TypeOK, Streams
<1>3. CASE BackoffTimer
  <2>1. stream' \in Streams
    BY <1>3, StreamTypes DEF BackoffTimer, TypeOK
  <2> QED
    BY <1>3, <2>1 DEF BackoffTimer, StreamOnly, TypeOK
<1>4. CASE HealthTimer
  <2>1. stream' \in Streams
    BY <1>4, StreamTypes DEF HealthTimer, TypeOK
  <2> QED
    BY <1>4, <2>1 DEF HealthTimer, StreamOnly, TypeOK
<1>5. CASE IdleTimer
  <2>1. stream' \in Streams
    BY <1>5, StoppedType DEF IdleTimer, TypeOK
  <2>2. online' \in Trackers /\ view' \in Views
    BY <1>5, TrackerTypes, BroadcastType DEF IdleTimer, TypeOK
  <2> QED
    BY <1>5, <2>1, <2>2, CleanUpType DEF IdleTimer, TypeOK, Views
<1>6. CASE OnlineStateTimer
  <2>1. online' \in Trackers /\ view' \in Views
    BY <1>6, TrackerTypes, BroadcastType DEF OnlineStateTimer, TypeOK
  <2> QED
    BY <1>6, <2>1 DEF OnlineStateTimer, StreamOnly, TypeOK, Views
<1> QED
  BY <1>1, <1>2, <1>3, <1>4, <1>5, <1>6 DEF Connection

LEMMA FaultsType == TypeOK /\ (Faults \/ EnableNetwork) => TypeOK'
<1> SUFFICES ASSUME TypeOK, Faults \/ EnableNetwork PROVE TypeOK'
  OBVIOUS
<1>1. CASE CredentialsFail
  <2>1. [HardAssert(stream.state = "Starting", stream) EXCEPT
           !.creds = @ \ {"current"}] \in Streams
    BY DEF TypeOK, Streams, HardAssert
  <2>2. faults' \in Nat
    BY <1>1 DEF CredentialsFail, Fault, TypeOK
  <2> QED
    BY <1>1, <2>1, <2>2, FailedType DEF CredentialsFail
<1>2. CASE CallFails
  <2>1. faults' \in Nat
    BY <1>2 DEF CallFails, Fault, TypeOK
  <2> QED
    BY <1>2, <2>1, FailedType DEF CallFails, TypeOK
<1>3. CASE DisableNetwork
  <2>1. stream' \in Streams
    BY <1>3, StoppedType DEF DisableNetwork, TypeOK
  <2>2. online' \in Trackers /\ view' \in Views
    BY <1>3, TrackerTypes, BroadcastType DEF DisableNetwork, TypeOK
  <2> QED
    BY <1>3, <2>1, <2>2, CleanUpType DEF DisableNetwork, Fault, TypeOK, Views
<1>4. CASE RestartNetwork
  <2>1. UpdateState(online, "Unknown") \in Trackers
    BY TrackerTypes DEF TypeOK
  <2>2. InhibitBackoff(Stopped(stream, listening, "disabled")) \in Streams
    BY StoppedType, StreamTypes DEF TypeOK
  <2>3. stream' \in Streams /\ online' \in Trackers /\ view' \in Views
    BY <1>4, <2>1, <2>2, StartOrType DEF RestartNetwork
  <2> QED
    BY <1>4, <2>3, CleanUpType DEF RestartNetwork, Fault, TypeOK, Views
<1>5. CASE Crash
  <2>1. stream' \in Streams /\ online' \in Trackers
    BY <1>5 DEF Crash, NewStream, Streams, States, NewTracker, Trackers
  <2> QED
    BY <1>5, <2>1, CleanUpType, ZeroMark DEF Crash, Fault, TypeOK, NoView, Flags
<1>6. CASE ServerRejects
  <2>1. Token("error", 0) \in Responses
    BY ZeroMark DEF Token, Responses, Answer, AnswerKinds
  <2>2. responses' \in Seq(Responses)
    BY <1>6, <2>1, AppendProperties DEF ServerRejects, TypeOK
  <2> QED
    BY <1>6, <2>2, ZeroMark DEF ServerRejects, Fault, TypeOK, client, NoServer
<1>7. CASE EnableNetwork
  <2>1. UpdateState(online, "Unknown") \in Trackers
    BY TrackerTypes DEF TypeOK
  <2>2. stream' \in Streams /\ online' \in Trackers /\ view' \in Views
    BY <1>7, <2>1, StartOrType DEF EnableNetwork, TypeOK
  <2> QED
    BY <1>7, <2>2 DEF EnableNetwork, Fault, TypeOK, Views
<1> QED
  BY <1>1, <1>2, <1>3, <1>4, <1>5, <1>6, <1>7 DEF Faults

LEMMA ResponseFacts ==
  ASSUME NEW m \in Responses
  PROVE  /\ m.token \in Marks
         /\ m.kind \in DocKinds => m.doc \in Docs
         /\ m.kind = "filter" => m.count \in Nat
         /\ m.kind \in {"current", "snapshot"} => m.token \in Versions
<1> USE ZeroMark DEF AnswerKinds, DocKinds
<1>1. CASE m \in Answer
  BY <1>1 DEF Answer
<1>2. CASE m \in OfDoc
  BY <1>2 DEF OfDoc
<1>3. CASE m \in Filter
  BY <1>3 DEF Filter
<1>4. CASE m \in OfTarget
  <2>1. m.token \in Marks
    BY <1>4, VersionTypes DEF OfTarget, Versions, Marks
  <2> QED
    BY <1>4, <2>1 DEF OfTarget
<1>5. CASE m \in Reset
  BY <1>5 DEF Reset
<1> QED
  BY <1>1, <1>2, <1>3, <1>4, <1>5 DEF Responses, Sent

\* What every message leaves of the right type.
LEMMA ReceiveType ==
  ASSUME TypeOK, NEW kind, Receive(kind)
  PROVE  /\ Head(responses) \in Responses /\ Head(responses).token \in Marks
         /\ responses' \in Seq(Responses)
         /\ online' \in Trackers
         /\ network' \in {"enabled", "disabled"}
         /\ server' \in [state : {"no", "fresh", "current"}, at : Marks]
         /\ latest' \in Nat /\ stops' \in Nat /\ faults' \in Nat
<1>1. responses # <<>> /\ responses \in Seq(Responses)
  BY DEF Receive, TypeOK
<1>2. Head(responses) \in Responses /\ Tail(responses) \in Seq(Responses)
  BY <1>1, HeadTailProperties
<1>3. UpdateState(online, "Online") \in Trackers
  BY TrackerTypes DEF TypeOK
<1> QED
  BY <1>2, <1>3, ResponseFacts DEF Receive, TypeOK

\* What a message that leaves the rest alone leaves of the right type.
LEMMA QuietType ==
  ASSUME TypeOK, Quiet
  PROVE  /\ stream' \in Streams /\ listening' \in Flags /\ token' \in Marks
         /\ view' \in [keys : SUBSET Docs, current : Flags]
         /\ data' \in Marks /\ cache' \in Caches /\ requests' \in Seq(Requests)
         /\ errors' \in Nat
BY DEF Quiet, TypeOK

LEMMA MessageType ==
  TypeOK /\ (\/ OnTargetAdded \/ OnTargetRemoved \/ OnTargetCurrent \/ OnTargetReset
             \/ OnDocumentFound \/ OnDocumentGone \/ OnExistenceFilter
             \/ OnTargetError) => TypeOK'
<1> SUFFICES ASSUME TypeOK,
                    \/ OnTargetAdded \/ OnTargetRemoved \/ OnTargetCurrent
                    \/ OnTargetReset \/ OnDocumentFound \/ OnDocumentGone
                    \/ OnExistenceFilter \/ OnTargetError
             PROVE  TypeOK'
  OBVIOUS
<1> DEFINE Rest == /\ state' \in TargetStates /\ mismatch' \in Flags
                   /\ updates' \in [found : SUBSET Docs, gone : SUBSET Docs]
<1>0. ASSUME NEW kind, Receive(kind), Quiet, Rest PROVE TypeOK'
  BY <1>0, ReceiveType, QuietType DEF TypeOK
<1> USE DEF TypeOK
<1>1. CASE OnTargetAdded
  BY <1>0, <1>1, StateTypes DEF OnTargetAdded
<1>2. CASE OnTargetRemoved
  BY <1>0, <1>2, StateTypes DEF OnTargetRemoved
<1>3. CASE OnTargetCurrent
  <2>1. Receive("current") /\ Quiet /\ UNCHANGED <<mismatch, updates>>
    BY <1>3 DEF OnTargetCurrent
  <2>2. Head(responses).token \in Marks
    BY <2>1, ReceiveType
  <2>3. MarkCurrent(Ensure(state)) \in TargetStates /\ Ensure(state) \in TargetStates
    BY StateTypes
  <2>4. UpdateResumeToken(MarkCurrent(Ensure(state)), Head(responses).token) \in TargetStates
    BY <2>2, <2>3, StateTypes
  <2>5. state' \in TargetStates
    BY <1>3, <2>3, <2>4 DEF OnTargetCurrent
  <2> QED
    BY <1>0, <2>1, <2>5
<1>4. CASE OnTargetReset
  <2>1. Ensure(state) \in TargetStates /\ view.keys \in SUBSET Docs
    BY StateTypes
  <2>3. ResetTarget(Ensure(state), view.keys) \in TargetStates
    BY <2>1, ResetType
  <2> QED
    BY <1>0, <1>4, <2>1, <2>3 DEF OnTargetReset
<1>5. CASE OnDocumentFound
  <2>1. Receive("found") /\ Quiet /\ UNCHANGED mismatch
    BY <1>5 DEF OnDocumentFound
  <2>2. Head(responses).doc \in Docs
    BY <2>1, ReceiveType, ResponseFacts DEF Receive, DocKinds
  <2>3. AddDocument(state, Head(responses).doc, view.keys) \in TargetStates
    BY <2>2, DocumentTypes
  <2>4. Rest
    BY <1>5, <2>2, <2>3 DEF OnDocumentFound
  <2> QED
    BY <1>0, <2>1, <2>4
<1>6. CASE OnDocumentGone
  <2>1. Receive("gone") /\ Quiet /\ UNCHANGED mismatch
    BY <1>6 DEF OnDocumentGone
  <2>2. Head(responses).doc \in Docs
    BY <2>1, ReceiveType, ResponseFacts DEF Receive, DocKinds
  <2>3. RemoveDocument(state, Head(responses).doc, view.keys) \in TargetStates
    BY <2>2, DocumentTypes
  <2>4. Rest
    BY <1>6, <2>2, <2>3 DEF OnDocumentGone
  <2> QED
    BY <1>0, <2>1, <2>4
<1>7. CASE OnExistenceFilter
  <2>1. Ensure(state) \in TargetStates /\ view.keys \in SUBSET Docs
    BY StateTypes
  <2>2. ResetTarget(state, view.keys) \in TargetStates
    BY <2>1, ResetType
  <2>3. Rest
    BY <1>7, <2>1, <2>2 DEF OnExistenceFilter, Flags
  <2> QED
    BY <1>0, <1>7, <2>3 DEF OnExistenceFilter
<1>8. CASE OnTargetError
  <2>1. Receive("error")
    BY <1>8 DEF OnTargetError
  <2>2. cache' \in Caches
    BY <1>8 DEF OnTargetError, Caches
  <2> QED
    BY <1>8, <2>1, <2>2, ReceiveType, ErasedType, ZeroMark
       DEF OnTargetError, NoView, Flags
<1> QED
  BY <1>1, <1>2, <1>3, <1>4, <1>5, <1>6, <1>7, <1>8

\* A token of the target's or of the store's, or none.
LEMMA NewTokenType ==
  ASSUME TypeOK, NEW s \in TargetStates
  PROVE  NewToken(s) \in Marks
BY ZeroMark DEF TypeOK, TargetStates, NewToken

LEMMA SnapshotType == TypeOK /\ OnSnapshot => TypeOK'
<1> SUFFICES ASSUME TypeOK, OnSnapshot PROVE TypeOK'
  OBVIOUS
<1> DEFINE v == Head(responses).token
           s == IF state.held = "yes" /\ IsActive(state)
                THEN UpdateResumeToken(state, v) ELSE state
           included == s.held = "yes" /\ IsActive(s) /\ s.changed = "yes"
           rest == IF included THEN ClearPendingChanges(s) ELSE s
<1>1. Receive("snapshot") /\ UNCHANGED <<listening, errors>>
  BY DEF OnSnapshot
<1>2. v \in Marks
  BY <1>1, ReceiveType
<1>3. s \in TargetStates
  BY <1>2, StateTypes DEF TypeOK
<1>4. NewToken(s) \in Marks
  BY <1>3, NewTokenType
<1> HIDE DEF s, v
<1>5. rest \in TargetStates
  BY <1>3, StateTypes
<1>6. CASE v >= cache.last
  <2>1. RaiseWatchSnapshot(s, v)
    BY <1>6 DEF OnSnapshot, s, v
  <2>2. data' \in Marks /\ cache' \in Caches
    <3>1. ApplyToStore(s, v, included)
      BY <2>1 DEF RaiseWatchSnapshot
    <3>2. Changed(s, "Added") \subseteq Docs /\ Changed(s, "Removed") \subseteq Docs
      BY <1>3, ChangedType
    <3> DEFINE known == [cache EXCEPT
                           !.docs = (@ \cup updates.found) \ updates.gone, !.last = v]
               keys == (cache.keys \ Changed(s, "Removed")) \cup Changed(s, "Added")
    <3>3. known \in Caches /\ keys \in SUBSET Docs
      BY <1>2, <3>2 DEF TypeOK, Caches
    <3>4. CASE included
      <4>1. data' = NewToken(s)
            /\ \E t \in {NewToken(s), cache.token} :
                 cache' = [known EXCEPT !.keys = keys, !.token = t]
        BY <3>1, <3>4 DEF ApplyToStore
      <4>2. cache.token \in Marks
        BY DEF TypeOK, Caches
      <4> HIDE DEF known, keys
      <4> QED
        BY <4>1, <4>2, <3>3, <1>4 DEF Caches
    <3>5. CASE ~included
      BY <3>1, <3>3, <3>5 DEF ApplyToStore, TypeOK
    <3> QED
      BY <3>4, <3>5
  <2>3. view' \in [keys : SUBSET Docs, current : Flags]
    <3>1. Changed(s, "Added") \subseteq Docs /\ s.current \in Flags
      BY <1>3, ChangedType DEF TargetStates
    <3>2. ApplyToView(s, included)
      BY <2>1 DEF RaiseWatchSnapshot
    <3> HIDE DEF included
    <3> QED
      BY <3>1, <3>2 DEF ApplyToView, TypeOK
  <2>4. /\ token' \in Marks /\ state' \in TargetStates
        /\ requests' \in Seq(Requests) /\ stream' \in Streams
    <3>1. CASE mismatch = "yes" /\ listening = "yes"
      <4>1. Rewatch(rest)
        BY <2>1, <3>1 DEF RaiseWatchSnapshot
      <4>2. state' \in TargetStates
        BY <4>1, <1>5, StateTypes DEF Rewatch
      <4>3. <<Unwatch, Watch(0)>> \in Seq(Requests)
        BY WatchTypes, ZeroMark
      <4>4. requests' \in Seq(Requests)
        BY <4>1, <4>3, ConcatProperties DEF Rewatch, TypeOK
      <4>5. stream' \in Streams
        BY <4>1, StreamTypes DEF Rewatch, TypeOK
      <4> QED
        BY <4>1, <4>2, <4>4, <4>5, ZeroMark DEF Rewatch
    <3>2. CASE ~(mismatch = "yes" /\ listening = "yes")
      <4>1. /\ token' = IF included /\ s.token # 0 THEN s.token ELSE token
            /\ state' = rest /\ UNCHANGED <<requests, stream>>
        BY <2>1, <3>2 DEF RaiseWatchSnapshot
      <4>2. s.token \in Marks
        BY <1>3 DEF TargetStates
      <4> QED
        BY <4>1, <4>2, <1>5 DEF TypeOK
    <3> QED
      BY <3>1, <3>2
  <2>5. mismatch' = "no" /\ updates' = NoUpdates
    BY <2>1 DEF RaiseWatchSnapshot
  <2> QED
    BY <1>1, <2>2, <2>3, <2>4, <2>5, ReceiveType DEF TypeOK, NoUpdates, Flags
<1>7. CASE ~(v >= cache.last)
  <2>1. state' = s /\ UNCHANGED <<stream, token, mismatch, updates, view, data, cache,
                                  requests>>
    BY <1>7 DEF OnSnapshot, s, v
  <2> QED
    BY <1>1, <1>3, <2>1, ReceiveType DEF TypeOK
<1> QED
  BY <1>6, <1>7

LEMMA TokenTypes ==
  /\ \A k \in {"current", "snapshot"}, v \in Versions : Token(k, v) \in Sent
  /\ Token("reset", 0) \in Sent
  /\ \A k \in AnswerKinds : Token(k, 0) \in Answer
  /\ Sent \subseteq Responses /\ Answer \subseteq Responses
  /\ Seq(Sent) \subseteq Seq(Responses)
<1>1. Sent \subseteq Responses /\ Answer \subseteq Responses
  BY DEF Responses
<1>2. Seq(Sent) \subseteq Seq(Responses)
  BY <1>1, SeqMonotonic
<1> QED
  BY <1>1, <1>2, ZeroMark DEF Token, Sent, OfTarget, Reset, Answer

LEMMA SendsType ==
  ASSUME TypeOK, NEW v \in Versions, NEW changes \in Seq(Sent), Sends(v, changes)
  PROVE  TypeOK'
<1>1. Token("snapshot", v) \in Responses
  BY TokenTypes
<1>2. <<Token("snapshot", v)>> \in Seq(Responses)
  BY <1>1
<1>3. responses' \in Seq(Responses)
  <2>1. responses \o changes \in Seq(Responses)
    BY ConcatProperties, TokenTypes DEF TypeOK
  <2> QED
    BY <2>1, <1>2, ConcatProperties DEF Sends
<1>4. v \in Marks
  BY VersionTypes
<1> QED
  BY <1>3, <1>4 DEF TypeOK, Sends, ServerOnly, client

LEMMA SentTypes ==
  ASSUME NEW u \in Marks, NEW v \in Marks
  PROVE  /\ ContentAt(v) \in SUBSET Docs /\ Cardinality(ContentAt(v)) \in Nat
         /\ NewSince(u, v) \in SUBSET Docs
         /\ Messages("found", ContentAt(v)) \in Seq(Sent)
         /\ Messages("found", NewSince(u, v)) \in Seq(Sent)
         /\ Messages("gone", ContentAt(u) \ ContentAt(v)) \in Seq(Sent)
         /\ Exact(u, v) \in Seq(Sent)
<1>1. ContentAt(v) \in SUBSET Docs /\ NewSince(u, v) \in SUBSET Docs
      /\ ContentAt(u) \ ContentAt(v) \in SUBSET Docs
  BY VersionTypes DEF NewSince
<1>2. Cardinality(ContentAt(v)) \in Nat
  BY <1>1, DocsAssumption, FS_Subset, FS_CardinalityType
<1>3. Seq(OfDoc) \subseteq Seq(Sent)
  BY SeqMonotonic DEF Sent
<1>4. "found" \in DocKinds /\ "gone" \in DocKinds
  BY DEF DocKinds
<1>5. /\ Messages("found", ContentAt(v)) \in Seq(Sent)
      /\ Messages("found", NewSince(u, v)) \in Seq(Sent)
      /\ Messages("gone", ContentAt(u) \ ContentAt(v)) \in Seq(Sent)
  BY <1>1, <1>3, <1>4, MessagesAre
<1>6. Exact(u, v) \in Seq(Sent)
  BY <1>5, ConcatProperties DEF Exact
<1> QED
  BY <1>1, <1>2, <1>5, <1>6

\* A watch starts with messages about the target.
LEMMA StartsSend ==
  ASSUME TypeOK, NEW v \in Versions, ServerStarts(v)
  PROVE  \E changes \in Seq(Sent) : Sends(v, changes)
<1> DEFINE new == ContentAt(v)
           found == Messages("found", NewSince(server.at, v))
           filter == [kind |-> "filter", token |-> 0, count |-> Cardinality(new)]
           current == Token("current", v)
<1>1. v \in Marks /\ server.at \in Marks
  BY VersionTypes DEF Versions, Marks, TypeOK
<1>2. /\ found \in Seq(Sent) /\ Exact(server.at, v) \in Seq(Sent)
      /\ Messages("found", new) \in Seq(Sent) /\ Cardinality(new) \in Nat
  BY <1>1, SentTypes
<1>3. current \in Sent /\ filter \in Sent /\ Token("reset", 0) \in Sent
  BY <1>1, <1>2, TokenTypes, ZeroMark DEF Sent, Filter
<1>4. \/ Sends(v, Append(Exact(server.at, v), current))
      \/ Sends(v, found \o <<filter, current>>)
      \/ Sends(v, found \o <<current, filter>>)
      \/ Sends(v, <<Token("reset", 0)>> \o Append(Messages("found", new), current))
  BY DEF ServerStarts
<1> HIDE DEF new, found, filter, current
<1>5. Append(Exact(server.at, v), current) \in Seq(Sent)
  BY <1>2, <1>3, AppendProperties
<1>6. found \o <<filter, current>> \in Seq(Sent)
      /\ found \o <<current, filter>> \in Seq(Sent)
  <2>1. <<filter, current>> \in Seq(Sent) /\ <<current, filter>> \in Seq(Sent)
    BY <1>3
  <2> QED
    BY <1>2, <2>1, ConcatProperties
<1>7. <<Token("reset", 0)>> \o Append(Messages("found", new), current) \in Seq(Sent)
  <2>1. <<Token("reset", 0)>> \in Seq(Sent)
    BY <1>3
  <2>2. Append(Messages("found", new), current) \in Seq(Sent)
    BY <1>2, <1>3, AppendProperties
  <2> QED
    BY <2>1, <2>2, ConcatProperties
<1> QED
  BY <1>1, <1>4, <1>5, <1>6, <1>7

LEMMA ServerType ==
  ASSUME TypeOK, Server \/ QueryChanges
  PROVE  TypeOK'
<1>1. CASE QueryChanges
  BY <1>1 DEF QueryChanges, ServerOnly, client, TypeOK
<1>2. CASE ServerReads
  <2>1. requests # <<>> /\ requests \in Seq(Requests)
    BY <1>2 DEF ServerReads, TypeOK
  <2>2. Head(requests).token \in Marks /\ Tail(requests) \in Seq(Requests)
    <3>1. Head(requests) \in Requests /\ Tail(requests) \in Seq(Requests)
      BY <2>1, HeadTailProperties
    <3> QED
      BY <3>1 DEF Requests
  <2>3. responses' \in Seq(Responses)
    <3>1. Token("added", 0) \in Responses /\ Token("removed", 0) \in Responses
      BY TokenTypes DEF AnswerKinds
    <3>2. Append(responses, Token("added", 0)) \in Seq(Responses)
          /\ Append(responses, Token("removed", 0)) \in Seq(Responses)
      BY <3>1, AppendProperties DEF TypeOK
    <3> QED
      BY <1>2, <3>2 DEF ServerReads
  <2>4. server' \in [state : {"no", "fresh", "current"}, at : Marks]
    BY <1>2, <2>2, ZeroMark DEF ServerReads, NoServer
  <2> QED
    BY <1>2, <2>2, <2>3, <2>4 DEF ServerReads, ServerOnly, client, TypeOK
<1>3. ASSUME NEW v \in Versions, ServerUpdates(v) PROVE TypeOK'
  <2>1. v \in Marks /\ server.at \in Marks
    BY VersionTypes DEF Versions, Marks, TypeOK
  <2>2. Exact(server.at, v) \in Seq(Sent)
    BY <2>1, SentTypes
  <2> QED
    BY <1>3, <2>1, <2>2, SendsType DEF ServerUpdates
<1>4. ASSUME NEW v \in Versions, ServerStarts(v) PROVE TypeOK'
  BY <1>4, StartsSend, SendsType
<1> QED
  BY <1>1, <1>2, <1>3, <1>4 DEF Server

LEMMA LimboType ==
  ASSUME TypeOK, NEW d \in Docs, LimboResolves(d)
  PROVE  TypeOK'
BY DEF LimboResolves, TypeOK, Caches

LEMMA NextType == TypeOK /\ [Next]_vars => TypeOK'
<1> SUFFICES ASSUME TypeOK, [Next]_vars PROVE TypeOK'
  OBVIOUS
<1>1. CASE Listen
  BY <1>1, ListenType
<1>2. CASE StopListening
  BY <1>2, StopType
<1>3. CASE EnableNetwork \/ Faults
  BY <1>3, FaultsType
<1>4. CASE Connection
  BY <1>4, ConnectionType
<1>5. CASE OnWatchStreamChange
  BY <1>5, MessageType, SnapshotType DEF OnWatchStreamChange
<1>6. CASE \E d \in Docs : LimboResolves(d)
  BY <1>6, LimboType
<1>7. CASE Server \/ QueryChanges
  BY <1>7, ServerType
<1>8. CASE UNCHANGED vars
  BY <1>8 DEF vars, client, TypeOK
<1> QED
  BY <1>1, <1>2, <1>3, <1>4, <1>5, <1>6, <1>7, <1>8 DEF Next

\* The variables of RemoteStore, SyncEngine, LocalStore and of the server keep
\* their types.
THEOREM TypeCorrect == Spec => []TypeOK
BY InitType, NextType, PTL DEF Spec

-----------------------------------------------------------------------------
(* The stream's and the tracker's assertions *)

\* Credentials are due and timers run in the states that wait for them, the
\* idle timer only while nothing is listened to, and nothing is left of a call
\* that is over.
ConnectionOK ==
  /\ stream.asserts = "hold"
  /\ "current" \in stream.creds => stream.state = "Starting"
  /\ "backoff" \in stream.timers => stream.state = "Backoff"
  /\ "idle" \in stream.timers => IsOpen(stream) /\ listening = "no"
  /\ IsStarted(stream) => network = "enabled"
  /\ ~IsOpen(stream) => /\ requests = <<>> /\ responses = <<>> /\ server = NoServer
                        /\ state = Erased /\ mismatch = "no" /\ updates = NoUpdates

\* The tracker waits only for a first attempt that is still under way.
TrackerOK ==
  /\ online.asserts = "hold"
  /\ online.timer = "running" =>
       online.state = "Unknown" /\ online.failures = 0 /\ IsStarted(stream)
  /\ online.state = "Online" => online.failures = 0

LEMMA ListenConnection ==
  ASSUME TypeOK, ConnectionOK, TrackerOK, Listen
  PROVE  ConnectionOK' /\ TrackerOK'
<1> USE DEF Streams, States, Trackers, IsStarted, IsOpen
<1>0. stream \in Streams /\ online \in Trackers /\ listening = "no"
  BY DEF TypeOK, Listen
<1>1. CASE ShouldStartWatchStream("yes", stream, network)
  <2>1. /\ stream' = Start(stream) /\ online' = HandleWatchStreamStart(online)
        /\ state' = Erased /\ mismatch' = "no" /\ updates' = NoUpdates
        /\ UNCHANGED <<network, requests, responses, server>>
    BY <1>1 DEF Listen
  <2>2. ~IsStarted(stream) /\ network = "enabled" /\ online.timer = "off"
    BY <1>0, <1>1 DEF ShouldStartWatchStream, TrackerOK
  <2>3. ConnectionOK'
    BY <1>0, <2>1, <2>2 DEF ConnectionOK, Start, HardAssert
  <2>4. TrackerOK'
    BY <1>0, <2>1, <2>2 DEF TrackerOK, Start, HardAssert, HandleWatchStreamStart, Require
  <2> QED
    BY <2>3, <2>4
<1>2. CASE ~ShouldStartWatchStream("yes", stream, network) /\ IsOpen(stream)
  <2>1. stream' = Write(stream) /\ UNCHANGED <<network, online>>
    BY <1>2 DEF Listen
  <2> QED
    BY <1>0, <1>2, <2>1 DEF ConnectionOK, TrackerOK, Write, HardAssert
<1>3. CASE ~ShouldStartWatchStream("yes", stream, network) /\ ~IsOpen(stream)
  <2>1. UNCHANGED <<network, online, stream, state, requests, responses, server,
                    mismatch, updates>>
    BY <1>3 DEF Listen
  <2> QED
    BY <1>0, <1>3, <2>1 DEF ConnectionOK, TrackerOK
<1> QED
  BY <1>1, <1>2, <1>3

LEMMA StopConnection ==
  ASSUME TypeOK, ConnectionOK, TrackerOK, StopListening
  PROVE  ConnectionOK' /\ TrackerOK'
<1> USE DEF Streams, States, Trackers, IsStarted, IsOpen
<1>0. stream \in Streams /\ online \in Trackers
      /\ listening' = "no" /\ UNCHANGED <<network, mismatch, updates, responses, server>>
  BY DEF TypeOK, StopListening
<1>1. CASE IsOpen(stream)
  <2>1. stream' = MarkIdle(Write(stream)) /\ UNCHANGED online
    BY <1>1 DEF StopListening
  <2> QED
    BY <1>0, <1>1, <2>1 DEF ConnectionOK, TrackerOK, Write, MarkIdle, HardAssert
<1>2. CASE ~IsOpen(stream)
  <2>1. /\ online' = IF network = "enabled"
                     THEN UpdateState(online, "Unknown") ELSE online
        /\ UNCHANGED <<requests, state, stream>>
    BY <1>2 DEF StopListening
  <2>2. ConnectionOK'
    BY <1>0, <1>2, <2>1 DEF ConnectionOK
  <2>3. TrackerOK'
    BY <1>0, <1>2, <2>1 DEF TrackerOK, UpdateState
  <2> QED
    BY <2>2, <2>3
<1> QED
  BY <1>1, <1>2

\* A call that failed, of a stream whose state allows it.
LEMMA FailedConnection ==
  ASSUME TypeOK, ConnectionOK, TrackerOK, NEW s \in Streams, OnStreamFailed(s),
         IsStarted(s), s.asserts = "hold", network = "enabled"
  PROVE  ConnectionOK' /\ TrackerOK'
<1> USE DEF Streams, States, Trackers, IsStarted, IsOpen
<1>0. online \in Trackers /\ CleanUpWatchStreamState /\ UNCHANGED <<network, listening>>
      /\ StartOr(listening, Close(s, FALSE), network,
                 HandleWatchStreamFailure(online), UpdateState(online, "Unknown"))
  BY DEF TypeOK, OnStreamFailed
<1>1. Close(s, FALSE) \in Streams /\ Close(s, FALSE).state = "Error"
      /\ Close(s, FALSE).timers = {} /\ "current" \notin Close(s, FALSE).creds
      /\ Close(s, FALSE).asserts = "hold"
  BY DEF Close, HardAssert
<1>2. /\ state' = Erased /\ mismatch' = "no" /\ updates' = NoUpdates
      /\ requests' = <<>> /\ responses' = <<>> /\ server' = NoServer
  BY <1>0 DEF CleanUpWatchStreamState
<1>3. CASE listening = "yes"
  <2>1. stream' = Start(Close(s, FALSE))
        /\ online' = HandleWatchStreamStart(HandleWatchStreamFailure(online))
    BY <1>0, <1>1, <1>3 DEF StartOr, ShouldStartWatchStream, Broadcast
  <2>2. ConnectionOK'
    BY <1>0, <1>1, <1>2, <2>1 DEF ConnectionOK, Start
  <2> DEFINE o == HandleWatchStreamFailure(online)
  <2>3. /\ o \in Trackers /\ o.asserts = "hold" /\ o.timer = "off"
        /\ o.state = "Online" => o.failures = 0
    BY <1>0 DEF TrackerOK, HandleWatchStreamFailure, Require, kMaxWatchStreamFailures
  <2>4. stream'.state = "Backoff"
    BY <1>1, <2>1 DEF Start
  <2>5. online' = HandleWatchStreamStart(o)
    BY <2>1
  <2> HIDE DEF o
  <2>6. TrackerOK'
    BY <2>3, <2>4, <2>5 DEF TrackerOK, HandleWatchStreamStart, Require
  <2> QED
    BY <2>2, <2>6
<1>4. CASE listening # "yes"
  <2>1. stream' = Close(s, FALSE) /\ online' = UpdateState(online, "Unknown")
    BY <1>0, <1>4 DEF StartOr, ShouldStartWatchStream, Broadcast
  <2>2. ConnectionOK'
    BY <1>0, <1>1, <1>2, <2>1 DEF ConnectionOK
  <2>3. TrackerOK'
    BY <1>0, <2>1 DEF TrackerOK, UpdateState
  <2> QED
    BY <2>2, <2>3
<1> QED
  BY <1>3, <1>4

\* A connection that is closed gracefully, because nobody listens or the
\* network is taken away.
LEMMA StopsWell ==
  ASSUME TypeOK, ConnectionOK, NEW net, net = "disabled" \/ listening = "no"
  PROVE  LET s == Stopped(stream, listening, net)
         IN  /\ s \in Streams /\ ~IsStarted(s) /\ s.asserts = "hold"
             /\ s.timers \subseteq {"health"} /\ "current" \notin s.creds
<1> USE DEF Streams, States, IsStarted, IsOpen
<1>0. stream \in Streams
  BY DEF TypeOK
<1>1. CASE IsStarted(stream)
  <2>1. Close(stream, TRUE) \in Streams /\ Close(stream, TRUE).state = "Initial"
        /\ Close(stream, TRUE).timers = {} /\ "current" \notin Close(stream, TRUE).creds
        /\ Close(stream, TRUE).asserts = "hold"
    BY <1>0, <1>1 DEF Close, HardAssert, ConnectionOK
  <2>2. ~ShouldStartWatchStream(listening, Close(stream, TRUE), net)
    BY DEF ShouldStartWatchStream
  <2>3. Stopped(stream, listening, net) = Close(stream, TRUE)
    BY <1>1, <2>2 DEF Stopped, HardAssert
  <2> QED
    BY <2>1, <2>3
<1>2. CASE ~IsStarted(stream)
  <2>1. Stopped(stream, listening, net) = stream
    BY <1>2 DEF Stopped
  <2> QED
    BY <1>0, <1>2, <2>1 DEF ConnectionOK
<1> QED
  BY <1>1, <1>2

LEMMA ConnectionConnection ==
  ASSUME TypeOK, ConnectionOK, TrackerOK, Connection
  PROVE  ConnectionOK' /\ TrackerOK'
<1> USE DEF Streams, States, Trackers, IsStarted, IsOpen
<1>0. stream \in Streams /\ online \in Trackers
  BY DEF TypeOK
<1>1. CASE CredentialsArrive
  <2>1. stream.state = "Starting" /\ UNCHANGED <<network, online, listening, mismatch,
                                                 updates, responses, server>>
    BY <1>1 DEF CredentialsArrive, ConnectionOK, StreamOnly
  <2> DEFINE s == ResumeStartWithCredentials(stream)
  <2>2. s \in Streams /\ s.state = "Open" /\ s.asserts = "hold"
        /\ "current" \notin s.creds /\ "backoff" \notin s.timers /\ "idle" \notin s.timers
    BY <1>0, <2>1 DEF ConnectionOK, ResumeStartWithCredentials, HardAssert
  <2>3. stream' = s \/ stream' = Write(s)
    BY <1>1 DEF CredentialsArrive
  <2> HIDE DEF s
  <2>4. stream'.state = "Open" /\ stream'.asserts = "hold"
        /\ "current" \notin stream'.creds /\ "backoff" \notin stream'.timers
        /\ "idle" \notin stream'.timers
    BY <2>2, <2>3 DEF Write, HardAssert
  <2> QED
    BY <2>1, <2>4 DEF ConnectionOK, TrackerOK
<1>2. CASE StaleCredentialsArrive
  BY <1>0, <1>2 DEF StaleCredentialsArrive, StreamOnly, ConnectionOK, TrackerOK
<1>3. CASE BackoffTimer
  <2>1. stream.state = "Backoff" /\ UNCHANGED <<network, online, listening, mismatch,
                                         updates, requests, responses, server, state>>
    BY <1>3 DEF BackoffTimer, ConnectionOK, StreamOnly
  <2>2. stream' = BackoffElapses(stream)
    BY <1>3 DEF BackoffTimer
  <2> QED
    BY <1>0, <2>1, <2>2 DEF ConnectionOK, TrackerOK, BackoffElapses, Start, HardAssert
<1>4. CASE HealthTimer
  BY <1>0, <1>4 DEF HealthTimer, StreamOnly, HealthCheck, ConnectionOK, TrackerOK
<1>5. CASE IdleTimer
  <2>1. listening = "no" /\ CleanUpWatchStreamState /\ UNCHANGED <<network, listening>>
        /\ stream' = Stopped(stream, listening, network)
        /\ online' = UpdateState(online, "Unknown")
    BY <1>5 DEF IdleTimer, ConnectionOK, Broadcast
  <2>2. ~IsStarted(stream') /\ stream' \in Streams /\ stream'.asserts = "hold"
        /\ stream'.timers \subseteq {"health"} /\ "current" \notin stream'.creds
    BY <2>1, StopsWell
  <2>3. ConnectionOK'
    BY <2>1, <2>2 DEF ConnectionOK, CleanUpWatchStreamState
  <2>4. TrackerOK'
    BY <1>0, <2>1 DEF TrackerOK, UpdateState
  <2> QED
    BY <2>3, <2>4
<1>6. CASE OnlineStateTimer
  <2>1. online' = TimeoutElapses(online) /\ online.timer = "running"
        /\ UNCHANGED <<network, stream, listening, mismatch, updates, requests,
                       responses, server, state>>
    BY <1>6 DEF OnlineStateTimer, Broadcast, StreamOnly
  <2> QED
    BY <1>0, <2>1 DEF ConnectionOK, TrackerOK, TimeoutElapses, Require
<1> QED
  BY <1>1, <1>2, <1>3, <1>4, <1>5, <1>6 DEF Connection

LEMMA FaultsConnection ==
  ASSUME TypeOK, ConnectionOK, TrackerOK, Faults \/ EnableNetwork
  PROVE  ConnectionOK' /\ TrackerOK'
<1> USE DEF Streams, States, Trackers, IsStarted, IsOpen
<1>0. stream \in Streams /\ online \in Trackers
  BY DEF TypeOK
<1>1. CASE CredentialsFail
  <2> DEFINE s == [HardAssert(stream.state = "Starting", stream) EXCEPT
                     !.creds = @ \ {"current"}]
  <2>1. OnStreamFailed(s) /\ stream.state = "Starting" /\ network = "enabled"
    BY <1>1 DEF CredentialsFail, ConnectionOK
  <2>2. s \in Streams /\ IsStarted(s) /\ s.asserts = "hold"
    BY <1>0, <2>1 DEF HardAssert, ConnectionOK
  <2> QED
    BY <2>1, <2>2, FailedConnection
<1>2. CASE CallFails
  <2>1. OnStreamFailed(stream) /\ IsStarted(stream) /\ network = "enabled"
    BY <1>2 DEF CallFails, ConnectionOK
  <2> QED
    BY <1>0, <2>1, FailedConnection DEF ConnectionOK
<1>3. CASE DisableNetwork
  <2>1. CleanUpWatchStreamState /\ UNCHANGED listening
        /\ stream' = Stopped(stream, listening, "disabled")
        /\ online' = UpdateState(online, "Offline")
    BY <1>3 DEF DisableNetwork, Broadcast
  <2>2. ~IsStarted(stream') /\ stream' \in Streams /\ stream'.asserts = "hold"
        /\ stream'.timers \subseteq {"health"} /\ "current" \notin stream'.creds
    BY <2>1, StopsWell
  <2>3. ConnectionOK'
    BY <2>1, <2>2 DEF ConnectionOK, CleanUpWatchStreamState
  <2>4. TrackerOK'
    BY <1>0, <2>1 DEF TrackerOK, UpdateState
  <2> QED
    BY <2>3, <2>4
<1>4. CASE RestartNetwork
  <2> DEFINE stopped == Stopped(stream, listening, "disabled")
             s == InhibitBackoff(stopped)
             unknown == UpdateState(online, "Unknown")
  <2>1. CleanUpWatchStreamState /\ UNCHANGED <<network, listening>>
        /\ network = "enabled" /\ StartOr(listening, s, "enabled", unknown, unknown)
    BY <1>4 DEF RestartNetwork
  <2>2. ~IsStarted(stopped) /\ stopped \in Streams /\ stopped.asserts = "hold"
        /\ stopped.timers \subseteq {"health"} /\ "current" \notin stopped.creds
    BY StopsWell
  <2>3. unknown \in Trackers /\ unknown.asserts = "hold" /\ unknown.timer = "off"
        /\ unknown.state = "Unknown" /\ unknown.failures = 0
    BY <1>0 DEF UpdateState, TrackerOK
  <2> HIDE DEF stopped, unknown
  <2>4. s \in Streams /\ s.state = "Initial" /\ s.asserts = "hold"
        /\ s.timers \subseteq {"health"} /\ "current" \notin s.creds
    BY <2>2 DEF InhibitBackoff, HardAssert
  <2> HIDE DEF s
  <2>5. CASE listening = "yes"
    <3>1. stream' = Start(s) /\ online' = HandleWatchStreamStart(unknown)
      BY <2>1, <2>4, <2>5 DEF StartOr, ShouldStartWatchStream, Broadcast
    <3>2. stream'.state = "Starting" /\ stream'.timers \subseteq {"health"}
          /\ stream'.asserts = "hold"
      BY <2>4, <3>1 DEF Start, HardAssert
    <3>3. ConnectionOK'
      BY <2>1, <3>2 DEF ConnectionOK, CleanUpWatchStreamState
    <3>4. TrackerOK'
      BY <2>3, <3>1, <3>2 DEF TrackerOK, HandleWatchStreamStart, Require
    <3> QED
      BY <3>3, <3>4
  <2>6. CASE listening # "yes"
    <3>1. stream' = s /\ online' = unknown
      BY <2>1, <2>6 DEF StartOr, ShouldStartWatchStream, Broadcast
    <3>2. ConnectionOK'
      BY <2>1, <2>4, <3>1 DEF ConnectionOK, CleanUpWatchStreamState
    <3>3. TrackerOK'
      BY <2>3, <3>1 DEF TrackerOK
    <3> QED
      BY <3>2, <3>3
  <2> QED
    BY <2>5, <2>6
<1>5. CASE Crash
  BY <1>5 DEF Crash, CleanUpWatchStreamState, ConnectionOK, TrackerOK, NewStream, NewTracker
<1>6. CASE ServerRejects
  <2>1. server # NoServer /\ UNCHANGED <<network, stream, online, listening, state,
                                         mismatch, updates>>
    BY <1>6 DEF ServerRejects, NoServer, client
  <2> QED
    BY <2>1 DEF ConnectionOK, TrackerOK
<1>7. CASE EnableNetwork
  <2>1. network' = "enabled" /\ UNCHANGED <<listening, state, mismatch, updates,
                                            requests, responses, server>>
        /\ StartOr(listening, stream, "enabled", online, UpdateState(online, "Unknown"))
    BY <1>7 DEF EnableNetwork
  <2>2. CASE ShouldStartWatchStream(listening, stream, "enabled")
    <3>1. stream' = Start(stream) /\ online' = HandleWatchStreamStart(online)
          /\ ~IsStarted(stream) /\ online.timer = "off" /\ listening = "yes"
      BY <1>0, <2>1, <2>2 DEF StartOr, ShouldStartWatchStream, Broadcast, TrackerOK
    <3>2. ConnectionOK'
      BY <1>0, <2>1, <3>1 DEF ConnectionOK, Start, HardAssert
    <3>3. TrackerOK'
      BY <1>0, <3>1 DEF TrackerOK, Start, HardAssert, HandleWatchStreamStart, Require
    <3> QED
      BY <3>2, <3>3
  <2>3. CASE ~ShouldStartWatchStream(listening, stream, "enabled")
    <3>1. stream' = stream /\ online' = UpdateState(online, "Unknown")
      BY <2>1, <2>3 DEF StartOr, Broadcast
    <3>2. ConnectionOK'
      BY <1>0, <2>1, <3>1 DEF ConnectionOK
    <3>3. TrackerOK'
      BY <1>0, <3>1 DEF TrackerOK, UpdateState
    <3> QED
      BY <3>2, <3>3
  <2> QED
    BY <2>2, <2>3
<1> QED
  BY <1>1, <1>2, <1>3, <1>4, <1>5, <1>6, <1>7 DEF Faults

LEMMA ReceiveConnection ==
  ASSUME TypeOK, ConnectionOK, TrackerOK, OnWatchStreamChange
  PROVE  ConnectionOK' /\ TrackerOK'
<1> USE DEF Streams, States, Trackers, IsStarted, IsOpen
<1>0. stream \in Streams /\ online \in Trackers
  BY DEF TypeOK
<1>1. PICK kind : Receive(kind)
  BY DEF OnWatchStreamChange, OnTargetAdded, OnTargetRemoved, OnTargetCurrent,
         OnTargetReset, OnDocumentFound, OnDocumentGone, OnExistenceFilter,
         OnTargetError, OnSnapshot
<1>2. IsOpen(stream) /\ UNCHANGED network /\ online' = UpdateState(online, "Online")
  BY <1>1 DEF Receive, ConnectionOK
<1>3. \/ stream' = stream /\ (listening' = listening \/ listening' = "no")
      \/ stream' = Write(stream) /\ listening' = listening
  BY DEF OnWatchStreamChange, OnTargetAdded, OnTargetRemoved, OnTargetCurrent,
         OnTargetReset, OnDocumentFound, OnDocumentGone, OnExistenceFilter,
         OnTargetError, OnSnapshot, RaiseWatchSnapshot, Rewatch, Quiet
<1>4. IsOpen(stream') /\ stream'.asserts = "hold" /\ stream'.creds = stream.creds
      /\ stream'.state = stream.state /\ stream'.timers \subseteq stream.timers
      /\ ("idle" \in stream'.timers => listening' = "no")
  BY <1>0, <1>2, <1>3 DEF ConnectionOK, Write, HardAssert
<1>5. ConnectionOK'
  BY <1>0, <1>2, <1>4 DEF ConnectionOK
<1>6. TrackerOK'
  BY <1>0, <1>2 DEF TrackerOK, UpdateState
<1> QED
  BY <1>5, <1>6

LEMMA ServerConnection ==
  ASSUME TypeOK, ConnectionOK, TrackerOK, Server \/ QueryChanges
  PROVE  ConnectionOK' /\ TrackerOK'
<1>1. UNCHANGED client
  BY DEF Server, QueryChanges, ServerReads, ServerUpdates, ServerStarts, Sends, ServerOnly
<1>2. CASE ServerReads
  BY <1>1, <1>2 DEF ServerReads, ConnectionOK, TrackerOK, client
<1>3. ASSUME NEW v \in Versions, ServerUpdates(v) \/ ServerStarts(v)
      PROVE  ConnectionOK' /\ TrackerOK'
  <2>1. server # NoServer
    BY <1>3 DEF ServerUpdates, ServerStarts, NoServer
  <2> QED
    BY <1>1, <2>1 DEF ConnectionOK, TrackerOK, client
<1>4. CASE QueryChanges
  BY <1>1, <1>4 DEF QueryChanges, ConnectionOK, TrackerOK, client
<1> QED
  BY <1>2, <1>3, <1>4 DEF Server

LEMMA NextConnection == TypeOK /\ ConnectionOK /\ TrackerOK /\ [Next]_vars
                          => ConnectionOK' /\ TrackerOK'
<1> SUFFICES ASSUME TypeOK, ConnectionOK, TrackerOK, [Next]_vars
             PROVE  ConnectionOK' /\ TrackerOK'
  OBVIOUS
<1>1. CASE \E d \in Docs : LimboResolves(d)
  BY <1>1 DEF LimboResolves, ConnectionOK, TrackerOK
<1>2. CASE UNCHANGED vars
  BY <1>2 DEF vars, client, ConnectionOK, TrackerOK
<1> QED
  BY <1>1, <1>2, ListenConnection, StopConnection, ConnectionConnection,
     FaultsConnection, ReceiveConnection, ServerConnection DEF Next

-----------------------------------------------------------------------------
(* The view's assertion *)

\* A change is an addition just if the target has not got the document.
Fits(s, keys) == \A d \in DOMAIN s.docs : s.docs[d] = "Added" <=> d \notin keys

\* The view of a target that is listened to has the keys that are on disk, and
\* the changes fit those.
ChangesOK ==
  /\ listening = "yes" => view.keys = cache.keys
  /\ Fits(state, cache.keys)

LEMMA FitsKept ==
  ASSUME NEW s \in TargetStates, NEW keys
  PROVE  /\ Fits(NewState, keys) /\ Fits(Erased, keys)
         /\ Fits(ClearPendingChanges(s), keys)
         /\ Fits(s, keys) =>
              /\ Fits(Ensure(s), keys) /\ Fits(RecordPendingTargetRequest(s), keys)
              /\ \A t : Fits(UpdateResumeToken(s, t), keys)
              /\ Fits(OnAdded(s), keys) /\ Fits(OnRemoved(s), keys)
              /\ Fits(MarkCurrent(s), keys)
<1> USE NoChange DEF Fits, TargetStates
<1>1. Fits(NewState, keys) /\ Fits(Erased, keys)
  BY DEF NewState, Erased
<1>2. Fits(ClearPendingChanges(s), keys)
  BY DEF ClearPendingChanges
<1>3. ASSUME Fits(s, keys)
      PROVE  /\ Fits(Ensure(s), keys) /\ Fits(RecordPendingTargetRequest(s), keys)
             /\ \A t : Fits(UpdateResumeToken(s, t), keys)
             /\ Fits(MarkCurrent(s), keys)
  BY <1>3 DEF Ensure, RecordPendingTargetRequest, UpdateResumeToken, MarkCurrent
<1>4. ASSUME Fits(s, keys) PROVE Fits(OnAdded(s), keys)
  BY <1>4 DEF OnAdded, Ensure, ClearPendingChanges
<1>5. ASSUME Fits(s, keys) PROVE Fits(OnRemoved(s), keys)
  BY <1>4, <1>5, <1>1 DEF OnRemoved, Ensure
<1> QED
  BY <1>1, <1>2, <1>3, <1>4, <1>5

LEMMA FitsReset ==
  ASSUME NEW s, NEW keys
  PROVE  Fits(ResetTarget(s, keys), keys)
<1>1. ResetTarget(s, keys).docs = [e \in keys |-> "Removed"]
  BY DEF ResetTarget, NewState
<1> QED
  BY <1>1 DEF Fits

LEMMA FitsDocuments ==
  ASSUME NEW s \in TargetStates, NEW d \in Docs, NEW keys \in SUBSET Docs, Fits(s, keys)
  PROVE  /\ Fits(AddDocument(s, d, keys), keys)
         /\ Fits(RemoveDocument(s, d, keys), keys)
<1>1. /\ s.docs \in DocChanges /\ Ensure(s).docs = s.docs
      /\ \A f : [Ensure(s) EXCEPT !.docs = f, !.changed = "yes"].docs = f
  BY DEF TargetStates, Ensure
<1>2. AddDocument(s, d, keys).docs =
        Put(s.docs, d, IF d \in keys THEN "Modified" ELSE "Added")
  BY <1>1 DEF AddDocument
<1>3. Fits(AddDocument(s, d, keys), keys)
  BY <1>2 DEF Fits, Put
<1>4. RemoveDocument(s, d, keys).docs =
        IF d \in keys THEN Put(s.docs, d, "Removed")
        ELSE [e \in DOMAIN s.docs \ {d} |-> s.docs[e]]
  BY <1>1 DEF RemoveDocument
<1>5. Fits(RemoveDocument(s, d, keys), keys)
  BY <1>4 DEF Fits, Put
<1> QED
  BY <1>3, <1>5

\* A snapshot takes the same documents into the view and onto the disk, and
\* leaves no change behind.
LEMMA SnapshotChanges ==
  ASSUME TypeOK, ChangesOK, OnSnapshot
  PROVE  ChangesOK'
<1> DEFINE v == Head(responses).token
           s == IF state.held = "yes" /\ IsActive(state)
                THEN UpdateResumeToken(state, v) ELSE state
           included == s.held = "yes" /\ IsActive(s) /\ s.changed = "yes"
           rest == IF included THEN ClearPendingChanges(s) ELSE s
<1>1. Receive("snapshot") /\ UNCHANGED listening
  BY DEF OnSnapshot
<1>2. s \in TargetStates
  BY <1>1, ReceiveType, StateTypes DEF TypeOK
<1>3. Fits(s, cache.keys)
  BY FitsKept DEF TypeOK, ChangesOK
<1>4. CASE ~(v >= cache.last)
  <2>1. state' = s /\ UNCHANGED <<view, cache>>
    BY <1>4 DEF OnSnapshot
  <2> QED
    BY <1>1, <1>3, <2>1 DEF ChangesOK
<1>5. CASE v >= cache.last
  <2>1. RaiseWatchSnapshot(s, v)
    BY <1>5 DEF OnSnapshot
  <2> HIDE DEF s, v
  <2>2. rest \in TargetStates
    BY <1>2, StateTypes
  <2>3. state' = rest \/ state' = RecordPendingTargetRequest(RecordPendingTargetRequest(rest))
    BY <2>1 DEF RaiseWatchSnapshot, Rewatch
  <2>4. ASSUME NEW keys, Fits(rest, keys) PROVE Fits(state', keys)
    BY <2>2, <2>3, <2>4, FitsKept, StateTypes
  <2>5. ApplyToStore(s, v, included) /\ ApplyToView(s, included)
    BY <2>1 DEF RaiseWatchSnapshot
  <2>6. CASE included
    <3>1. cache'.keys = (cache.keys \ Changed(s, "Removed")) \cup Changed(s, "Added")
      BY <2>5, <2>6 DEF ApplyToStore, TypeOK, Caches
    <3>2. view'.keys = (view.keys \cup Changed(s, "Added")) \ Changed(s, "Removed")
      BY <2>5, <2>6 DEF ApplyToView
    <3>3. Changed(s, "Added") \cap Changed(s, "Removed") = {}
      BY DEF Changed
    <3>4. Fits(rest, cache'.keys)
      BY <1>2, <2>6, FitsKept
    <3>5. Fits(state', cache'.keys)
      BY <3>4, <2>4
    <3> QED
      BY <1>1, <3>1, <3>2, <3>3, <3>5 DEF ChangesOK, Fits
  <2>7. CASE ~included
    <3>1. cache'.keys = cache.keys /\ view' = view
      BY <2>5, <2>7 DEF ApplyToStore, ApplyToView, TypeOK, Caches
    <3>2. Fits(state', cache.keys)
      BY <1>3, <2>4, <2>7
    <3> QED
      BY <1>1, <3>1, <3>2 DEF ChangesOK, Fits
  <2> QED
    BY <2>6, <2>7
<1> QED
  BY <1>4, <1>5

LEMMA MessageChanges ==
  ASSUME TypeOK, ChangesOK, OnWatchStreamChange
  PROVE  ChangesOK'
<1> USE DEF TypeOK
<1>0. ASSUME Quiet, Fits(state', cache.keys) PROVE ChangesOK'
  BY <1>0 DEF ChangesOK, Quiet
<1>k. IsActive(state) => view.keys = cache.keys
  BY DEF IsActive, ChangesOK
<1>f. Fits(state, cache.keys) /\ Fits(Ensure(state), cache.keys) /\ Ensure(state) \in TargetStates
  BY FitsKept, StateTypes DEF ChangesOK
<1>1. CASE OnTargetAdded
  BY <1>0, <1>1, <1>f, FitsKept DEF OnTargetAdded
<1>2. CASE OnTargetRemoved
  BY <1>0, <1>2, <1>f, FitsKept DEF OnTargetRemoved
<1>3. CASE OnTargetCurrent
  <2>1. MarkCurrent(Ensure(state)) \in TargetStates
        /\ Fits(MarkCurrent(Ensure(state)), cache.keys)
    BY <1>f, StateTypes, FitsKept
  <2>2. Fits(UpdateResumeToken(MarkCurrent(Ensure(state)), Head(responses).token), cache.keys)
    BY <2>1, FitsKept
  <2>3. Fits(state', cache.keys)
    BY <1>3, <1>f, <2>2 DEF OnTargetCurrent
  <2> QED
    BY <1>0, <1>3, <2>3 DEF OnTargetCurrent
<1>4. CASE OnTargetReset
  <2>1. Fits(state', cache.keys)
    <3>1. CASE IsActive(Ensure(state))
      BY <1>4, <1>k, <3>1, FitsReset DEF OnTargetReset, IsActive, IsPending, Ensure, TargetStates
    <3>2. CASE ~IsActive(Ensure(state))
      BY <1>4, <1>f, <3>2 DEF OnTargetReset
    <3> QED
      BY <3>1, <3>2
  <2> QED
    BY <1>0, <1>4, <2>1 DEF OnTargetReset
<1>5. CASE OnDocumentFound
  <2>1. Head(responses).doc \in Docs
    BY <1>5, ReceiveType, ResponseFacts DEF OnDocumentFound, Receive, DocKinds
  <2>2. IsActive(state) => Fits(AddDocument(state, Head(responses).doc, view.keys), cache.keys)
    BY <1>f, <1>k, <2>1, FitsDocuments
  <2>3. Fits(state', cache.keys)
    BY <1>5, <1>f, <2>2 DEF OnDocumentFound
  <2> QED
    BY <1>0, <1>5, <2>3 DEF OnDocumentFound
<1>6. CASE OnDocumentGone
  <2>1. Head(responses).doc \in Docs
    BY <1>6, ReceiveType, ResponseFacts DEF OnDocumentGone, Receive, DocKinds
  <2>2. IsActive(state) => Fits(RemoveDocument(state, Head(responses).doc, view.keys), cache.keys)
    BY <1>f, <1>k, <2>1, FitsDocuments
  <2>3. Fits(state', cache.keys)
    BY <1>6, <1>f, <2>2 DEF OnDocumentGone
  <2> QED
    BY <1>0, <1>6, <2>3 DEF OnDocumentGone
<1>7. CASE OnExistenceFilter
  <2>1. Fits(state', cache.keys)
    BY <1>7, <1>f, <1>k, FitsReset DEF OnExistenceFilter
  <2> QED
    BY <1>0, <1>7, <2>1 DEF OnExistenceFilter
<1>8. CASE OnTargetError
  <2>1. CASE listening = "yes"
    <3>1. listening' = "no" /\ state' = Erased /\ cache'.keys = cache.keys
      BY <1>8, <2>1 DEF OnTargetError, Caches
    <3> QED
      BY <3>1, FitsKept DEF ChangesOK
  <2>2. CASE listening # "yes"
    BY <1>8, <2>2 DEF OnTargetError, ChangesOK
  <2> QED
    BY <2>1, <2>2
<1>9. CASE OnSnapshot
  BY <1>9, SnapshotChanges
<1> QED
  BY <1>1, <1>2, <1>3, <1>4, <1>5, <1>6, <1>7, <1>8, <1>9 DEF OnWatchStreamChange

LEMMA NextChanges == TypeOK /\ ChangesOK /\ [Next]_vars => ChangesOK'
<1> SUFFICES ASSUME TypeOK, ChangesOK, [Next]_vars PROVE ChangesOK'
  OBVIOUS
<1>b. ASSUME NEW o, Broadcast(o) PROVE view'.keys = view.keys
  BY <1>b DEF Broadcast, TypeOK
<1>s. ASSUME NEW l, NEW s, NEW net, NEW o, NEW idle, StartOr(l, s, net, o, idle)
      PROVE  view'.keys = view.keys
  BY <1>s, <1>b DEF StartOr
<1>0. ASSUME UNCHANGED <<cache, listening>>, view'.keys = view.keys,
             state' \in {state, Erased, RecordPendingTargetRequest(state)}
      PROVE  ChangesOK'
  BY <1>0, FitsKept DEF ChangesOK, TypeOK
<1>1. CASE Listen
  <2>1. view'.keys = cache.keys /\ UNCHANGED cache
        /\ state' \in {state, Erased, RecordPendingTargetRequest(state)}
    BY <1>1 DEF Listen
  <2> QED
    BY <2>1, FitsKept DEF ChangesOK, TypeOK
<1>2. CASE StopListening
  <2>1. listening' = "no" /\ cache'.keys = cache.keys
        /\ state' \in {state, RecordPendingTargetRequest(state)}
    BY <1>2 DEF StopListening, TypeOK, Caches
  <2> QED
    BY <2>1, FitsKept DEF ChangesOK, TypeOK
<1>3. CASE EnableNetwork
  BY <1>0, <1>s, <1>3 DEF EnableNetwork
<1>4. CASE Connection
  <2>1. CASE IdleTimer
    BY <1>0, <1>b, <2>1 DEF IdleTimer, CleanUpWatchStreamState
  <2>2. CASE OnlineStateTimer
    BY <1>0, <1>b, <2>2 DEF OnlineStateTimer, StreamOnly
  <2> QED
    BY <1>0, <1>4, <2>1, <2>2
       DEF Connection, CredentialsArrive, StaleCredentialsArrive, BackoffTimer,
           HealthTimer, StreamOnly
<1>5. CASE OnWatchStreamChange
  BY <1>5, MessageChanges
<1>6. CASE \E d \in Docs : LimboResolves(d)
  BY <1>0, <1>6 DEF LimboResolves, ChangesOK, TypeOK, Caches
<1>7. CASE Server \/ QueryChanges
  <2>1. UNCHANGED client
    BY <1>7 DEF Server, QueryChanges, ServerReads, ServerUpdates, ServerStarts, Sends,
                ServerOnly
  <2> QED
    BY <1>0, <2>1 DEF client
<1>8. CASE Faults
  <2>1. ASSUME NEW s, OnStreamFailed(s) PROVE ChangesOK'
    BY <1>0, <1>s, <2>1 DEF OnStreamFailed, CleanUpWatchStreamState
  <2>2. CASE DisableNetwork
    BY <1>0, <1>b, <2>2 DEF DisableNetwork, CleanUpWatchStreamState
  <2>3. CASE RestartNetwork
    BY <1>0, <1>s, <2>3 DEF RestartNetwork, CleanUpWatchStreamState
  <2>4. CASE Crash
    BY <2>4, FitsKept DEF Crash, CleanUpWatchStreamState, ChangesOK, TypeOK
  <2>5. CASE ServerRejects
    BY <1>0, <2>5 DEF ServerRejects, client
  <2> QED
    BY <1>8, <2>1, <2>2, <2>3, <2>4, <2>5 DEF Faults, CredentialsFail, CallFails
<1>9. CASE UNCHANGED vars
  BY <1>0, <1>9 DEF vars, client
<1> QED
  BY <1>1, <1>2, <1>3, <1>4, <1>5, <1>6, <1>7, <1>8, <1>9 DEF Next

LEMMA InitConnection == Init => ConnectionOK /\ TrackerOK /\ ChangesOK
BY NoChange DEF Init, NewStream, NewTracker, ConnectionOK, TrackerOK, ChangesOK, Fits,
                Erased, NewState, IsOpen, IsStarted, NoView

\* No assertion of the stream, of the tracker or of the view fails, however the
\* user, the timers, the network and the server interleave.
THEOREM AssertionsHoldAlways == Spec => []AssertionsHold
<1> DEFINE Inv == TypeOK /\ ConnectionOK /\ TrackerOK /\ ChangesOK
<1>1. Init => Inv
  BY InitType, InitConnection
<1>2. Inv /\ [Next]_vars => Inv'
  BY NextType, NextConnection, NextChanges
<1>3. Inv => AssertionsHold
  <2> SUFFICES ASSUME Inv PROVE AssertionsHold
    OBVIOUS
  <2>1. IsActive(state) => Changed(state, "Modified") \subseteq view.keys
    BY DEF ChangesOK, Fits, Changed, IsActive
  <2> QED
    BY <2>1 DEF AssertionsHold, ConnectionOK, TrackerOK
<1> QED
  BY <1>1, <1>2, <1>3, PTL DEF Spec

-----------------------------------------------------------------------------
(* The answers that are due *)

Answers(s) == {i \in DOMAIN s : s[i].kind \in {"added", "removed"}}

LEMMA Shift ==
  ASSUME NEW A \in SUBSET Int, IsFiniteSet(A), NEW n \in Int
  PROVE  IsFiniteSet({i + n : i \in A})
         /\ Cardinality({i + n : i \in A}) = Cardinality(A)
<1> DEFINE B == {i + n : i \in A}
           f == [i \in A |-> i + n]
<1>1. f \in [A -> B]
  OBVIOUS
<1>2. \A i, j \in A : f[i] = f[j] => i = j
  OBVIOUS
<1>3. \A b \in B : \E i \in A : f[i] = b
  OBVIOUS
<1>4. f \in Bijection(A, B)
  <2>1. f \in Injection(A, B)
    BY <1>1, <1>2 DEF Injection, IsInjective
  <2>2. f \in Surjection(A, B)
    BY <1>1, <1>3 DEF Surjection
  <2> QED
    BY <2>1, <2>2 DEF Bijection
<1> QED
  BY <1>4, FS_Bijection DEF ExistsBijection

LEMMA AnswersFinite ==
  ASSUME NEW s \in Seq(Responses)
  PROVE  Answers(s) \in SUBSET (1..Len(s)) /\ IsFiniteSet(Answers(s))
         /\ Cardinality(Answers(s)) \in Nat
<1>1. Answers(s) \in SUBSET (1..Len(s)) /\ Len(s) \in Nat
  BY LenProperties DEF Answers
<1>2. IsFiniteSet(1..Len(s))
  BY <1>1, FS_Interval
<1> QED
  BY <1>1, <1>2, FS_Subset, FS_CardinalityType

LEMMA AnswersConcat ==
  ASSUME NEW s \in Seq(Responses), NEW t \in Seq(Responses)
  PROVE  Cardinality(Answers(s \o t)) = Cardinality(Answers(s)) + Cardinality(Answers(t))
<1> DEFINE T == {i + Len(s) : i \in Answers(t)}
<1>1. Len(s) \in Nat /\ Len(t) \in Nat
  BY LenProperties
<1>2. Answers(s) \in SUBSET (1..Len(s)) /\ Answers(t) \in SUBSET (1..Len(t))
      /\ IsFiniteSet(Answers(s)) /\ IsFiniteSet(Answers(t))
      /\ Cardinality(Answers(s)) \in Nat /\ Cardinality(Answers(t)) \in Nat
  BY AnswersFinite
<1>3. /\ DOMAIN (s \o t) = 1..Len(s) + Len(t)
      /\ \A i \in 1..Len(s) + Len(t) :
           (s \o t)[i] = IF i <= Len(s) THEN s[i] ELSE t[i - Len(s)]
  BY ConcatProperties, LenProperties
<1>4. Answers(s \o t) = Answers(s) \cup T
  <2>1. ASSUME NEW i \in Answers(s \o t) PROVE i \in Answers(s) \cup T
    <3>1. i \in 1..Len(s) + Len(t) /\ (s \o t)[i].kind \in {"added", "removed"}
      BY <2>1, <1>3 DEF Answers
    <3>2. CASE i <= Len(s)
      BY <1>1, <1>3, <3>1, <3>2, LenProperties DEF Answers
    <3>3. CASE i > Len(s)
      <4>1. i - Len(s) \in 1..Len(t) /\ (s \o t)[i] = t[i - Len(s)]
        BY <1>1, <1>3, <3>1, <3>3
      <4>2. i - Len(s) \in Answers(t)
        BY <3>1, <4>1, LenProperties DEF Answers
      <4>3. i = (i - Len(s)) + Len(s)
        BY <1>1, <3>1
      <4> QED
        BY <4>2, <4>3
    <3> QED
      BY <1>1, <3>1, <3>2, <3>3
  <2>2. ASSUME NEW i \in Answers(s) PROVE i \in Answers(s \o t)
    BY <1>1, <1>2, <1>3, <2>2 DEF Answers
  <2>3. ASSUME NEW i \in Answers(t) PROVE i + Len(s) \in Answers(s \o t)
    <3>1. i \in 1..Len(t) /\ t[i].kind \in {"added", "removed"}
      BY <1>2, <2>3 DEF Answers
    <3>2. i + Len(s) \in 1..Len(s) + Len(t) /\ ~(i + Len(s) <= Len(s))
          /\ (i + Len(s)) - Len(s) = i
      BY <1>1, <3>1
    <3> QED
      BY <1>3, <3>1, <3>2 DEF Answers
  <2> QED
    BY <2>1, <2>2, <2>3
<1>5. IsFiniteSet(T) /\ Cardinality(T) = Cardinality(Answers(t))
  <2>1. Answers(t) \in SUBSET Int /\ Len(s) \in Int
    BY <1>1, <1>2
  <2> QED
    BY <1>2, <2>1, Shift
<1>6. Answers(s) \cap T = {}
  BY <1>1, <1>2
<1> HIDE DEF T
<1>7. Cardinality(Answers(s) \cup T) =
        Cardinality(Answers(s)) + Cardinality(T) - Cardinality(Answers(s) \cap T)
  BY <1>2, <1>5, FS_Union
<1>8. Cardinality(Answers(s) \cap T) = 0
  BY <1>6, FS_EmptySet
<1> QED
  BY <1>2, <1>4, <1>5, <1>7, <1>8

LEMMA AnswersOne ==
  ASSUME NEW m \in Responses
  PROVE  <<m>> \in Seq(Responses)
         /\ Cardinality(Answers(<<m>>)) = IF m.kind \in {"added", "removed"} THEN 1 ELSE 0
<1>1. <<m>> \in Seq(Responses) /\ DOMAIN <<m>> = {1} /\ <<m>>[1] = m
  OBVIOUS
<1>2. Answers(<<m>>) = IF m.kind \in {"added", "removed"} THEN {1} ELSE {}
  BY <1>1 DEF Answers
<1> QED
  BY <1>1, <1>2, FS_Singleton, FS_EmptySet

LEMMA AnswersTail ==
  ASSUME NEW s \in Seq(Responses), s # <<>>
  PROVE  Cardinality(Answers(s)) =
           (IF Head(s).kind \in {"added", "removed"} THEN 1 ELSE 0)
             + Cardinality(Answers(Tail(s)))
<1>1. Head(s) \in Responses /\ Tail(s) \in Seq(Responses) /\ s = <<Head(s)>> \o Tail(s)
  <2>1. Head(s) \in Responses /\ Tail(s) \in Seq(Responses)
    BY HeadTailProperties
  <2>2. s = <<Head(s)>> \o Tail(s)
    <3>1. 1 \in 1..Len(s) /\ Len(s) \in 1..Len(s) /\ Len(s) \in Nat
      BY EmptySeq, LenProperties
    <3>2. SubSeq(s, 1, Len(s)) = <<s[1]>> \o SubSeq(s, 1 + 1, Len(s))
      BY <3>1, SubSeqRecursiveFirst
    <3>3. Tail(s) = SubSeq(s, 2, Len(s)) /\ SubSeq(s, 1, Len(s)) = s /\ Head(s) = s[1]
      BY TailIsSubSeq, SubSeqFull
    <3> QED
      BY <3>2, <3>3
  <2> QED
    BY <2>1, <2>2
<1> QED
  BY <1>1, AnswersOne, AnswersConcat

\* Nothing that a server sends of a target answers a request.
LEMMA NoAnswers ==
  ASSUME NEW s \in Seq(Sent)
  PROVE  s \in Seq(Responses) /\ Cardinality(Answers(s)) = 0
<1>1. s \in Seq(Responses)
  BY TokenTypes
<1>2. \A i \in DOMAIN s : s[i] \in Sent
  BY LenProperties, ElementOfSeq
<1>3. \A m \in Sent : m.kind \notin {"added", "removed"}
  BY DEF Sent, OfDoc, DocKinds, Filter, OfTarget, Reset
<1>4. Answers(s) = {}
  BY <1>2, <1>3 DEF Answers
<1> QED
  BY <1>1, <1>4, FS_EmptySet
Legal == {m \in Responses : m.kind # "error"}

\* Unless a listen was rejected, the target waits for the answers to come.
AcksOK == errors = 0 => responses \in Seq(Legal) /\ state.acks = AnswersDue

LEMMA Due == AnswersDue = Len(requests) + Cardinality(Answers(responses))
BY DEF AnswersDue, Answers

\* A call that is over owes nothing.
LEMMA NothingDue ==
  requests = <<>> /\ responses = <<>> /\ state = Erased => AcksOK /\ AnswersDue = 0
<1> SUFFICES ASSUME requests = <<>>, responses = <<>>, state = Erased
             PROVE  AcksOK /\ AnswersDue = 0
  OBVIOUS
<1>1. Cardinality(Answers(responses)) = 0
  <2>1. responses \in Seq(Sent)
    OBVIOUS
  <2> QED
    BY <2>1, NoAnswers
<1>2. AnswersDue = 0
  BY <1>1, Due
<1> QED
  BY <1>2 DEF AcksOK, Erased, NewState

LEMMA SendsAcks ==
  ASSUME TypeOK, AcksOK, NEW v \in Versions, NEW changes \in Seq(Sent), Sends(v, changes)
  PROVE  AcksOK'
<1>1. UNCHANGED <<state, requests, errors>>
      /\ responses' = responses \o changes \o <<Token("snapshot", v)>>
  BY DEF Sends, ServerOnly, client
<1>2. <<Token("snapshot", v)>> \in Seq(Sent)
  BY TokenTypes
<1>3. changes \o <<Token("snapshot", v)>> \in Seq(Sent)
  BY <1>2, ConcatProperties
<1>4. responses' = responses \o (changes \o <<Token("snapshot", v)>>)
  <2>1. changes \in Seq(Responses) /\ <<Token("snapshot", v)>> \in Seq(Responses)
    BY <1>2, TokenTypes
  <2> QED
    BY <1>1, <2>1, ConcatAssociative DEF TypeOK
<1>5. Cardinality(Answers(responses')) = Cardinality(Answers(responses))
  <2>1. Cardinality(Answers(responses)) \in Nat
    BY AnswersFinite DEF TypeOK
  <2> DEFINE sent == changes \o <<Token("snapshot", v)>>
  <2>2. sent \in Seq(Responses) /\ Cardinality(Answers(sent)) = 0
    BY <1>3, NoAnswers
  <2> HIDE DEF sent
  <2>3. Cardinality(Answers(responses \o sent)) =
          Cardinality(Answers(responses)) + Cardinality(Answers(sent))
    BY <2>2, AnswersConcat DEF TypeOK
  <2> QED
    BY <1>4, <2>1, <2>2, <2>3 DEF sent
<1>6. Sent \subseteq Legal
  BY DEF Legal, Responses, Sent, OfDoc, DocKinds, Filter, OfTarget, Reset
<1>7. ASSUME errors = 0 PROVE responses' \in Seq(Legal)
  <2>1. responses \in Seq(Legal)
    BY <1>7 DEF AcksOK
  <2>2. changes \o <<Token("snapshot", v)>> \in Seq(Legal)
    BY <1>3, <1>6, SeqMonotonic
  <2> QED
    BY <1>4, <2>1, <2>2, ConcatProperties
<1>8. Answers(responses)' = Answers(responses')
  BY DEF Answers
<1> QED
  BY <1>1, <1>5, <1>7, <1>8, Due DEF AcksOK, AnswersDue, Answers


LEMMA ServerAcks ==
  ASSUME TypeOK, AcksOK, Server \/ QueryChanges
  PROVE  AcksOK'
<1>1. CASE QueryChanges
  BY <1>1 DEF QueryChanges, ServerOnly, client, AcksOK, AnswersDue
<1>2. CASE ServerReads
  <2>1. requests # <<>> /\ requests \in Seq(Requests) /\ requests' = Tail(requests)
        /\ UNCHANGED <<state, errors>>
    BY <1>2 DEF ServerReads, ServerOnly, client, TypeOK
  <2>2. Len(requests) \in Nat /\ Len(requests') = Len(requests) - 1
    BY <2>1, HeadTailProperties, LenProperties
  <2>3. PICK m \in {Token("added", 0), Token("removed", 0)} :
          responses' = Append(responses, m)
    BY <1>2 DEF ServerReads
  <2>4. m \in Responses /\ m \in Legal /\ m.kind \in {"added", "removed"}
    BY TokenTypes DEF AnswerKinds, Legal, Token
  <2>5. responses' = responses \o <<m>>
    BY <2>3, <2>4, AppendIsConcat DEF TypeOK
  <2>6. Cardinality(Answers(responses')) = Cardinality(Answers(responses)) + 1
    BY <2>4, <2>5, AnswersOne, AnswersConcat DEF TypeOK
  <2>7. Cardinality(Answers(responses)) \in Nat
    BY AnswersFinite DEF TypeOK
  <2>8. responses \in Seq(Legal) => responses' \in Seq(Legal)
    BY <2>3, <2>4, AppendProperties
  <2>9. AnswersDue' = AnswersDue
    BY <2>2, <2>6, <2>7, Due DEF AnswersDue, Answers
  <2> QED
    BY <2>1, <2>8, <2>9 DEF AcksOK
<1>3. ASSUME NEW v \in Versions, ServerUpdates(v) PROVE AcksOK'
  <2>1. v \in Marks /\ server.at \in Marks
    BY VersionTypes DEF Versions, Marks, TypeOK
  <2>2. Exact(server.at, v) \in Seq(Sent)
    BY <2>1, SentTypes
  <2> QED
    BY <1>3, <2>1, <2>2, SendsAcks DEF ServerUpdates
<1>4. ASSUME NEW v \in Versions, ServerStarts(v) PROVE AcksOK'
  BY <1>4, StartsSend, SendsAcks
<1> QED
  BY <1>1, <1>2, <1>3, <1>4 DEF Server

\* A message that answers nothing leaves the count.
LEMMA ReceiveAcks ==
  ASSUME TypeOK, AcksOK, NEW kind, Receive(kind)
  PROVE  /\ responses \in Seq(Legal) => responses' \in Seq(Legal) /\ kind # "error"
         /\ Cardinality(Answers(responses)) =
              (IF kind \in {"added", "removed"} THEN 1 ELSE 0)
                + Cardinality(Answers(responses'))
         /\ Cardinality(Answers(responses')) \in Nat /\ Len(requests) \in Nat
<1>1. responses # <<>> /\ responses \in Seq(Responses) /\ responses' = Tail(responses)
      /\ Head(responses).kind = kind
  BY DEF Receive, TypeOK
<1>2. responses \in Seq(Legal) => responses' \in Seq(Legal) /\ kind # "error"
  <2> SUFFICES ASSUME responses \in Seq(Legal)
               PROVE  responses' \in Seq(Legal) /\ kind # "error"
    OBVIOUS
  <2>1. Head(responses) \in Legal /\ Tail(responses) \in Seq(Legal)
    BY <1>1, HeadTailProperties
  <2> QED
    BY <1>1, <2>1 DEF Legal
<1>3. Cardinality(Answers(Tail(responses))) \in Nat
  <2>1. Tail(responses) \in Seq(Responses)
    BY <1>1, HeadTailProperties
  <2> QED
    BY <2>1, AnswersFinite
<1> QED
  BY <1>1, <1>2, <1>3, AnswersTail, LenProperties DEF TypeOK

LEMMA MessageAcks ==
  ASSUME TypeOK, AcksOK, OnWatchStreamChange
  PROVE  AcksOK'
<1> USE DEF TypeOK, TargetStates
<1>d. AnswersDue = Len(requests) + Cardinality(Answers(responses))
      /\ AnswersDue' = Len(requests') + Cardinality(Answers(responses'))
  BY Due DEF AnswersDue, Answers
<1>0. ASSUME NEW kind, Receive(kind), kind \notin {"added", "removed"},
             UNCHANGED <<requests, errors>>,
             errors = 0 /\ kind # "error" => state'.acks = state.acks
      PROVE  AcksOK'
  BY <1>0, <1>d, ReceiveAcks DEF AcksOK
<1>a. ASSUME NEW kind, Receive(kind), kind \in {"added", "removed"},
             UNCHANGED <<requests, errors>>, state'.acks = state.acks - 1
      PROVE  AcksOK'
  BY <1>a, <1>d, ReceiveAcks DEF AcksOK
<1>1. CASE OnTargetAdded
  <2>1. state'.acks = state.acks - 1
    BY <1>1 DEF OnTargetAdded, OnAdded, Ensure, IsPending, ClearPendingChanges
  <2> QED
    BY <1>1, <1>a, <2>1 DEF OnTargetAdded, Quiet
<1>2. CASE OnTargetRemoved
  <2>1. state'.acks = state.acks - 1
    BY <1>2 DEF OnTargetRemoved, OnRemoved, Ensure, IsPending, Erased, NewState
  <2> QED
    BY <1>2, <1>a, <2>1 DEF OnTargetRemoved, Quiet
<1>3. CASE OnTargetCurrent
  <2>1. state'.acks = state.acks
    BY <1>3 DEF OnTargetCurrent, UpdateResumeToken, MarkCurrent, Ensure
  <2> QED
    BY <1>3, <1>0, <2>1 DEF OnTargetCurrent, Quiet
<1>4. CASE OnTargetReset
  <2>1. state'.acks = state.acks
    BY <1>4 DEF OnTargetReset, ResetTarget, NewState, IsActive, IsPending, Ensure
  <2> QED
    BY <1>4, <1>0, <2>1 DEF OnTargetReset, Quiet
<1>5. CASE OnDocumentFound
  <2>1. state'.acks = state.acks
    BY <1>5 DEF OnDocumentFound, AddDocument, Ensure
  <2> QED
    BY <1>5, <1>0, <2>1 DEF OnDocumentFound, Quiet
<1>6. CASE OnDocumentGone
  <2>1. state'.acks = state.acks
    BY <1>6 DEF OnDocumentGone, RemoveDocument, Ensure
  <2> QED
    BY <1>6, <1>0, <2>1 DEF OnDocumentGone, Quiet
<1>7. CASE OnExistenceFilter
  <2>1. state'.acks = state.acks
    BY <1>7 DEF OnExistenceFilter, ResetTarget, NewState, IsActive, IsPending, Ensure
  <2> QED
    BY <1>7, <1>0, <2>1 DEF OnExistenceFilter, Quiet
<1>8. CASE OnTargetError
  BY <1>8, <1>0 DEF OnTargetError
<1>9. CASE OnSnapshot
  <2>1. Receive("snapshot") /\ UNCHANGED errors
    BY <1>9 DEF OnSnapshot
  <2>2. CASE UNCHANGED requests /\ state'.acks = state.acks
    BY <1>0, <2>1, <2>2
  <2>3. CASE requests' = requests \o <<Unwatch, Watch(0)>> /\ state'.acks = state.acks + 2
    <3>1. Len(requests') = Len(requests) + 2
      <4>1. <<Unwatch, Watch(0)>> \in Seq(Requests) /\ Len(<<Unwatch, Watch(0)>>) = 2
        BY WatchTypes, ZeroMark
      <4> QED
        BY <2>3, <4>1, ConcatProperties
    <3>2. /\ responses \in Seq(Legal) => responses' \in Seq(Legal)
          /\ Cardinality(Answers(responses)) = Cardinality(Answers(responses'))
          /\ Cardinality(Answers(responses')) \in Nat /\ Len(requests) \in Nat
      BY <2>1, ReceiveAcks
    <3>3. AnswersDue' = AnswersDue + 2 /\ AnswersDue \in Nat
      BY <1>d, <3>1, <3>2
    <3> QED
      BY <2>1, <2>3, <3>2, <3>3 DEF AcksOK
  <2>4. \/ UNCHANGED requests /\ state'.acks = state.acks
        \/ requests' = requests \o <<Unwatch, Watch(0)>> /\ state'.acks = state.acks + 2
    <3> DEFINE v == Head(responses).token
               s == IF state.held = "yes" /\ IsActive(state)
                    THEN UpdateResumeToken(state, v) ELSE state
    <3>1. s.acks = state.acks /\ s \in TargetStates
      BY <2>1, ReceiveType, StateTypes DEF UpdateResumeToken
    <3>2. CASE v >= cache.last
      <4>1. RaiseWatchSnapshot(s, v)
        BY <1>9, <3>2 DEF OnSnapshot
      <4> DEFINE rest == IF s.held = "yes" /\ IsActive(s) /\ s.changed = "yes"
                         THEN ClearPendingChanges(s) ELSE s
      <4> HIDE DEF s, v
      <4>2. rest.acks = state.acks /\ rest \in TargetStates
        BY <3>1, StateTypes DEF ClearPendingChanges
      <4>3. \/ state' = rest /\ UNCHANGED requests
            \/ /\ state' = RecordPendingTargetRequest(RecordPendingTargetRequest(rest))
               /\ requests' = requests \o <<Unwatch, Watch(0)>>
        BY <4>1 DEF RaiseWatchSnapshot, Rewatch
      <4> HIDE DEF rest
      <4>4. \A t \in TargetStates : RecordPendingTargetRequest(t).acks = t.acks + 1
        BY DEF RecordPendingTargetRequest, Ensure
      <4>5. RecordPendingTargetRequest(rest) \in TargetStates /\ state.acks \in Int
        BY <4>2, StateTypes
      <4>6. RecordPendingTargetRequest(RecordPendingTargetRequest(rest)).acks = state.acks + 2
        BY <4>2, <4>4, <4>5
      <4> QED
        BY <4>2, <4>3, <4>6
    <3>3. CASE ~(v >= cache.last)
      BY <1>9, <3>1, <3>3 DEF OnSnapshot
    <3> QED
      BY <3>2, <3>3
  <2> QED
    BY <2>2, <2>3, <2>4
<1> QED
  BY <1>1, <1>2, <1>3, <1>4, <1>5, <1>6, <1>7, <1>8, <1>9 DEF OnWatchStreamChange

\* A request makes one more answer due.
LEMMA RequestAcks ==
  ASSUME TypeOK, AcksOK, NEW r \in Requests, requests' = Append(requests, r),
         state' = RecordPendingTargetRequest(state), UNCHANGED <<responses, errors>>
  PROVE  AcksOK'
<1>1. Len(requests) \in Nat /\ Len(requests') = Len(requests) + 1
  BY AppendProperties, LenProperties DEF TypeOK
<1>2. Cardinality(Answers(responses)) \in Nat
  BY AnswersFinite DEF TypeOK
<1>3. AnswersDue' = AnswersDue + 1 /\ AnswersDue \in Nat
  BY <1>1, <1>2, Due DEF AnswersDue, Answers
<1>4. state'.acks = state.acks + 1
  BY DEF RecordPendingTargetRequest, Ensure, TypeOK, TargetStates
<1> QED
  BY <1>3, <1>4 DEF AcksOK

LEMMA NextAcks == TypeOK /\ ConnectionOK /\ AcksOK /\ [Next]_vars => AcksOK'
<1> SUFFICES ASSUME TypeOK, ConnectionOK, AcksOK, [Next]_vars PROVE AcksOK'
  OBVIOUS
<1>0. ASSUME UNCHANGED <<requests, responses, errors>>, state'.acks = state.acks
      PROVE  AcksOK'
  BY <1>0 DEF AcksOK, AnswersDue
<1>c. ASSUME CleanUpWatchStreamState PROVE AcksOK'
  <2>1. responses' = <<>> /\ requests' = <<>> /\ state' = Erased
    BY <1>c DEF CleanUpWatchStreamState
  <2>2. <<>> \in Seq(Legal) /\ <<>> \in Seq(Sent) /\ Len(<<>>) = 0
    OBVIOUS
  <2>3. Cardinality(Answers(<<>>)) = 0
    BY <2>2, NoAnswers
  <2>4. AnswersDue' = 0
    <3>1. AnswersDue' = Len(requests') + Cardinality(Answers(responses'))
      BY DEF AnswersDue, Answers
    <3> QED
      BY <2>1, <2>2, <2>3, <3>1
  <2> QED
    BY <2>1, <2>2, <2>4 DEF AcksOK, Erased, NewState
<1>1. CASE Listen
  <2>1. CASE ShouldStartWatchStream("yes", stream, network)
    <3>1. requests = <<>> /\ responses = <<>> /\ state = Erased /\ state' = Erased
          /\ UNCHANGED <<requests, responses, errors>>
      BY <1>1, <2>1 DEF Listen, ShouldStartWatchStream, ConnectionOK, IsStarted
    <3> QED
      BY <3>1, <1>0
  <2>2. CASE ~ShouldStartWatchStream("yes", stream, network) /\ IsOpen(stream)
    <3>1. cache.token \in Marks
      BY DEF TypeOK, Caches
    <3> QED
      BY <1>1, <2>2, <3>1, RequestAcks, WatchTypes DEF Listen
  <2>3. CASE ~ShouldStartWatchStream("yes", stream, network) /\ ~IsOpen(stream)
    BY <1>0, <1>1, <2>3 DEF Listen
  <2> QED
    BY <2>1, <2>2, <2>3
<1>2. CASE StopListening
  BY <1>0, <1>2, RequestAcks, WatchTypes DEF StopListening
<1>3. CASE EnableNetwork
  BY <1>0, <1>3 DEF EnableNetwork
<1>4. CASE Connection
  <2>1. CASE CredentialsArrive
    <3>1. CASE listening = "yes"
      BY <2>1, <3>1, RequestAcks, WatchTypes DEF CredentialsArrive, StreamOnly, TypeOK
    <3>2. CASE listening # "yes"
      BY <1>0, <2>1, <3>2 DEF CredentialsArrive, StreamOnly
    <3> QED
      BY <3>1, <3>2
  <2>2. CASE IdleTimer
    BY <1>c, <2>2 DEF IdleTimer
  <2> QED
    BY <1>0, <1>4, <2>1, <2>2 DEF Connection, StaleCredentialsArrive, BackoffTimer,
                                  HealthTimer, OnlineStateTimer, StreamOnly
<1>5. CASE OnWatchStreamChange
  BY <1>5, MessageAcks
<1>6. CASE \E d \in Docs : LimboResolves(d)
  BY <1>0, <1>6 DEF LimboResolves
<1>7. CASE Server \/ QueryChanges
  BY <1>7, ServerAcks
<1>8. CASE Faults
  <2>1. CASE ServerRejects
    BY <2>1 DEF ServerRejects, AcksOK, TypeOK
  <2> QED
    BY <1>8, <1>c, <2>1 DEF Faults, CredentialsFail, CallFails, DisableNetwork,
                            RestartNetwork, Crash, OnStreamFailed
<1>9. CASE UNCHANGED vars
  BY <1>0, <1>9 DEF vars, client
<1> QED
  BY <1>1, <1>2, <1>3, <1>4, <1>5, <1>6, <1>7, <1>8, <1>9 DEF Next

\* The client counts just the answers that are to come, for any number of
\* stops, restarts and lost calls.
THEOREM AcksAreDueAlways == Spec => []AcksAreDue
<1> DEFINE Inv == TypeOK /\ ConnectionOK /\ TrackerOK /\ AcksOK
<1>1. Init => Inv
  BY InitType, InitConnection, NothingDue DEF Init
<1>2. Inv /\ [Next]_vars => Inv'
  BY NextType, NextConnection, NextAcks
<1>3. Inv => AcksAreDue
  BY DEF AcksOK, AcksAreDue
<1> QED
  BY <1>1, <1>2, <1>3, PTL DEF Spec

-----------------------------------------------------------------------------
(***************************************************************************)
(* PART 2.  The messages: the invariant says what each snapshot under way  *)
(* brings the target to; it is kept when the server sends, when messages   *)
(* are taken off the call, and by everything outside the call.             *)
(***************************************************************************)

(* What a sequence of messages makes of a set of documents *)

\* The messages from k on come after all answers, so that the client will take
\* them in.
Live(s, k) == \A i \in k..Len(s) : s[i].kind \notin {"added", "removed"}

Says(m, d) == \/ m.kind = "reset"
              \/ m.kind \in {"found", "gone"} /\ m.doc = d

\* Nothing after i and up to j says whether d is there.
Silent(s, d, i, j) == \A k \in i+1..j : Live(s, k) => ~Says(s[k], d)

\* The last thing said of d up to j is that it is there.
Found(s, d, j) ==
  \E k \in 1..j : /\ Live(s, k) /\ s[k].kind = "found" /\ s[k].doc = d
                  /\ Silent(s, d, k, j)

\* Is d there after the first j messages, if the documents in E were before?
Has(s, E, d, j) == Found(s, d, j) \/ (Silent(s, d, 0, j) /\ d \in E)

LEMMA TailIs ==
  ASSUME NEW s \in Seq(Responses), s # <<>>
  PROVE  /\ Tail(s) \in Seq(Responses) /\ Len(Tail(s)) = Len(s) - 1 /\ Len(s) \in Nat \ {0}
         /\ Head(s) = s[1]
         /\ \A k \in 1..Len(s) - 1 : Tail(s)[k] = s[k + 1] /\ (Live(Tail(s), k) <=> Live(s, k + 1))
<1> DEFINE t == Tail(s)
<1>1. t \in Seq(Responses) /\ Len(t) = Len(s) - 1 /\ Len(s) \in Nat \ {0}
      /\ \A k \in 1..Len(t) : t[k] = s[k + 1]
  BY HeadTailProperties, EmptySeq
<1>2. Head(s) = s[1]
  OBVIOUS
<1> HIDE DEF t
<1>3. ASSUME NEW k \in 1..Len(s) - 1 PROVE Live(t, k) <=> Live(s, k + 1)
  <2>1. ASSUME Live(t, k), NEW i \in k + 1..Len(s) PROVE s[i].kind \notin {"added", "removed"}
    <3>1. i - 1 \in k..Len(t) /\ i - 1 \in 1..Len(t) /\ (i - 1) + 1 = i
      BY <1>1
    <3>2. t[i - 1] = s[i]
      BY <1>1, <3>1
    <3> QED
      BY <2>1, <3>1, <3>2 DEF Live
  <2>2. ASSUME Live(s, k + 1), NEW i \in k..Len(t) PROVE t[i].kind \notin {"added", "removed"}
    <3>1. i + 1 \in k + 1..Len(s) /\ i \in 1..Len(t)
      BY <1>1
    <3> QED
      BY <1>1, <2>2, <3>1 DEF Live
  <2> QED
    BY <2>1, <2>2 DEF Live
<1> QED
  BY <1>1, <1>2, <1>3 DEF t

\* What the head has said is in the set that the rest starts from.
LEMMA TailHas ==
  ASSUME NEW s \in Seq(Responses), s # <<>>, NEW E, NEW F, NEW d,
         d \in F <=> IF Live(s, 1) /\ Says(Head(s), d) THEN Head(s).kind = "found" ELSE d \in E,
         NEW j \in 0..Len(s) - 1
  PROVE  /\ Has(Tail(s), F, d, j) <=> Has(s, E, d, j + 1)
         /\ Silent(s, d, 0, j + 1) <=>
              Silent(Tail(s), d, 0, j) /\ (Live(s, 1) => ~Says(Head(s), d))
         /\ \A i \in 0..j : Silent(Tail(s), d, i, j) <=> Silent(s, d, i + 1, j + 1)
<1> DEFINE t == Tail(s)
<1>1. /\ t \in Seq(Responses) /\ Len(t) = Len(s) - 1 /\ Len(s) \in Nat \ {0} /\ Head(s) = s[1]
      /\ \A k \in 1..Len(s) - 1 : t[k] = s[k + 1] /\ (Live(t, k) <=> Live(s, k + 1))
  BY TailIs
<1> HIDE DEF t
<1>2. ASSUME NEW i \in 0..j PROVE Silent(t, d, i, j) <=> Silent(s, d, i + 1, j + 1)
  <2>1. ASSUME Silent(t, d, i, j), NEW k \in (i + 1) + 1..j + 1, Live(s, k)
        PROVE  ~Says(s[k], d)
    <3>1. k - 1 \in i + 1..j /\ k - 1 \in 1..Len(s) - 1 /\ (k - 1) + 1 = k
      BY <1>1
    <3> QED
      BY <1>1, <2>1, <3>1 DEF Silent
  <2>2. ASSUME Silent(s, d, i + 1, j + 1), NEW k \in i + 1..j, Live(t, k)
        PROVE  ~Says(t[k], d)
    <3>1. k + 1 \in (i + 1) + 1..j + 1 /\ k \in 1..Len(s) - 1
      BY <1>1
    <3> QED
      BY <1>1, <2>2, <3>1 DEF Silent
  <2> QED
    BY <2>1, <2>2 DEF Silent
<1>3. Silent(s, d, 0, j + 1) <=> Silent(t, d, 0, j) /\ (Live(s, 1) => ~Says(s[1], d))
  <2>1. Silent(t, d, 0, j) <=> Silent(s, d, 1, j + 1)
    BY <1>2
  <2>2. 0 + 1..j + 1 = {1} \cup (1 + 1..j + 1)
    OBVIOUS
  <2> QED
    BY <2>1, <2>2 DEF Silent
<1>4. Found(s, d, j + 1) <=>
        Found(t, d, j) \/ (/\ Live(s, 1) /\ s[1].kind = "found" /\ s[1].doc = d
                           /\ Silent(t, d, 0, j))
  <2>1. ASSUME NEW k \in 1..j + 1, Live(s, k), s[k].kind = "found", s[k].doc = d,
               Silent(s, d, k, j + 1), k # 1
        PROVE  Found(t, d, j)
    <3>1. k - 1 \in 1..j /\ k - 1 \in 0..j /\ k - 1 \in 1..Len(s) - 1 /\ (k - 1) + 1 = k
      BY <2>1, <1>1
    <3>2. t[k - 1] = s[k] /\ Live(t, k - 1) /\ Silent(t, d, k - 1, j)
      BY <1>1, <1>2, <2>1, <3>1
    <3> QED
      BY <2>1, <3>1, <3>2 DEF Found
  <2>2. ASSUME NEW k \in 1..j, Live(t, k), t[k].kind = "found", t[k].doc = d,
               Silent(t, d, k, j)
        PROVE  Found(s, d, j + 1)
    <3>1. k + 1 \in 1..j + 1 /\ k \in 0..j /\ k \in 1..Len(s) - 1
      BY <1>1
    <3>2. t[k] = s[k + 1] /\ Live(s, k + 1) /\ Silent(s, d, k + 1, j + 1)
      BY <1>1, <1>2, <2>2, <3>1
    <3> QED
      BY <2>2, <3>1, <3>2 DEF Found
  <2>3. Silent(t, d, 0, j) <=> Silent(s, d, 1, j + 1)
    BY <1>2
  <2>4. 1 \in 1..j + 1
    OBVIOUS
  <2>5. Found(s, d, j + 1) =>
          Found(t, d, j) \/ (/\ Live(s, 1) /\ s[1].kind = "found" /\ s[1].doc = d
                             /\ Silent(t, d, 0, j))
    BY <2>1, <2>3 DEF Found
  <2>6. Found(t, d, j) => Found(s, d, j + 1)
    BY <2>2 DEF Found
  <2>7. (/\ Live(s, 1) /\ s[1].kind = "found" /\ s[1].doc = d /\ Silent(t, d, 0, j))
          => Found(s, d, j + 1)
    BY <2>3, <2>4 DEF Found
  <2> QED
    BY <2>5, <2>6, <2>7
<1>5. Has(t, F, d, j) <=> Has(s, E, d, j + 1)
  BY <1>1, <1>3, <1>4 DEF Has, Says
<1> QED
  BY <1>1, <1>2, <1>3, <1>5 DEF t

LEMMA SentLive ==
  ASSUME NEW m \in Seq(Sent)
  PROVE  /\ m \in Seq(Responses) /\ Len(m) \in Nat
         /\ \A k \in 1..Len(m) : m[k] \in Sent /\ m[k].kind \notin {"added", "removed"}
         /\ \A k \in 1..Len(m) : Live(m, k)
<1>1. \A x \in Sent : x.kind \notin {"added", "removed"}
  BY DEF Sent, OfDoc, DocKinds, Filter, OfTarget, Reset
<1>2. m \in Seq(Responses) /\ Len(m) \in Nat
  BY TokenTypes, LenProperties
<1>3. \A k \in 1..Len(m) : m[k] \in Sent /\ m[k].kind \notin {"added", "removed"}
  BY <1>1, ElementOfSeq
<1> QED
  BY <1>2, <1>3 DEF Live

\* What a server adds to the messages under way.
LEMMA AppendLive ==
  ASSUME NEW s \in Seq(Responses), NEW m \in Seq(Sent)
  PROVE  /\ s \o m \in Seq(Responses) /\ Len(s \o m) = Len(s) + Len(m)
         /\ Len(s) \in Nat /\ Len(m) \in Nat
         /\ \A k \in 1..Len(s) :
              (s \o m)[k] = s[k] /\ (Live(s \o m, k) <=> Live(s, k))
         /\ \A k \in 1..Len(m) :
              (s \o m)[Len(s) + k] = m[k] /\ Live(s \o m, Len(s) + k)
<1>1. m \in Seq(Responses)
  BY SentLive
<1>2. /\ s \o m \in Seq(Responses) /\ Len(s \o m) = Len(s) + Len(m)
      /\ Len(s) \in Nat /\ Len(m) \in Nat
      /\ \A k \in 1..Len(s) + Len(m) :
           (s \o m)[k] = IF k <= Len(s) THEN s[k] ELSE m[k - Len(s)]
  BY <1>1, ConcatProperties, LenProperties
<1> DEFINE t == s \o m
<1> HIDE DEF t
<1>3. \A k \in 1..Len(s) : t[k] = s[k]
  BY <1>2 DEF t
<1>4. \A k \in 1..Len(m) : t[Len(s) + k] = m[k]
  <2> SUFFICES ASSUME NEW k \in 1..Len(m) PROVE t[Len(s) + k] = m[k]
    OBVIOUS
  <2>1. Len(s) + k \in 1..Len(s) + Len(m) /\ ~(Len(s) + k <= Len(s))
        /\ (Len(s) + k) - Len(s) = k
    BY <1>2
  <2> QED
    BY <1>2, <2>1 DEF t
<1>5. \A i \in Len(s) + 1..Len(s) + Len(m) : t[i].kind \notin {"added", "removed"}
  <2> SUFFICES ASSUME NEW i \in Len(s) + 1..Len(s) + Len(m)
               PROVE  t[i].kind \notin {"added", "removed"}
    OBVIOUS
  <2>1. i - Len(s) \in 1..Len(m) /\ Len(s) + (i - Len(s)) = i
    BY <1>2
  <2> QED
    BY <1>4, <2>1, SentLive
<1>6. Len(t) = Len(s) + Len(m)
  BY <1>2 DEF t
<1>7. \A k \in 1..Len(m) : Live(t, Len(s) + k)
  BY <1>2, <1>5, <1>6 DEF Live
<1>8. \A k \in 1..Len(s) : Live(t, k) <=> Live(s, k)
  <2> SUFFICES ASSUME NEW k \in 1..Len(s) PROVE Live(t, k) <=> Live(s, k)
    OBVIOUS
  <2>1. k..Len(t) = (k..Len(s)) \cup (Len(s) + 1..Len(s) + Len(m))
    BY <1>2, <1>6
  <2>2. k..Len(s) \subseteq 1..Len(s)
    BY <1>2
  <2> QED
    BY <1>3, <1>5, <2>1, <2>2 DEF Live
<1> QED
  BY <1>2, <1>3, <1>4, <1>7, <1>8 DEF t

LEMMA AppendHas ==
  ASSUME NEW s \in Seq(Responses), NEW m \in Seq(Sent), NEW d, NEW E
  PROVE  /\ \A j \in 0..Len(s) : /\ Has(s \o m, E, d, j) <=> Has(s, E, d, j)
                                 /\ Found(s \o m, d, j) <=> Found(s, d, j)
                                 /\ \A i \in 0..j : Silent(s \o m, d, i, j) <=> Silent(s, d, i, j)
         /\ \A l \in 0..Len(m) :
              /\ Found(s \o m, d, Len(s) + l) <=>
                   Found(m, d, l) \/ (Silent(m, d, 0, l) /\ Found(s, d, Len(s)))
              /\ Has(s \o m, E, d, Len(s) + l) <=>
                   Found(m, d, l) \/ (Silent(m, d, 0, l) /\ Has(s, E, d, Len(s)))
              /\ \A i \in 0..Len(s) : Silent(s \o m, d, i, Len(s) + l) <=>
                                        Silent(s, d, i, Len(s)) /\ Silent(m, d, 0, l)
<1> DEFINE t == s \o m
           n == Len(s)
<1>1. /\ Len(t) = n + Len(m) /\ n \in Nat /\ Len(m) \in Nat
      /\ \A k \in 1..n : t[k] = s[k] /\ (Live(t, k) <=> Live(s, k))
      /\ \A k \in 1..Len(m) : t[n + k] = m[k] /\ Live(t, n + k)
  BY AppendLive
<1>2. \A k \in 1..Len(m) : Live(m, k)
  BY SentLive
<1> HIDE DEF t, n
<1>3. ASSUME NEW j \in 0..n, NEW i \in 0..j PROVE Silent(t, d, i, j) <=> Silent(s, d, i, j)
  <2>1. i + 1..j \subseteq 1..n
    BY <1>1
  <2> QED
    BY <1>1, <2>1 DEF Silent
<1>4. ASSUME NEW j \in 0..n PROVE Found(t, d, j) <=> Found(s, d, j)
  <2>1. 1..j \subseteq 1..n /\ 1..j \subseteq 0..j
    BY <1>1
  <2>2. \A k \in 1..j : Silent(t, d, k, j) <=> Silent(s, d, k, j)
    BY <1>3, <2>1
  <2> QED
    BY <1>1, <2>1, <2>2 DEF Found
<1>5. ASSUME NEW l \in 0..Len(m), NEW i \in 0..Len(m)
      PROVE  Silent(t, d, n + i, n + l) <=> Silent(m, d, i, l)
  <2>1. ASSUME Silent(t, d, n + i, n + l), NEW k \in i + 1..l PROVE ~Says(m[k], d)
    <3>1. n + k \in (n + i) + 1..n + l /\ k \in 1..Len(m)
      BY <1>1
    <3> QED
      BY <1>1, <2>1, <3>1 DEF Silent
  <2>2. ASSUME Silent(m, d, i, l), NEW k \in (n + i) + 1..n + l PROVE ~Says(t[k], d)
    <3>1. k - n \in i + 1..l /\ k - n \in 1..Len(m) /\ n + (k - n) = k
      BY <1>1
    <3>2. t[k] = m[k - n] /\ Live(m, k - n)
      BY <1>1, <1>2, <3>1
    <3> QED
      BY <2>2, <3>1, <3>2 DEF Silent
  <2> QED
    BY <2>1, <2>2 DEF Silent
<1>6. ASSUME NEW l \in 0..Len(m), NEW i \in 0..n
      PROVE  Silent(t, d, i, n + l) <=> Silent(s, d, i, n) /\ Silent(m, d, 0, l)
  <2>1. i + 1..n + l = (i + 1..n) \cup (n + 1..n + l)
    BY <1>1
  <2>2. Silent(t, d, i, n + l) <=> Silent(t, d, i, n) /\ Silent(t, d, n, n + l)
    BY <2>1 DEF Silent
  <2>3. Silent(t, d, i, n) <=> Silent(s, d, i, n)
    BY <1>1, <1>3
  <2>4. n + 0 = n /\ 0 \in 0..Len(m)
    BY <1>1
  <2>5. Silent(t, d, n, n + l) <=> Silent(m, d, 0, l)
    BY <1>5, <2>4
  <2> QED
    BY <2>2, <2>3, <2>5
<1>7. ASSUME NEW l \in 0..Len(m)
      PROVE  Found(t, d, n + l) <=> Found(m, d, l) \/ (Silent(m, d, 0, l) /\ Found(s, d, n))
  <2>1. ASSUME NEW k \in 1..n + l, Live(t, k), t[k].kind = "found", t[k].doc = d,
               Silent(t, d, k, n + l), k > n
        PROVE  Found(m, d, l)
    <3>1. k - n \in 1..l /\ k - n \in 1..Len(m) /\ k - n \in 0..Len(m) /\ n + (k - n) = k
      BY <1>1, <2>1
    <3>2. t[k] = m[k - n] /\ Live(m, k - n) /\ Silent(m, d, k - n, l)
      BY <1>1, <1>2, <1>5, <2>1, <3>1
    <3> QED
      BY <2>1, <3>1, <3>2 DEF Found
  <2>2. ASSUME NEW k \in 1..n + l, Live(t, k), t[k].kind = "found", t[k].doc = d,
               Silent(t, d, k, n + l), ~(k > n)
        PROVE  Silent(m, d, 0, l) /\ Found(s, d, n)
    <3>1. k \in 1..n /\ k \in 0..n
      BY <1>1, <2>2
    <3>2. Silent(s, d, k, n) /\ Silent(m, d, 0, l)
      BY <1>6, <2>2, <3>1
    <3> QED
      BY <1>1, <2>2, <3>1, <3>2 DEF Found
  <2>3. Found(t, d, n + l) => Found(m, d, l) \/ (Silent(m, d, 0, l) /\ Found(s, d, n))
    BY <2>1, <2>2 DEF Found
  <2>4. ASSUME NEW k \in 1..l, m[k].kind = "found", m[k].doc = d, Silent(m, d, k, l)
        PROVE  Found(t, d, n + l)
    <3>1. n + k \in 1..n + l /\ k \in 1..Len(m) /\ k \in 0..Len(m)
      BY <1>1
    <3>2. t[n + k] = m[k] /\ Live(t, n + k) /\ Silent(t, d, n + k, n + l)
      BY <1>1, <1>5, <2>4, <3>1
    <3> QED
      BY <2>4, <3>1, <3>2 DEF Found
  <2>5. ASSUME NEW k \in 1..n, Live(s, k), s[k].kind = "found", s[k].doc = d,
               Silent(s, d, k, n), Silent(m, d, 0, l)
        PROVE  Found(t, d, n + l)
    <3>1. k \in 1..n + l /\ k \in 0..n
      BY <1>1
    <3>2. t[k] = s[k] /\ Live(t, k) /\ Silent(t, d, k, n + l)
      BY <1>1, <1>6, <2>5, <3>1
    <3> QED
      BY <2>5, <3>1, <3>2 DEF Found
  <2>6. Found(m, d, l) => Found(t, d, n + l)
    BY <2>4 DEF Found
  <2>7. Silent(m, d, 0, l) /\ Found(s, d, n) => Found(t, d, n + l)
    BY <2>5 DEF Found
  <2> QED
    BY <2>3, <2>6, <2>7
<1>8. \A j \in 0..n : /\ Has(t, E, d, j) <=> Has(s, E, d, j)
                      /\ Found(t, d, j) <=> Found(s, d, j)
                      /\ \A i \in 0..j : Silent(t, d, i, j) <=> Silent(s, d, i, j)
  <2> SUFFICES ASSUME NEW j \in 0..n
               PROVE  /\ Has(t, E, d, j) <=> Has(s, E, d, j)
                      /\ Found(t, d, j) <=> Found(s, d, j)
                      /\ \A i \in 0..j : Silent(t, d, i, j) <=> Silent(s, d, i, j)
    OBVIOUS
  <2>1. 0 \in 0..j
    BY <1>1
  <2> QED
    BY <1>3, <1>4, <2>1 DEF Has
<1>9. \A l \in 0..Len(m) :
        /\ Found(t, d, n + l) <=> Found(m, d, l) \/ (Silent(m, d, 0, l) /\ Found(s, d, n))
        /\ Has(t, E, d, n + l) <=> Found(m, d, l) \/ (Silent(m, d, 0, l) /\ Has(s, E, d, n))
        /\ \A i \in 0..n : Silent(t, d, i, n + l) <=> Silent(s, d, i, n) /\ Silent(m, d, 0, l)
  <2> SUFFICES ASSUME NEW l \in 0..Len(m)
               PROVE  /\ Found(t, d, n + l) <=>
                           Found(m, d, l) \/ (Silent(m, d, 0, l) /\ Found(s, d, n))
                      /\ Has(t, E, d, n + l) <=>
                           Found(m, d, l) \/ (Silent(m, d, 0, l) /\ Has(s, E, d, n))
                      /\ \A i \in 0..n :
                           Silent(t, d, i, n + l) <=> Silent(s, d, i, n) /\ Silent(m, d, 0, l)
    OBVIOUS
  <2>1. 0 \in 0..n
    BY <1>1
  <2> QED
    BY <1>6, <1>7, <2>1 DEF Has
<1> QED
  BY <1>8, <1>9 DEF t, n

\* After its first j messages s has found F, and has said something of G.
Tells(s, j, F, G) ==
  \A d \in Docs : /\ Found(s, d, j) <=> d \in F
                  /\ Silent(s, d, 0, j) <=> d \notin G

LEMMA TellsConcat ==
  ASSUME NEW s \in Seq(Sent), NEW m \in Seq(Sent), NEW l \in 0..Len(m),
         NEW F, NEW G, Tells(s, Len(s), F, G), NEW N, NEW O, Tells(m, l, N, O)
  PROVE  /\ Tells(s \o m, Len(s) + l, N \cup (F \ O), G \cup O)
         /\ s \o m \in Seq(Sent) /\ Len(s \o m) = Len(s) + Len(m) /\ Len(s) \in Nat
<1>1. s \in Seq(Responses) /\ Len(s) \in Nat /\ 0 \in 0..Len(s)
  BY SentLive
<1>2. s \o m \in Seq(Sent) /\ Len(s \o m) = Len(s) + Len(m)
  BY ConcatProperties
<1>3. ASSUME NEW d \in Docs
      PROVE  /\ Found(s \o m, d, Len(s) + l) <=> d \in N \cup (F \ O)
             /\ Silent(s \o m, d, 0, Len(s) + l) <=> d \notin G \cup O
  <2>1. /\ Found(s \o m, d, Len(s) + l) <=>
             Found(m, d, l) \/ (Silent(m, d, 0, l) /\ Found(s, d, Len(s)))
        /\ Silent(s \o m, d, 0, Len(s) + l) <=> Silent(s, d, 0, Len(s)) /\ Silent(m, d, 0, l)
    BY <1>1, AppendHas
  <2> QED
    BY <2>1 DEF Tells
<1> QED
  BY <1>1, <1>2, <1>3 DEF Tells

\* Documents that are found, documents that are gone, a reset, and messages
\* that say nothing of documents.
LEMMA TellsMessages ==
  ASSUME NEW kind \in DocKinds, NEW S \in SUBSET Docs
  PROVE  /\ Tells(Messages(kind, S), Len(Messages(kind, S)),
                  IF kind = "found" THEN S ELSE {}, S)
         /\ Messages(kind, S) \in Seq(Sent)
         /\ \A i \in 1..Len(Messages(kind, S)) : Messages(kind, S)[i].kind = kind
<1> DEFINE m == Messages(kind, S)
           n == Len(m)
<1>1. /\ m \in Seq(OfDoc)
      /\ \A i \in 1..n :
           /\ m[i].kind = kind /\ m[i].doc \in S
           /\ \A j \in 1..n : m[i].doc = m[j].doc => i = j
      /\ \A d \in S : \E i \in 1..n : m[i].doc = d
  BY MessagesAre
<1>2. m \in Seq(Sent)
  BY <1>1, SeqMonotonic DEF Sent
<1>3. n \in Nat /\ \A k \in 1..n : Live(m, k)
  BY <1>2, SentLive
<1> HIDE DEF m, n
<1>4. ASSUME NEW d \in Docs
      PROVE  /\ Found(m, d, n) <=> kind = "found" /\ d \in S
             /\ Silent(m, d, 0, n) <=> d \notin S
  <2>1. \A k \in 1..n : Says(m[k], d) <=> m[k].doc = d
    BY <1>1 DEF Says, DocKinds
  <2>2. Silent(m, d, 0, n) <=> d \notin S
    BY <1>1, <1>3, <2>1 DEF Silent
  <2>3. Found(m, d, n) => kind = "found" /\ d \in S
    BY <1>1 DEF Found
  <2>4. ASSUME kind = "found", d \in S PROVE Found(m, d, n)
    <3>1. PICK i \in 1..n : m[i].doc = d
      BY <1>1, <2>4
    <3>2. Silent(m, d, i, n)
      <4> SUFFICES ASSUME NEW k \in i + 1..n PROVE ~Says(m[k], d)
        BY DEF Silent
      <4>1. k \in 1..n /\ k # i
        BY <1>3
      <4> QED
        BY <1>1, <2>1, <3>1, <4>1
    <3> QED
      BY <1>1, <1>3, <2>4, <3>1, <3>2 DEF Found
  <2> QED
    BY <2>2, <2>3, <2>4
<1> QED
  BY <1>1, <1>2, <1>4 DEF Tells, m, n

LEMMA TellsNothing ==
  ASSUME NEW m \in Seq(Sent), NEW l \in 0..Len(m),
         \A k \in 1..l : m[k].kind \notin {"found", "gone", "reset"}
  PROVE  Tells(m, l, {}, {})
BY SentLive DEF Tells, Found, Silent, Says

\* What says nothing of documents does not change what was said.
LEMMA TellsQuiet ==
  ASSUME NEW s \in Seq(Sent), NEW F, NEW G, Tells(s, Len(s), F, G), NEW t \in Seq(Sent),
         \A k \in 1..Len(t) : t[k].kind \notin {"found", "gone", "reset"}
  PROVE  /\ s \o t \in Seq(Sent) /\ Len(s \o t) = Len(s) + Len(t)
         /\ Len(s) \in Nat /\ Len(t) \in Nat
         /\ \A k \in 1..Len(s) : (s \o t)[k] = s[k]
         /\ \A k \in 1..Len(t), j \in Nat : j = Len(s) + k => (s \o t)[j] = t[k]
         /\ \A l \in 0..Len(t), j \in Nat : j = Len(s) + l => Tells(s \o t, j, F, G)
<1>1. /\ s \o t \in Seq(Sent) /\ Len(s \o t) = Len(s) + Len(t)
      /\ Len(s) \in Nat /\ Len(t) \in Nat
      /\ \A k \in 1..Len(s) + Len(t) :
           (s \o t)[k] = IF k <= Len(s) THEN s[k] ELSE t[k - Len(s)]
  BY ConcatProperties, LenProperties
<1>2. ASSUME NEW k \in 1..Len(s) PROVE (s \o t)[k] = s[k]
  <2>1. k \in 1..Len(s) + Len(t) /\ k <= Len(s)
    BY <1>1
  <2> QED
    BY <1>1, <2>1
<1>3. ASSUME NEW k \in 1..Len(t), NEW j \in Nat, j = Len(s) + k PROVE (s \o t)[j] = t[k]
  <2>1. j \in 1..Len(s) + Len(t) /\ ~(j <= Len(s)) /\ j - Len(s) = k
    BY <1>1, <1>3
  <2> QED
    BY <1>1, <2>1
<1>4. ASSUME NEW l \in 0..Len(t), NEW j \in Nat, j = Len(s) + l PROVE Tells(s \o t, j, F, G)
  <2>1. Tells(t, l, {}, {})
    <3>1. \A k \in 1..l : k \in 1..Len(t)
      BY <1>1
    <3> QED
      BY <3>1, TellsNothing
  <2>2. Tells(s \o t, Len(s) + l, {} \cup (F \ {}), G \cup {})
    BY <2>1, TellsConcat
  <2>3. {} \cup (F \ {}) = F /\ G \cup {} = G
    OBVIOUS
  <2> QED
    BY <1>4, <2>2, <2>3
<1> QED
  BY <1>1, <1>2, <1>3, <1>4

LEMMA TellsReset ==
  ASSUME NEW x \in Sent, x.kind = "reset"
  PROVE  <<x>> \in Seq(Sent) /\ Len(<<x>>) = 1 /\ Tells(<<x>>, 1, {}, Docs)
<1>1. <<x>> \in Seq(Sent) /\ Len(<<x>>) = 1 /\ <<x>>[1] = x
  OBVIOUS
<1>2. Live(<<x>>, 1)
  BY <1>1 DEF Live
<1> QED
  BY <1>1, <1>2 DEF Tells, Found, Silent, Says

-----------------------------------------------------------------------------
(* The invariant, as long as nobody stops listening and no listen is rejected *)

Steady == stops = 0 /\ errors = 0

\* What the target will have with the changes collected so far.
Expected == (cache.keys \ Changed(state, "Removed")) \cup Changed(state, "Added")

\* The keys on disk are those of the token, and no version since has lost any.
Store ==
  /\ cache.keys = ContentAt(cache.token)
  /\ cache.keys \subseteq cache.docs
  /\ cache.token <= cache.last
  /\ \A w \in cache.token..cache.last : cache.keys \subseteq ContentAt(w)

\* So are they those of the token in memory, which may be a later one.  The view
\* is current at the last version, or was started over with documents in limbo.
Following ==
  /\ IsStarted(stream) => listening = "yes"
  /\ listening = "yes" =>
       /\ token = data /\ data <= cache.last
       /\ cache.keys = ContentAt(data)
       /\ \A w \in data..cache.last : cache.keys \subseteq ContentAt(w)
       /\ view.current = "yes" =>
            IF data = 0 THEN cache.docs # {} ELSE data = cache.last

IsAnswer(m) == m.kind \in {"added", "removed"}

\* While answers are due nothing is collected.  Only a target that is started
\* over, without a token, asks more than once on a call; its last request is
\* the watch, and so is the last to be answered.
Waiting ==
  /\ IsOpen(stream) => state.held = "yes"
  /\ state.acks # 0 => state.docs = <<>> /\ updates = NoUpdates /\ mismatch = "no"
  /\ state.acks # 0 /\ responses # <<>> /\ ~IsAnswer(Head(responses)) => data = 0
  /\ requests # <<>> /\ server.state # "no" => data = 0
  /\ state.acks >= 2 => data = 0
  /\ requests # <<>> => requests[Len(requests)] = Watch(token)
  /\ requests = <<>> =>
       \A k \in 1..Len(responses) :
         IsAnswer(responses[k]) /\ Live(responses, k + 1) => responses[k].kind = "added"

\* The snapshot of version v is next, or "current" is and then the snapshot.
SnapshotNext(s, i, v) ==
  \/ i <= Len(s) /\ s[i] = Token("snapshot", v)
  \/ /\ i + 1 <= Len(s)
     /\ s[i] = Token("current", v) /\ s[i + 1] = Token("snapshot", v)

\* What is to be added was found, and what is expected is not gone.  After a
\* count that did not match, everything is to be removed at the next snapshot,
\* which is next and newer than the last.
Collected ==
  /\ Expected \cap updates.gone = {} /\ Changed(state, "Added") \subseteq updates.found
  /\ mismatch = "yes" =>
       /\ state.acks = 0
       /\ \E v \in Versions : v > cache.last /\ SnapshotNext(responses, 1, v)
       /\ state.docs = [d \in cache.keys |-> "Removed"]
       /\ cache.keys # {} /\ updates.gone = {}

\* A server that is about to start has the client's token.
Fresh ==
  server.state = "fresh" =>
    /\ \A k \in 1..Len(responses) : ~Live(responses, k)
    /\ server.at = data /\ state.docs = <<>> /\ updates = NoUpdates /\ mismatch = "no"

LiveFilter(f) ==
  f \in 1..Len(responses) /\ Live(responses, f) /\ responses[f].kind = "filter"

\* A count of the documents of version v comes to a target that has those, and
\* what is left of its own.
FilterOK(f, v) ==
  /\ data # 0 /\ mismatch = "no" /\ updates.gone = {}
  /\ data <= v /\ responses[f].count = Cardinality(ContentAt(v))
  /\ \A d \in Docs :
       Has(responses, Expected, d, f) <=> d \in ContentAt(data) \cup ContentAt(v)
  /\ SnapshotNext(responses, f + 1, v)
  /\ \A k \in 1..f - 1 : Live(responses, k) => responses[k].kind \in {"found", "current"}

Filters ==
  \A f \in 1..Len(responses) : LiveFilter(f) => \E v \in Versions : FilterOK(f, v)

\* Every count under way will match.
Good ==
  /\ mismatch = "no"
  /\ \A f \in 1..Len(responses) :
       LiveFilter(f) => ContentAt(data) \subseteq ContentAt(responses[f + 1].token)

\* After j messages the client is to have version v: a snapshot is there, or the
\* server will send what is new since v.
Marked(j, v) ==
  \/ /\ j \in 1..Len(responses) /\ Live(responses, j)
     /\ responses[j] = Token("snapshot", v)
  \/ j = Len(responses) /\ server = [state |-> "current", at |-> v]

\* If all counts match it has, and what it was not told of was there all along.
SnapshotOK(j, v) ==
  /\ \A d \in Docs : Has(responses, Expected, d, j) <=> d \in ContentAt(v)
  /\ \A d \in cache.keys \ DOMAIN state.docs :
       Silent(responses, d, 0, j) => \A w \in data..v : d \in ContentAt(w)

Snapshots ==
  Good => \A j \in 0..Len(responses), v \in Marks : Marked(j, v) => SnapshotOK(j, v)

\* The same from one snapshot to a later one.
PairOK(i, u, j, v) ==
  /\ u <= v
  /\ \A d \in ContentAt(u) :
       Silent(responses, d, i, j) => \A w \in u..v : d \in ContentAt(w)

Pairs ==
  \A i \in 1..Len(responses), j \in 0..Len(responses), u \in Versions, v \in Marks :
    /\ i <= j /\ Live(responses, i) /\ responses[i] = Token("snapshot", u)
    /\ Marked(j, v)
    => PairOK(i, u, j, v)

Call == Fresh /\ Filters /\ Snapshots /\ Pairs

LiveOK ==
  Steady => /\ Store /\ Following /\ Waiting /\ Collected
            /\ requests = <<>> => Call

-----------------------------------------------------------------------------
(* A message is taken from the call *)

\* The client takes in a message just if no answer is due behind it.
LEMMA ActiveWhen ==
  ASSUME TypeOK, AcksOK, errors = 0
  PROVE  /\ state.acks \in Nat /\ state.acks >= Len(requests) /\ Len(requests) \in Nat
         /\ state.acks = 0 <=> requests = <<>> /\ Live(responses, 1)
         /\ responses # <<>> /\ IsAnswer(Head(responses)) => state.acks >= Len(requests) + 1
<1>1. state.acks = Len(requests) + Cardinality(Answers(responses))
  BY Due DEF AcksOK
<1>2. Len(requests) \in Nat /\ (Len(requests) = 0 <=> requests = <<>>)
  BY LenProperties, EmptySeq DEF TypeOK
<1>3. /\ Answers(responses) \in SUBSET (1..Len(responses))
      /\ IsFiniteSet(Answers(responses)) /\ Cardinality(Answers(responses)) \in Nat
  BY AnswersFinite DEF TypeOK
<1>4. Cardinality(Answers(responses)) = 0 <=> Answers(responses) = {}
  BY <1>3, FS_EmptySet
<1>5. Answers(responses) = {} <=> Live(responses, 1)
  BY LenProperties DEF Answers, Live, TypeOK
<1>6. ASSUME responses # <<>>, IsAnswer(Head(responses))
      PROVE  Cardinality(Answers(responses)) # 0
  <2>1. Head(responses) = responses[1] /\ 1 \in 1..Len(responses)
    BY <1>6, TailIs DEF TypeOK
  <2> QED
    BY <1>4, <1>6, <2>1, LenProperties DEF Answers, IsAnswer, TypeOK
<1> QED
  BY <1>1, <1>2, <1>3, <1>4, <1>5, <1>6

LEMMA Shifted ==
  ASSUME TypeOK, responses # <<>>, responses' = Tail(responses), server' = server
  PROVE  /\ responses \in Seq(Responses)
         /\ Len(responses) \in Nat \ {0} /\ Len(responses') = Len(responses) - 1
         /\ Head(responses) = responses[1]
         /\ \A k \in 1..Len(responses) - 1 :
              /\ responses'[k] = responses[k + 1]
              /\ Live(responses', k) <=> Live(responses, k + 1)
              /\ LiveFilter(k)' <=> LiveFilter(k + 1)
         /\ \A j \in 0..Len(responses) - 1, v \in Marks : Marked(j, v)' => Marked(j + 1, v)
<1>1. responses \in Seq(Responses)
  BY DEF TypeOK
<1>2. /\ Len(responses) \in Nat \ {0} /\ Len(responses') = Len(responses) - 1
      /\ Head(responses) = responses[1]
      /\ \A k \in 1..Len(responses) - 1 :
           responses'[k] = responses[k + 1] /\ (Live(responses', k) <=> Live(responses, k + 1))
  BY <1>1, TailIs
<1>3. ASSUME NEW k \in 1..Len(responses) - 1 PROVE LiveFilter(k)' <=> LiveFilter(k + 1)
  <2>1. k \in 1..Len(responses') /\ k + 1 \in 1..Len(responses)
    BY <1>2
  <2> QED
    BY <1>2, <2>1 DEF LiveFilter
<1>4. ASSUME NEW j \in 0..Len(responses) - 1, NEW v \in Marks, Marked(j, v)'
      PROVE  Marked(j + 1, v)
  <2>1. CASE j \in 1..Len(responses') /\ Live(responses', j)
             /\ responses'[j] = Token("snapshot", v)
    <3>1. j \in 1..Len(responses) - 1 /\ j + 1 \in 1..Len(responses)
      BY <1>2, <2>1
    <3> QED
      BY <1>2, <2>1, <3>1 DEF Marked
  <2>2. CASE j = Len(responses') /\ server' = [state |-> "current", at |-> v]
    BY <1>2, <2>2 DEF Marked
  <2> QED
    BY <1>4, <2>1, <2>2 DEF Marked
<1> QED
  BY <1>1, <1>2, <1>3, <1>4

LEMMA NextShifted ==
  ASSUME TypeOK, responses # <<>>, responses' = Tail(responses), server' = server,
         NEW i \in Nat, NEW v, SnapshotNext(responses, i + 1, v), i >= 1
  PROVE  SnapshotNext(responses', i, v) /\ i \in 1..Len(responses) - 1
<1>1. /\ Len(responses) \in Nat \ {0} /\ Len(responses') = Len(responses) - 1
      /\ \A k \in 1..Len(responses) - 1 : responses'[k] = responses[k + 1]
  BY Shifted
<1> QED
  BY <1>1 DEF SnapshotNext

\* What a message makes of the documents that are expected.
Effect ==
  \A d \in Docs :
    d \in Expected' <=> IF Live(responses, 1) /\ Says(Head(responses), d)
                        THEN Head(responses).kind = "found" ELSE d \in Expected

LEMMA FreshShift ==
  ASSUME TypeOK, responses # <<>>, responses' = Tail(responses), server' = server, Fresh,
         server.state = "fresh" =>
           data' = data /\ state'.docs = <<>> /\ updates' = NoUpdates /\ mismatch' = "no"
  PROVE  Fresh'
<1>1. /\ Len(responses) \in Nat \ {0} /\ Len(responses') = Len(responses) - 1
      /\ \A k \in 1..Len(responses) - 1 : Live(responses', k) <=> Live(responses, k + 1)
  BY Shifted
<1>2. \A k \in 1..Len(responses) - 1 : k + 1 \in 1..Len(responses)
  BY <1>1
<1> QED
  BY <1>1, <1>2 DEF Fresh

LEMMA FilterShift ==
  ASSUME TypeOK, responses # <<>>, responses' = Tail(responses), server' = server, Filters,
         Effect,
         \A f \in 2..Len(responses) :
           LiveFilter(f) => data' = data /\ mismatch' = mismatch /\ updates'.gone = {}
  PROVE  Filters'
<1>1. /\ responses \in Seq(Responses)
      /\ Len(responses) \in Nat \ {0} /\ Len(responses') = Len(responses) - 1
      /\ \A k \in 1..Len(responses) - 1 :
           /\ responses'[k] = responses[k + 1]
           /\ Live(responses', k) <=> Live(responses, k + 1)
           /\ LiveFilter(k)' <=> LiveFilter(k + 1)
  BY Shifted
<1> SUFFICES ASSUME NEW f \in 1..Len(responses'), LiveFilter(f)'
             PROVE  \E v \in Versions : FilterOK(f, v)'
  BY DEF Filters
<1>2. f \in 1..Len(responses) - 1 /\ f + 1 \in 2..Len(responses) /\ f \in Nat
      /\ f + 1 \in 1..Len(responses) /\ f \in 0..Len(responses) - 1
  BY <1>1
<1>3. LiveFilter(f + 1)
  BY <1>1, <1>2
<1>4. PICK v \in Versions : FilterOK(f + 1, v)
  BY <1>2, <1>3 DEF Filters
<1>5. data' = data /\ mismatch' = mismatch /\ updates'.gone = {}
  BY <1>2, <1>3
<1>6. \A d \in Docs : Has(responses', Expected', d, f) <=> Has(responses, Expected, d, f + 1)
  BY <1>1, <1>2, TailHas DEF Effect
<1>8. SnapshotNext(responses', f + 1, v)
  <2>1. SnapshotNext(responses, (f + 1) + 1, v) /\ f + 1 \in Nat /\ f + 1 >= 1
    BY <1>2, <1>4 DEF FilterOK
  <2> QED
    BY <2>1, NextShifted
<1>9. \A k \in 1..f - 1 : Live(responses', k) => responses'[k].kind \in {"found", "current"}
  <2> SUFFICES ASSUME NEW k \in 1..f - 1, Live(responses', k)
               PROVE  responses'[k].kind \in {"found", "current"}
    OBVIOUS
  <2>1. k \in 1..Len(responses) - 1 /\ k + 1 \in 1..(f + 1) - 1
    BY <1>2
  <2> QED
    BY <1>1, <1>4, <2>1 DEF FilterOK
<1>10. responses'[f].count = responses[f + 1].count
  BY <1>1, <1>2
<1>11. FilterOK(f, v)'
  BY <1>4, <1>5, <1>6, <1>8, <1>9, <1>10 DEF FilterOK
<1> QED
  BY <1>11

LEMMA SnapshotShift ==
  ASSUME TypeOK, responses # <<>>, responses' = Tail(responses), server' = server, Snapshots,
         Effect, Good' => Good, data' = data,
         \A d \in cache'.keys \ DOMAIN state'.docs :
           /\ d \in cache.keys \ DOMAIN state.docs
           /\ ~(Live(responses, 1) /\ Says(Head(responses), d))
  PROVE  Snapshots'
<1>1. /\ responses \in Seq(Responses)
      /\ Len(responses) \in Nat \ {0} /\ Len(responses') = Len(responses) - 1
      /\ \A j \in 0..Len(responses) - 1, v \in Marks : Marked(j, v)' => Marked(j + 1, v)
  BY Shifted
<1> SUFFICES ASSUME Good', NEW j \in 0..Len(responses'), NEW v \in Marks, Marked(j, v)'
             PROVE  SnapshotOK(j, v)'
  BY DEF Snapshots
<1>2. j \in 0..Len(responses) - 1 /\ j + 1 \in 0..Len(responses)
  BY <1>1
<1>3. SnapshotOK(j + 1, v)
  BY <1>1, <1>2 DEF Snapshots
<1>4. ASSUME NEW d \in Docs
      PROVE  Has(responses', Expected', d, j) <=> d \in ContentAt(v)
  <2>1. Has(responses', Expected', d, j) <=> Has(responses, Expected, d, j + 1)
    BY <1>1, <1>2, TailHas DEF Effect
  <2> QED
    BY <1>3, <2>1 DEF SnapshotOK
<1>5. ASSUME NEW d \in cache'.keys \ DOMAIN state'.docs, Silent(responses', d, 0, j)
      PROVE  \A w \in data'..v : d \in ContentAt(w)
  <2>1. d \in cache.keys \ DOMAIN state.docs /\ d \in Docs
    BY DEF TypeOK, Caches
  <2>2. Silent(responses, d, 0, j + 1)
    BY <1>1, <1>2, <1>5, <2>1, TailHas DEF Effect
  <2> QED
    BY <1>3, <2>1, <2>2 DEF SnapshotOK
<1> QED
  BY <1>4, <1>5 DEF SnapshotOK

LEMMA PairShift ==
  ASSUME TypeOK, responses # <<>>, responses' = Tail(responses), server' = server, Pairs
  PROVE  Pairs'
<1>1. /\ responses \in Seq(Responses)
      /\ Len(responses) \in Nat \ {0} /\ Len(responses') = Len(responses) - 1
      /\ \A k \in 1..Len(responses) - 1 :
           /\ responses'[k] = responses[k + 1]
           /\ Live(responses', k) <=> Live(responses, k + 1)
      /\ \A j \in 0..Len(responses) - 1, v \in Marks : Marked(j, v)' => Marked(j + 1, v)
  BY Shifted
<1> SUFFICES ASSUME NEW i \in 1..Len(responses'), NEW j \in 0..Len(responses'),
                    NEW u \in Versions, NEW v \in Marks, i <= j, Live(responses', i),
                    responses'[i] = Token("snapshot", u), Marked(j, v)'
             PROVE  PairOK(i, u, j, v)'
  BY DEF Pairs
<1>2. /\ j \in 0..Len(responses) - 1 /\ j + 1 \in 0..Len(responses)
      /\ i \in 1..Len(responses) - 1 /\ i + 1 \in 1..Len(responses) /\ i + 1 <= j + 1
      /\ i \in 0..j
  BY <1>1
<1>3. PairOK(i + 1, u, j + 1, v)
  BY <1>1, <1>2 DEF Pairs
<1>4. ASSUME NEW d, Silent(responses', d, i, j) PROVE Silent(responses, d, i + 1, j + 1)
  <2> DEFINE F == IF Live(responses, 1) /\ Says(Head(responses), d)
                  THEN (IF Head(responses).kind = "found" THEN {d} ELSE {}) ELSE {}
  <2>1. d \in F <=> IF Live(responses, 1) /\ Says(Head(responses), d)
                    THEN Head(responses).kind = "found" ELSE d \in {}
    OBVIOUS
  <2> HIDE DEF F
  <2> QED
    BY <1>1, <1>2, <1>4, <2>1, TailHas
<1> QED
  BY <1>3, <1>4 DEF PairOK

-----------------------------------------------------------------------------
(* The server adds messages that end in a snapshot *)

Ends(m, v) ==
  /\ Len(m) >= 1 /\ m[Len(m)] = Token("snapshot", v)
  /\ \A k \in 1..Len(m) - 1 : m[k].kind # "snapshot"

LEMMA Appended ==
  ASSUME TypeOK, NEW m \in Seq(Sent), responses' = responses \o m
  PROVE  /\ responses \in Seq(Responses) /\ Len(responses) \in Nat /\ Len(m) \in Nat
         /\ Len(responses') = Len(responses) + Len(m)
         /\ \A k \in 1..Len(responses) :
              /\ responses'[k] = responses[k]
              /\ Live(responses', k) <=> Live(responses, k)
              /\ LiveFilter(k)' <=> LiveFilter(k)
         /\ \A l \in 1..Len(m), k \in Nat : k = Len(responses) + l =>
              /\ responses'[k] = m[l] /\ Live(responses', k)
              /\ LiveFilter(k)' <=> m[l].kind = "filter"
         /\ \A i, v : SnapshotNext(responses, i, v) /\ i \in 1..Len(responses)
                        => SnapshotNext(responses', i, v)
<1>1. responses \in Seq(Responses)
  BY DEF TypeOK
<1>2. /\ Len(responses) \in Nat /\ Len(m) \in Nat
      /\ Len(responses') = Len(responses) + Len(m)
      /\ \A k \in 1..Len(responses) :
           responses'[k] = responses[k] /\ (Live(responses', k) <=> Live(responses, k))
      /\ \A l \in 1..Len(m) :
           responses'[Len(responses) + l] = m[l] /\ Live(responses', Len(responses) + l)
  BY <1>1, AppendLive
<1>3. \A k \in 1..Len(responses) : LiveFilter(k)' <=> LiveFilter(k)
  <2> SUFFICES ASSUME NEW k \in 1..Len(responses) PROVE LiveFilter(k)' <=> LiveFilter(k)
    OBVIOUS
  <2>1. k \in 1..Len(responses')
    BY <1>2
  <2> QED
    BY <1>2, <2>1 DEF LiveFilter
<1>4. ASSUME NEW l \in 1..Len(m), NEW k \in Nat, k = Len(responses) + l
      PROVE  /\ responses'[k] = m[l] /\ Live(responses', k)
             /\ LiveFilter(k)' <=> m[l].kind = "filter"
  <2>1. k \in 1..Len(responses') /\ responses'[k] = m[l] /\ Live(responses', k)
    BY <1>2, <1>4
  <2> QED
    BY <2>1 DEF LiveFilter
<1>5. ASSUME NEW i \in 1..Len(responses), NEW v, SnapshotNext(responses, i, v)
      PROVE  SnapshotNext(responses', i, v)
  BY <1>2, <1>5 DEF SnapshotNext
<1> QED
  BY <1>1, <1>2, <1>3, <1>4, <1>5

LEMMA MarkedSent ==
  ASSUME TypeOK, NEW m \in Seq(Sent), responses' = responses \o m, NEW v, Ends(m, v),
         server' = [state |-> "current", at |-> v],
         NEW j \in 0..Len(responses'), NEW w, Marked(j, w)'
  PROVE  \/ j \in 1..Len(responses) /\ Marked(j, w)
         \/ j = Len(responses') /\ w = v
<1>1. /\ Len(responses) \in Nat /\ Len(m) \in Nat
      /\ Len(responses') = Len(responses) + Len(m)
      /\ \A k \in 1..Len(responses) :
           responses'[k] = responses[k] /\ (Live(responses', k) <=> Live(responses, k))
      /\ \A l \in 1..Len(m), k \in Nat : k = Len(responses) + l => responses'[k] = m[l]
  BY Appended
<1>2. \A t, u : Token("snapshot", t) = Token("snapshot", u) => t = u
  BY DEF Token
<1>3. CASE j = Len(responses') /\ server' = [state |-> "current", at |-> w]
  <2>1. [state |-> "current", at |-> w].at = [state |-> "current", at |-> v].at
    BY <1>3
  <2> QED
    BY <1>3, <2>1
<1>4. CASE /\ j \in 1..Len(responses') /\ Live(responses', j)
           /\ responses'[j] = Token("snapshot", w)
  <2>1. CASE j \in 1..Len(responses)
    BY <1>1, <1>4, <2>1 DEF Marked
  <2>2. CASE j \notin 1..Len(responses)
    <3>1. j - Len(responses) \in 1..Len(m) /\ j = Len(responses) + (j - Len(responses))
          /\ j \in Nat
      BY <1>1, <1>4, <2>2
    <3>2. m[j - Len(responses)] = Token("snapshot", w)
      BY <1>1, <1>4, <3>1
    <3>3. j - Len(responses) = Len(m)
      <4>1. m[j - Len(responses)].kind = "snapshot"
        BY <3>2 DEF Token
      <4>2. j - Len(responses) \notin 1..Len(m) - 1
        BY <4>1 DEF Ends
      <4> QED
        BY <1>1, <3>1, <4>2
    <3> QED
      BY <1>1, <1>2, <3>2, <3>3 DEF Ends
  <2> QED
    BY <2>1, <2>2
<1> QED
  BY <1>3, <1>4 DEF Marked

LEMMA FilterSent ==
  ASSUME TypeOK, NEW m \in Seq(Sent), responses' = responses \o m, Filters,
         UNCHANGED <<data, mismatch, updates, state, cache>>,
         \A l \in 1..Len(m), k \in Nat : k = Len(responses) + l /\ m[l].kind = "filter" =>
           \E v \in Versions : FilterOK(k, v)'
  PROVE  /\ Filters'
         /\ Good' => Good
<1>1. /\ responses \in Seq(Responses) /\ Len(responses) \in Nat /\ Len(m) \in Nat
      /\ Len(responses') = Len(responses) + Len(m)
      /\ \A k \in 1..Len(responses) :
           /\ responses'[k] = responses[k]
           /\ Live(responses', k) <=> Live(responses, k)
           /\ LiveFilter(k)' <=> LiveFilter(k)
      /\ \A l \in 1..Len(m), k \in Nat :
           k = Len(responses) + l => (LiveFilter(k)' <=> m[l].kind = "filter")
  BY Appended
<1>2. Expected' = Expected
  BY DEF Expected, Changed
<1>3. ASSUME NEW f \in 1..Len(responses), LiveFilter(f)
      PROVE  /\ \E v \in Versions : FilterOK(f, v)'
             /\ f + 1 \in 1..Len(responses)
  <2>1. PICK v \in Versions : FilterOK(f, v)
    BY <1>3 DEF Filters
  <2>2. SnapshotNext(responses, f + 1, v) /\ f + 1 \in 1..Len(responses)
    BY <1>1, <2>1 DEF FilterOK, SnapshotNext
  <2>3. SnapshotNext(responses', f + 1, v)
    BY <2>2, Appended
  <2>4. f \in 0..Len(responses)
    OBVIOUS
  <2>5. \A d \in Docs : Has(responses', Expected', d, f) <=> Has(responses, Expected, d, f)
    BY <1>1, <1>2, <2>4, AppendHas
  <2>6. \A k \in 1..f - 1 : k \in 1..Len(responses)
    BY <1>1
  <2>7. FilterOK(f, v)'
    BY <1>1, <2>1, <2>3, <2>5, <2>6 DEF FilterOK
  <2> QED
    BY <2>2, <2>7
<1>4. Filters'
  <2> SUFFICES ASSUME NEW f \in 1..Len(responses'), LiveFilter(f)'
               PROVE  \E v \in Versions : FilterOK(f, v)'
    BY DEF Filters
  <2>1. CASE f \in 1..Len(responses)
    BY <1>1, <1>3, <2>1
  <2>2. CASE f \notin 1..Len(responses)
    <3>1. PICK l \in 1..Len(m) : f = Len(responses) + l /\ f \in Nat
      <4>1. f - Len(responses) \in 1..Len(m) /\ f = Len(responses) + (f - Len(responses))
            /\ f \in Nat
        BY <1>1, <2>2
      <4> QED
        BY <4>1
    <3>2. m[l].kind = "filter"
      BY <1>1, <3>1
    <3> QED
      BY <3>1, <3>2
  <2> QED
    BY <2>1, <2>2
<1>5. ASSUME Good' PROVE Good
  <2>1. ASSUME NEW f \in 1..Len(responses), LiveFilter(f)
        PROVE  ContentAt(data) \subseteq ContentAt(responses[f + 1].token)
    <3>1. f \in 1..Len(responses') /\ LiveFilter(f)' /\ f + 1 \in 1..Len(responses)
      BY <1>1, <1>3, <2>1
    <3>2. ContentAt(data') \subseteq ContentAt(responses'[f + 1].token)
      BY <1>5, <3>1 DEF Good
    <3> QED
      BY <1>1, <3>1, <3>2
  <2> QED
    BY <1>5, <2>1 DEF Good
<1> QED
  BY <1>4, <1>5

LEMMA SnapshotSent ==
  ASSUME TypeOK, NEW m \in Seq(Sent), responses' = responses \o m, Snapshots,
         NEW v, Ends(m, v), server' = [state |-> "current", at |-> v],
         UNCHANGED <<data, mismatch, updates, state, cache>>,
         NEW n, n = Len(responses) + Len(m), Good' => Good /\ SnapshotOK(n, v)'
  PROVE  Snapshots'
<1>1. /\ responses \in Seq(Responses) /\ Len(responses) \in Nat /\ Len(m) \in Nat
      /\ Len(responses') = Len(responses) + Len(m)
  BY Appended
<1>2. Expected' = Expected
  BY DEF Expected, Changed
<1> SUFFICES ASSUME Good', NEW j \in 0..Len(responses'), NEW w \in Marks, Marked(j, w)'
             PROVE  SnapshotOK(j, w)'
  BY DEF Snapshots
<1>3. CASE j \in 1..Len(responses) /\ Marked(j, w)
  <2>1. SnapshotOK(j, w) /\ j \in 0..Len(responses) /\ 0 \in 0..j
    BY <1>1, <1>3 DEF Snapshots
  <2>2. \A d : /\ Has(responses', Expected', d, j) <=> Has(responses, Expected, d, j)
               /\ Silent(responses', d, 0, j) <=> Silent(responses, d, 0, j)
    BY <1>1, <1>2, <2>1, AppendHas
  <2> QED
    BY <2>1, <2>2 DEF SnapshotOK
<1>4. CASE j = Len(responses') /\ w = v
  BY <1>1, <1>4
<1> QED
  BY <1>3, <1>4, MarkedSent

LEMMA PairSent ==
  ASSUME TypeOK, NEW m \in Seq(Sent), responses' = responses \o m, Pairs,
         NEW v \in Versions, Ends(m, v), server' = [state |-> "current", at |-> v],
         NEW n, n = Len(responses) + Len(m),
         \A i \in 1..Len(responses), u \in Versions :
           Live(responses, i) /\ responses[i] = Token("snapshot", u) => PairOK(i, u, n, v)'
  PROVE  Pairs'
<1>1. /\ responses \in Seq(Responses) /\ Len(responses) \in Nat /\ Len(m) \in Nat
      /\ Len(responses') = Len(responses) + Len(m)
      /\ \A k \in 1..Len(responses) :
           responses'[k] = responses[k] /\ (Live(responses', k) <=> Live(responses, k))
  BY Appended
<1> SUFFICES ASSUME NEW i \in 1..Len(responses'), NEW j \in 0..Len(responses'),
                    NEW u \in Versions, NEW w \in Marks, i <= j, Live(responses', i),
                    responses'[i] = Token("snapshot", u), Marked(j, w)'
             PROVE  PairOK(i, u, j, w)'
  BY DEF Pairs
<1>2. CASE j \in 1..Len(responses) /\ Marked(j, w)
  <2>1. i \in 1..Len(responses) /\ i \in 0..j /\ j \in 0..Len(responses)
    BY <1>1, <1>2
  <2>2. PairOK(i, u, j, w)
    BY <1>1, <1>2, <2>1 DEF Pairs
  <2>3. \A d : Silent(responses', d, i, j) <=> Silent(responses, d, i, j)
    BY <1>1, <2>1, AppendHas
  <2> QED
    BY <2>2, <2>3 DEF PairOK
<1>3. CASE j = Len(responses') /\ w = v
  <2>1. CASE i \in 1..Len(responses)
    BY <1>1, <1>3, <2>1
  <2>2. CASE i \notin 1..Len(responses)
    <3>1. Marked(i, u)' /\ i \in 0..Len(responses')
      BY DEF Marked
    <3>2. u = v
      BY <1>1, <2>2, <3>1, MarkedSent
    <3>3. \A x \in u..v : x = u
      BY <3>2 DEF Versions
    <3> QED
      BY <1>3, <3>2, <3>3 DEF PairOK, Versions
  <2> QED
    BY <2>1, <2>2
<1> QED
  BY <1>2, <1>3, MarkedSent

\* The messages m, which end in a snapshot of version v, are sent.
Brings(m, v) ==
  /\ m \in Seq(Sent) /\ responses' = responses \o m /\ Ends(m, v)
  /\ server' = [state |-> "current", at |-> v]
  /\ UNCHANGED <<client, requests, stops, errors>>

LEMMA SendsBring ==
  ASSUME TypeOK, NEW v \in Versions, NEW c \in Seq(Sent), Sends(v, c),
         \A k \in 1..Len(c) : c[k].kind # "snapshot",
         NEW F, NEW G, Tells(c, Len(c), F, G)
  PROVE  \E m \in Seq(Sent) :
           /\ Brings(m, v) /\ Tells(m, Len(m), F, G)
           /\ Len(m) = Len(c) + 1 /\ Len(c) \in Nat
           /\ \A k \in 1..Len(c) : m[k] = c[k]
           /\ \A j \in Nat : j = Len(c) + 1 => m[j] = Token("snapshot", v)
           /\ \A l \in 0..Len(c) : \A E, H : Tells(c, l, E, H) => Tells(m, l, E, H)
<1> DEFINE e == <<Token("snapshot", v)>>
           m == c \o e
<1>1. e \in Seq(Sent) /\ Len(e) = 1 /\ e[1] = Token("snapshot", v)
  BY TokenTypes
<1>2. responses' = responses \o m
  <2>1. responses' = responses \o c \o e
    BY DEF Sends
  <2>2. c \in Seq(Responses) /\ e \in Seq(Responses) /\ responses \in Seq(Responses)
    BY <1>1, TokenTypes DEF TypeOK
  <2> HIDE DEF e
  <2> QED
    BY <2>1, <2>2, ConcatAssociative
<1>3. server' = [state |-> "current", at |-> v]
      /\ UNCHANGED <<client, requests, stops, errors>>
  BY DEF Sends, ServerOnly
<1> HIDE DEF e
<1>4. \A k \in 1..Len(e) : e[k].kind \notin {"found", "gone", "reset"}
  BY <1>1 DEF Token
<1>a. /\ m \in Seq(Sent) /\ Len(m) = Len(c) + Len(e) /\ Len(c) \in Nat
      /\ \A k \in 1..Len(c) : m[k] = c[k]
      /\ \A k \in 1..Len(e), j \in Nat : j = Len(c) + k => m[j] = e[k]
      /\ \A l \in 0..Len(e), j \in Nat : j = Len(c) + l => Tells(m, j, F, G)
  BY <1>1, <1>4, TellsQuiet
<1>5. /\ m \in Seq(Sent) /\ Len(m) = Len(c) + 1 /\ Len(c) \in Nat
      /\ \A k \in 1..Len(c) : m[k] = c[k]
      /\ \A k \in 1..1, j \in Nat : j = Len(c) + k => m[j] = e[k]
      /\ \A l \in 0..1, j \in Nat : j = Len(c) + l => Tells(m, j, F, G)
  BY <1>1, <1>a
<1> HIDE DEF m
<1>6. Len(m) \in Nat /\ 1 \in 1..1 /\ 1 \in 0..1
  BY <1>5
<1>7. \A j \in Nat : j = Len(c) + 1 => m[j] = Token("snapshot", v)
  BY <1>1, <1>5, <1>6
<1>8. Tells(m, Len(m), F, G)
  BY <1>5, <1>6
<1>9. Ends(m, v)
  <2>1. m[Len(m)] = Token("snapshot", v) /\ Len(m) >= 1 /\ Len(m) - 1 = Len(c)
    BY <1>5, <1>6, <1>7
  <2> QED
    BY <1>5, <2>1 DEF Ends
<1>10. ASSUME NEW l \in 0..Len(c), NEW E, NEW H, Tells(c, l, E, H) PROVE Tells(m, l, E, H)
  <2>1. c \in Seq(Responses)
    BY TokenTypes
  <2>2. \A d : /\ Found(m, d, l) <=> Found(c, d, l)
               /\ Silent(m, d, 0, l) <=> Silent(c, d, 0, l)
    <3>1. \A d : \A j \in 0..Len(c) :
            /\ Found(c \o e, d, j) <=> Found(c, d, j)
            /\ \A i \in 0..j : Silent(c \o e, d, i, j) <=> Silent(c, d, i, j)
      BY <1>1, <2>1, AppendHas
    <3>2. 0 \in 0..l
      BY <1>5
    <3> QED
      BY <3>1, <3>2 DEF m
  <2> QED
    BY <1>10, <2>2 DEF Tells
<1>11. Brings(m, v)
  BY <1>2, <1>3, <1>5, <1>9 DEF Brings, m
<1> QED
  BY <1>5, <1>7, <1>8, <1>10, <1>11

Went(u, v) == ContentAt(u) \ ContentAt(v)

LEMMA ExactTells ==
  ASSUME NEW u \in Marks, NEW v \in Marks
  PROVE  /\ Exact(u, v) \in Seq(Sent)
         /\ \A k \in 1..Len(Exact(u, v)) : Exact(u, v)[k].kind \in DocKinds
         /\ Tells(Exact(u, v), Len(Exact(u, v)), NewSince(u, v), Went(u, v) \cup NewSince(u, v))
<1> DEFINE g == Messages("gone", Went(u, v))
           f == Messages("found", NewSince(u, v))
<1>1. Went(u, v) \in SUBSET Docs /\ NewSince(u, v) \in SUBSET Docs
  BY VersionTypes DEF NewSince, Went
<1>2. /\ g \in Seq(Sent) /\ Tells(g, Len(g), {}, Went(u, v))
      /\ \A k \in 1..Len(g) : g[k].kind \in DocKinds
  BY <1>1, TellsMessages DEF DocKinds
<1>3. /\ f \in Seq(Sent) /\ Tells(f, Len(f), NewSince(u, v), NewSince(u, v))
      /\ \A k \in 1..Len(f) : f[k].kind \in DocKinds
  BY <1>1, TellsMessages DEF DocKinds
<1>4. Exact(u, v) = g \o f
  BY DEF Exact, Went
<1> HIDE DEF g, f
<1>5. Len(f) \in 0..Len(f) /\ Len(f) \in Nat /\ Len(g) \in Nat
  BY <1>2, <1>3, LenProperties
<1>6. /\ Tells(g \o f, Len(g) + Len(f), NewSince(u, v) \cup ({} \ NewSince(u, v)),
               Went(u, v) \cup NewSince(u, v))
      /\ g \o f \in Seq(Sent) /\ Len(g \o f) = Len(g) + Len(f)
  BY <1>2, <1>3, <1>5, TellsConcat
<1>7. NewSince(u, v) \cup ({} \ NewSince(u, v)) = NewSince(u, v)
  OBVIOUS
<1>8. \A k \in 1..Len(g \o f) : (g \o f)[k].kind \in DocKinds
  <2> SUFFICES ASSUME NEW k \in 1..Len(g) + Len(f) PROVE (g \o f)[k].kind \in DocKinds
    BY <1>6
  <2>1. (g \o f)[k] = IF k <= Len(g) THEN g[k] ELSE f[k - Len(g)]
    BY <1>2, <1>3, ConcatProperties
  <2>2. k <= Len(g) => k \in 1..Len(g)
    BY <1>5
  <2>3. ~(k <= Len(g)) => k - Len(g) \in 1..Len(f)
    BY <1>5
  <2> QED
    BY <1>2, <1>3, <2>1, <2>2, <2>3
<1> QED
  BY <1>4, <1>6, <1>7, <1>8

NoFilter(m) == \A k \in 1..Len(m) : m[k].kind # "filter"

LEMMA NoFilterBrings ==
  ASSUME TypeOK, NEW v \in Versions, NEW c \in Seq(Sent), Sends(v, c),
         \A k \in 1..Len(c) : c[k].kind \notin {"snapshot", "filter"},
         NEW F, NEW G, Tells(c, Len(c), F, G)
  PROVE  \E m \in Seq(Sent) : Brings(m, v) /\ NoFilter(m) /\ Tells(m, Len(m), F, G)
<1>1. PICK m \in Seq(Sent) :
        /\ Brings(m, v) /\ Tells(m, Len(m), F, G)
        /\ Len(m) = Len(c) + 1 /\ Len(c) \in Nat
        /\ \A k \in 1..Len(c) : m[k] = c[k]
        /\ \A j \in Nat : j = Len(c) + 1 => m[j] = Token("snapshot", v)
  BY SendsBring
<1>2. NoFilter(m)
  <2> SUFFICES ASSUME NEW k \in 1..Len(m) PROVE m[k].kind # "filter"
    BY DEF NoFilter
  <2>1. k \in 1..Len(c) \/ (k = Len(c) + 1 /\ k \in Nat)
    BY <1>1
  <2>2. Token("snapshot", v).kind # "filter"
    BY DEF Token
  <2> QED
    BY <1>1, <2>1, <2>2
<1> QED
  BY <1>1, <1>2

LEMMA UpdatesBring ==
  ASSUME TypeOK, NEW v \in Versions, ServerUpdates(v)
  PROVE  \E m \in Seq(Sent) :
           /\ Brings(m, v) /\ NoFilter(m)
           /\ Tells(m, Len(m), NewSince(server.at, v),
                    Went(server.at, v) \cup NewSince(server.at, v))
<1> DEFINE c == Exact(server.at, v)
<1>1. v \in Marks /\ server.at \in Marks
  BY VersionTypes DEF TypeOK
<1>2. /\ c \in Seq(Sent) /\ Sends(v, c)
      /\ \A k \in 1..Len(c) : c[k].kind \in DocKinds
      /\ Tells(c, Len(c), NewSince(server.at, v), Went(server.at, v) \cup NewSince(server.at, v))
  BY <1>1, ExactTells DEF ServerUpdates
<1>3. \A k \in 1..Len(c) : c[k].kind \notin {"snapshot", "filter"}
  BY <1>2 DEF DocKinds
<1> HIDE DEF c
<1> QED
  BY <1>2, <1>3, NoFilterBrings

\* The messages hold one count, after the new documents and right before the
\* snapshot or "current" and the snapshot.
Counts(m, f, v, new) ==
  /\ f \in 1..Len(m) /\ m[f].kind = "filter" /\ m[f].count = Cardinality(ContentAt(v))
  /\ \A k \in 1..Len(m) : m[k].kind = "filter" => k = f
  /\ \A k \in 1..f - 1 : m[k].kind \in {"found", "current"}
  /\ Tells(m, f, new, new) /\ SnapshotNext(m, f + 1, v)

LEMMA CountBrings ==
  ASSUME TypeOK, NEW v \in Versions, NEW new \in SUBSET Docs, NEW x \in Sent, NEW y \in Sent,
         Sends(v, Messages("found", new) \o <<x, y>>),
         NEW f \in 1..2, <<x, y>>[f].kind = "filter",
         <<x, y>>[f].count = Cardinality(ContentAt(v)), <<x, y>>[3 - f] = Token("current", v)
  PROVE  \E m \in Seq(Sent) :
           /\ Brings(m, v) /\ Tells(m, Len(m), new, new)
           /\ \E g \in 1..Len(m) : Counts(m, g, v, new)
<1> DEFINE a == Messages("found", new)
           t == <<x, y>>
           c == a \o t
<1>1. /\ a \in Seq(Sent) /\ Tells(a, Len(a), new, new)
      /\ \A k \in 1..Len(a) : a[k].kind = "found"
  BY TellsMessages DEF DocKinds
<1>2. t \in Seq(Sent) /\ Len(t) = 2 /\ t[1] = x /\ t[2] = y
  OBVIOUS
<1>3. t[3 - f].kind = "current" /\ t[f].kind = "filter"
  BY DEF Token
<1>4. Sends(v, c) /\ t[3 - f] = Token("current", v) /\ t[f].count = Cardinality(ContentAt(v))
  OBVIOUS
<1> HIDE DEF a, t
<1>5. \A k \in 1..Len(t) : t[k].kind \in {"filter", "current"}
  BY <1>2, <1>3
<1>a. /\ c \in Seq(Sent) /\ Len(c) = Len(a) + Len(t) /\ Len(a) \in Nat
      /\ \A k \in 1..Len(a) : c[k] = a[k]
      /\ \A k \in 1..Len(t), j \in Nat : j = Len(a) + k => c[j] = t[k]
      /\ \A l \in 0..Len(t), j \in Nat : j = Len(a) + l => Tells(c, j, new, new)
  <2>1. \A k \in 1..Len(t) : t[k].kind \notin {"found", "gone", "reset"}
    BY <1>5
  <2> QED
    BY <1>1, <1>2, <2>1, TellsQuiet
<1>6. /\ c \in Seq(Sent) /\ Len(c) = Len(a) + 2 /\ Len(a) \in Nat
      /\ \A k \in 1..Len(a) : c[k] = a[k]
      /\ \A k \in 1..2, j \in Nat : j = Len(a) + k => c[j] = t[k]
      /\ \A l \in 0..2, j \in Nat : j = Len(a) + l => Tells(c, j, new, new)
  BY <1>2, <1>a
<1> HIDE DEF c
<1>7. \A k \in 1..Len(c) :
        k \notin 1..Len(a) => k \in Nat /\ k - Len(a) \in 1..2 /\ k = Len(a) + (k - Len(a))
  BY <1>6
<1>8. \A k \in 1..Len(c) : c[k].kind # "snapshot"
  BY <1>1, <1>2, <1>5, <1>6, <1>7
<1>9. Tells(c, Len(c), new, new)
  BY <1>6
<1>10. PICK m \in Seq(Sent) :
         /\ Brings(m, v) /\ Tells(m, Len(m), new, new)
         /\ Len(m) = Len(c) + 1 /\ Len(c) \in Nat
         /\ \A k \in 1..Len(c) : m[k] = c[k]
         /\ \A j \in Nat : j = Len(c) + 1 => m[j] = Token("snapshot", v)
         /\ \A l \in 0..Len(c) : Tells(c, l, new, new) => Tells(m, l, new, new)
  BY <1>4, <1>6, <1>8, <1>9, SendsBring
<1> DEFINE g == Len(a) + f
<1>11. g \in 1..Len(c) /\ g \in Nat /\ g \in 0..Len(c) /\ g \in 1..Len(m)
  BY <1>6, <1>10
<1>12. m[g] = t[f] /\ Tells(m, g, new, new)
  BY <1>6, <1>10, <1>11
<1>13. \A k \in 1..Len(m) : m[k].kind = "filter" => k = g
  <2> SUFFICES ASSUME NEW k \in 1..Len(m), m[k].kind = "filter" PROVE k = g
    OBVIOUS
  <2>1. k \in 1..Len(c)
    <3>1. k \in 1..Len(c) \/ (k = Len(c) + 1 /\ k \in Nat)
      BY <1>10
    <3>2. Token("snapshot", v).kind # "filter"
      BY DEF Token
    <3> QED
      BY <1>10, <3>1, <3>2
  <2>2. k \notin 1..Len(a)
    BY <1>1, <1>6, <1>10, <2>1
  <2>3. k \in Nat /\ k - Len(a) \in 1..2 /\ k = Len(a) + (k - Len(a))
    BY <1>7, <2>1, <2>2
  <2>4. m[k] = t[k - Len(a)]
    BY <1>6, <1>10, <2>1, <2>3
  <2>5. k - Len(a) # 3 - f
    BY <1>3, <2>4
  <2>6. k - Len(a) = f
    BY <2>3, <2>5
  <2> QED
    BY <2>3, <2>6
<1>14. \A k \in 1..g - 1 : m[k].kind \in {"found", "current"}
  <2> SUFFICES ASSUME NEW k \in 1..g - 1 PROVE m[k].kind \in {"found", "current"}
    OBVIOUS
  <2>1. k \in 1..Len(c) /\ k # g
    BY <1>11
  <2>2. CASE k \in 1..Len(a)
    BY <1>1, <1>6, <1>10, <2>1, <2>2
  <2>3. CASE k \notin 1..Len(a)
    <3>1. k \in Nat /\ k - Len(a) \in 1..2 /\ k = Len(a) + (k - Len(a))
      BY <1>7, <2>1, <2>3
    <3>2. m[k] = t[k - Len(a)] /\ k - Len(a) = 3 - f
      BY <1>6, <1>10, <2>1, <3>1
    <3> QED
      BY <1>3, <3>2
  <2> QED
    BY <2>2, <2>3
<1>15. SnapshotNext(m, g + 1, v)
  <2>1. CASE f = 2
    <3>1. g + 1 = Len(c) + 1 /\ g + 1 \in Nat /\ g + 1 <= Len(m)
      BY <1>6, <1>10, <2>1
    <3> QED
      BY <1>10, <3>1 DEF SnapshotNext
  <2>2. CASE f = 1
    <3>1. g + 1 = Len(a) + 2 /\ g + 1 \in Nat /\ g + 1 \in 1..Len(c) /\ (g + 1) + 1 <= Len(m)
          /\ (g + 1) + 1 = Len(c) + 1 /\ (g + 1) + 1 \in Nat
      BY <1>6, <1>10, <2>2
    <3>2. m[g + 1] = t[2] /\ t[2] = Token("current", v)
      BY <1>4, <1>6, <1>10, <2>2, <3>1
    <3>3. m[(g + 1) + 1] = Token("snapshot", v)
      BY <1>10, <3>1
    <3> QED
      BY <3>1, <3>2, <3>3 DEF SnapshotNext
  <2> QED
    BY <2>1, <2>2
<1> HIDE DEF g
<1>16. Counts(m, g, v, new)
  BY <1>3, <1>4, <1>11, <1>12, <1>13, <1>14, <1>15 DEF Counts
<1> QED
  BY <1>10, <1>11, <1>16

LEMMA StartsBring ==
  ASSUME TypeOK, NEW v \in Versions, ServerStarts(v)
  PROVE  LET new == NewSince(server.at, v) IN
         /\ server.state = "fresh" /\ server.at <= v
         /\ \E m \in Seq(Sent) :
              /\ Brings(m, v)
              /\ \/ NoFilter(m) /\ Tells(m, Len(m), new, Went(server.at, v) \cup new)
                 \/ NoFilter(m) /\ Tells(m, Len(m), ContentAt(v), Docs)
                 \/ /\ server.at # 0 /\ Tells(m, Len(m), new, new)
                    /\ \E f \in 1..Len(m) : Counts(m, f, v, new)
<1> DEFINE u == server.at
           new == NewSince(u, v)
           filter == [kind |-> "filter", token |-> 0, count |-> Cardinality(ContentAt(v))]
           current == Token("current", v)
           Goal == \E m \in Seq(Sent) :
                     /\ Brings(m, v)
                     /\ \/ NoFilter(m) /\ Tells(m, Len(m), new, Went(u, v) \cup new)
                        \/ NoFilter(m) /\ Tells(m, Len(m), ContentAt(v), Docs)
                        \/ /\ u # 0 /\ Tells(m, Len(m), new, new)
                           /\ \E f \in 1..Len(m) : Counts(m, f, v, new)
<1>1. v \in Marks /\ u \in Marks
  BY VersionTypes DEF TypeOK
<1>2. new \in SUBSET Docs /\ ContentAt(v) \in SUBSET Docs
  BY <1>1, SentTypes
<1>3. current \in Sent /\ filter \in Sent /\ Token("reset", 0) \in Sent
  BY <1>1, SentTypes, TokenTypes DEF Sent, Filter
<1>4. server.state = "fresh" /\ u <= v
  BY <1>1, ZeroMark DEF ServerStarts
<1>5. \/ Sends(v, Append(Exact(u, v), current))
      \/ u # 0 /\ Sends(v, Messages("found", new) \o <<filter, current>>)
      \/ u # 0 /\ Sends(v, Messages("found", new) \o <<current, filter>>)
      \/ Sends(v, <<Token("reset", 0)>> \o Append(Messages("found", ContentAt(v)), current))
  BY DEF ServerStarts
<1>6. /\ filter.kind = "filter" /\ filter.count = Cardinality(ContentAt(v))
      /\ current.kind = "current" /\ current = Token("current", v)
      /\ <<current>> \in Seq(Sent) /\ Len(<<current>>) = 1 /\ <<current>>[1] = current
  BY <1>3 DEF Token
<1> HIDE DEF u, filter, current, new, Goal
<1>7. ASSUME Sends(v, Append(Exact(u, v), current)) PROVE Goal
  <2> DEFINE c == Exact(u, v)
             e == <<current>>
             a == c \o e
  <2>1. /\ c \in Seq(Sent) /\ Tells(c, Len(c), new, Went(u, v) \cup new)
        /\ \A k \in 1..Len(c) : c[k].kind \in DocKinds
    BY <1>1, ExactTells DEF new
  <2>2. Append(c, current) = a
    BY <1>3, <2>1, AppendIsConcat
  <2>3. e \in Seq(Sent) /\ Len(e) = 1 /\ e[1].kind = "current"
    BY <1>6
  <2> HIDE DEF c, e
  <2>4. \A k \in 1..Len(e) : e[k].kind \notin {"found", "gone", "reset"}
    BY <2>3
  <2>5. /\ a \in Seq(Sent) /\ Len(a) = Len(c) + Len(e) /\ Len(c) \in Nat
        /\ \A k \in 1..Len(c) : a[k] = c[k]
        /\ \A k \in 1..Len(e), j \in Nat : j = Len(c) + k => a[j] = e[k]
        /\ \A l \in 0..Len(e), j \in Nat :
             j = Len(c) + l => Tells(a, j, new, Went(u, v) \cup new)
    BY <2>1, <2>3, <2>4, TellsQuiet
  <2> HIDE DEF a
  <2>6. Tells(a, Len(a), new, Went(u, v) \cup new)
    <3>1. 1 \in 0..Len(e) /\ Len(a) \in Nat /\ Len(a) = Len(c) + 1
      BY <2>3, <2>5
    <3> QED
      BY <2>5, <3>1
  <2>7. \A k \in 1..Len(a) : a[k].kind \notin {"snapshot", "filter"}
    <3> SUFFICES ASSUME NEW k \in 1..Len(a) PROVE a[k].kind \notin {"snapshot", "filter"}
      OBVIOUS
    <3>1. k \in 1..Len(c) \/ (k \in Nat /\ k = Len(c) + 1)
      BY <2>3, <2>5
    <3> QED
      BY <2>1, <2>3, <2>5, <3>1 DEF DocKinds
  <2>8. Sends(v, a)
    BY <1>7, <2>2 DEF c
  <2>9. \E m \in Seq(Sent) : /\ Brings(m, v) /\ NoFilter(m)
                             /\ Tells(m, Len(m), new, Went(u, v) \cup new)
    BY <2>5, <2>6, <2>7, <2>8, NoFilterBrings
  <2> QED
    BY <2>9 DEF Goal
<1>8. ASSUME u # 0, NEW x \in Sent, NEW y \in Sent, NEW f \in 1..2,
             Sends(v, Messages("found", new) \o <<x, y>>), <<x, y>>[f].kind = "filter",
             <<x, y>>[f].count = Cardinality(ContentAt(v)), <<x, y>>[3 - f] = Token("current", v)
      PROVE  Goal
  <2>1. \E m \in Seq(Sent) : /\ Brings(m, v) /\ Tells(m, Len(m), new, new)
                             /\ \E g \in 1..Len(m) : Counts(m, g, v, new)
    BY <1>2, <1>8, CountBrings
  <2> QED
    BY <1>8, <2>1 DEF Goal
<1>9. ASSUME Sends(v, <<Token("reset", 0)>> \o Append(Messages("found", ContentAt(v)), current))
      PROVE  Goal
  <2> DEFINE r == <<Token("reset", 0)>>
             c == Messages("found", ContentAt(v))
             e == <<current>>
             a == r \o c
             b == a \o e
  <2>1. /\ c \in Seq(Sent) /\ Tells(c, Len(c), ContentAt(v), ContentAt(v))
        /\ \A k \in 1..Len(c) : c[k].kind = "found"
    BY <1>2, TellsMessages DEF DocKinds
  <2>2. /\ r \in Seq(Sent) /\ Len(r) = 1 /\ Tells(r, Len(r), {}, Docs) /\ r[1].kind = "reset"
    <3>1. Token("reset", 0).kind = "reset"
      BY DEF Token
    <3> QED
      BY <1>3, <3>1, TellsReset
  <2>3. e \in Seq(Sent) /\ Len(e) = 1 /\ e[1].kind = "current"
    BY <1>6
  <2> HIDE DEF c, e, r
  <2>4. r \o Append(c, current) = b
    <3>1. Append(c, current) = c \o e
      BY <1>3, <2>1, AppendIsConcat DEF e
    <3> QED
      BY <2>1, <2>2, <2>3, <3>1, ConcatAssociative
  <2>5. /\ a \in Seq(Sent) /\ Len(a) = Len(r) + Len(c) /\ Len(c) \in Nat
        /\ Tells(a, Len(a), ContentAt(v), Docs)
    <3>1. Len(c) \in 0..Len(c) /\ Len(c) \in Nat
      BY <2>1, LenProperties
    <3>2. /\ Tells(a, Len(r) + Len(c), ContentAt(v) \cup ({} \ ContentAt(v)),
                   Docs \cup ContentAt(v))
          /\ a \in Seq(Sent) /\ Len(a) = Len(r) + Len(c)
      BY <2>1, <2>2, <3>1, TellsConcat
    <3>3. ContentAt(v) \cup ({} \ ContentAt(v)) = ContentAt(v)
          /\ Docs \cup ContentAt(v) = Docs
      BY <1>2
    <3> QED
      BY <3>1, <3>2, <3>3
  <2>6. \A k \in 1..Len(a) : a[k].kind \in {"reset", "found"}
    <3> SUFFICES ASSUME NEW k \in 1..Len(a) PROVE a[k].kind \in {"reset", "found"}
      OBVIOUS
    <3>1. a[k] = IF k <= Len(r) THEN r[k] ELSE c[k - Len(r)]
      BY <2>1, <2>2, <2>5, ConcatProperties
    <3>2. k = 1 \/ (~(k <= Len(r)) /\ k - Len(r) \in 1..Len(c))
      BY <2>2, <2>5
    <3> QED
      BY <2>1, <2>2, <3>1, <3>2
  <2> HIDE DEF a
  <2>7. \A k \in 1..Len(e) : e[k].kind \notin {"found", "gone", "reset"}
    BY <2>3
  <2>8. /\ b \in Seq(Sent) /\ Len(b) = Len(a) + Len(e) /\ Len(a) \in Nat
        /\ \A k \in 1..Len(a) : b[k] = a[k]
        /\ \A k \in 1..Len(e), j \in Nat : j = Len(a) + k => b[j] = e[k]
        /\ \A l \in 0..Len(e), j \in Nat :
             j = Len(a) + l => Tells(b, j, ContentAt(v), Docs)
    BY <2>3, <2>5, <2>7, TellsQuiet
  <2> HIDE DEF b
  <2>9. Tells(b, Len(b), ContentAt(v), Docs)
    BY <2>3, <2>8
  <2>10. \A k \in 1..Len(b) : b[k].kind \notin {"snapshot", "filter"}
    <3> SUFFICES ASSUME NEW k \in 1..Len(b) PROVE b[k].kind \notin {"snapshot", "filter"}
      OBVIOUS
    <3>1. k \in 1..Len(a) \/ (k \in Nat /\ k = Len(a) + 1)
      BY <2>3, <2>8
    <3> QED
      BY <2>3, <2>6, <2>8, <3>1
  <2>11. Sends(v, b)
    BY <1>9, <2>4 DEF c, r
  <2>12. \E m \in Seq(Sent) : /\ Brings(m, v) /\ NoFilter(m)
                              /\ Tells(m, Len(m), ContentAt(v), Docs)
    BY <2>8, <2>9, <2>10, <2>11, NoFilterBrings
  <2> QED
    BY <2>12 DEF Goal
<1>10. ASSUME u # 0, Sends(v, Messages("found", new) \o <<filter, current>>) PROVE Goal
  <2>1. <<filter, current>>[1] = filter /\ <<filter, current>>[3 - 1] = current
    OBVIOUS
  <2> QED
    BY <1>3, <1>6, <1>8, <1>10, <2>1
<1>11. ASSUME u # 0, Sends(v, Messages("found", new) \o <<current, filter>>) PROVE Goal
  <2>1. <<current, filter>>[2] = filter /\ <<current, filter>>[3 - 2] = current
    OBVIOUS
  <2> QED
    BY <1>3, <1>6, <1>8, <1>11, <2>1
<1>12. Goal
  BY <1>5, <1>7, <1>9, <1>10, <1>11
<1> QED
  BY <1>4, <1>12 DEF u, new, Goal

LEMMA NewSinceIs ==
  ASSUME NEW u \in Marks, NEW v \in Marks, u <= v
  PROVE  /\ NewSince(u, v) \subseteq ContentAt(v)
         /\ \A d \in ContentAt(v) : d \notin ContentAt(u) => d \in NewSince(u, v)
         /\ \A d \in ContentAt(u) :
              d \notin Went(u, v) \cup NewSince(u, v) => \A w \in u..v : d \in ContentAt(w)
BY DEF NewSince, Went, Marks

\* What the new messages do to the rest of the state that a listener follows.
LEMMA SentKeeps ==
  ASSUME TypeOK, AcksOK, errors = 0, NEW v, NEW m \in Seq(Sent), Brings(m, v),
         server.state # "no", Store, Following, Waiting, Collected
  PROVE  Store' /\ Following' /\ Waiting' /\ Collected'
<1>1. /\ responses \in Seq(Responses) /\ Len(responses) \in Nat /\ Len(m) \in Nat
      /\ Len(responses') = Len(responses) + Len(m)
      /\ \A k \in 1..Len(responses) :
           responses'[k] = responses[k] /\ (Live(responses', k) <=> Live(responses, k))
      /\ \A l \in 1..Len(m), k \in Nat : k = Len(responses) + l => responses'[k] = m[l]
      /\ \A i, w : SnapshotNext(responses, i, w) /\ i \in 1..Len(responses)
                     => SnapshotNext(responses', i, w)
  BY Appended DEF Brings
<1>2. UNCHANGED <<client, requests, stops, errors>>
  BY DEF Brings
<1>3. Store' /\ Following'
  BY <1>2 DEF Store, Following, client
<1>4. Collected'
  <2>1. ASSUME NEW w, SnapshotNext(responses, 1, w) PROVE SnapshotNext(responses', 1, w)
    <3>1. 1 \in 1..Len(responses)
      BY <1>1, <2>1 DEF SnapshotNext
    <3> QED
      BY <1>1, <2>1, <3>1
  <2> QED
    BY <1>2, <2>1 DEF Collected, Expected, Changed, client
<1>5. ASSUME state.acks # 0, responses' # <<>>, ~IsAnswer(Head(responses')) PROVE data = 0
  <2>1. CASE responses # <<>>
    <3>1. Head(responses') = Head(responses)
      <4>1. 1 \in 1..Len(responses) /\ Head(responses) = responses[1]
        BY <2>1, TailIs DEF TypeOK
      <4>2. responses' \in Seq(Responses) /\ Head(responses') = responses'[1]
        BY <1>5, AppendLive, TailIs DEF TypeOK, Brings
      <4> QED
        BY <1>1, <4>1, <4>2
    <3> QED
      BY <1>5, <2>1, <3>1 DEF Waiting
  <2>2. CASE responses = <<>>
    <3>1. Live(responses, 1)
      BY <2>2 DEF Live
    <3>2. requests # <<>>
      BY <1>5, <3>1, ActiveWhen
    <3> QED
      BY <3>2 DEF Waiting
  <2> QED
    BY <2>1, <2>2
<1>6. ASSUME requests = <<>>, NEW k \in 1..Len(responses'), IsAnswer(responses'[k]),
             Live(responses', k + 1)
      PROVE  responses'[k].kind = "added"
  <2>1. k \in 1..Len(responses)
    <3>1. CASE k \notin 1..Len(responses)
      <4>1. k - Len(responses) \in 1..Len(m) /\ k = Len(responses) + (k - Len(responses))
            /\ k \in Nat
        BY <1>1, <3>1
      <4> QED
        BY <1>1, <1>6, <4>1, SentLive DEF IsAnswer
    <3> QED
      BY <3>1
  <2>2. Live(responses, k + 1)
    <3>1. CASE k = Len(responses)
      BY <1>1, <3>1 DEF Live
    <3>2. CASE k # Len(responses)
      <4>1. k + 1 \in 1..Len(responses)
        BY <1>1, <2>1, <3>2
      <4> QED
        BY <1>1, <1>6, <4>1
    <3> QED
      BY <3>1, <3>2
  <2> QED
    BY <1>1, <1>6, <2>1, <2>2 DEF Waiting
<1>7. Waiting'
  BY <1>2, <1>5, <1>6 DEF Waiting, client
<1> QED
  BY <1>3, <1>4, <1>7

LEMMA SentCall ==
  ASSUME TypeOK, NEW v \in Versions, NEW m \in Seq(Sent), Brings(m, v), Call,
         NEW n, n = Len(responses) + Len(m),
         \A l \in 1..Len(m), k \in Nat : k = Len(responses) + l /\ m[l].kind = "filter" =>
           \E w \in Versions : FilterOK(k, w)',
         Good' /\ Good => SnapshotOK(n, v)',
         \A i \in 1..Len(responses), u \in Versions :
           Live(responses, i) /\ responses[i] = Token("snapshot", u) => PairOK(i, u, n, v)'
  PROVE  Call'
<1>1. /\ responses' = responses \o m /\ Ends(m, v)
      /\ server' = [state |-> "current", at |-> v]
      /\ UNCHANGED <<data, mismatch, updates, state, cache>>
  BY DEF Brings, client
<1>2. Fresh'
  BY <1>1 DEF Fresh
<1>3. Filters' /\ (Good' => Good)
  BY <1>1, FilterSent DEF Call
<1>4. Snapshots'
  BY <1>1, <1>3, SnapshotSent DEF Call
<1>5. Pairs'
  BY <1>1, PairSent DEF Call
<1> QED
  BY <1>2, <1>3, <1>4, <1>5 DEF Call

\* What the target will have after m.
LEMMA SentHas ==
  ASSUME TypeOK, NEW v, NEW m \in Seq(Sent), Brings(m, v), NEW l \in 0..Len(m),
         NEW n, n = Len(responses) + l, NEW N, NEW G, Tells(m, l, N, G), NEW d \in Docs
  PROVE  /\ Has(responses', Expected', d, n) <=>
              d \in N \/ (d \notin G /\ Has(responses, Expected, d, Len(responses)))
         /\ \A i \in 0..Len(responses) :
              Silent(responses', d, i, n) <=>
                Silent(responses, d, i, Len(responses)) /\ d \notin G
<1>1. responses \in Seq(Responses) /\ responses' = responses \o m
  BY DEF TypeOK, Brings
<1>2. Expected' = Expected
  BY DEF Brings, client, Expected, Changed
<1>3. /\ Has(responses \o m, Expected, d, Len(responses) + l) <=>
           Found(m, d, l) \/ (Silent(m, d, 0, l) /\ Has(responses, Expected, d, Len(responses)))
      /\ \A i \in 0..Len(responses) : Silent(responses \o m, d, i, Len(responses) + l) <=>
                                        Silent(responses, d, i, Len(responses)) /\ Silent(m, d, 0, l)
  BY <1>1, AppendHas
<1> QED
  BY <1>1, <1>2, <1>3 DEF Tells

LEMMA UpdatesCall ==
  ASSUME TypeOK, NEW v \in Versions, ServerUpdates(v), Call
  PROVE  Call'
<1> DEFINE u == server.at
           L == Len(responses)
<1>1. PICK m \in Seq(Sent) :
        /\ Brings(m, v) /\ NoFilter(m)
        /\ Tells(m, Len(m), NewSince(u, v), Went(u, v) \cup NewSince(u, v))
  BY UpdatesBring
<1>2. v \in Marks /\ u \in Marks /\ u <= v
  BY VersionTypes DEF TypeOK, ServerUpdates, Marks
<1>3. L \in Nat /\ L \in 0..L /\ 0 \in 0..L /\ Len(m) \in Nat /\ Len(m) \in 0..Len(m)
  BY Appended DEF Brings
<1>4. Marked(L, u)
  BY DEF Marked, ServerUpdates, TypeOK
<1>n. PICK n : n = L + Len(m)
  OBVIOUS
<1>5. UNCHANGED <<data, state, cache>>
  BY <1>1 DEF Brings, client
<1>6. \A d \in Docs :
        /\ Has(responses', Expected', d, n) <=>
             \/ d \in NewSince(u, v)
             \/ d \notin Went(u, v) \cup NewSince(u, v) /\ Has(responses, Expected, d, L)
        /\ \A i \in 0..L : Silent(responses', d, i, n) <=>
                             Silent(responses, d, i, L) /\ d \notin Went(u, v) \cup NewSince(u, v)
  BY <1>1, <1>3, <1>n, SentHas
<1> HIDE DEF u, L
<1>7. ASSUME Good', Good PROVE SnapshotOK(n, v)'
  <2>1. SnapshotOK(L, u)
    BY <1>2, <1>3, <1>4, <1>7 DEF Call, Snapshots, L
  <2>2. ASSUME NEW d \in Docs PROVE Has(responses', Expected', d, n) <=> d \in ContentAt(v)
    BY <1>2, <1>6, <2>1, NewSinceIs DEF SnapshotOK, Went
  <2>3. ASSUME NEW d \in cache.keys \ DOMAIN state.docs, Silent(responses', d, 0, n),
               NEW w \in data..v
        PROVE  d \in ContentAt(w)
    <3>1. d \in Docs /\ d \in Expected
      BY DEF TypeOK, Caches, Expected, Changed
    <3>2. Silent(responses, d, 0, L) /\ d \notin Went(u, v) \cup NewSince(u, v)
      BY <1>3, <1>6, <2>3, <3>1
    <3>3. d \in ContentAt(u)
      BY <2>1, <3>1, <3>2 DEF SnapshotOK, Has
    <3>4. w \in data..u \/ w \in u..v
      BY <1>2 DEF Marks
    <3> QED
      BY <1>2, <2>1, <3>2, <3>3, <3>4, NewSinceIs DEF SnapshotOK
  <2> QED
    BY <1>5, <2>2, <2>3 DEF SnapshotOK
<1>8. ASSUME NEW i \in 1..L, NEW t \in Versions, Live(responses, i),
             responses[i] = Token("snapshot", t)
      PROVE  PairOK(i, t, n, v)'
  <2>1. PairOK(i, t, L, u)
    BY <1>2, <1>3, <1>4, <1>8 DEF Call, Pairs, L
  <2>2. i \in 0..L
    BY <1>3
  <2>3. ASSUME NEW d \in ContentAt(t), Silent(responses', d, i, n), NEW w \in t..v
        PROVE  d \in ContentAt(w)
    <3>1. d \in Docs /\ t \in Marks
      BY VersionTypes
    <3>2. Silent(responses, d, i, L) /\ d \notin Went(u, v) \cup NewSince(u, v)
      BY <1>6, <2>2, <2>3, <3>1
    <3>3. t <= u /\ \A x \in t..u : d \in ContentAt(x)
      BY <2>1, <3>2 DEF PairOK
    <3>4. u \in t..u /\ (w \in t..u \/ w \in u..v)
      BY <1>2, <3>1, <3>3 DEF Marks
    <3>5. d \in ContentAt(u)
      BY <3>3, <3>4
    <3> QED
      BY <1>2, <3>2, <3>3, <3>4, <3>5, NewSinceIs
  <2>4. t <= v
    BY <1>2, <2>1, VersionTypes DEF PairOK, Marks
  <2> QED
    BY <2>3, <2>4 DEF PairOK
<1> QED
  BY <1>1, <1>n, <1>7, <1>8, SentCall DEF NoFilter, L

\* A count comes to a target that has what the server took it to have, and
\* what is new.
LEMMA CountSent ==
  ASSUME TypeOK, NEW v \in Versions, NEW m \in Seq(Sent), Brings(m, v),
         server.state = "fresh", Fresh, data # 0, data <= v,
         \A d \in Docs : Has(responses, Expected, d, Len(responses)) <=> d \in ContentAt(data),
         NEW f \in 1..Len(m), Counts(m, f, v, NewSince(data, v)),
         NEW k \in Nat, k = Len(responses) + f
  PROVE  /\ FilterOK(k, v)'
         /\ Good' => ContentAt(data) \subseteq ContentAt(v)
<1> DEFINE L == Len(responses)
           new == NewSince(data, v)
<1>1. /\ responses \in Seq(Responses) /\ L \in Nat /\ Len(m) \in Nat
      /\ Len(responses') = L + Len(m)
      /\ \A i \in 1..L :
           responses'[i] = responses[i] /\ (Live(responses', i) <=> Live(responses, i))
      /\ \A l \in 1..Len(m), i \in Nat : i = L + l =>
           /\ responses'[i] = m[l] /\ Live(responses', i)
           /\ LiveFilter(i)' <=> m[l].kind = "filter"
  BY Appended DEF Brings
<1>2. UNCHANGED <<data, mismatch, updates, state, cache>>
  BY DEF Brings, client
<1>3. data \in Marks /\ v \in Marks
  BY VersionTypes DEF TypeOK
<1>4. k \in 1..Len(responses') /\ k + 1 \in Nat /\ k + 1 = L + (f + 1)
      /\ (k + 1) + 1 \in Nat /\ (k + 1) + 1 = L + ((f + 1) + 1)
  BY <1>1
<1>5. responses'[k] = m[f] /\ LiveFilter(k)'
  BY <1>1 DEF Counts
<1>6. SnapshotNext(responses', k + 1, v) /\ responses'[k + 1].token = v
  <2>1. CASE f + 1 <= Len(m) /\ m[f + 1] = Token("snapshot", v)
    <3>1. responses'[k + 1] = m[f + 1] /\ k + 1 <= Len(responses')
      BY <1>1, <1>4, <2>1
    <3> QED
      BY <2>1, <3>1 DEF SnapshotNext, Token
  <2>2. CASE /\ (f + 1) + 1 <= Len(m)
             /\ m[f + 1] = Token("current", v) /\ m[(f + 1) + 1] = Token("snapshot", v)
    <3>1. responses'[k + 1] = m[f + 1] /\ responses'[(k + 1) + 1] = m[(f + 1) + 1]
          /\ (k + 1) + 1 <= Len(responses')
      <4>1. f + 1 \in 1..Len(m) /\ (f + 1) + 1 \in 1..Len(m)
        BY <1>1, <2>2
      <4> QED
        BY <1>1, <1>4, <4>1
    <3> QED
      BY <2>2, <3>1 DEF SnapshotNext, Token
  <2> QED
    BY <2>1, <2>2 DEF Counts, SnapshotNext
<1>7. ASSUME NEW d \in Docs
      PROVE  Has(responses', Expected', d, k) <=> d \in ContentAt(data) \cup ContentAt(v)
  <2>1. f \in 0..Len(m) /\ Tells(m, f, new, new)
    BY <1>1 DEF Counts
  <2>2. Has(responses', Expected', d, k) <=>
          d \in new \/ (d \notin new /\ Has(responses, Expected, d, L))
    BY <2>1, SentHas
  <2> QED
    BY <1>3, <2>2, NewSinceIs
<1>8. ASSUME NEW i \in 1..k - 1, Live(responses', i)
      PROVE  responses'[i].kind \in {"found", "current"}
  <2>1. i \notin 1..L
    BY <1>1, <1>8 DEF Fresh
  <2>2. i - L \in 1..f - 1 /\ i - L \in 1..Len(m) /\ i \in Nat /\ i = L + (i - L)
    BY <1>1, <2>1
  <2> QED
    BY <1>1, <2>2 DEF Counts
<1>9. responses'[k].count = Cardinality(ContentAt(v)) /\ mismatch = "no" /\ updates.gone = {}
  BY <1>5 DEF Counts, Fresh, NoUpdates
<1>10. FilterOK(k, v)'
  BY <1>2, <1>6, <1>7, <1>8, <1>9 DEF FilterOK
<1>11. ASSUME Good' PROVE ContentAt(data) \subseteq ContentAt(v)
  <2>1. ContentAt(data') \subseteq ContentAt(responses'[k + 1].token)
    BY <1>4, <1>5, <1>11 DEF Good
  <2> QED
    BY <1>2, <1>6, <2>1
<1> QED
  BY <1>10, <1>11

LEMMA StartsCall ==
  ASSUME TypeOK, NEW v \in Versions, ServerStarts(v), Call, cache.keys = ContentAt(data)
  PROVE  Call'
<1> DEFINE u == data
           L == Len(responses)
           new == NewSince(u, v)
<1>1. /\ server.state = "fresh" /\ server.at = u /\ u <= v /\ u \in Marks /\ v \in Marks
      /\ \A k \in 1..L : ~Live(responses, k)
      /\ state.docs = <<>> /\ updates = NoUpdates /\ mismatch = "no"
  BY StartsBring, VersionTypes DEF Call, Fresh, TypeOK
<1>2. PICK m \in Seq(Sent) :
        /\ Brings(m, v)
        /\ \/ NoFilter(m) /\ Tells(m, Len(m), new, Went(u, v) \cup new)
           \/ NoFilter(m) /\ Tells(m, Len(m), ContentAt(v), Docs)
           \/ /\ u # 0 /\ Tells(m, Len(m), new, new)
              /\ \E f \in 1..Len(m) : Counts(m, f, v, new)
  BY <1>1, StartsBring
<1>3. /\ L \in Nat /\ 0 \in 0..L /\ Len(m) \in Nat /\ Len(m) \in 0..Len(m)
      /\ UNCHANGED <<data, state, cache>>
  BY <1>2, Appended DEF Brings, client
<1>4. ASSUME NEW d \in Docs
      PROVE  /\ Silent(responses, d, 0, L) /\ ~Found(responses, d, L)
             /\ Has(responses, Expected, d, L) <=> d \in ContentAt(u)
  <2>1. Expected = ContentAt(u)
    BY <1>1, NoChange DEF Expected, Changed
  <2>2. Silent(responses, d, 0, L) /\ ~Found(responses, d, L)
    BY <1>1 DEF Silent, Found
  <2> QED
    BY <2>1, <2>2 DEF Has
<1>n. PICK n : n = L + Len(m)
  OBVIOUS
<1>5. ASSUME NEW N, NEW G, Tells(m, Len(m), N, G), NEW d \in Docs
      PROVE  /\ Has(responses', Expected', d, n) <=>
                  d \in N \/ (d \notin G /\ d \in ContentAt(u))
             /\ Silent(responses', d, 0, n) <=> d \notin G
  BY <1>2, <1>3, <1>4, <1>5, <1>n, SentHas
<1> HIDE DEF u, L, new
\* Every document of version v is there, and the others are not.
<1>6. ASSUME NEW N, NEW G, Tells(m, Len(m), N, G),
             \A d \in Docs : d \in ContentAt(v) <=> d \in N \/ (d \notin G /\ d \in ContentAt(u)),
             \A d \in Docs : d \in ContentAt(u) /\ d \notin G => \A w \in u..v : d \in ContentAt(w)
      PROVE  SnapshotOK(n, v)'
  <2>1. \A d \in Docs : Has(responses', Expected', d, n) <=> d \in ContentAt(v)
    BY <1>5, <1>6
  <2>2. ASSUME NEW d \in cache.keys \ DOMAIN state.docs, Silent(responses', d, 0, n)
        PROVE  \A w \in data..v : d \in ContentAt(w)
    <3>1. d \in Docs /\ d \in ContentAt(u)
      BY DEF TypeOK, Caches, u
    <3>2. d \notin G
      BY <1>5, <1>6, <2>2, <3>1
    <3> QED
      BY <1>6, <3>1, <3>2 DEF u
  <2> QED
    BY <1>3, <2>1, <2>2 DEF SnapshotOK
<1>7. ASSUME \/ NoFilter(m)
             \/ /\ u # 0 /\ \E f \in 1..Len(m) : Counts(m, f, v, new)
                /\ Good' => SnapshotOK(n, v)',
             NoFilter(m) => SnapshotOK(n, v)'
      PROVE  Call'
  <2>1. ASSUME NEW l \in 1..Len(m), NEW k \in Nat, k = L + l, m[l].kind = "filter"
        PROVE  FilterOK(k, v)'
    <3>1. PICK f \in 1..Len(m) : Counts(m, f, v, new)
      BY <1>7, <2>1 DEF NoFilter
    <3>2. l = f /\ u # 0
      BY <1>7, <2>1, <3>1 DEF Counts, NoFilter
    <3> QED
      BY <1>1, <1>2, <1>4, <2>1, <3>1, <3>2, CountSent DEF Call, u, L, new
  <2>2. Good' => SnapshotOK(n, v)'
    BY <1>7
  <2> QED
    BY <1>1, <1>2, <1>n, <2>1, <2>2, SentCall DEF L
<1>8. CASE NoFilter(m) /\ Tells(m, Len(m), new, Went(u, v) \cup new)
  <2>1. SnapshotOK(n, v)'
    <3>1. \A d \in Docs : d \in ContentAt(v) <=>
            d \in new \/ (d \notin Went(u, v) \cup new /\ d \in ContentAt(u))
      BY <1>1, NewSinceIs DEF new, u, Went
    <3>2. \A d \in Docs : d \in ContentAt(u) /\ d \notin Went(u, v) \cup new
                            => \A w \in u..v : d \in ContentAt(w)
      BY <1>1, NewSinceIs DEF new, u
    <3> QED
      BY <1>6, <1>8, <3>1, <3>2
  <2> QED
    BY <1>7, <1>8, <2>1
<1>9. CASE NoFilter(m) /\ Tells(m, Len(m), ContentAt(v), Docs)
  <2>1. SnapshotOK(n, v)'
    BY <1>6, <1>9
  <2> QED
    BY <1>7, <1>9, <2>1
<1>10. CASE /\ u # 0 /\ Tells(m, Len(m), new, new)
            /\ \E f \in 1..Len(m) : Counts(m, f, v, new)
  <2>1. PICK f \in 1..Len(m) : Counts(m, f, v, new)
    BY <1>10
  <2>2. ~NoFilter(m)
    BY <2>1 DEF Counts, NoFilter
  <2>3. ASSUME Good' PROVE SnapshotOK(n, v)'
    <3>1. L + f \in Nat
      BY <1>3
    <3>2. ContentAt(u) \subseteq ContentAt(v)
      BY <1>1, <1>2, <1>4, <1>10, <2>1, <2>3, <3>1, CountSent DEF Call, u, L, new
    <3>3. \A d \in Docs : d \in ContentAt(v) <=> d \in new \/ (d \notin new /\ d \in ContentAt(u))
      BY <1>1, <3>2, NewSinceIs DEF new, u
    <3>4. \A d \in Docs : d \in ContentAt(u) /\ d \notin new
                            => \A w \in u..v : d \in ContentAt(w)
      BY <1>1, <3>2, NewSinceIs DEF new, u, Went
    <3> QED
      BY <1>6, <1>10, <3>3, <3>4
  <2> QED
    BY <1>7, <1>10, <2>2, <2>3
<1> QED
  BY <1>2, <1>8, <1>9, <1>10

LEMMA NothingLive ==
  ASSUME \A k \in 1..Len(responses') : ~Live(responses', k), server'.state # "current"
  PROVE  Filters' /\ Snapshots' /\ Pairs'
<1>1. \A j, v : ~Marked(j, v)'
  <2> SUFFICES ASSUME NEW j, NEW v, Marked(j, v)' PROVE FALSE
    OBVIOUS
  <2>1. [state |-> "current", at |-> v].state = "current"
    OBVIOUS
  <2> QED
    BY <2>1 DEF Marked
<1> QED
  BY <1>1 DEF Filters, LiveFilter, Snapshots, Pairs

LEMMA ReadsLive ==
  ASSUME TypeOK, ConnectionOK, AcksOK, errors = 0, ServerReads,
         Store, Following, Waiting, Collected
  PROVE  Store' /\ Following' /\ Waiting' /\ Collected' /\ (requests' = <<>> => Call')
<1> DEFINE r == IF Head(requests).kind = "watch" THEN Token("added", 0) ELSE Token("removed", 0)
           L == Len(responses)
           Q == Len(requests)
<1>1. /\ requests # <<>> /\ requests \in Seq(Requests) /\ requests' = Tail(requests)
      /\ responses' = Append(responses, r) /\ UNCHANGED client
      /\ responses \in Seq(Responses)
  BY DEF ServerReads, ServerOnly, TypeOK
<1>2. r \in Responses /\ IsAnswer(r) /\ (Head(requests).kind = "watch" => r.kind = "added")
  BY TokenTypes DEF AnswerKinds, Token, IsAnswer
<1>3. /\ L \in Nat /\ Len(responses') = L + 1 /\ responses' \in Seq(Responses)
      /\ \A k \in 1..L : responses'[k] = responses[k]
      /\ \A k \in Nat : k = L + 1 => responses'[k] = r
  BY <1>1, <1>2, AppendProperties, LenProperties
<1>4. /\ Q \in Nat /\ Q >= 1 /\ Len(requests') = Q - 1
      /\ (\A k \in 1..Q - 1 : requests'[k] = requests[k + 1]) /\ Head(requests) = requests[1]
  BY <1>1, HeadTailProperties, EmptySeq
<1> HIDE DEF r, L, Q
<1>5. /\ state.acks \in Nat /\ state.acks >= Q /\ state.acks # 0
      /\ state.docs = <<>> /\ updates = NoUpdates /\ mismatch = "no"
  BY <1>4, ActiveWhen DEF Waiting, Q
<1>6. IsOpen(stream) /\ listening = "yes" /\ token = data
  BY <1>1 DEF ConnectionOK, Following, IsStarted
<1>7. Store' /\ Following'
  BY <1>1 DEF Store, Following, client
<1>8. Collected'
  BY <1>1, <1>5 DEF Collected, client, Expected, Changed
<1>9. \A k \in 1..Len(responses') : ~Live(responses', k)
  BY <1>2, <1>3 DEF Live, IsAnswer
<1>10. requests' = <<>> => Q = 1 /\ requests[1] = Watch(token)
  <2>1. requests' = <<>> => Q = 1
    BY <1>4
  <2> QED
    BY <1>1, <2>1 DEF Waiting, Q
<1>11. ASSUME responses' # <<>>, ~IsAnswer(Head(responses')) PROVE data = 0
  <2>1. Head(responses') = responses'[1]
    BY <1>11
  <2>2. responses # <<>> /\ Head(responses) = responses[1] /\ 1 \in 1..L
    <3>1. L # 0
      BY <1>2, <1>3, <1>11, <2>1
    <3> QED
      BY <1>1, <1>3, <3>1 DEF L
  <2> QED
    BY <1>3, <1>5, <1>11, <2>1, <2>2 DEF Waiting
<1>12. ASSUME requests' # <<>> PROVE data = 0 /\ requests'[Len(requests')] = Watch(token)
  <2>1. Q >= 2
    <3>1. requests' \in Seq(Requests)
      BY <1>1
    <3> QED
      BY <1>4, <1>12, <3>1, EmptySeq
  <2>2. data = 0
    BY <1>4, <1>5, <2>1 DEF Waiting
  <2>3. Q - 1 \in 1..Q - 1 /\ (Q - 1) + 1 = Q
    BY <1>4, <2>1
  <2> QED
    BY <1>1, <1>4, <2>2, <2>3 DEF Waiting, Q
<1>13. ASSUME requests' = <<>>, NEW k \in 1..Len(responses'), IsAnswer(responses'[k]),
              Live(responses', k + 1)
       PROVE  responses'[k].kind = "added"
  <2>1. k = L + 1
    <3>1. CASE k # L + 1
      <4>1. k + 1 \in 1..Len(responses')
        BY <1>3, <3>1
      <4> QED
        BY <1>9, <1>13, <4>1
    <3> QED
      BY <3>1
  <2>2. Watch(token).kind = "watch"
    BY DEF Watch
  <2> QED
    BY <1>2, <1>3, <1>4, <1>10, <1>13, <2>1, <2>2
<1>14. Waiting'
  BY <1>1, <1>5, <1>11, <1>12, <1>13 DEF Waiting, client
<1>15. ASSUME requests' = <<>> PROVE Call'
  <2>1. Head(requests) = Watch(token)
    BY <1>4, <1>10, <1>15
  <2>2. server' = [state |-> "fresh", at |-> data]
    BY <1>6, <2>1 DEF ServerReads, Watch
  <2>3. Fresh'
    BY <1>1, <1>5, <1>9, <2>2 DEF Fresh, client
  <2> QED
    BY <1>9, <2>2, <2>3, NothingLive DEF Call
<1> QED
  BY <1>7, <1>8, <1>14, <1>15

\* What neither the messages nor the target change.
LEMMA CallKept ==
  ASSUME UNCHANGED <<data, mismatch, updates, state, responses, server>>,
         cache'.keys = cache.keys
  PROVE  (Collected /\ cache'.last = cache.last => Collected') /\ (Call => Call')
<1>1. Expected' = Expected /\ Changed(state, "Added")' = Changed(state, "Added")
  BY DEF Expected, Changed
<1>2. Collected /\ cache'.last = cache.last => Collected'
  BY <1>1 DEF Collected
<1>3. Fresh => Fresh'
  BY DEF Fresh
<1>4. \A f : LiveFilter(f)' <=> LiveFilter(f)
  BY DEF LiveFilter
<1>5. Filters => Filters'
  BY <1>1, <1>4 DEF Filters, FilterOK
<1>6. Good' <=> Good
  BY <1>4 DEF Good
<1>7. \A j, v : Marked(j, v)' <=> Marked(j, v)
  BY DEF Marked
<1>8. \A j, v : SnapshotOK(j, v)' <=> SnapshotOK(j, v)
  BY <1>1 DEF SnapshotOK
<1>9. Snapshots => Snapshots'
  BY <1>6, <1>7, <1>8 DEF Snapshots
<1>10. Pairs => Pairs'
  BY <1>7 DEF Pairs, PairOK
<1> QED
  BY <1>2, <1>3, <1>5, <1>9, <1>10 DEF Call

LEMMA ServerLive ==
  ASSUME TypeOK, ConnectionOK, AcksOK, LiveOK, Server \/ QueryChanges
  PROVE  LiveOK'
<1>1. UNCHANGED <<stops, errors>>
  <2>1. ASSUME NEW v \in Versions, ServerUpdates(v) PROVE UNCHANGED <<stops, errors>>
    BY <2>1, UpdatesBring DEF Brings
  <2>2. ASSUME NEW v \in Versions, ServerStarts(v) PROVE UNCHANGED <<stops, errors>>
    BY <2>2, StartsBring DEF Brings
  <2> QED
    BY <2>1, <2>2 DEF Server, ServerReads, QueryChanges, ServerOnly
<1> SUFFICES ASSUME Steady
             PROVE  /\ Store' /\ Following' /\ Waiting' /\ Collected'
                    /\ requests' = <<>> => Call'
  BY <1>1 DEF LiveOK, Steady
<1>2. errors = 0 /\ Store /\ Following /\ Waiting /\ Collected /\ (requests = <<>> => Call)
  BY DEF Steady, LiveOK
<1>3. CASE QueryChanges
  <2>1. UNCHANGED <<client, requests, responses, server>>
    BY <1>3 DEF QueryChanges, ServerOnly
  <2>2. Store' /\ Following' /\ Waiting'
    BY <1>2, <2>1 DEF Store, Following, Waiting, client
  <2> QED
    BY <1>2, <2>1, <2>2, CallKept DEF client
<1>4. CASE ServerReads
  BY <1>2, <1>4, ReadsLive
<1>5. ASSUME NEW v \in Versions, ServerUpdates(v)
      PROVE  /\ Store' /\ Following' /\ Waiting' /\ Collected'
             /\ requests' = <<>> => Call'
  <2>1. PICK m \in Seq(Sent) : Brings(m, v)
    BY <1>5, UpdatesBring
  <2>2. server.state # "no" /\ requests' = requests
    BY <1>5, <2>1 DEF ServerUpdates, Brings
  <2> QED
    BY <1>2, <1>5, <2>1, <2>2, SentKeeps, UpdatesCall
<1>6. ASSUME NEW v \in Versions, ServerStarts(v)
      PROVE  /\ Store' /\ Following' /\ Waiting' /\ Collected'
             /\ requests' = <<>> => Call'
  <2>1. PICK m \in Seq(Sent) : Brings(m, v)
    BY <1>6, StartsBring
  <2>2. server.state # "no" /\ server # NoServer /\ requests' = requests
    BY <1>6, <2>1 DEF ServerStarts, Brings, NoServer
  <2>3. cache.keys = ContentAt(data)
    BY <1>2, <2>2 DEF ConnectionOK, Following, IsStarted
  <2> QED
    BY <1>2, <1>6, <2>1, <2>2, <2>3, SentKeeps, StartsCall
<1> QED
  BY <1>3, <1>4, <1>5, <1>6 DEF Server

-----------------------------------------------------------------------------
(* The connection and the user *)

LEMMA StreamOpens ==
  ASSUME NEW s \in Streams
  PROVE  /\ ~IsOpen(Start(s)) /\ ~IsOpen(BackoffElapses(s))
         /\ ~IsStarted(Close(s, TRUE)) /\ ~IsStarted(Close(s, FALSE))
         /\ ~IsStarted(InhibitBackoff(s))
         /\ IsOpen(HealthCheck(s)) <=> IsOpen(s)
         /\ IsStarted(HealthCheck(s)) <=> IsStarted(s)
         /\ \A l, net : ~IsStarted(Stopped(s, l, net))
<1> USE DEF Streams, States, IsStarted, IsOpen, HardAssert
<1>1. ~IsOpen(Start(s))
  BY DEF Start
<1>2. ~IsOpen(BackoffElapses(s))
  BY DEF BackoffElapses, Start
<1>3. /\ Close(s, TRUE).state = "Initial" /\ Close(s, FALSE).state = "Error"
      /\ Close(s, TRUE) \in Streams
  BY DEF Close
<1>4. ~IsStarted(InhibitBackoff(s))
  BY DEF InhibitBackoff
<1>5. IsOpen(HealthCheck(s)) <=> IsOpen(s)
  BY DEF HealthCheck
<1>6. IsStarted(HealthCheck(s)) <=> IsStarted(s)
  BY DEF HealthCheck
<1>7. \A l, net : ~IsStarted(Stopped(s, l, net))
  <2>1. [Close(s, TRUE) EXCEPT !.asserts = "failed"].state = "Initial"
    BY <1>3
  <2> QED
    BY <1>3, <2>1 DEF Stopped
<1> QED
  BY <1>1, <1>2, <1>3, <1>4, <1>5, <1>6, <1>7

LEMMA ViewSays ==
  ASSUME TypeOK, NEW o, Broadcast(o), view'.current = "yes"
  PROVE  view.current = "yes"
BY DEF Broadcast, TypeOK

LEMMA StartOrSays ==
  ASSUME TypeOK, NEW s \in Streams, NEW net, NEW o, NEW idle,
         StartOr(listening, s, net, o, idle)
  PROVE  /\ view'.current = "yes" => view.current = "yes"
         /\ ~IsOpen(s) => ~IsOpen(stream')
         /\ ~IsStarted(s) /\ IsStarted(stream') => listening = "yes"
         /\ IsStarted(s) => stream' = s
<1>1. CASE ShouldStartWatchStream(listening, s, net)
  BY <1>1, ViewSays, StreamOpens DEF StartOr, ShouldStartWatchStream
<1>2. CASE ~ShouldStartWatchStream(listening, s, net)
  BY <1>2, ViewSays DEF StartOr
<1> QED
  BY <1>1, <1>2

LEMMA OverLive ==
  ASSUME ConnectionOK', ~IsOpen(stream')
  PROVE  Waiting' /\ Collected' /\ Call'
<1>1. /\ requests' = <<>> /\ responses' = <<>> /\ server' = NoServer
      /\ state' = Erased /\ mismatch' = "no" /\ updates' = NoUpdates
  BY DEF ConnectionOK
<1>2. state'.acks = 0 /\ state'.docs = <<>>
  BY <1>1 DEF Erased, NewState
<1>3. Waiting'
  BY <1>1, <1>2 DEF Waiting
<1>4. Collected'
  BY <1>1, <1>2 DEF Collected, Changed, NoUpdates
<1>5. Fresh'
  BY <1>1 DEF Fresh, NoServer
<1> QED
  BY <1>1, <1>3, <1>4, <1>5, NothingLive DEF Call, NoServer

\* The target keeps what it has, and the listener what it is told.
Kept ==
  /\ UNCHANGED <<listening, token, data, cache>>
  /\ IsStarted(stream') => listening = "yes"
  /\ view'.current = "yes" => view.current = "yes"

LEMMA KeptLive ==
  ASSUME ConnectionOK', Kept, Store, Following, Waiting, Collected, requests = <<>> => Call,
         \/ ~IsOpen(stream')
         \/ /\ IsOpen(stream') => IsOpen(stream)
            /\ UNCHANGED <<requests, responses, server, state, mismatch, updates>>
  PROVE  Store' /\ Following' /\ Waiting' /\ Collected' /\ (requests' = <<>> => Call')
<1>1. Store' /\ Following'
  BY DEF Kept, Store, Following
<1>2. CASE ~IsOpen(stream')
  BY <1>1, <1>2, OverLive
<1>3. CASE /\ IsOpen(stream') => IsOpen(stream)
           /\ UNCHANGED <<requests, responses, server, state, mismatch, updates>>
  <2>1. Waiting'
    BY <1>3 DEF Kept, Waiting
  <2> QED
    BY <1>1, <1>3, <2>1, CallKept DEF Kept
<1> QED
  BY <1>2, <1>3

LEMMA FailedKept ==
  ASSUME TypeOK, NEW s \in Streams, OnStreamFailed(s)
  PROVE  Kept /\ ~IsOpen(stream')
<1>1. Close(s, FALSE) \in Streams /\ ~IsStarted(Close(s, FALSE)) /\ ~IsOpen(Close(s, FALSE))
  BY StreamTypes, StreamOpens DEF IsStarted
<1> QED
  BY <1>1, StartOrSays DEF OnStreamFailed, Kept

LEMMA ListenLive ==
  ASSUME TypeOK, ConnectionOK', Store, Following, Listen
  PROVE  Store' /\ Following' /\ Waiting' /\ Collected' /\ Call'
<1>1. ~IsStarted(stream) /\ UNCHANGED cache
  BY DEF Listen, Following
<1>2. ~IsOpen(stream')
  <2>1. CASE ShouldStartWatchStream("yes", stream, network)
    BY <2>1, StreamOpens DEF Listen, TypeOK
  <2>2. CASE ~ShouldStartWatchStream("yes", stream, network)
    BY <1>1, <2>2 DEF Listen, IsStarted
  <2> QED
    BY <2>1, <2>2
<1>3. Store'
  BY <1>1 DEF Store
<1>4. Following'
  BY <1>1 DEF Store, Following, Listen
<1> QED
  BY <1>2, <1>3, <1>4, OverLive

LEMMA OpensLive ==
  ASSUME TypeOK, ConnectionOK, Store, Following, CredentialsArrive
  PROVE  Store' /\ Following' /\ Waiting' /\ Collected' /\ (requests' = <<>> => Call')
<1>1. stream.state = "Starting" /\ IsStarted(stream) /\ ~IsOpen(stream) /\ listening = "yes"
  BY DEF CredentialsArrive, ConnectionOK, IsStarted, IsOpen, Following
<1>2. /\ requests = <<>> /\ responses = <<>> /\ server = NoServer
      /\ state = Erased /\ mismatch = "no" /\ updates = NoUpdates
  BY <1>1 DEF ConnectionOK
<1>3. /\ requests' = Append(requests, Watch(token))
      /\ state' = RecordPendingTargetRequest(state)
      /\ UNCHANGED <<listening, token, mismatch, updates, data, cache, responses, server, view>>
  BY <1>1 DEF CredentialsArrive, StreamOnly
<1>4. /\ requests' = <<Watch(token)>>
      /\ state'.acks = 1 /\ state'.held = "yes" /\ state'.docs = <<>>
  BY <1>2, <1>3 DEF RecordPendingTargetRequest, Ensure, Erased, NewState
<1>5. Store' /\ Following'
  BY <1>1, <1>3 DEF Store, Following
<1>6. Waiting'
  BY <1>2, <1>3, <1>4 DEF Waiting, NoServer
<1>7. Collected'
  BY <1>2, <1>3, <1>4 DEF Collected, Changed, NoUpdates
<1> QED
  BY <1>4, <1>5, <1>6, <1>7

LEMMA LimboLive ==
  ASSUME TypeOK, ChangesOK, Store, Following, Waiting, Collected, requests = <<>> => Call,
         NEW d \in Docs, LimboResolves(d)
  PROVE  Store' /\ Following' /\ Waiting' /\ Collected' /\ (requests' = <<>> => Call')
<1>1. /\ UNCHANGED <<stream, listening, token, state, mismatch, updates, view, data,
                     requests, responses, server>>
      /\ listening = "yes" /\ data # 0 /\ d \notin view.keys
      /\ cache' = [cache EXCEPT !.docs = @ \ {d}]
  BY DEF LimboResolves
<1>2. /\ cache'.keys = cache.keys /\ cache'.token = cache.token /\ cache'.last = cache.last
      /\ cache'.docs = cache.docs \ {d} /\ d \notin cache.keys
  BY <1>1 DEF TypeOK, Caches, ChangesOK
<1>3. Store'
  BY <1>2 DEF Store
<1>4. Following'
  BY <1>1, <1>2 DEF Following
<1>5. Waiting'
  BY <1>1 DEF Waiting
<1> QED
  BY <1>1, <1>2, <1>3, <1>4, <1>5, CallKept

LEMMA OutsideLive ==
  ASSUME TypeOK, ConnectionOK, TrackerOK, ChangesOK, ConnectionOK', LiveOK,
         \/ Listen \/ StopListening \/ EnableNetwork \/ Connection \/ Faults
         \/ \E d \in Docs : LimboResolves(d)
  PROVE  LiveOK'
<1> DEFINE Goal == Store' /\ Following' /\ Waiting' /\ Collected' /\ (requests' = <<>> => Call')
<1>s. stream \in Streams /\ stops \in Nat /\ errors \in Nat
  BY DEF TypeOK
<1>0. ASSUME stops' = stops, errors' = errors, Steady => Goal PROVE LiveOK'
  BY <1>0 DEF LiveOK, Steady
<1>k. ASSUME Steady, Kept,
             \/ ~IsOpen(stream')
             \/ /\ IsOpen(stream') => IsOpen(stream)
                /\ UNCHANGED <<requests, responses, server, state, mismatch, updates>>
      PROVE  Goal
  BY <1>k, KeptLive DEF LiveOK
<1>l. Steady => Store /\ Following /\ Waiting /\ Collected /\ (requests = <<>> => Call)
  BY DEF LiveOK
<1> HIDE DEF Goal
<1>1. CASE Listen
  BY <1>0, <1>1, <1>l, ListenLive DEF Listen, Goal
<1>2. CASE StopListening
  BY <1>s, <1>2 DEF StopListening, LiveOK, Steady
<1>3. CASE EnableNetwork
  <2>1. /\ stops' = stops /\ errors' = errors
        /\ UNCHANGED <<listening, token, state, mismatch, updates, data, cache,
                       requests, responses, server>>
        /\ StartOr(listening, stream, "enabled", online, UpdateState(online, "Unknown"))
    BY <1>3 DEF EnableNetwork
  <2>2. /\ view'.current = "yes" => view.current = "yes"
        /\ ~IsOpen(stream) => ~IsOpen(stream')
        /\ ~IsStarted(stream) /\ IsStarted(stream') => listening = "yes"
        /\ IsStarted(stream) => stream' = stream
    BY <1>s, <2>1, StartOrSays
  <2>3. Steady => Kept
    BY <1>l, <2>1, <2>2 DEF Kept, Following
  <2> QED
    BY <1>0, <1>k, <2>1, <2>2, <2>3
<1>4. CASE Connection
  <2>0. stops' = stops /\ errors' = errors
    BY <1>4 DEF Connection, CredentialsArrive, StaleCredentialsArrive, BackoffTimer,
                HealthTimer, IdleTimer, OnlineStateTimer, StreamOnly
  <2>1. CASE CredentialsArrive
    BY <1>0, <1>l, <2>0, <2>1, OpensLive DEF Goal
  <2>2. ASSUME Steady, StaleCredentialsArrive PROVE Goal
    <3>1. stream'.state = stream.state
      BY <1>s, <2>2 DEF StaleCredentialsArrive, Streams
    <3>2. Kept
      BY <1>l, <2>2, <3>1 DEF StaleCredentialsArrive, StreamOnly, Kept, Following, IsStarted,
                              IsOpen
    <3> QED
      BY <1>k, <2>2, <3>1, <3>2 DEF StaleCredentialsArrive, StreamOnly, IsOpen
  <2>3. ASSUME Steady, BackoffTimer PROVE Goal
    <3>1. ~IsOpen(stream')
      BY <1>s, <2>3, StreamOpens DEF BackoffTimer
    <3>2. IsStarted(stream)
      BY <2>3 DEF BackoffTimer, ConnectionOK, IsStarted
    <3>3. Kept
      BY <1>l, <2>3, <3>2 DEF BackoffTimer, StreamOnly, Kept, Following
    <3> QED
      BY <1>k, <2>3, <3>1, <3>3
  <2>4. ASSUME Steady, HealthTimer PROVE Goal
    <3>1. (IsOpen(stream') <=> IsOpen(stream)) /\ (IsStarted(stream') <=> IsStarted(stream))
      BY <1>s, <2>4, StreamOpens DEF HealthTimer
    <3>2. Kept
      BY <1>l, <2>4, <3>1 DEF HealthTimer, StreamOnly, Kept, Following
    <3> QED
      BY <1>k, <2>4, <3>1, <3>2 DEF HealthTimer, StreamOnly
  <2>5. ASSUME Steady, IdleTimer PROVE Goal
    <3>1. FALSE
      BY <1>l, <2>5 DEF IdleTimer, ConnectionOK, Following, IsStarted
    <3> QED
      BY <3>1
  <2>6. ASSUME Steady, OnlineStateTimer PROVE Goal
    <3>1. Kept
      BY <1>l, <2>6, ViewSays DEF OnlineStateTimer, StreamOnly, Kept, Following
    <3> QED
      BY <1>k, <2>6, <3>1 DEF OnlineStateTimer, StreamOnly
  <2> QED
    BY <1>0, <1>4, <2>0, <2>1, <2>2, <2>3, <2>4, <2>5, <2>6 DEF Connection
<1>5. CASE Faults
  <2>1. CASE CredentialsFail
    <3> DEFINE s == [HardAssert(stream.state = "Starting", stream) EXCEPT
                       !.creds = @ \ {"current"}]
    <3>1. s \in Streams /\ OnStreamFailed(s)
      BY <1>s, <2>1 DEF CredentialsFail, HardAssert, Streams
    <3> HIDE DEF s
    <3>2. Kept /\ ~IsOpen(stream') /\ stops' = stops /\ errors' = errors
      BY <3>1, FailedKept DEF OnStreamFailed
    <3> QED
      BY <1>0, <1>k, <3>2
  <2>2. CASE CallFails
    <3>1. Kept /\ ~IsOpen(stream') /\ stops' = stops /\ errors' = errors
      BY <1>s, <2>2, FailedKept DEF CallFails, OnStreamFailed
    <3> QED
      BY <1>0, <1>k, <3>1
  <2>3. CASE DisableNetwork
    <3>1. ~IsStarted(stream') /\ stops' = stops /\ errors' = errors
      BY <1>s, <2>3, StreamOpens DEF DisableNetwork
    <3>2. Kept
      BY <2>3, <3>1, ViewSays DEF DisableNetwork, Kept
    <3> QED
      BY <1>0, <1>k, <3>1, <3>2 DEF IsStarted
  <2>4. CASE RestartNetwork
    <3> DEFINE s == InhibitBackoff(Stopped(stream, listening, "disabled"))
               unknown == UpdateState(online, "Unknown")
    <3>1. s \in Streams /\ ~IsStarted(s)
      BY <1>s, StoppedType, StreamTypes, StreamOpens
    <3>2. /\ stops' = stops /\ errors' = errors
          /\ UNCHANGED <<listening, token, data, cache>>
          /\ StartOr(listening, s, "enabled", unknown, unknown)
      BY <2>4 DEF RestartNetwork
    <3> HIDE DEF s, unknown
    <3>3. Kept /\ ~IsOpen(stream')
      BY <3>1, <3>2, StartOrSays DEF Kept, IsStarted
    <3> QED
      BY <1>0, <1>k, <3>2, <3>3
  <2>5. CASE Crash
    <3>1. /\ ~IsStarted(stream') /\ stops' = stops /\ errors' = errors
          /\ listening' = "no" /\ UNCHANGED cache
      BY <2>5 DEF Crash, NewStream, IsStarted, IsOpen
    <3>2. Steady => Store' /\ Following'
      BY <1>l, <3>1 DEF Store, Following
    <3> QED
      BY <1>0, <3>1, <3>2, OverLive DEF IsStarted, Goal
  <2>6. CASE ServerRejects
    BY <1>s, <2>6 DEF ServerRejects, LiveOK, Steady
  <2> QED
    BY <1>5, <2>1, <2>2, <2>3, <2>4, <2>5, <2>6 DEF Faults
<1>6. ASSUME NEW d \in Docs, LimboResolves(d) PROVE LiveOK'
  BY <1>0, <1>l, <1>6, LimboLive DEF LimboResolves, Goal
<1> QED
  BY <1>1, <1>2, <1>3, <1>4, <1>5, <1>6

-----------------------------------------------------------------------------
(***************************************************************************)
(* PART 3.  Resuming: each message, as the client takes it in, keeps the   *)
(* invariant; with that the keys on disk are those of the token, and what  *)
(* is said to be up to date is.                                            *)
(***************************************************************************)

(* Each message as the client takes it in *)

\* Counts that are not at the head are under the next message's count.
LEMMA GoodShift ==
  ASSUME TypeOK, responses # <<>>, responses' = Tail(responses), server' = server, Filters,
         data' = data, mismatch = "no",
         LiveFilter(1) => ContentAt(data) \subseteq ContentAt(responses[2].token)
  PROVE  Good' => Good
<1> SUFFICES ASSUME Good', NEW f \in 1..Len(responses), LiveFilter(f)
             PROVE  ContentAt(data) \subseteq ContentAt(responses[f + 1].token)
  BY DEF Good
<1>1. /\ Len(responses) \in Nat \ {0} /\ Len(responses') = Len(responses) - 1
      /\ \A k \in 1..Len(responses) - 1 :
           responses'[k] = responses[k + 1] /\ (LiveFilter(k)' <=> LiveFilter(k + 1))
  BY Shifted
<1>2. CASE f = 1
  BY <1>2
<1>3. CASE f # 1
  <2>1. f + 1 \in 1..Len(responses)
    <3>1. PICK v \in Versions : FilterOK(f, v)
      BY DEF Filters
    <3> QED
      BY <1>1, <3>1 DEF FilterOK, SnapshotNext
  <2>2. f - 1 \in 1..Len(responses) - 1 /\ f \in 1..Len(responses) - 1 /\ (f - 1) + 1 = f
        /\ f - 1 \in 1..Len(responses')
    BY <1>1, <1>3, <2>1
  <2>3. LiveFilter(f - 1)'
    BY <1>1, <2>2
  <2>4. ContentAt(data') \subseteq ContentAt(responses'[(f - 1) + 1].token)
    BY <2>2, <2>3 DEF Good
  <2> QED
    BY <1>1, <2>2, <2>4
<1> QED
  BY <1>2, <1>3

LEMMA CallShift ==
  ASSUME TypeOK, responses # <<>>, responses' = Tail(responses), server' = server, Call,
         Effect, data' = data, mismatch' = mismatch,
         server.state = "fresh" => state'.docs = <<>> /\ updates' = NoUpdates,
         \A f \in 2..Len(responses) : LiveFilter(f) => updates'.gone = {},
         LiveFilter(1) => ContentAt(data) \subseteq ContentAt(responses[2].token),
         \A d \in cache'.keys \ DOMAIN state'.docs :
           /\ d \in cache.keys \ DOMAIN state.docs
           /\ ~(Live(responses, 1) /\ Says(Head(responses), d))
  PROVE  Call'
<1>1. Fresh'
  <2>1. server.state = "fresh" =>
          data' = data /\ state'.docs = <<>> /\ updates' = NoUpdates /\ mismatch' = "no"
    BY DEF Call, Fresh
  <2> QED
    BY <2>1, FreshShift DEF Call
<1>2. Filters'
  BY FilterShift DEF Call
<1>3. Good' => Good
  BY GoodShift DEF Call, Good
<1>4. Snapshots'
  BY <1>3, SnapshotShift DEF Call
<1>5. Pairs'
  BY PairShift DEF Call
<1> QED
  BY <1>1, <1>2, <1>4, <1>5 DEF Call

\* The last answer that is due.
LEMMA LastAnswer ==
  ASSUME TypeOK, AcksOK, errors = 0, responses # <<>>, IsAnswer(Head(responses)),
         state.acks = 1
  PROVE  requests = <<>> /\ Live(responses, 2)
<1>1. 1 = Len(requests) + Cardinality(Answers(responses))
  BY Due DEF AcksOK
<1>2. Cardinality(Answers(responses)) = 1 + Cardinality(Answers(Tail(responses)))
  BY AnswersTail DEF TypeOK, IsAnswer
<1>3. /\ Tail(responses) \in Seq(Responses) /\ Len(Tail(responses)) = Len(responses) - 1
      /\ Len(responses) \in Nat \ {0}
      /\ \A k \in 1..Len(responses) - 1 : Tail(responses)[k] = responses[k + 1]
  BY TailIs DEF TypeOK
<1> DEFINE t == Tail(responses)
<1> HIDE DEF t
<1>4. /\ Cardinality(Answers(t)) \in Nat /\ IsFiniteSet(Answers(t))
      /\ Len(requests) \in Nat /\ (Len(requests) = 0 <=> requests = <<>>)
  BY <1>3, AnswersFinite, LenProperties, EmptySeq DEF TypeOK, t
<1>5. Len(requests) = 0 /\ Cardinality(Answers(t)) = 0
  BY <1>1, <1>2, <1>4 DEF t
<1>6. Answers(t) = {}
  BY <1>4, <1>5, FS_EmptySet
<1>7. ASSUME NEW i \in 2..Len(responses) PROVE responses[i].kind \notin {"added", "removed"}
  <2>1. i - 1 \in 1..Len(responses) - 1 /\ (i - 1) + 1 = i /\ i - 1 \in DOMAIN t
    BY <1>3, LenProperties DEF t
  <2>2. t[i - 1] = responses[i]
    BY <1>3, <2>1 DEF t
  <2> QED
    BY <1>6, <2>1, <2>2 DEF Answers
<1> QED
  BY <1>4, <1>5, <1>7 DEF Live

\* A message that leaves the connection, the view and the store alone.
LEMMA QuietLive ==
  ASSUME TypeOK, AcksOK, errors = 0, Waiting,
         NEW kind, Receive(kind), UNCHANGED <<stream, token, data, requests>>,
         state'.held = "yes",
         state'.acks = IF IsAnswer(Head(responses)) THEN state.acks - 1 ELSE state.acks,
         state'.acks # 0 => state'.docs = <<>> /\ updates' = NoUpdates /\ mismatch' = "no"
  PROVE  Waiting'
<1>1. /\ responses # <<>> /\ responses' = Tail(responses) /\ server' = server
      /\ responses \in Seq(Responses)
  BY DEF Receive, TypeOK
<1>2. /\ Len(responses) \in Nat \ {0} /\ Len(responses') = Len(responses) - 1
      /\ \A k \in 1..Len(responses) - 1 :
           /\ responses'[k] = responses[k + 1]
           /\ Live(responses', k) <=> Live(responses, k + 1)
  BY <1>1, Shifted
<1>3. /\ state.acks \in Nat /\ Len(requests) \in Nat
      /\ IsAnswer(Head(responses)) => state.acks >= Len(requests) + 1
  BY <1>1, ActiveWhen
<1>4. ASSUME state'.acks # 0, ~IsAnswer(Head(responses')) PROVE data = 0
  <2>1. CASE IsAnswer(Head(responses))
    <3>1. state.acks >= 2
      BY <1>3, <1>4, <2>1
    <3> QED
      BY <3>1 DEF Waiting
  <2>2. CASE ~IsAnswer(Head(responses))
    BY <1>1, <1>4, <2>2 DEF Waiting
  <2> QED
    BY <2>1, <2>2
<1>5. state'.acks >= 2 => data = 0
  BY <1>3 DEF Waiting
<1>6. ASSUME requests = <<>>, NEW k \in 1..Len(responses'), IsAnswer(responses'[k]),
             Live(responses', k + 1)
      PROVE  responses'[k].kind = "added"
  <2>1. k \in 1..Len(responses) - 1 /\ k + 1 \in 1..Len(responses)
        /\ responses'[k] = responses[k + 1]
    BY <1>2
  <2>2. Live(responses, (k + 1) + 1)
    <3>1. CASE k = Len(responses')
      BY <1>2, <3>1 DEF Live
    <3>2. CASE k # Len(responses')
      <4>1. k + 1 \in 1..Len(responses) - 1
        BY <1>2, <3>2
      <4> QED
        BY <1>2, <1>6, <4>1
    <3> QED
      BY <3>1, <3>2
  <2> QED
    BY <1>6, <2>1, <2>2 DEF Waiting
<1> QED
  BY <1>1, <1>4, <1>5, <1>6 DEF Waiting

LEMMA Heard ==
  ASSUME TypeOK, ConnectionOK, AcksOK, errors = 0, Following, Waiting, NEW kind, Receive(kind)
  PROVE  /\ responses # <<>> /\ responses' = Tail(responses) /\ server' = server
         /\ Head(responses) = responses[1] /\ Head(responses) \in Responses
         /\ Head(responses).kind = kind /\ kind # "error"
         /\ 1 \in 1..Len(responses)
         /\ IsOpen(stream) /\ listening = "yes" /\ token = data /\ state.held = "yes"
         /\ Ensure(state) = state
         /\ IsActive(state) <=> state.acks = 0
         /\ state.acks = 0 => requests = <<>> /\ Live(responses, 1)
<1>1. /\ responses # <<>> /\ responses' = Tail(responses) /\ server' = server
      /\ Head(responses).kind = kind /\ responses \in Seq(Responses)
  BY DEF Receive, TypeOK
<1>2. Head(responses) = responses[1] /\ Head(responses) \in Responses /\ 1 \in 1..Len(responses)
  BY <1>1, TailIs, HeadTailProperties
<1>3. kind # "error"
  <2>1. responses \in Seq(Legal)
    BY DEF AcksOK
  <2>2. Head(responses) \in Legal
    BY <1>1, <2>1, HeadTailProperties
  <2> QED
    BY <1>1, <2>2 DEF Legal
<1>4. IsOpen(stream)
  BY <1>1 DEF ConnectionOK
<1>5. listening = "yes" /\ token = data /\ state.held = "yes"
  BY <1>4 DEF Following, Waiting, IsStarted
<1>6. Ensure(state) = state
  BY <1>5 DEF Ensure, TypeOK, TargetStates
<1>7. state.acks = 0 <=> requests = <<>> /\ Live(responses, 1)
  BY ActiveWhen
<1> QED
  BY <1>1, <1>2, <1>3, <1>4, <1>5, <1>6, <1>7 DEF IsActive, IsPending

\* What a snapshot that is expected next excludes, and what it leaves.
LEMMA NextIs ==
  ASSUME TypeOK, responses # <<>>, responses' = Tail(responses), server' = server, NEW v,
         SnapshotNext(responses, 1, v)
  PROVE  /\ responses[1].kind \in {"current", "snapshot"}
         /\ responses[1].kind = "snapshot" => responses[1].token = v
         /\ responses[1].kind = "current" => SnapshotNext(responses', 1, v)
<1>1. CASE responses[1] = Token("snapshot", v)
  BY <1>1 DEF Token
<1>2. CASE /\ 1 + 1 <= Len(responses)
           /\ responses[1] = Token("current", v) /\ responses[1 + 1] = Token("snapshot", v)
  <2>1. /\ Len(responses) \in Nat \ {0} /\ Len(responses') = Len(responses) - 1
        /\ \A k \in 1..Len(responses) - 1 : responses'[k] = responses[k + 1]
    BY Shifted
  <2>2. 1 \in 1..Len(responses) - 1 /\ 1 <= Len(responses')
    BY <1>2, <2>1
  <2>3. responses'[1] = responses[1 + 1]
    BY <2>1, <2>2
  <2> QED
    BY <1>2, <2>2, <2>3 DEF Token, SnapshotNext
<1> QED
  BY <1>1, <1>2 DEF SnapshotNext

\* A message that says nothing of documents, or that comes too early.
LEMMA IdleLive ==
  ASSUME TypeOK, ConnectionOK, AcksOK, errors = 0, Store, Following, Waiting, Collected,
         requests = <<>> => Call,
         NEW kind, Receive(kind), Quiet, UNCHANGED <<updates, mismatch>>,
         state'.held = "yes", state'.docs = state.docs,
         state'.acks = IF IsAnswer(Head(responses)) THEN state.acks - 1 ELSE state.acks,
         state.acks = 0 =>
           /\ kind \in {"current", "filter", "snapshot"}
           /\ mismatch = "yes" => kind = "current"
           /\ LiveFilter(1) => ContentAt(data) \subseteq ContentAt(responses[2].token)
  PROVE  Store' /\ Following' /\ Waiting' /\ Collected' /\ (requests' = <<>> => Call')
<1>1. /\ responses # <<>> /\ responses' = Tail(responses) /\ server' = server
      /\ Head(responses) = responses[1] /\ Head(responses).kind = kind
      /\ state.acks = 0 => requests = <<>> /\ Live(responses, 1)
      /\ UNCHANGED <<stream, listening, token, view, data, cache, requests, errors>>
  BY Heard DEF Quiet
<1>2. Store' /\ Following'
  BY <1>1 DEF Store, Following
<1>3. state.acks # 0 => state.docs = <<>> /\ updates = NoUpdates /\ mismatch = "no"
  BY DEF Waiting
<1>4. state'.acks # 0 => state.acks # 0
  <2>1. IsAnswer(Head(responses)) => kind \in {"added", "removed"}
    BY <1>1 DEF IsAnswer
  <2> QED
    BY <2>1
<1>5. Waiting'
  BY <1>1, <1>3, <1>4, QuietLive
<1>6. Expected' = Expected /\ Changed(state, "Added")' = Changed(state, "Added")
  BY <1>1 DEF Expected, Changed
<1>7. ASSUME NEW v \in Versions, v > cache.last, SnapshotNext(responses, 1, v), mismatch = "yes"
      PROVE  SnapshotNext(responses', 1, v) /\ state'.acks = 0
  <2>1. state.acks = 0 /\ kind = "current"
    BY <1>3, <1>7
  <2> QED
    BY <1>1, <1>7, <2>1, NextIs DEF IsAnswer
<1>8. Collected'
  BY <1>1, <1>6, <1>7 DEF Collected
<1>9. ASSUME requests = <<>> PROVE Call'
  <2>1. state.acks # 0 => ~Live(responses, 1)
    BY <1>9, ActiveWhen
  <2>2. \A d : ~(Live(responses, 1) /\ Says(Head(responses), d))
    BY <1>1, <2>1 DEF Says
  <2>3. Effect
    BY <1>6, <2>2 DEF Effect
  <2>4. LiveFilter(1) => ContentAt(data) \subseteq ContentAt(responses[2].token)
    BY <2>1 DEF LiveFilter
  <2>5. server.state = "fresh" => state'.docs = <<>> /\ updates' = NoUpdates
    BY <1>9 DEF Call, Fresh
  <2>6. \A f \in 2..Len(responses) : LiveFilter(f) => updates'.gone = {}
    BY <1>9 DEF Call, Filters, FilterOK, LiveFilter
  <2> QED
    BY <1>1, <1>9, <2>2, <2>3, <2>4, <2>5, <2>6, CallShift
<1> QED
  BY <1>1, <1>2, <1>5, <1>8, <1>9

LEMMA AnswerLive ==
  ASSUME TypeOK, ConnectionOK, AcksOK, errors = 0, Store, Following, Waiting, Collected,
         requests = <<>> => Call, OnTargetAdded \/ OnTargetRemoved
  PROVE  Store' /\ Following' /\ Waiting' /\ Collected' /\ (requests' = <<>> => Call')
<1>1. PICK kind \in {"added", "removed"} :
        /\ Receive(kind) /\ Quiet /\ UNCHANGED <<updates, mismatch>>
        /\ kind = "added" => state' = OnAdded(state)
        /\ kind = "removed" => state' = OnRemoved(state)
  BY DEF OnTargetAdded, OnTargetRemoved
<1>2. /\ responses # <<>> /\ Head(responses) = responses[1] /\ Head(responses).kind = kind
      /\ 1 \in 1..Len(responses) /\ Ensure(state) = state /\ state.held = "yes"
      /\ IsAnswer(Head(responses))
  BY <1>1, Heard DEF IsAnswer
<1>3. state.acks \in Nat /\ state.acks # 0 /\ state.docs = <<>>
  <2>1. state.acks \in Nat /\ state.acks >= Len(requests) + 1 /\ Len(requests) \in Nat
    BY <1>2, ActiveWhen
  <2>2. state.acks # 0
    BY <2>1
  <2> QED
    BY <2>1, <2>2 DEF Waiting
<1> DEFINE answered == [state EXCEPT !.acks = @ - 1]
<1>4. /\ answered.acks = state.acks - 1 /\ answered.held = "yes" /\ answered.docs = <<>>
      /\ answered \in TargetStates
  <2>1. state \in TargetStates
    BY DEF TypeOK
  <2>2. state.acks - 1 \in Int
    BY <1>3
  <2>3. answered \in TargetStates
    BY <2>1, <2>2 DEF TargetStates
  <2>4. answered.acks = state.acks - 1 /\ answered.held = state.held /\ answered.docs = state.docs
    BY <2>1 DEF TargetStates
  <2> QED
    BY <1>2, <1>3, <2>3, <2>4
<1>5. CASE kind = "added"
  <2>1. state' = IF answered.acks # 0 THEN answered ELSE ClearPendingChanges(answered)
    BY <1>1, <1>2, <1>5 DEF OnAdded, IsPending
  <2> HIDE DEF answered
  <2>2. /\ ClearPendingChanges(answered).acks = answered.acks
        /\ ClearPendingChanges(answered).held = "yes"
        /\ ClearPendingChanges(answered).docs = <<>>
    BY <1>4 DEF ClearPendingChanges, TargetStates
  <2>3. state'.acks = state.acks - 1 /\ state'.held = "yes" /\ state'.docs = state.docs
    BY <1>3, <1>4, <2>1, <2>2
  <2> QED
    BY <1>1, <1>2, <1>3, <2>3, IdleLive
<1>6. CASE kind = "removed"
  <2>1. state.acks # 1
    <3> SUFFICES ASSUME state.acks = 1 PROVE FALSE
      OBVIOUS
    <3>1. requests = <<>> /\ Live(responses, 1 + 1)
      BY <1>2, LastAnswer
    <3>2. responses[1].kind = "added"
      BY <1>2, <3>1 DEF Waiting
    <3> QED
      BY <1>2, <1>6, <3>2
  <2>2. state' = answered
    BY <1>1, <1>2, <1>3, <1>4, <1>6, <2>1 DEF OnRemoved, IsPending
  <2> HIDE DEF answered
  <2> QED
    BY <1>1, <1>2, <1>3, <1>4, <2>2, IdleLive
<1> QED
  BY <1>5, <1>6

LEMMA CurrentLive ==
  ASSUME TypeOK, ConnectionOK, AcksOK, errors = 0, Store, Following, Waiting, Collected,
         requests = <<>> => Call, OnTargetCurrent
  PROVE  Store' /\ Following' /\ Waiting' /\ Collected' /\ (requests' = <<>> => Call')
<1>1. Receive("current") /\ Quiet /\ UNCHANGED <<updates, mismatch>>
  BY DEF OnTargetCurrent
<1>2. /\ Head(responses) = responses[1] /\ Head(responses).kind = "current"
      /\ Ensure(state) = state /\ state.held = "yes" /\ ~IsAnswer(Head(responses))
  BY <1>1, Heard DEF IsAnswer
<1>3. \/ state' = state
      \/ state' = UpdateResumeToken(MarkCurrent(state), Head(responses).token)
  BY <1>2 DEF OnTargetCurrent
<1>4. state'.acks = state.acks /\ state'.held = "yes" /\ state'.docs = state.docs
  BY <1>2, <1>3 DEF MarkCurrent, UpdateResumeToken, TypeOK, TargetStates
<1>5. ~LiveFilter(1)
  BY <1>2 DEF LiveFilter
<1> QED
  BY <1>1, <1>2, <1>4, <1>5, IdleLive

\* A message for a target that waits for answers.
LEMMA EarlyLive ==
  ASSUME TypeOK, ConnectionOK, AcksOK, errors = 0, Store, Following, Waiting, Collected,
         requests = <<>> => Call, state.acks # 0,
         OnTargetReset \/ OnDocumentFound \/ OnDocumentGone \/ OnExistenceFilter
  PROVE  Store' /\ Following' /\ Waiting' /\ Collected' /\ (requests' = <<>> => Call')
<1>1. PICK kind \in {"reset", "found", "gone", "filter"} : Receive(kind) /\ Quiet
  BY DEF OnTargetReset, OnDocumentFound, OnDocumentGone, OnExistenceFilter
<1>2. /\ Head(responses).kind = kind /\ Ensure(state) = state /\ state.held = "yes"
      /\ ~IsAnswer(Head(responses)) /\ ~IsActive(state)
  BY <1>1, Heard DEF IsAnswer
<1>3. state' = state /\ UNCHANGED <<updates, mismatch>>
  BY <1>2 DEF OnTargetReset, OnDocumentFound, OnDocumentGone, OnExistenceFilter
<1> QED
  BY <1>1, <1>2, <1>3, IdleLive

\* A message about documents.
LEMMA SaidLive ==
  ASSUME TypeOK, ConnectionOK, AcksOK, errors = 0, Store, Following, Waiting, Collected,
         requests = <<>> => Call, state.acks = 0,
         NEW kind \in {"reset", "found", "gone"}, Receive(kind), Quiet, UNCHANGED mismatch,
         state'.held = "yes", state'.acks = 0,
         \A d \in Docs : d \in Expected' <=> IF Says(Head(responses), d) THEN kind = "found"
                                             ELSE d \in Expected,
         Expected' \cap updates'.gone = {}, Changed(state, "Added")' \subseteq updates'.found,
         kind = "found" /\ updates.gone = {} => updates'.gone = {},
         \A d \in cache.keys \ DOMAIN state'.docs :
           d \notin DOMAIN state.docs /\ ~Says(Head(responses), d)
  PROVE  Store' /\ Following' /\ Waiting' /\ Collected' /\ (requests' = <<>> => Call')
<1>1. /\ responses # <<>> /\ responses' = Tail(responses) /\ server' = server
      /\ Head(responses) = responses[1] /\ Head(responses).kind = kind
      /\ requests = <<>> /\ Live(responses, 1) /\ 1 \in 1..Len(responses) /\ Call
      /\ UNCHANGED <<stream, listening, token, view, data, cache, requests, errors>>
  BY Heard DEF Quiet
<1>2. Store' /\ Following'
  BY <1>1 DEF Store, Following
<1>3. Waiting'
  <2>1. ~IsAnswer(Head(responses))
    BY <1>1 DEF IsAnswer
  <2> QED
    BY <1>1, <2>1, QuietLive
<1>4. mismatch = "no" /\ mismatch' = "no"
  <2>1. \A v : ~SnapshotNext(responses, 1, v)
    BY <1>1, NextIs
  <2> QED
    BY <2>1 DEF Collected, TypeOK, Flags
<1>5. Collected'
  BY <1>4 DEF Collected
<1>6. Effect
  BY <1>1 DEF Effect
<1>7. ASSUME NEW f \in 2..Len(responses), LiveFilter(f) PROVE updates'.gone = {}
  <2>1. f \in 1..Len(responses) /\ 1 \in 1..f - 1
    OBVIOUS
  <2>2. PICK v \in Versions : FilterOK(f, v)
    BY <1>1, <1>7, <2>1 DEF Call, Filters
  <2>3. responses[1].kind \in {"found", "current"} /\ updates.gone = {}
    BY <1>1, <2>1, <2>2 DEF FilterOK
  <2> QED
    BY <1>1, <2>3
<1>8. server.state # "fresh"
  BY <1>1 DEF Call, Fresh
<1>9. ~LiveFilter(1)
  BY <1>1 DEF LiveFilter
<1>10. Call'
  BY <1>1, <1>6, <1>7, <1>8, <1>9, CallShift
<1> QED
  BY <1>2, <1>3, <1>5, <1>10

LEMMA ResetLive ==
  ASSUME TypeOK, ConnectionOK, ChangesOK, AcksOK, errors = 0, Store, Following, Waiting,
         Collected, requests = <<>> => Call, OnTargetReset
  PROVE  Store' /\ Following' /\ Waiting' /\ Collected' /\ (requests' = <<>> => Call')
<1>1. Receive("reset") /\ Quiet /\ UNCHANGED <<updates, mismatch>>
  BY DEF OnTargetReset
<1>2. CASE state.acks # 0
  BY <1>2, EarlyLive
<1>3. CASE state.acks = 0
  <2>1. /\ Head(responses).kind = "reset" /\ Ensure(state) = state /\ IsActive(state)
        /\ view.keys = cache.keys
    BY <1>1, <1>3, Heard DEF ChangesOK
  <2>2. state' = ResetTarget(state, cache.keys)
    BY <2>1 DEF OnTargetReset
  <2>3. state'.held = "yes" /\ state'.acks = 0 /\ state'.docs = [d \in cache.keys |-> "Removed"]
    BY <2>2 DEF ResetTarget, NewState
  <2>4. Changed(state, "Removed")' = cache.keys /\ Changed(state, "Added")' = {}
    BY <2>3 DEF Changed
  <2>5. Expected' = {}
    BY <1>1, <2>4 DEF Expected, Quiet
  <2>6. \A d : Says(Head(responses), d)
    BY <2>1 DEF Says
  <2>7. DOMAIN state'.docs = cache.keys
    BY <2>3
  <2> QED
    BY <1>1, <1>3, <2>3, <2>4, <2>5, <2>6, <2>7, SaidLive
<1> QED
  BY <1>2, <1>3

\* The changes of a document.
LEMMA PutChanged ==
  ASSUME NEW s \in TargetStates, NEW t, NEW d, NEW kind \in Kinds, t.docs = Put(s.docs, d, kind)
  PROVE  /\ DOMAIN t.docs = DOMAIN s.docs \cup {d}
         /\ \A e, k : e \in Changed(t, k) <=> IF e = d THEN k = kind ELSE e \in Changed(s, k)
BY DEF Put, Changed

LEMMA FoundLive ==
  ASSUME TypeOK, ConnectionOK, ChangesOK, AcksOK, errors = 0, Store, Following, Waiting,
         Collected, requests = <<>> => Call, OnDocumentFound
  PROVE  Store' /\ Following' /\ Waiting' /\ Collected' /\ (requests' = <<>> => Call')
<1>1. Receive("found") /\ Quiet /\ UNCHANGED mismatch
  BY DEF OnDocumentFound
<1>2. CASE state.acks # 0
  BY <1>2, EarlyLive
<1>3. CASE state.acks = 0
  <2> DEFINE d == Head(responses).doc
             kind == IF d \in cache.keys THEN "Modified" ELSE "Added"
  <2>1. /\ Head(responses).kind = "found" /\ Ensure(state) = state /\ IsActive(state)
        /\ view.keys = cache.keys /\ d \in Docs /\ state.held = "yes"
    BY <1>1, <1>3, Heard, ResponseFacts DEF ChangesOK, DocKinds
  <2>2. /\ state' = [state EXCEPT !.docs = Put(@, d, kind), !.changed = "yes"]
        /\ updates' = [found |-> updates.found \cup {d}, gone |-> updates.gone \ {d}]
    BY <2>1 DEF OnDocumentFound, AddDocument
  <2> HIDE DEF d
  <2>3. state'.held = "yes" /\ state'.acks = 0 /\ state'.docs = Put(state.docs, d, kind)
    BY <1>3, <2>1, <2>2 DEF TypeOK, TargetStates
  <2>4. /\ DOMAIN state'.docs = DOMAIN state.docs \cup {d}
        /\ \A e, k :
             e \in Changed(state', k) <=> IF e = d THEN k = kind ELSE e \in Changed(state, k)
    <3>1. kind \in Kinds /\ state \in TargetStates
      BY DEF Kinds, TypeOK
    <3> HIDE DEF kind
    <3> QED
      BY <2>3, <3>1, PutChanged
  <2>5. \A e : e \in Expected' <=> e = d \/ e \in Expected
    BY <1>1, <2>4 DEF Expected, Quiet
  <2>6. \A e : Says(Head(responses), e) <=> e = d
    BY <2>1 DEF Says, d
  <2>7. Expected' \cap updates'.gone = {}
    BY <2>2, <2>5 DEF Collected
  <2>8. Changed(state', "Added") \subseteq updates'.found
    BY <2>2, <2>4 DEF Collected
  <2>9. updates.gone = {} => updates'.gone = {}
    BY <2>2
  <2>10. \A e \in Docs : e \in Expected' <=> IF Says(Head(responses), e) THEN "found" = "found"
                                             ELSE e \in Expected
    BY <2>5, <2>6
  <2>11. \A e \in cache.keys \ DOMAIN state'.docs :
           e \notin DOMAIN state.docs /\ ~Says(Head(responses), e)
    BY <2>4, <2>6
  <2> QED
    BY <1>1, <1>3, <2>3, <2>7, <2>8, <2>9, <2>10, <2>11, SaidLive
<1> QED
  BY <1>2, <1>3

LEMMA GoneLive ==
  ASSUME TypeOK, ConnectionOK, ChangesOK, AcksOK, errors = 0, Store, Following, Waiting,
         Collected, requests = <<>> => Call, OnDocumentGone
  PROVE  Store' /\ Following' /\ Waiting' /\ Collected' /\ (requests' = <<>> => Call')
<1>1. Receive("gone") /\ Quiet /\ UNCHANGED mismatch
  BY DEF OnDocumentGone
<1>2. CASE state.acks # 0
  BY <1>2, EarlyLive
<1>3. CASE state.acks = 0
  <2> DEFINE d == Head(responses).doc
  <2>1. /\ Head(responses).kind = "gone" /\ Ensure(state) = state /\ IsActive(state)
        /\ view.keys = cache.keys /\ d \in Docs /\ state.held = "yes"
    BY <1>1, <1>3, Heard, ResponseFacts DEF ChangesOK, DocKinds
  <2>2. /\ state' = [state EXCEPT
                       !.docs = IF d \in cache.keys THEN Put(@, d, "Removed")
                                ELSE [e \in DOMAIN @ \ {d} |-> @[e]],
                       !.changed = "yes"]
        /\ updates' = [found |-> updates.found \ {d}, gone |-> updates.gone \cup {d}]
    BY <2>1 DEF OnDocumentGone, RemoveDocument
  <2> HIDE DEF d
  <2>3. /\ state'.held = "yes" /\ state'.acks = 0
        /\ state'.docs = IF d \in cache.keys THEN Put(state.docs, d, "Removed")
                         ELSE [e \in DOMAIN state.docs \ {d} |-> state.docs[e]]
    BY <1>3, <2>1, <2>2 DEF TypeOK, TargetStates
  <2>4. /\ d \in cache.keys => d \in DOMAIN state'.docs
        /\ \A e : e # d => (e \in DOMAIN state'.docs <=> e \in DOMAIN state.docs)
        /\ \A e, k : e # d => (e \in Changed(state', k) <=> e \in Changed(state, k))
        /\ d \in cache.keys => d \in Changed(state', "Removed")
        /\ d \notin Changed(state', "Added")
    <3>1. CASE d \in cache.keys
      <4>1. "Removed" \in Kinds /\ state \in TargetStates
        BY DEF Kinds, TypeOK
      <4>2. state'.docs = Put(state.docs, d, "Removed")
        BY <2>3, <3>1
      <4>3. /\ DOMAIN state'.docs = DOMAIN state.docs \cup {d}
            /\ \A e, k : e \in Changed(state', k) <=>
                           IF e = d THEN k = "Removed" ELSE e \in Changed(state, k)
        <5>1. ASSUME NEW kind \in Kinds, state'.docs = Put(state.docs, d, kind)
              PROVE  /\ DOMAIN state'.docs = DOMAIN state.docs \cup {d}
                     /\ \A e, k : e \in Changed(state', k) <=>
                                    IF e = d THEN k = kind ELSE e \in Changed(state, k)
          BY <4>1, <5>1, PutChanged
        <5> QED
          BY <4>1, <4>2, <5>1
      <4> QED
        BY <4>3
    <3>2. CASE d \notin cache.keys
      BY <2>3, <3>2 DEF Changed
    <3> QED
      BY <3>1, <3>2
  <2>5. \A e : e \in Expected' <=> e # d /\ e \in Expected
    BY <1>1, <2>4 DEF Expected, Quiet
  <2>6. \A e : Says(Head(responses), e) <=> e = d
    BY <2>1 DEF Says, d
  <2>7. Expected' \cap updates'.gone = {}
    BY <2>2, <2>5 DEF Collected
  <2>8. Changed(state', "Added") \subseteq updates'.found
    BY <2>2, <2>4 DEF Collected
  <2>9. \A e \in Docs : e \in Expected' <=> IF Says(Head(responses), e) THEN "gone" = "found"
                                            ELSE e \in Expected
    BY <2>5, <2>6
  <2>10. \A e \in cache.keys \ DOMAIN state'.docs :
           e \notin DOMAIN state.docs /\ ~Says(Head(responses), e)
    BY <2>4, <2>6
  <2> QED
    BY <1>1, <1>3, <2>3, <2>7, <2>8, <2>9, <2>10, SaidLive
<1> QED
  BY <1>2, <1>3

\* The client's count is that of the documents it expects.
LEMMA CountIs ==
  ASSUME TypeOK, ChangesOK
  PROVE  CurrentDocumentCount(state, cache.keys) = Cardinality(Expected)
<1> DEFINE K == cache.keys
           A == Changed(state, "Added")
           R == Changed(state, "Removed")
<1>1. K \subseteq Docs /\ A \subseteq Docs /\ R \subseteq Docs
  BY ChangedType DEF TypeOK, Caches
<1>2. IsFiniteSet(K) /\ IsFiniteSet(A) /\ IsFiniteSet(R)
  BY <1>1, DocsAssumption, FS_Subset
<1>3. R \subseteq K /\ A \cap K = {}
  BY DEF ChangesOK, Fits, Changed
<1> HIDE DEF K, A, R
<1>4. /\ IsFiniteSet(K \ R) /\ Cardinality(K \ R) = Cardinality(K) - Cardinality(K \cap R)
      /\ K \cap R = R
  BY <1>2, <1>3, FS_Difference
<1>5. /\ Cardinality((K \ R) \cup A) =
           Cardinality(K \ R) + Cardinality(A) - Cardinality((K \ R) \cap A)
      /\ (K \ R) \cap A = {}
  BY <1>2, <1>3, <1>4, FS_Union
<1>6. Cardinality((K \ R) \cap A) = 0 /\ Cardinality(K \cap R) = Cardinality(R)
  BY <1>4, <1>5, FS_EmptySet
<1>7. Cardinality(K) \in Nat /\ Cardinality(A) \in Nat /\ Cardinality(R) \in Nat
      /\ Cardinality(K \ R) \in Nat
  BY <1>2, <1>4, FS_CardinalityType
<1>8. Expected = (K \ R) \cup A
  BY DEF Expected, K, A, R
<1>9. CurrentDocumentCount(state, cache.keys) = Cardinality(K) + Cardinality(A) - Cardinality(R)
  BY DEF CurrentDocumentCount, K, A, R
<1>10. Cardinality((K \ R) \cup A) = Cardinality(K) - Cardinality(R) + Cardinality(A)
  BY <1>4, <1>5, <1>6, <1>7
<1> QED
  BY <1>7, <1>8, <1>9, <1>10

\* What a count at the head finds.
LEMMA CountFinds ==
  ASSUME TypeOK, ChangesOK, responses # <<>>, LiveFilter(1), NEW v \in Versions, FilterOK(1, v)
  PROVE  /\ Expected = ContentAt(data) \cup ContentAt(v)
         /\ ContentAt(data) \subseteq ContentAt(v) <=>
              CurrentDocumentCount(state, cache.keys) = responses[1].count
         /\ responses[2].token = v
<1>1. 1 \in 1..Len(responses) /\ Live(responses, 1) /\ responses[1].kind = "filter"
  BY DEF LiveFilter
<1>2. ASSUME NEW d \in Docs PROVE d \in Expected <=> d \in ContentAt(data) \cup ContentAt(v)
  <2>1. Silent(responses, d, 0, 1) /\ ~Found(responses, d, 1)
    <3>1. 0 + 1..1 = {1} /\ 1..1 = {1}
      OBVIOUS
    <3>2. ~Says(responses[1], d)
      BY <1>1 DEF Says
    <3> QED
      BY <1>1, <3>1, <3>2 DEF Silent, Found
  <2> QED
    BY <2>1 DEF FilterOK, Has
<1>3. ContentAt(data) \in SUBSET Docs /\ ContentAt(v) \in SUBSET Docs /\ Expected \in SUBSET Docs
  BY VersionTypes, ChangedType DEF TypeOK, Caches, Expected
<1>4. Expected = ContentAt(data) \cup ContentAt(v)
  BY <1>2, <1>3
<1>5. CurrentDocumentCount(state, cache.keys) = responses[1].count
        => ContentAt(data) \subseteq ContentAt(v)
  <2>1. IsFiniteSet(Expected) /\ ContentAt(v) \in SUBSET Expected
    BY <1>3, <1>4, DocsAssumption, FS_Subset
  <2>2. Cardinality(Expected) = Cardinality(ContentAt(v)) => Expected = ContentAt(v)
    BY <2>1, FS_Subset
  <2> QED
    BY <1>4, <2>2, CountIs DEF FilterOK
<1>6. ContentAt(data) \subseteq ContentAt(v)
        => CurrentDocumentCount(state, cache.keys) = responses[1].count
  <2>1. ContentAt(data) \subseteq ContentAt(v) => Expected = ContentAt(v)
    BY <1>4
  <2> QED
    BY <2>1, CountIs DEF FilterOK
<1>7. responses[2].token = v
  BY DEF FilterOK, SnapshotNext, Token
<1> QED
  BY <1>4, <1>5, <1>6, <1>7

LEMMA FilterLive ==
  ASSUME TypeOK, ConnectionOK, ChangesOK, AcksOK, errors = 0, Store, Following, Waiting,
         Collected, requests = <<>> => Call, OnExistenceFilter
  PROVE  Store' /\ Following' /\ Waiting' /\ Collected' /\ (requests' = <<>> => Call')
<1>1. Receive("filter") /\ Quiet /\ UNCHANGED updates
  BY DEF OnExistenceFilter
<1>2. CASE state.acks # 0
  BY <1>2, EarlyLive
<1>3. CASE state.acks = 0
  <2>1. /\ responses # <<>> /\ responses' = Tail(responses) /\ server' = server
        /\ Head(responses) = responses[1] /\ Head(responses).kind = "filter"
        /\ 1 \in 1..Len(responses) /\ Ensure(state) = state /\ state.held = "yes"
        /\ IsActive(state) /\ view.keys = cache.keys /\ listening = "yes"
        /\ requests = <<>> /\ Live(responses, 1) /\ Call
        /\ UNCHANGED <<stream, listening, token, view, data, cache, requests, errors>>
    BY <1>1, <1>3, Heard DEF ChangesOK, Quiet
  <2>2. LiveFilter(1)
    BY <2>1 DEF LiveFilter
  <2>3. PICK v \in Versions : FilterOK(1, v)
    BY <2>1, <2>2 DEF Call, Filters
  <2>4. /\ Expected = ContentAt(data) \cup ContentAt(v) /\ responses[2].token = v
        /\ ContentAt(data) \subseteq ContentAt(v) <=>
             CurrentDocumentCount(state, cache.keys) = responses[1].count
    BY <2>1, <2>2, <2>3, CountFinds
  <2>5. CASE CurrentDocumentCount(state, cache.keys) = responses[1].count
    <3>1. state' = state /\ UNCHANGED mismatch
      BY <2>1, <2>5 DEF OnExistenceFilter
    <3>2. mismatch = "no"
      BY <2>3 DEF FilterOK
    <3>3. ~IsAnswer(Head(responses))
      BY <2>1 DEF IsAnswer
    <3> QED
      BY <1>1, <1>3, <2>1, <2>4, <2>5, <3>1, <3>2, <3>3, IdleLive
  <2>6. CASE CurrentDocumentCount(state, cache.keys) # responses[1].count
    <3>1. state' = ResetTarget(state, cache.keys) /\ mismatch' = "yes"
      BY <2>1, <2>6 DEF OnExistenceFilter
    <3>2. /\ state'.held = "yes" /\ state'.acks = 0
          /\ state'.docs = [d \in cache.keys |-> "Removed"]
      BY <3>1 DEF ResetTarget, NewState
    <3>3. Store' /\ Following'
      BY <2>1 DEF Store, Following
    <3>4. Waiting'
      <4>1. ~IsAnswer(Head(responses))
        BY <2>1 DEF IsAnswer
      <4> QED
        BY <1>1, <1>3, <2>1, <3>2, <4>1, QuietLive
    <3>5. SnapshotNext(responses', 1, v)
      <4>1. SnapshotNext(responses, 1 + 1, v)
        BY <2>3 DEF FilterOK
      <4> QED
        BY <2>1, <4>1, NextShifted
    <3>6. cache.keys = ContentAt(data) /\ data \in Marks /\ v \in Marks /\ cache.last \in Marks
          /\ data <= v
      BY <2>1, <2>3, VersionTypes DEF Following, FilterOK, TypeOK, Caches
    <3>7. cache.keys # {}
      BY <2>4, <2>6, <3>6
    <3>8. v > cache.last
      <4> SUFFICES ASSUME ~(v > cache.last) PROVE FALSE
        OBVIOUS
      <4>1. v \in data..cache.last
        BY <3>6 DEF Marks
      <4>2. cache.keys \subseteq ContentAt(v)
        BY <2>1, <4>1 DEF Following
      <4> QED
        BY <2>4, <2>6, <3>6, <4>2
    <3>9. Changed(state', "Added") = {} /\ Changed(state', "Removed") = cache.keys
      BY <3>2 DEF Changed
    <3>10. Expected' = {}
      BY <2>1, <3>9 DEF Expected
    <3>11. Collected'
      <4>1. updates'.gone = {} /\ updates'.found = updates.found
        BY <1>1, <2>3 DEF FilterOK
      <4> QED
        BY <2>1, <3>2, <3>5, <3>7, <3>8, <3>9, <3>10, <4>1 DEF Collected
    <3>12. server.state # "fresh"
      BY <2>1 DEF Call, Fresh
    <3>13. Filters'
      <4>1. ASSUME NEW f \in 2..Len(responses), LiveFilter(f) PROVE FALSE
        <5>1. f \in 1..Len(responses) /\ 1 \in 1..f - 1
          OBVIOUS
        <5>2. PICK w \in Versions : FilterOK(f, w)
          BY <2>1, <4>1, <5>1 DEF Call, Filters
        <5> QED
          BY <2>1, <5>1, <5>2 DEF FilterOK
      <4>2. /\ Len(responses) \in Nat \ {0} /\ Len(responses') = Len(responses) - 1
            /\ \A k \in 1..Len(responses) - 1 : LiveFilter(k)' <=> LiveFilter(k + 1)
        BY <2>1, Shifted
      <4>3. \A k \in 1..Len(responses) - 1 : k + 1 \in 2..Len(responses)
        BY <4>2
      <4> QED
        BY <4>1, <4>2, <4>3 DEF Filters
    <3>14. Pairs'
      BY <2>1, PairShift DEF Call
    <3>15. Call'
      BY <2>1, <3>1, <3>12, <3>13, <3>14 DEF Call, Fresh, Snapshots, Good
    <3> QED
      BY <3>3, <3>4, <3>11, <3>15
  <2> QED
    BY <2>5, <2>6
<1> QED
  BY <1>2, <1>3

LEMMA SnapshotHeard ==
  ASSUME TypeOK, ConnectionOK, AcksOK, errors = 0, Following, Waiting, OnSnapshot
  PROVE  /\ Receive("snapshot") /\ Head(responses).token \in Versions
         /\ responses[1] = Token("snapshot", Head(responses).token)
         /\ Head(responses).kind = "snapshot" /\ ~IsAnswer(Head(responses))
         /\ UNCHANGED <<listening, errors>>
<1>1. Receive("snapshot") /\ UNCHANGED <<listening, errors>>
  BY DEF OnSnapshot
<1>2. /\ Head(responses) = responses[1] /\ Head(responses) \in Responses
      /\ Head(responses).kind = "snapshot"
  BY <1>1, Heard
<1>3. Head(responses) \in OfTarget
  BY <1>2 DEF Responses, Answer, AnswerKinds, Sent, OfDoc, DocKinds, Filter, Reset
<1>4. /\ Head(responses).token \in Versions
      /\ Head(responses) = Token("snapshot", Head(responses).token)
  BY <1>2, <1>3 DEF OfTarget, Token
<1> QED
  BY <1>1, <1>2, <1>4 DEF IsAnswer

\* A snapshot for a target that waits for answers.
LEMMA EarlySnapshotLive ==
  ASSUME TypeOK, ConnectionOK, AcksOK, errors = 0, Store, Following, Waiting, Collected,
         requests = <<>> => Call, OnSnapshot, state.acks # 0
  PROVE  Store' /\ Following' /\ Waiting' /\ Collected' /\ (requests' = <<>> => Call')
<1> DEFINE v == Head(responses).token
<1>1. /\ Receive("snapshot") /\ v \in Versions /\ Head(responses).kind = "snapshot"
      /\ ~IsAnswer(Head(responses)) /\ UNCHANGED <<listening, errors>>
  BY SnapshotHeard
<1>2. /\ responses # <<>> /\ responses' = Tail(responses) /\ server' = server
      /\ ~IsActive(state) /\ listening = "yes" /\ state.held = "yes"
  BY <1>1, Heard
<1>3. state.docs = <<>> /\ updates = NoUpdates /\ mismatch = "no" /\ data = 0
  BY <1>1, <1>2 DEF Waiting
<1> HIDE DEF v
<1>4. CASE v >= cache.last
  <2>1. RaiseWatchSnapshot(state, v)
    BY <1>2, <1>4 DEF OnSnapshot, v
  <2>2. /\ cache' = [cache EXCEPT !.docs = (@ \cup updates.found) \ updates.gone, !.last = v]
        /\ UNCHANGED <<data, view, token, state, requests, stream>>
        /\ mismatch' = "no" /\ updates' = NoUpdates
    BY <1>2, <1>3, <2>1 DEF RaiseWatchSnapshot, ApplyToStore, ApplyToView
  <2>3. /\ cache'.keys = cache.keys /\ cache'.token = cache.token /\ cache'.last = v
        /\ cache'.docs = cache.docs
    BY <1>3, <2>2 DEF TypeOK, Caches, NoUpdates
  <2>4. cache.keys = {}
    BY <1>2, <1>3 DEF Following, ContentAt
  <2>5. v \in Nat /\ cache.last \in Nat /\ cache.token \in Nat
    BY <1>1, VersionTypes, ZeroMark DEF TypeOK, Caches
  <2>6. Store'
    <3>1. cache'.keys = ContentAt(cache'.token)
      BY <2>3 DEF Store, ContentAt
    <3>2. cache'.token <= cache'.last
      BY <1>4, <2>3, <2>5 DEF Store
    <3> QED
      BY <2>3, <2>4, <3>1, <3>2 DEF Store
  <2>7. Following'
    <3>1. data' = 0 /\ token' = 0 /\ listening' = "yes" /\ view' = view
      BY <1>1, <1>2, <1>3, <2>2 DEF Following
    <3>2. cache'.keys = ContentAt(data')
      BY <2>3, <2>4, <3>1 DEF ContentAt
    <3>3. data' <= cache'.last
      BY <2>3, <2>5, <3>1
    <3>4. view'.current = "yes" => cache'.docs # {}
      BY <1>2, <1>3, <2>3, <3>1 DEF Following
    <3> QED
      BY <2>3, <2>4, <3>1, <3>2, <3>3, <3>4 DEF Following
  <2>8. Waiting'
    BY <1>1, <1>2, <1>3, <2>2, QuietLive
  <2>9. Expected' = Expected /\ Changed(state, "Added")' = Changed(state, "Added")
    BY <2>2, <2>3 DEF Expected, Changed
  <2>10. Collected'
    BY <1>3, <2>2, <2>9 DEF Collected
  <2>11. ASSUME requests' = <<>> PROVE Call'
    <3>1. requests = <<>> /\ Call
      BY <2>2, <2>11
    <3>2. ~Live(responses, 1)
      BY <3>1, ActiveWhen
    <3>3. Effect
      BY <2>9, <3>2 DEF Effect
    <3> QED
      BY <1>2, <1>3, <2>2, <2>3, <3>1, <3>2, <3>3, CallShift DEF LiveFilter, NoUpdates
  <2> QED
    BY <2>6, <2>7, <2>8, <2>10, <2>11
<1>5. CASE ~(v >= cache.last)
  <2>1. Quiet /\ state' = state /\ UNCHANGED <<mismatch, updates>>
    BY <1>1, <1>2, <1>5 DEF OnSnapshot, Quiet, v
  <2> QED
    BY <1>1, <1>2, <2>1, IdleLive
<1> QED
  BY <1>4, <1>5

\* What a snapshot for a target that waits for nothing finds.
LEMMA SnapshotFinds ==
  ASSUME TypeOK, ConnectionOK, ChangesOK, AcksOK, errors = 0, Following, Waiting, Collected,
         requests = <<>> => Call, OnSnapshot, state.acks = 0
  PROVE  /\ responses # <<>> /\ responses' = Tail(responses) /\ server' = server
         /\ requests = <<>> /\ Live(responses, 1) /\ Call /\ server.state # "fresh"
         /\ listening = "yes" /\ state.held = "yes" /\ IsActive(state) /\ token = data
         /\ view.keys = cache.keys /\ IsOpen(stream)
         /\ \A f : ~LiveFilter(f)
         /\ Head(responses).token \in Versions /\ Marked(1, Head(responses).token)
         /\ mismatch = "yes" => Head(responses).token > cache.last
         /\ 1 \in 1..Len(responses)
<1> DEFINE v == Head(responses).token
<1>1. /\ Receive("snapshot") /\ v \in Versions /\ Head(responses).kind = "snapshot"
      /\ responses[1] = Token("snapshot", v)
  BY SnapshotHeard
<1>2. /\ responses # <<>> /\ responses' = Tail(responses) /\ server' = server
      /\ Head(responses) = responses[1] /\ 1 \in 1..Len(responses)
      /\ requests = <<>> /\ Live(responses, 1) /\ Call
      /\ listening = "yes" /\ state.held = "yes" /\ IsActive(state) /\ token = data
      /\ IsOpen(stream)
  BY <1>1, Heard
<1>3. server.state # "fresh"
  BY <1>2 DEF Call, Fresh
<1>4. ASSUME NEW f, LiveFilter(f) PROVE FALSE
  <2>1. f \in 1..Len(responses) /\ f # 1
    BY <1>1, <1>2, <1>4 DEF LiveFilter
  <2>2. PICK w \in Versions : FilterOK(f, w)
    BY <1>2, <1>4, <2>1 DEF Call, Filters
  <2>3. 1 \in 1..f - 1
    BY <2>1
  <2> QED
    BY <1>1, <1>2, <2>2, <2>3 DEF FilterOK
<1>5. mismatch = "yes" => v > cache.last
  BY <1>1, <1>2, NextIs DEF Collected
<1>6. Marked(1, v)
  BY <1>1, <1>2 DEF Marked
<1>7. view.keys = cache.keys
  BY <1>2 DEF ChangesOK
<1> QED
  BY <1>1, <1>2, <1>3, <1>4, <1>5, <1>6, <1>7

\* A snapshot that is older than what the client has.
LEMMA OldSnapshotLive ==
  ASSUME TypeOK, ConnectionOK, ChangesOK, AcksOK, errors = 0, Store, Following, Waiting,
         Collected, requests = <<>> => Call, OnSnapshot, state.acks = 0,
         ~(Head(responses).token >= cache.last)
  PROVE  Store' /\ Following' /\ Waiting' /\ Collected' /\ (requests' = <<>> => Call')
<1> DEFINE v == Head(responses).token
<1>1. /\ Receive("snapshot") /\ ~IsAnswer(Head(responses)) /\ UNCHANGED <<listening, errors>>
      /\ v \in Versions /\ IsActive(state) /\ state.held = "yes" /\ ~LiveFilter(1)
      /\ mismatch = "yes" => v > cache.last
  BY SnapshotHeard, SnapshotFinds
<1>2. /\ state' = UpdateResumeToken(state, v)
      /\ UNCHANGED <<stream, token, mismatch, updates, view, data, cache, requests>>
  BY <1>1 DEF OnSnapshot
<1>3. v \in Nat /\ cache.last \in Nat
  BY <1>1, VersionTypes, ZeroMark DEF TypeOK, Caches
<1>4. mismatch # "yes"
  BY <1>1, <1>3
<1> HIDE DEF v
<1>5. state'.held = "yes" /\ state'.docs = state.docs /\ state'.acks = state.acks
  BY <1>1, <1>2 DEF UpdateResumeToken, TypeOK, TargetStates
<1>6. Quiet
  BY <1>1, <1>2 DEF Quiet
<1> QED
  BY <1>1, <1>2, <1>4, <1>5, <1>6, IdleLive

\* What a snapshot does to a target that waits for nothing.
LEMMA SnapshotTakes ==
  ASSUME TypeOK, ConnectionOK, ChangesOK, AcksOK, errors = 0, Following, Waiting, Collected,
         requests = <<>> => Call, OnSnapshot, state.acks = 0,
         NEW v, v = Head(responses).token, v >= cache.last
  PROVE  /\ v \in Versions /\ v \in Nat \ {0}
         /\ data' = (IF mismatch = "yes" THEN 0 ELSE v) /\ token' = data'
         /\ \/ cache'.token = data'
            \/ /\ data # 0 /\ DOMAIN state.docs = {}
               /\ cache'.token = cache.token /\ mismatch = "no"
         /\ cache'.keys = Expected /\ cache'.last = v
         /\ cache'.docs = (cache.docs \cup updates.found) \ updates.gone
         /\ view'.current = state.current
         /\ state'.held = "yes" /\ state'.docs = <<>>
         /\ mismatch' = "no" /\ updates' = NoUpdates
         /\ mismatch = "no" => state'.acks = 0 /\ UNCHANGED <<requests, stream>>
         /\ mismatch = "yes" => requests' = <<Unwatch, Watch(0)>>
<1> DEFINE s == UpdateResumeToken(state, v)
<1>1. /\ v \in Versions /\ IsActive(state) /\ state.held = "yes" /\ token = data
      /\ requests = <<>> /\ listening = "yes" /\ listening' = "yes"
  BY SnapshotHeard, SnapshotFinds
<1>2. v \in Nat \ {0}
  BY <1>1 DEF Versions
<1>3. RaiseWatchSnapshot(s, v)
  BY <1>1 DEF OnSnapshot
<1>4. /\ s = [state EXCEPT !.token = v, !.changed = "yes"] /\ s \in TargetStates
      /\ s.token = v /\ s.changed = "yes" /\ s.held = "yes" /\ s.acks = 0
      /\ s.docs = state.docs /\ s.current = state.current
  <2>1. s = [state EXCEPT !.token = v, !.changed = "yes"] /\ v \in Marks
    BY <1>1, <1>2, VersionTypes DEF UpdateResumeToken
  <2> HIDE DEF s
  <2> QED
    BY <1>1, <2>1 DEF TypeOK, TargetStates, Flags
<1> HIDE DEF s
<1>5. s.held = "yes" /\ IsActive(s) /\ s.changed = "yes"
  BY <1>1, <1>4 DEF IsActive, IsPending
<1>6. \A k : Changed(s, k) = Changed(state, k)
  BY <1>4 DEF Changed
<1>7. mismatch \in {"yes", "no"}
  BY DEF TypeOK, Flags
<1>8. NewToken(s) = IF mismatch = "yes" THEN 0 ELSE v
  BY <1>2, <1>4 DEF NewToken
<1>9. /\ ApplyToStore(s, v, TRUE) /\ ApplyToView(s, TRUE)
      /\ mismatch' = "no" /\ updates' = NoUpdates
      /\ mismatch = "yes" => Rewatch(ClearPendingChanges(s))
      /\ mismatch = "no" =>
           token' = s.token /\ state' = ClearPendingChanges(s) /\ UNCHANGED <<requests, stream>>
  BY <1>1, <1>2, <1>3, <1>4, <1>5, <1>7 DEF RaiseWatchSnapshot
<1>10. data' = NewToken(s)
  BY <1>9 DEF ApplyToStore
<1>11. PICK t \in (IF data = 0 \/ DOMAIN s.docs # {} THEN {NewToken(s)}
                   ELSE IF NewToken(s) = 0 THEN {cache.token} ELSE {NewToken(s), cache.token}) :
         cache' = [[cache EXCEPT !.docs = (@ \cup updates.found) \ updates.gone, !.last = v]
                     EXCEPT !.keys = (cache.keys \ Changed(s, "Removed")) \cup Changed(s, "Added"),
                            !.token = t]
  BY <1>9 DEF ApplyToStore
<1>12. /\ cache'.keys = Expected /\ cache'.token = t /\ cache'.last = v
       /\ cache'.docs = (cache.docs \cup updates.found) \ updates.gone
  BY <1>6, <1>11 DEF TypeOK, Caches, Expected
<1>13. \/ cache'.token = data'
       \/ /\ data # 0 /\ DOMAIN state.docs = {}
          /\ cache'.token = cache.token /\ mismatch = "no"
  <2>1. mismatch = "yes" => DOMAIN s.docs # {}
    BY <1>4 DEF Collected
  <2> QED
    BY <1>4, <1>7, <1>8, <1>10, <1>11, <1>12, <2>1
<1>14. view'.current = state.current
  BY <1>4, <1>9 DEF ApplyToView
<1>15. /\ ClearPendingChanges(s).held = "yes" /\ ClearPendingChanges(s).docs = <<>>
       /\ ClearPendingChanges(s).acks = 0 /\ ClearPendingChanges(s) \in TargetStates
  BY <1>4, StateTypes DEF ClearPendingChanges, TargetStates
<1>16. CASE mismatch = "no"
  BY <1>1, <1>2, <1>4, <1>8, <1>9, <1>10, <1>12, <1>13, <1>14, <1>15, <1>16
<1>17. CASE mismatch = "yes"
  <2>1. /\ token' = 0 /\ requests' = requests \o <<Unwatch, Watch(0)>>
        /\ state' = RecordPendingTargetRequest(RecordPendingTargetRequest(ClearPendingChanges(s)))
    BY <1>9, <1>17 DEF Rewatch
  <2>2. requests' = <<Unwatch, Watch(0)>>
    BY <1>1, <2>1
  <2>3. state'.held = "yes" /\ state'.docs = <<>>
    BY <1>15, <2>1 DEF RecordPendingTargetRequest, Ensure, TargetStates
  <2> QED
    BY <1>1, <1>2, <1>8, <1>9, <1>10, <1>12, <1>13, <1>14, <1>17, <2>1, <2>2, <2>3
<1> QED
  BY <1>7, <1>16, <1>17

\* A snapshot after a count that did not match starts the target over.
LEMMA RestartLive ==
  ASSUME TypeOK, ConnectionOK, ChangesOK, AcksOK, errors = 0, Store, Following, Waiting,
         Collected, requests = <<>> => Call, OnSnapshot, state.acks = 0,
         Head(responses).token >= cache.last, mismatch = "yes"
  PROVE  Store' /\ Following' /\ Waiting' /\ Collected' /\ (requests' = <<>> => Call')
<1>1. PICK v : v = Head(responses).token
  OBVIOUS
<1>2. /\ v \in Nat /\ data' = 0 /\ token' = 0 /\ cache'.token = 0
      /\ cache'.keys = Expected /\ cache'.last = v
      /\ cache'.docs = (cache.docs \cup updates.found) \ updates.gone
      /\ state'.held = "yes" /\ state'.docs = <<>>
      /\ mismatch' = "no" /\ updates' = NoUpdates
      /\ requests' = <<Unwatch, Watch(0)>>
  BY <1>1, SnapshotTakes
<1>3. /\ state.docs = [d \in cache.keys |-> "Removed"]
      /\ cache.keys # {} /\ updates.gone = {}
  BY DEF Collected
<1>4. Changed(state, "Added") = {} /\ Changed(state, "Removed") = cache.keys
  BY <1>3 DEF Changed
<1>5. cache'.keys = {}
  BY <1>2, <1>4 DEF Expected
<1>6. cache'.docs # {}
  BY <1>2, <1>3 DEF Store
<1>7. listening' = "yes"
  BY SnapshotHeard, SnapshotFinds
<1>8. Store'
  BY <1>2, <1>5 DEF Store, ContentAt
<1>9. Following'
  <2>1. cache'.keys = ContentAt(data')
    BY <1>2, <1>5 DEF ContentAt
  <2> QED
    BY <1>2, <1>5, <1>6, <1>7, <2>1 DEF Following
<1>10. Waiting'
  <2>1. requests' # <<>> /\ Len(requests') = 2 /\ requests'[2] = Watch(token')
    BY <1>2
  <2> QED
    BY <1>2, <2>1 DEF Waiting
<1>11. Collected'
  BY <1>2 DEF Collected, Changed, NoUpdates
<1> QED
  BY <1>2, <1>8, <1>9, <1>10, <1>11

\* A snapshot that is taken in: the target has what the query matched at v.
LEMMA TakenFinds ==
  ASSUME TypeOK, ConnectionOK, ChangesOK, AcksOK, errors = 0, Following, Waiting, Collected,
         requests = <<>> => Call, OnSnapshot, state.acks = 0, mismatch = "no",
         NEW v, v = Head(responses).token
  PROVE  /\ Expected = ContentAt(v)
         /\ \A d \in cache.keys \ DOMAIN state.docs : \A w \in data..v : d \in ContentAt(w)
<1>1. /\ Call /\ Marked(1, v) /\ 1 \in 1..Len(responses) /\ v \in Marks
      /\ \A f : ~LiveFilter(f)
      /\ responses[1] = Token("snapshot", v)
  BY SnapshotHeard, SnapshotFinds, VersionTypes
<1>2. SnapshotOK(1, v)
  <2>1. Good
    BY <1>1 DEF Good
  <2>2. 1 \in 0..Len(responses)
    BY <1>1
  <2> QED
    BY <1>1, <2>1, <2>2 DEF Call, Snapshots
<1>3. \A d : Silent(responses, d, 0, 1) /\ ~Found(responses, d, 1)
  <2>1. 0 + 1..1 = {1} /\ 1..1 = {1}
    OBVIOUS
  <2>2. \A d : ~Says(responses[1], d) /\ responses[1].kind # "found"
    BY <1>1 DEF Says, Token
  <2> QED
    BY <2>1, <2>2 DEF Silent, Found
<1>4. Expected \in SUBSET Docs /\ ContentAt(v) \in SUBSET Docs
  BY <1>1, VersionTypes, ChangedType DEF TypeOK, Caches, Expected
<1>5. \A d \in Docs : d \in Expected <=> d \in ContentAt(v)
  BY <1>2, <1>3 DEF SnapshotOK, Has
<1> QED
  BY <1>2, <1>3, <1>4, <1>5 DEF SnapshotOK

\* The messages under way then go on from v.
LEMMA TakenCall ==
  ASSUME TypeOK, ConnectionOK, ChangesOK, AcksOK, errors = 0, Following, Waiting, Collected,
         requests = <<>> => Call, OnSnapshot, state.acks = 0, mismatch = "no", TypeOK',
         NEW v, v = Head(responses).token, v >= cache.last
  PROVE  Call'
<1>1. /\ responses # <<>> /\ responses' = Tail(responses) /\ server' = server
      /\ Live(responses, 1) /\ Call /\ server.state # "fresh" /\ v \in Versions
      /\ 1 \in 1..Len(responses) /\ \A f : ~LiveFilter(f)
      /\ responses[1] = Token("snapshot", v)
  BY SnapshotHeard, SnapshotFinds
<1>2. /\ data' = v /\ cache'.keys = Expected /\ state'.docs = <<>>
      /\ mismatch' = "no" /\ updates' = NoUpdates
  BY SnapshotTakes
<1>3. Expected' = cache'.keys
  BY <1>2 DEF Expected, Changed
<1>4. \A d : ~Says(Head(responses), d)
  BY <1>1, Shifted DEF Says, Token
<1>5. Effect
  BY <1>2, <1>3, <1>4 DEF Effect
<1>6. Fresh'
  BY <1>1 DEF Fresh
<1>7. Filters'
  BY <1>1, <1>5, FilterShift DEF Call
<1>8. Pairs'
  BY <1>1, PairShift DEF Call
<1>9. Snapshots'
  <2>1. /\ responses \in Seq(Responses)
        /\ Len(responses) \in Nat \ {0} /\ Len(responses') = Len(responses) - 1
        /\ \A j \in 0..Len(responses) - 1, w \in Marks : Marked(j, w)' => Marked(j + 1, w)
    BY <1>1, Shifted
  <2> SUFFICES ASSUME NEW j \in 0..Len(responses'), NEW w \in Marks, Marked(j, w)'
               PROVE  SnapshotOK(j, w)'
    BY DEF Snapshots
  <2>2. j \in 0..Len(responses) - 1 /\ j + 1 \in 0..Len(responses) /\ 1 <= j + 1 /\ 0 \in 0..j
    BY <2>1
  <2>3. Marked(j + 1, w)
    BY <2>1, <2>2
  <2>4. PairOK(1, v, j + 1, w)
    BY <1>1, <2>2, <2>3 DEF Call, Pairs
  <2>5. Good
    BY <1>1 DEF Good
  <2>6. SnapshotOK(j + 1, w)
    BY <1>1, <2>2, <2>3, <2>5 DEF Call, Snapshots
  <2>7. ASSUME NEW d \in Docs
        PROVE  /\ Has(responses', Expected', d, j) <=> Has(responses, Expected, d, j + 1)
               /\ Silent(responses', d, 0, j) <=> Silent(responses, d, 0 + 1, j + 1)
    BY <1>1, <1>5, <2>1, <2>2, TailHas DEF Effect
  <2>8. ASSUME NEW d \in cache'.keys \ DOMAIN state'.docs, Silent(responses', d, 0, j)
        PROVE  \A x \in data'..w : d \in ContentAt(x)
    <3>1. d \in Docs
      BY DEF TypeOK, Caches
    <3>2. Silent(responses, d, 1, j + 1)
      BY <2>7, <2>8, <3>1
    <3>3. d \in ContentAt(v)
      BY <1>2, TakenFinds
    <3> QED
      BY <1>2, <2>4, <3>2, <3>3 DEF PairOK
  <2>9. \A d \in Docs : Has(responses', Expected', d, j) <=> d \in ContentAt(w)
    BY <2>6, <2>7 DEF SnapshotOK
  <2> QED
    BY <2>8, <2>9 DEF SnapshotOK
<1> QED
  BY <1>6, <1>7, <1>8, <1>9 DEF Call

LEMMA TakenLive ==
  ASSUME TypeOK, ConnectionOK, ChangesOK, AcksOK, errors = 0, Store, Following, Waiting,
         Collected, requests = <<>> => Call, OnSnapshot, state.acks = 0, TypeOK',
         Head(responses).token >= cache.last, mismatch = "no"
  PROVE  Store' /\ Following' /\ Waiting' /\ Collected' /\ (requests' = <<>> => Call')
<1>1. PICK v : v = Head(responses).token
  OBVIOUS
<1>2. /\ v \in Nat \ {0} /\ data' = v /\ token' = v /\ v >= cache.last
      /\ \/ cache'.token = v
         \/ data # 0 /\ DOMAIN state.docs = {} /\ cache'.token = cache.token
      /\ cache'.keys = Expected /\ cache'.last = v
      /\ cache'.docs = (cache.docs \cup updates.found) \ updates.gone
      /\ state'.held = "yes" /\ state'.docs = <<>> /\ state'.acks = 0
      /\ mismatch' = "no" /\ updates' = NoUpdates
      /\ requests' = <<>>
  BY <1>1, SnapshotTakes, SnapshotFinds
<1>3. /\ Expected = ContentAt(v)
      /\ \A d \in cache.keys \ DOMAIN state.docs : \A w \in data..v : d \in ContentAt(w)
  BY <1>1, TakenFinds
<1>4. /\ listening = "yes" /\ listening' = "yes" /\ Live(responses, 1)
      /\ responses # <<>> /\ responses' = Tail(responses) /\ server' = server
  BY SnapshotHeard, SnapshotFinds
<1>5. /\ data \in Nat /\ data <= cache.last /\ cache.last \in Nat
      /\ cache.token \in Nat /\ cache.token <= cache.last
  BY <1>4, ZeroMark DEF TypeOK, Caches, Following, Store
<1>6. Store'
  <2>1. cache'.keys \subseteq cache'.docs
    BY <1>2 DEF Store, Collected, Expected
  <2>2. CASE cache'.token = v
    <3>1. v..v = {v}
      BY <1>2
    <3> QED
      BY <1>2, <1>3, <2>1, <2>2, <3>1 DEF Store
  <2>3. CASE data # 0 /\ DOMAIN state.docs = {} /\ cache'.token = cache.token
    <3>1. cache'.keys = cache.keys
      BY <1>2, <2>3 DEF Expected, Changed
    <3>2. cache'.token <= cache'.last
      BY <1>2, <1>5, <2>3
    <3>3. ASSUME NEW w \in cache.token..v PROVE cache.keys \subseteq ContentAt(w)
      <4>1. CASE w <= cache.last
        BY <1>5, <4>1 DEF Store
      <4>2. CASE ~(w <= cache.last)
        <5>1. w \in data..v
          BY <1>2, <1>5, <4>2
        <5> QED
          BY <1>3, <2>3, <5>1
      <4> QED
        BY <4>1, <4>2
    <3> QED
      BY <1>2, <2>1, <2>3, <3>1, <3>2, <3>3 DEF Store
  <2> QED
    BY <1>2, <2>2, <2>3
<1>7. Following'
  <2>1. v..v = {v}
    BY <1>2
  <2> QED
    BY <1>2, <1>3, <1>4, <2>1 DEF Following
<1>8. Waiting'
  <2>1. ASSUME NEW k \in 1..Len(responses') PROVE ~IsAnswer(responses'[k])
    <3>1. /\ responses'[k] = responses[k + 1] /\ k + 1 \in 1..Len(responses)
      BY <1>4, Shifted
    <3> QED
      BY <1>4, <3>1 DEF Live, IsAnswer
  <2> QED
    BY <1>2, <2>1 DEF Waiting
<1>9. Collected'
  BY <1>2 DEF Collected, Changed, NoUpdates
<1>10. Call'
  BY <1>1, <1>2, TakenCall
<1> QED
  BY <1>6, <1>7, <1>8, <1>9, <1>10

-----------------------------------------------------------------------------
(* The invariant holds *)

LEMMA SnapshotLive ==
  ASSUME TypeOK, ConnectionOK, ChangesOK, AcksOK, errors = 0, Store, Following, Waiting,
         Collected, requests = <<>> => Call, OnSnapshot, TypeOK'
  PROVE  Store' /\ Following' /\ Waiting' /\ Collected' /\ (requests' = <<>> => Call')
<1>1. CASE state.acks # 0
  BY <1>1, EarlySnapshotLive
<1>2. CASE state.acks = 0
  <2>1. mismatch \in {"yes", "no"}
    BY DEF TypeOK, Flags
  <2>2. CASE ~(Head(responses).token >= cache.last)
    BY <1>2, <2>2, OldSnapshotLive
  <2>3. CASE Head(responses).token >= cache.last /\ mismatch = "yes"
    BY <1>2, <2>3, RestartLive
  <2>4. CASE Head(responses).token >= cache.last /\ mismatch = "no"
    BY <1>2, <2>4, TakenLive
  <2> QED
    BY <2>1, <2>2, <2>3, <2>4
<1> QED
  BY <1>1, <1>2

LEMMA MessageLive ==
  ASSUME TypeOK, ConnectionOK, ChangesOK, AcksOK, LiveOK, TypeOK', OnWatchStreamChange
  PROVE  LiveOK'
<1>1. PICK kind : Receive(kind)
  BY DEF OnWatchStreamChange, OnTargetAdded, OnTargetRemoved, OnTargetCurrent, OnTargetReset,
         OnDocumentFound, OnDocumentGone, OnExistenceFilter, OnTargetError, OnSnapshot
<1>2. stops' = stops /\ errors' = errors
  BY DEF OnWatchStreamChange, OnTargetAdded, OnTargetRemoved, OnTargetCurrent, OnTargetReset,
         OnDocumentFound, OnDocumentGone, OnExistenceFilter, OnTargetError, OnSnapshot,
         Receive, Quiet
<1> SUFFICES ASSUME Steady
             PROVE  Store' /\ Following' /\ Waiting' /\ Collected' /\ (requests' = <<>> => Call')
  BY <1>2 DEF LiveOK, Steady
<1>3. errors = 0 /\ Store /\ Following /\ Waiting /\ Collected /\ (requests = <<>> => Call)
  BY DEF Steady, LiveOK
<1>4. CASE OnTargetError
  <2>1. \A k : Receive(k) => k # "error"
    BY <1>3, Heard
  <2> QED
    BY <1>4, <2>1 DEF OnTargetError
<1>5. CASE OnTargetAdded \/ OnTargetRemoved
  BY <1>3, <1>5, AnswerLive
<1>6. CASE OnTargetCurrent
  BY <1>3, <1>6, CurrentLive
<1>7. CASE OnTargetReset
  BY <1>3, <1>7, ResetLive
<1>8. CASE OnDocumentFound
  BY <1>3, <1>8, FoundLive
<1>9. CASE OnDocumentGone
  BY <1>3, <1>9, GoneLive
<1>10. CASE OnExistenceFilter
  BY <1>3, <1>10, FilterLive
<1>11. CASE OnSnapshot
  BY <1>3, <1>11, SnapshotLive
<1> QED
  BY <1>4, <1>5, <1>6, <1>7, <1>8, <1>9, <1>10, <1>11 DEF OnWatchStreamChange

LEMMA InitLive == Init => LiveOK
<1> SUFFICES ASSUME Init PROVE Store /\ Following /\ Waiting /\ Collected /\ Call
  BY DEF LiveOK
<1> USE DEF Init
<1>1. ~IsStarted(stream) /\ ~IsOpen(stream)
  BY DEF NewStream, IsStarted, IsOpen
<1>2. state.acks = 0 /\ state.docs = <<>>
  BY DEF Erased, NewState
<1>3. Store
  BY DEF Store, ContentAt
<1>4. Following
  BY <1>1 DEF Following
<1>5. Waiting
  BY <1>1, <1>2 DEF Waiting
<1>6. Collected
  BY <1>2 DEF Collected, Changed, NoUpdates
<1>7. Len(responses) = 0 /\ \A f : ~LiveFilter(f)
  BY DEF LiveFilter
<1>8. \A j, v : ~Marked(j, v)
  BY <1>7 DEF Marked, NoServer
<1>9. Fresh
  BY DEF Fresh, NoServer
<1>10. Call
  BY <1>7, <1>8, <1>9 DEF Call, Filters, LiveFilter, Snapshots, Pairs
<1> QED
  BY <1>3, <1>4, <1>5, <1>6, <1>10

LEMMA NextLive ==
  TypeOK /\ ConnectionOK /\ TrackerOK /\ ChangesOK /\ AcksOK /\ LiveOK
    /\ TypeOK' /\ ConnectionOK' /\ [Next]_vars
    => LiveOK'
<1> SUFFICES ASSUME TypeOK, ConnectionOK, TrackerOK, ChangesOK, AcksOK, LiveOK,
                    TypeOK', ConnectionOK', [Next]_vars
             PROVE  LiveOK'
  OBVIOUS
<1>1. CASE \/ Listen \/ StopListening \/ EnableNetwork \/ Connection \/ Faults
           \/ \E d \in Docs : LimboResolves(d)
  BY <1>1, OutsideLive
<1>2. CASE Server \/ QueryChanges
  BY <1>2, ServerLive
<1>3. CASE OnWatchStreamChange
  BY <1>3, MessageLive
<1>4. CASE UNCHANGED vars
  <2>1. /\ UNCHANGED <<stream, listening, token, state, mismatch, updates, view, data, cache>>
        /\ UNCHANGED <<requests, responses, server, stops, errors>>
    BY <1>4 DEF vars, client
  <2>2. Steady' <=> Steady
    BY <2>1 DEF Steady
  <2>3. (Store => Store') /\ (Following => Following') /\ (Waiting => Waiting')
    BY <2>1 DEF Store, Following, Waiting
  <2> QED
    BY <2>1, <2>2, <2>3, CallKept DEF LiveOK
<1> QED
  BY <1>1, <1>2, <1>3, <1>4 DEF Next

LEMMA LiveAlways == Spec => [](TypeOK /\ ChangesOK /\ LiveOK)
<1> DEFINE I == TypeOK /\ ConnectionOK /\ TrackerOK /\ ChangesOK /\ AcksOK /\ LiveOK
<1>1. Init => I
  BY InitType, InitConnection, NothingDue, InitLive DEF Init
<1>2. I /\ [Next]_vars => I'
  BY NextType, NextConnection, NextChanges, NextAcks, NextLive
<1>3. I => TypeOK /\ ChangesOK /\ LiveOK
  OBVIOUS
<1> QED
  BY <1>1, <1>2, <1>3, PTL DEF Spec

\* As long as nobody stops listening and no listen is rejected, the keys on disk
\* are those the server takes the client to have when it resumes, whenever the
\* process dies (LocalStore::ApplyRemoteEvent, ShouldPersistTargetData).
THEOREM ResumePointHolds == Spec => [](Steady => ResumePoint)
<1>1. TypeOK /\ ChangesOK /\ LiveOK => (Steady => ResumePoint)
  BY DEF LiveOK, Store, ResumePoint
<1> QED
  BY <1>1, LiveAlways, PTL

\* As long as nobody stops listening and no listen is rejected, what a listener
\* is told to be up to date is what the server had at the last snapshot's version.
THEOREM UpToDateHolds == Spec => [](Steady => UpToDate)
<1>1. TypeOK /\ ChangesOK /\ LiveOK => (Steady => UpToDate)
  <2> SUFFICES ASSUME TypeOK, ChangesOK, LiveOK, Steady, Synced
               PROVE  cache.docs = ContentAt(cache.last)
    BY DEF UpToDate
  <2>1. Store /\ Following /\ listening = "yes" /\ view.current = "yes"
    BY DEF LiveOK, Synced
  <2>2. view.keys = cache.keys
    BY <2>1 DEF ChangesOK
  <2>3. cache.docs = cache.keys /\ cache.keys = ContentAt(data)
    BY <2>1, <2>2 DEF Synced, Store, Following
  <2>4. data # 0
    BY <2>1, <2>3 DEF Following, ContentAt
  <2> QED
    BY <2>1, <2>3, <2>4 DEF Following
<1> QED
  BY <1>1, LiveAlways, PTL
=============================================================================
