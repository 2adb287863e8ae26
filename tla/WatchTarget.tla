----------------------------- MODULE WatchTarget -----------------------------
(***************************************************************************)
(* How a listener follows a query: the watch half of RemoteStore           *)
(* (remote/remote_store.cc) with its WatchChangeAggregator (TargetState),  *)
(* its OnlineStateTracker and its connection (Stream), what LocalStore and *)
(* SyncEngine do with a snapshot, and the server at the other end.  Each   *)
(* action is one task of the client's worker queue, with everything it     *)
(* calls.                                                                  *)
(*                                                                         *)
(* There is one query; targets share nothing but the connection.  The      *)
(* server's answer to the query is Contents[v] at version v, and a resume  *)
(* token is the version it was given at, 0 being no token.                 *)
(***************************************************************************)
EXTENDS Stream, OnlineStateTracker, TargetState, SequencesExt

CONSTANTS
  Docs,
  Contents,       \* what the query matches, version after version
  MaxLag,         \* by how many versions a server may be behind the client
  MaxStops,       \* bound: how often the user stops listening
  MaxFaults,      \* bound: faults and outside events
  MaxErrors       \* bound: how many of them are listens the server rejects

Versions == 1..Len(Contents)
ContentAt(v) == IF v = 0 THEN {} ELSE Contents[v]

ASSUME DocsAssumption == IsFiniteSet(Docs)
ASSUME ContentsAssumption == Contents \in Seq(SUBSET Docs)
ASSUME BoundsAssumption == {MaxLag, MaxStops, MaxFaults, MaxErrors} \subseteq Nat

VARIABLES
  network,    \* is_network_enabled_
  stream,     \* the watch stream's connection
  online,     \* online_state_tracker_
  listening,  \* is the target in listen_targets_
  token,      \* its resume token there
  state,      \* its TargetState
  mismatch,   \* is it in pending_target_resets_
  updates,    \* pending_document_updates_: documents found, documents gone
  view,       \* SyncEngine's view: synced_documents_, current_
  data,       \* its resume token in LocalStore's memory
  cache,      \* on disk: the target's keys and token, documents, last version
  requests, responses,  \* the gRPC call
  server,     \* what the server sends to this call
  latest,     \* the server's version
  stops, faults, errors

client == <<network, stream, online, listening, token, state, mismatch,
            updates, view, data, cache>>
vars == <<client, requests, responses, server, latest, stops, faults, errors>>

NoUpdates == [found |-> {}, gone |-> {}]
NoView == [keys |-> {}, current |-> "no"]
NoServer == [state |-> "no", at |-> 0]

Init ==
  /\ network = "enabled" /\ stream = NewStream /\ online = NewTracker
  /\ listening = "no" /\ token = 0 /\ state = Erased /\ mismatch = "no"
  /\ updates = NoUpdates /\ view = NoView /\ data = 0
  /\ cache = [keys |-> {}, token |-> 0, docs |-> {}, last |-> 0]
  /\ requests = <<>> /\ responses = <<>> /\ server = NoServer
  /\ latest = 1 /\ stops = 0 /\ faults = 0 /\ errors = 0

-----------------------------------------------------------------------------
(* Parts of RemoteStore *)

\* Nobody can say that the view is current while the client is offline.
Broadcast(o) ==
  /\ online' = o
  /\ view' = IF o.state = "Offline" THEN [view EXCEPT !.current = "no"] ELSE view

ShouldStartWatchStream(l, s, net) ==
  net = "enabled" /\ ~IsStarted(s) /\ l = "yes"

\* Mutant: the aggregator goes on with the next call.
KeepAggregator ==
  /\ UNCHANGED <<state, mismatch, updates>>
  /\ requests' = <<>> /\ responses' = <<>> /\ server' = NoServer

\* The call is gone, and with it the aggregator.
CleanUpWatchStreamState ==
  /\ state' = Erased /\ mismatch' = "no" /\ updates' = NoUpdates
  /\ requests' = <<>> /\ responses' = <<>> /\ server' = NoServer

\* Stop: the stream must not be needed any more, says OnWatchStreamClose.
Stopped(s, l, net) ==
  IF ~IsStarted(s) THEN s
  ELSE HardAssert(~ShouldStartWatchStream(l, Close(s, TRUE), net),
                  Close(s, TRUE))

\* StartWatchStream if it should be started, with the tracker o; else o
\* becomes idle.
StartOr(l, s, net, o, idle) ==
  IF ShouldStartWatchStream(l, s, net)
  THEN stream' = Start(s) /\ Broadcast(HandleWatchStreamStart(o))
  ELSE stream' = s /\ Broadcast(idle)

Watch(t) == [kind |-> "watch", token |-> t]
Unwatch == [kind |-> "unwatch", token |-> 0]

Fault == faults < MaxFaults /\ faults' = faults + 1

-----------------------------------------------------------------------------
(* The user *)

\* SyncEngine::Listen: the target and the view are those of the cache.
Listen ==
  /\ listening = "no"
  /\ listening' = "yes" /\ token' = cache.token /\ data' = cache.token
  /\ view' = [keys |-> cache.keys, current |-> "no"]
  /\ IF ShouldStartWatchStream("yes", stream, network)
     THEN /\ stream' = Start(stream)
          /\ online' = HandleWatchStreamStart(online)
          /\ state' = Erased /\ mismatch' = "no" /\ updates' = NoUpdates
          /\ UNCHANGED requests
     ELSE /\ IF IsOpen(stream)
             THEN /\ requests' = Append(requests, Watch(cache.token))
                  /\ state' = RecordPendingTargetRequest(state)
                  /\ stream' = Write(stream)
             ELSE UNCHANGED <<requests, state, stream>>
          /\ UNCHANGED <<online, mismatch, updates>>
  /\ UNCHANGED <<network, cache, responses, server, latest, stops, faults, errors>>

\* SyncEngine::StopListening: LocalStore keeps the target's token on disk.
StopListening ==
  /\ listening = "yes" /\ stops < MaxStops /\ stops' = stops + 1
  /\ listening' = "no" /\ token' = 0 /\ data' = 0 /\ view' = NoView
  /\ cache' = [cache EXCEPT !.token = data]
  /\ IF IsOpen(stream)
     THEN /\ requests' = Append(requests, Unwatch)
          /\ state' = RecordPendingTargetRequest(state)
          /\ stream' = MarkIdle(Write(stream))
          /\ UNCHANGED online
     ELSE /\ online' = IF network = "enabled"
                       THEN UpdateState(online, "Unknown") ELSE online
          /\ UNCHANGED <<requests, state, stream>>
  /\ UNCHANGED <<network, mismatch, updates, responses, server,
                 latest, faults, errors>>

-----------------------------------------------------------------------------
(* The connection *)

\* Stream::OnStreamFinish with OnWatchStreamClose, for a call that failed.
OnStreamFailed(s) ==
  /\ CleanUpWatchStreamState
  /\ StartOr(listening, Close(s, FALSE), network,
             HandleWatchStreamFailure(online), UpdateState(online, "Unknown"))
  /\ UNCHANGED <<network, listening, token, data, cache, latest, stops, errors>>

StreamOnly ==
  UNCHANGED <<network, listening, token, mismatch, updates, data, cache,
              responses, server, latest, stops, errors>>

\* Credentials open the call, and OnWatchStreamOpen sends what is listened to.
CredentialsArrive ==
  /\ "current" \in stream.creds
  /\ IF listening = "yes"
     THEN /\ stream' = Write(ResumeStartWithCredentials(stream))
          /\ requests' = Append(requests, Watch(token))
          /\ state' = RecordPendingTargetRequest(state)
     ELSE /\ stream' = ResumeStartWithCredentials(stream)
          /\ UNCHANGED <<requests, state>>
  /\ StreamOnly /\ UNCHANGED <<online, view, faults>>

CredentialsFail ==
  /\ "current" \in stream.creds /\ Fault
  /\ OnStreamFailed([HardAssert(stream.state = "Starting", stream) EXCEPT
                       !.creds = @ \ {"current"}])

StaleCredentialsArrive ==
  /\ "stale" \in stream.creds
  /\ stream' = [stream EXCEPT !.creds = @ \ {"stale"}]
  /\ StreamOnly /\ UNCHANGED <<online, view, requests, state, faults>>

BackoffTimer ==
  /\ "backoff" \in stream.timers
  /\ stream' = BackoffElapses(stream)
  /\ StreamOnly /\ UNCHANGED <<online, view, requests, state, faults>>

HealthTimer ==
  /\ "health" \in stream.timers
  /\ stream' = HealthCheck(stream)
  /\ StreamOnly /\ UNCHANGED <<online, view, requests, state, faults>>

IdleTimer ==
  /\ "idle" \in stream.timers
  /\ stream' = Stopped(stream, listening, network)
  /\ CleanUpWatchStreamState
  /\ Broadcast(UpdateState(online, "Unknown"))
  /\ UNCHANGED <<network, listening, token, data, cache, latest, stops,
                 faults, errors>>

OnlineStateTimer ==
  /\ online.timer = "running"
  /\ Broadcast(TimeoutElapses(online))
  /\ StreamOnly /\ UNCHANGED <<stream, requests, state, faults>>

\* The call ends, and the responses not read yet are lost.
CallFails == IsOpen(stream) /\ Fault /\ OnStreamFailed(stream)

DisableNetwork ==
  /\ Fault
  /\ network' = "disabled"
  /\ stream' = Stopped(stream, listening, "disabled")
  /\ CleanUpWatchStreamState
  /\ Broadcast(UpdateState(online, "Offline"))
  /\ UNCHANGED <<listening, token, data, cache, latest, stops, errors>>

\* A call of EnableNetwork on an enabled network is one of the outside events.
EnableNetwork ==
  /\ IF network = "disabled" THEN UNCHANGED faults ELSE Fault
  /\ network' = "enabled"
  /\ StartOr(listening, stream, "enabled", online, UpdateState(online, "Unknown"))
  /\ UNCHANGED <<listening, token, state, mismatch, updates, data, cache,
                 requests, responses, server, latest, stops, errors>>

\* The connectivity changed, or the credentials.
RestartNetwork ==
  /\ network = "enabled" /\ Fault
  /\ CleanUpWatchStreamState
  /\ LET unknown == UpdateState(online, "Unknown")
     IN StartOr(listening,
                InhibitBackoff(Stopped(stream, listening, "disabled")),
                "enabled", unknown, unknown)
  /\ UNCHANGED <<network, listening, token, data, cache, latest, stops, errors>>

\* The process dies and is started again; only the disk is left.
Crash ==
  /\ Fault
  /\ network' = "enabled" /\ stream' = NewStream /\ online' = NewTracker
  /\ listening' = "no" /\ token' = 0 /\ data' = 0
  /\ view' = NoView
  /\ CleanUpWatchStreamState
  /\ UNCHANGED <<cache, latest, stops, errors>>

-----------------------------------------------------------------------------
(* The server's messages: OnWatchStreamChange *)

IsActive(s) == listening = "yes" /\ ~IsPending(s)

\* Each message shows that the client is online.
Receive(kind) ==
  /\ responses # <<>> /\ Head(responses).kind = kind
  /\ responses' = Tail(responses)
  /\ online' = UpdateState(online, "Online")
  /\ UNCHANGED <<network, server, latest, stops, faults>>

Quiet == UNCHANGED <<stream, listening, token, view, data, cache, requests, errors>>

OnTargetAdded ==
  /\ Receive("added")
  /\ state' = OnAdded(state)
  /\ Quiet /\ UNCHANGED <<mismatch, updates>>

OnTargetRemoved ==
  /\ Receive("removed")
  /\ state' = OnRemoved(state)
  /\ Quiet /\ UNCHANGED <<mismatch, updates>>

OnTargetCurrent ==
  /\ Receive("current")
  /\ LET held == Ensure(state)
     IN state' = IF IsActive(held)
                 THEN UpdateResumeToken(MarkCurrent(held), Head(responses).token)
                 ELSE held
  /\ Quiet /\ UNCHANGED <<mismatch, updates>>

OnTargetReset ==
  /\ Receive("reset")
  /\ LET held == Ensure(state)
     IN state' = IF IsActive(held) THEN ResetTarget(held, view.keys) ELSE held
  /\ Quiet /\ UNCHANGED <<mismatch, updates>>

OnDocumentFound ==
  /\ Receive("found")
  /\ IF IsActive(state)
     THEN LET d == Head(responses).doc
          IN /\ state' = AddDocument(state, d, view.keys)
             /\ updates' = [found |-> updates.found \cup {d},
                            gone |-> updates.gone \ {d}]
     ELSE UNCHANGED <<state, updates>>
  /\ Quiet /\ UNCHANGED mismatch

OnDocumentGone ==
  /\ Receive("gone")
  /\ IF IsActive(state)
     THEN LET d == Head(responses).doc
          IN /\ state' = RemoveDocument(state, d, view.keys)
             /\ updates' = [found |-> updates.found \ {d},
                            gone |-> updates.gone \cup {d}]
     ELSE UNCHANGED <<state, updates>>
  /\ Quiet /\ UNCHANGED mismatch

\* A count that is not the client's makes it start the target over.
OnExistenceFilter ==
  /\ Receive("filter")
  /\ IF IsActive(state) /\ CurrentDocumentCount(state, view.keys)
                             # Head(responses).count
     THEN state' = ResetTarget(state, view.keys) /\ mismatch' = "yes"
     ELSE /\ state' = IF IsActive(state) THEN Ensure(state) ELSE state
          /\ UNCHANGED mismatch
  /\ Quiet /\ UNCHANGED updates

\* The server rejects the listen (ProcessTargetError).
OnTargetError ==
  /\ Receive("error")
  /\ IF listening = "yes"
     THEN /\ listening' = "no" /\ token' = 0 /\ data' = 0 /\ view' = NoView
          /\ state' = Erased
          /\ cache' = [cache EXCEPT !.token = data]
     ELSE UNCHANGED <<listening, token, data, view, state, cache>>
  /\ UNCHANGED <<stream, mismatch, updates, requests, errors>>

-----------------------------------------------------------------------------
(* RaiseWatchSnapshot *)

\* Mutant: a target that is watched again from the beginning keeps its token.
NewTokenKept(s) == IF s.token # 0 THEN s.token ELSE data

NewToken(s) ==
  IF mismatch = "yes" THEN 0 ELSE IF s.token # 0 THEN s.token ELSE data

\* LocalStore::ApplyRemoteEvent for the target state s and version v.  A token
\* that is all that changed need not reach the disk.
ApplyToStore(s, v, included) ==
  LET known == [cache EXCEPT
                  !.docs = (@ \cup updates.found) \ updates.gone, !.last = v]
      keys == (cache.keys \ Changed(s, "Removed")) \cup Changed(s, "Added")
      persisted == IF data = 0 \/ DOMAIN s.docs # {} THEN {NewToken(s)}
                   ELSE IF NewToken(s) = 0 THEN {cache.token}
                   ELSE {NewToken(s), cache.token}
  IN IF included
     THEN /\ data' = NewToken(s)
          /\ \E t \in persisted :
               cache' = [known EXCEPT !.keys = keys, !.token = t]
     ELSE cache' = known /\ UNCHANGED data

\* View::ApplyTargetChange
ApplyToView(s, included) ==
  view' = IF included
          THEN [keys |-> (view.keys \cup Changed(s, "Added"))
                           \ Changed(s, "Removed"),
                current |-> s.current]
          ELSE view

\* Mutant: the target is left to the next connection.
RewatchNextTime(s) ==
  token' = 0 /\ state' = s /\ UNCHANGED <<requests, stream>>

\* A target that was found to differ is watched again from the beginning.
Rewatch(s) ==
  /\ token' = 0
  /\ requests' = requests \o <<Unwatch, Watch(0)>>
  /\ state' = RecordPendingTargetRequest(RecordPendingTargetRequest(s))
  /\ stream' = Write(stream)

RaiseWatchSnapshot(s, v) ==
  LET included == s.held = "yes" /\ IsActive(s) /\ s.changed = "yes"
      rest == IF included THEN ClearPendingChanges(s) ELSE s
  IN /\ ApplyToStore(s, v, included)
     /\ ApplyToView(s, included)
     /\ IF mismatch = "yes" /\ listening = "yes" THEN Rewatch(rest)
        ELSE /\ token' = IF included /\ s.token # 0 THEN s.token ELSE token
             /\ state' = rest
             /\ UNCHANGED <<requests, stream>>
     /\ mismatch' = "no" /\ updates' = NoUpdates

\* NO_CHANGE with a version: the token for all active targets, and a snapshot
\* unless it is older than what the client has already.
OnSnapshot ==
  /\ Receive("snapshot")
  /\ LET v == Head(responses).token
         s == IF state.held = "yes" /\ IsActive(state)
              THEN UpdateResumeToken(state, v) ELSE state
     IN IF v >= cache.last THEN RaiseWatchSnapshot(s, v)
        ELSE /\ state' = s
             /\ UNCHANGED <<stream, token, mismatch, updates, view, data, cache,
                            requests>>
  /\ UNCHANGED <<listening, errors>>

\* SyncEngine asks the server about each document that the view has and the
\* target has not, and drops those that are gone.  RemoteStore watches a target
\* that was found to differ again before SyncEngine asks, so that the answer
\* comes after the target's first token.
LimboResolves(d) ==
  /\ listening = "yes" /\ IsOpen(stream) /\ view.current = "yes" /\ data # 0
  /\ d \in cache.docs \ (view.keys \cup ContentAt(cache.last))
  /\ cache' = [cache EXCEPT !.docs = @ \ {d}]
  /\ UNCHANGED <<network, stream, online, listening, token, state, mismatch,
                 updates, view, data, requests, responses, server, latest,
                 stops, faults, errors>>

-----------------------------------------------------------------------------
(* The server *)

ServerOnly == UNCHANGED <<client, stops, faults>>

QueryChanges ==
  /\ latest < Len(Contents)
  /\ latest' = latest + 1
  /\ ServerOnly /\ UNCHANGED <<requests, responses, server, errors>>

Token(kind, t) == [kind |-> kind, token |-> t]

ServerReads ==
  /\ requests # <<>>
  /\ requests' = Tail(requests)
  /\ IF Head(requests).kind = "watch"
     THEN /\ server' = [state |-> "fresh", at |-> Head(requests).token]
          /\ responses' = Append(responses, Token("added", 0))
     ELSE /\ server' = NoServer
          /\ responses' = Append(responses, Token("removed", 0))
  /\ ServerOnly /\ UNCHANGED <<latest, errors>>

Messages(kind, S) ==
  LET order == SetToSeq(S)
  IN [i \in 1..Len(order) |-> [kind |-> kind, token |-> 0, doc |-> order[i]]]

Sends(v, changes) ==
  /\ responses' = responses \o changes \o <<Token("snapshot", v)>>
  /\ server' = [state |-> "current", at |-> v]
  /\ ServerOnly /\ UNCHANGED <<requests, latest, errors>>

\* Documents in version v that are new since version u, or went and came back.
NewSince(u, v) ==
  {d \in ContentAt(v) : \E w \in u..v : d \notin ContentAt(w)}

Exact(u, v) ==
  Messages("gone", ContentAt(u) \ ContentAt(v)) \o Messages("found", NewSince(u, v))

ServerUpdates(v) ==
  /\ server.state = "current" /\ v \in server.at + 1..latest
  /\ Sends(v, Exact(server.at, v))

\* A watch starts with what changed since its token.  Then the server may know
\* how many documents are left but not which are gone, or have to start over.
ServerStarts(v) ==
  LET new == ContentAt(v)
      found == Messages("found", NewSince(server.at, v))
      filter == [kind |-> "filter", token |-> 0, count |-> Cardinality(new)]
      current == Token("current", v)
  IN /\ server.state = "fresh" /\ v \in server.at..latest \ {0}
     /\ v >= cache.last - MaxLag
     /\ \/ Sends(v, Append(Exact(server.at, v), current))
        \/ /\ server.at # 0
           /\ \/ Sends(v, found \o <<filter, current>>)
              \/ Sends(v, found \o <<current, filter>>)
              \/ Sends(v, <<Token("reset", 0)>> \o Append(Messages("found", new), current))

ServerRejects ==
  /\ server.state # "no" /\ Fault /\ errors < MaxErrors /\ errors' = errors + 1
  /\ server' = NoServer
  /\ responses' = Append(responses, Token("error", 0))
  /\ UNCHANGED <<client, requests, latest, stops>>

-----------------------------------------------------------------------------

Connection == \/ CredentialsArrive \/ StaleCredentialsArrive \/ BackoffTimer
              \/ HealthTimer \/ IdleTimer \/ OnlineStateTimer

OnWatchStreamChange ==
  \/ OnTargetAdded \/ OnTargetRemoved \/ OnTargetCurrent \/ OnTargetReset
  \/ OnDocumentFound \/ OnDocumentGone \/ OnExistenceFilter
  \/ OnTargetError \/ OnSnapshot

Server == ServerReads \/ \E v \in Versions : ServerUpdates(v) \/ ServerStarts(v)

Faults == \/ CredentialsFail \/ CallFails \/ DisableNetwork \/ RestartNetwork
          \/ Crash \/ ServerRejects

Next == \/ Listen \/ StopListening \/ EnableNetwork
        \/ Connection \/ OnWatchStreamChange \/ (\E d \in Docs : LimboResolves(d))
        \/ Server \/ QueryChanges \/ Faults

Spec == Init /\ [][Next]_vars

\* Timers elapse, credentials arrive, messages are read, the server serves and
\* answers about single documents.  Nothing obliges the user or the faults.
FairSpec ==
  /\ Spec
  /\ WF_vars(CredentialsArrive) /\ WF_vars(BackoffTimer)
  /\ WF_vars(OnWatchStreamChange) /\ WF_vars(Server)
  /\ WF_vars(\E d \in Docs : LimboResolves(d))
=============================================================================
