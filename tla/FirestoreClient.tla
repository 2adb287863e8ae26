--------------------------- MODULE FirestoreClient ---------------------------
(***************************************************************************)
(* The part of the Firestore client library that Chatik's behaviour rests  *)
(* on, and the database behind it.  Two FIFO queues separate three actors: *)
(* the app posts tasks on workerQueue, the library's worker runs them and  *)
(* the network's answers, and posts snapshots on mainQueue, where the app's*)
(* listeners run.                                                          *)
(*                                                                         *)
(* A document is [coll, id, ver]: coll is Root for the documents of the    *)
(* collection "channels" and the channel's identifier for those of         *)
(* "channels/<identifier>/messages".  ver stands for the fields: a number  *)
(* that grows with every update, or Malformed when one the app needs is    *)
(* missing.  A query is a whole collection, so queries are collections.    *)
(***************************************************************************)
EXTENDS Integers, Sequences, FiniteSets

CONSTANTS Channels,   \* identifiers a channel document can get
          Root,       \* the collection "channels"
          Malformed   \* the fields of a document the app cannot parse

ASSUME RootAssumption == Root \notin Channels
ASSUME MalformedAssumption == Malformed \notin Nat

VARIABLES
  server,       \* documents in the database
  cache,        \* documents the client knows to be in the database (on disk)
  pending,      \* the mutation queue: local writes not acknowledged (on disk)
  results,      \* the server's results for the first of them on the present
                \* call, not yet read: whether each commit is "newer" or
                \* "older" than what the cache has of the document
  listeners,    \* listeners[q]: the QueryListeners of query q, oldest first
  workerQueue,  \* tasks the app enqueued on the worker queue
  mainQueue,    \* snapshots posted to the main queue and not yet delivered
  rejected,     \* history: local writes the server refused
  rootChanges   \* history: how often the view of "channels" changed

fsvars == <<server, cache, pending, results, listeners, workerQueue, mainQueue,
            rejected, rootChanges>>

Queries == Channels \cup {Root}
Doc == [coll : {Root}, id : Channels, ver : Nat \cup {Malformed}]
       \cup [coll : Channels, id : Nat \X Nat, ver : Nat \cup {Malformed}]

\* A document's path, by which the library tells documents apart.
Keys(docs) == {<<d.coll, d.id>> : d \in docs}
IsIn(d, docs) == <<d.coll, d.id>> \in Keys(docs)

\* docs after d was set, whatever was at its path before.
With(d, docs) == {e \in docs : ~IsIn(e, {d})} \cup {d}

\* What the app hands over at registration: whose closure, and for what.
Callback == [kind : {"channels", "messages", "send"}, arg : Nat]

ListenTask(q, cb) == [op |-> "listen", query |-> q, cb |-> cb]
WriteTask(d)      == [op |-> "write", doc |-> d]

-----------------------------------------------------------------------------
(* Views and listeners *)

Elements(s) == {s[i] : i \in DOMAIN s}

\* Mutant: the cache is read without the query.
LocalDocumentsUnfiltered(q, stored, writes) ==
  LET own == {w \in Elements(writes) : w.coll = q}
  IN  own \cup {d \in stored : ~IsIn(d, own)}

\* The documents of q in the local store: pending writes cover cached ones.
LocalDocuments(q, stored, writes) ==
  LET own == {w \in Elements(writes) : w.coll = q}
  IN  own \cup {d \in stored : d.coll = q /\ ~IsIn(d, own)}

View(q) == LocalDocuments(q, cache, pending)

\* Mutant: a snapshot without changes, but with other metadata, counts.
ShouldRaiseAlways(l, old, new, ready) == l.raised \/ new # {} \/ ready

\* Whether listener l hears of a snapshot.  ready: the view is in sync with
\* the server or the client is known to be offline, so that even an empty
\* first snapshot is worth raising.
ShouldRaise(l, old, new, ready) ==
  IF l.raised THEN new # old ELSE new # {} \/ ready

\* A snapshot (or an error) on the main queue, for the listeners at the
\* positions in to; at is history, rootChanges when it was posted.
Snapshot(docs, error, to, at) ==
  [docs |-> docs, error |-> error, to |-> to, at |-> at]

\* The local store changed: recompute the view of q and tell its listeners.
EmitNewSnapshots(q, ready) ==
  LET old == View(q)
      new == LocalDocuments(q, cache', pending')
      ls  == listeners[q]
      hears == {i \in DOMAIN ls : ShouldRaise(ls[i], old, new, ready)}
  IN  /\ listeners' = [listeners EXCEPT ![q] =
           [i \in DOMAIN ls |->
              IF i \in hears THEN [cb |-> ls[i].cb, raised |-> TRUE] ELSE ls[i]]]
      /\ rootChanges' = IF q = Root /\ new # old
                        THEN rootChanges + 1 ELSE rootChanges
      /\ mainQueue' =
           IF hears = {} THEN mainQueue
           ELSE Append(mainQueue,
                  Snapshot(new, FALSE, [i \in hears |-> ls[i].cb],
                           rootChanges'))

\* Mutant: only the first listener of a query is told what there is already.
AddQueryListenerQuietly(q, cb, ready) ==
  LET raised == View(q) # {} \/ ready
  IN  /\ listeners' = [listeners EXCEPT ![q] =
                         Append(@, [cb |-> cb, raised |-> raised])]
      /\ mainQueue' =
           IF raised /\ listeners[q] = <<>>
           THEN Append(mainQueue,
                  Snapshot(View(q), FALSE, [i \in {1} |-> cb], rootChanges))
           ELSE mainQueue

\* A listener of a query that has a view is told of it at once; for the
\* first one of a query the view is built from the local store.
AddQueryListener(q, cb, ready) ==
  LET raised == View(q) # {} \/ ready
  IN  /\ listeners' = [listeners EXCEPT ![q] =
                         Append(@, [cb |-> cb, raised |-> raised])]
      /\ mainQueue' =
           IF raised
           THEN Append(mainQueue,
                  Snapshot(View(q), FALSE,
                           [i \in {Len(listeners[q]) + 1} |-> cb],
                           rootChanges))
           ELSE mainQueue

-----------------------------------------------------------------------------
(* The worker queue *)

RunListenTask ==
  /\ workerQueue # <<>>
  /\ Head(workerQueue).op = "listen"
  /\ workerQueue' = Tail(workerQueue)
  /\ \E ready \in BOOLEAN :
       AddQueryListener(Head(workerQueue).query, Head(workerQueue).cb, ready)
  /\ UNCHANGED <<server, cache, pending, results, rejected, rootChanges>>

RunWriteTask ==
  /\ workerQueue # <<>>
  /\ Head(workerQueue).op = "write"
  /\ workerQueue' = Tail(workerQueue)
  /\ pending' = Append(pending, Head(workerQueue).doc)
  /\ cache' = cache
  /\ EmitNewSnapshots(Head(workerQueue).doc.coll, FALSE)
  /\ UNCHANGED <<server, results, rejected>>

-----------------------------------------------------------------------------
(* The write stream: on each call up to kMaxPendingWrites writes are sent  *)
(* ahead, the server commits them in order and answers every one.  With a  *)
(* call its results are lost, and the next one starts over with the first  *)
(* write: the handshake has no stream token, so that the server does not   *)
(* know a write that it has committed before, and sets the document again. *)
(* How the client keeps calls, results and writes together is in           *)
(* WritePipeline.                                                          *)

kMaxPendingWrites == 10

\* Mutant: the writes sent ahead may be committed in any order.
ServerCommitAnyOrder ==
  \E i \in 1..Len(pending) :
    /\ Len(results) < kMaxPendingWrites
    /\ ~IsIn(pending[i], server)
    /\ server' = With(pending[i], server)
    /\ results' = Append(results, "newer")
    /\ UNCHANGED <<cache, pending, listeners, workerQueue, mainQueue,
                   rejected, rootChanges>>

ServerCommit ==
  LET i == Len(results) + 1
  IN /\ i <= Len(pending) /\ i <= kMaxPendingWrites
     /\ server' = With(pending[i], server)
     /\ results' = Append(results, "newer")
     /\ UNCHANGED <<cache, pending, listeners, workerQueue, mainQueue,
                    rejected, rootChanges>>

\* The call ends before the client has read the results.
LoseResults ==
  /\ results # <<>>
  /\ results' = <<>>
  /\ UNCHANGED <<server, cache, pending, listeners, workerQueue, mainQueue,
                 rejected, rootChanges>>

\* Mutant: the acknowledged write is not kept.
HandleSuccessfulWriteUncached ==
  /\ pending # <<>> /\ results # <<>>
  /\ pending' = Tail(pending) /\ results' = Tail(results)
  /\ cache' = cache
  /\ EmitNewSnapshots(Head(pending).coll, FALSE)
  /\ UNCHANGED <<server, workerQueue, rejected>>

\* Mutant: what the watch stream brought is kept, however old it is.
HandleSuccessfulWriteKeeping ==
  /\ pending # <<>> /\ results # <<>>
  /\ pending' = Tail(pending) /\ results' = Tail(results)
  /\ cache' = IF IsIn(Head(pending), cache)
              THEN cache ELSE With(Head(pending), cache)
  /\ EmitNewSnapshots(Head(pending).coll, FALSE)
  /\ UNCHANGED <<server, workerQueue, rejected>>

\* The first result is taken for that of the first write.
HandleSuccessfulWrite ==
  /\ pending # <<>> /\ results # <<>>
  /\ pending' = Tail(pending) /\ results' = Tail(results)
  /\ cache' = IF Head(results) = "newer" \/ ~IsIn(Head(pending), cache)
              THEN With(Head(pending), cache) ELSE cache
  /\ EmitNewSnapshots(Head(pending).coll, FALSE)
  /\ UNCHANGED <<server, workerQueue, rejected>>

\* A permanent error of the call: the first write is rejected, whether it was
\* the one refused, a later one was, or it has been committed.
HandleRejectedWrite ==
  /\ pending # <<>>
  /\ pending' = Tail(pending) /\ results' = <<>>
  /\ rejected' = rejected \cup {Head(pending)}
  /\ cache' = cache
  /\ EmitNewSnapshots(Head(pending).coll, FALSE)
  /\ UNCHANGED <<server, workerQueue>>

-----------------------------------------------------------------------------
(* The watch stream *)

\* The server brings an active target up to date and marks it current.
ApplyRemoteEvent(q) ==
  /\ listeners[q] # <<>>
  /\ cache' = {d \in cache : d.coll # q} \cup {d \in server : d.coll = q}
  /\ pending' = pending
  /\ results' = [i \in DOMAIN results |->
                   IF pending[i].coll = q THEN "older" ELSE results[i]]
  /\ EmitNewSnapshots(q, TRUE)
  /\ UNCHANGED <<server, workerQueue, rejected>>

\* The client gives up reaching the server: listeners still waiting for
\* their first snapshot get what the local store has.
HandleOffline(q) ==
  /\ \E i \in DOMAIN listeners[q] : ~listeners[q][i].raised
  /\ UNCHANGED <<cache, pending, results>>
  /\ EmitNewSnapshots(q, TRUE)
  /\ UNCHANGED <<server, workerQueue, rejected>>

\* The server refuses the target: every listener of the query gets the
\* error and is dropped.
HandleRejectedListen(q) ==
  /\ listeners[q] # <<>>
  /\ mainQueue' = Append(mainQueue,
       Snapshot({}, TRUE, [i \in DOMAIN listeners[q] |-> listeners[q][i].cb],
                rootChanges))
  /\ listeners' = [listeners EXCEPT ![q] = <<>>]
  /\ UNCHANGED <<server, cache, pending, results, workerQueue, rejected,
                 rootChanges>>

-----------------------------------------------------------------------------
(* The main queue *)

\* i is the position of the listener whose turn it is.
IsNext(i) ==
  /\ mainQueue # <<>>
  /\ i \in DOMAIN Head(mainQueue).to
  /\ \A j \in DOMAIN Head(mainQueue).to : i <= j

\* Takes the event for position i off the main queue.
TakeEvent(i) ==
  LET b == Head(mainQueue)
      left == DOMAIN b.to \ {i}
  IN  mainQueue' =
        IF left = {} THEN Tail(mainQueue)
        ELSE [mainQueue EXCEPT ![1] =
                Snapshot(b.docs, b.error, [j \in left |-> b.to[j]], b.at)]

-----------------------------------------------------------------------------
Task == [op : {"listen"}, query : Queries, cb : Callback]
        \cup [op : {"write"}, doc : Doc]

Listener == [cb : Callback, raised : BOOLEAN]

IsSnapshot(b) ==
  /\ b = Snapshot(b.docs, b.error, b.to, b.at)
  /\ b.docs \subseteq Doc
  /\ b.error \in BOOLEAN
  /\ b.at \in Nat
  /\ b.to = [i \in DOMAIN b.to |-> b.to[i]]
  /\ \A i \in DOMAIN b.to : i \in Nat \ {0} /\ b.to[i] \in Callback

FsTypeOK ==
  /\ server \subseteq Doc
  /\ cache \subseteq Doc
  /\ pending \in Seq(Doc)
  /\ results \in Seq({"newer", "older"})
  /\ listeners \in [Queries -> Seq(Listener)]
  /\ workerQueue \in Seq(Task)
  /\ mainQueue \in Seq(Elements(mainQueue))
  /\ \A k \in DOMAIN mainQueue : IsSnapshot(mainQueue[k])
  /\ rejected \subseteq Doc
  /\ rootChanges \in Nat
=============================================================================
