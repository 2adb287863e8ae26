--------------------------- MODULE ListenerProofs ---------------------------
(***************************************************************************)
(* Machine-checked facts about what Chat's listeners hear, and in which    *)
(* order, for any set of channels and any budget, in four parts:           *)
(*                                                                         *)
(*   Calls         CopiesBoundedHolds                                      *)
(*   The list      DirectoryNeverGoesBackHolds                             *)
(*   The screens   MessagesNeverDisappearHolds                             *)
(*   The Sends     SendsKeepOrderHolds                                     *)
(***************************************************************************)
EXTENDS ChatProofs

-----------------------------------------------------------------------------
(***************************************************************************)
(* PART 1.  Calls: the closures of Sends stand in the order of the taps in *)
(* the worker queue, among the listeners and in every snapshot, and each   *)
(* call of one after its first is paid for by a change of the channels.    *)
(***************************************************************************)

(* What a step tells the listeners *)

\* After an emission for q: told are the positions that hear of it.
Told(q, told) ==
  /\ told \in SUBSET DOMAIN listeners[q]
  /\ DOMAIN listeners'[q] = DOMAIN listeners[q]
  /\ \A i \in DOMAIN listeners[q] :
       /\ listeners'[q][i].cb = listeners[q][i].cb
       /\ listeners'[q][i].raised = (listeners[q][i].raised \/ i \in told)
       /\ listeners[q][i].raised => (i \in told <=> View(q)' # View(q))
       /\ ~listeners[q][i].raised /\ i \notin told => View(q)' = {}
  /\ mainQueue' = IF told = {} THEN mainQueue
                  ELSE Append(mainQueue,
                         Snapshot(View(q)', FALSE,
                                  [i \in told |-> listeners[q][i].cb],
                                  rootChanges'))

LEMMA EmitTells ==
  ASSUME FsTypeOK, NEW q \in Queries, NEW ready \in BOOLEAN,
         EmitNewSnapshots(q, ready)
  PROVE  /\ \E told : Told(q, told)
         /\ \A p \in Queries \ {q} : listeners'[p] = listeners[p]
         /\ rootChanges' = IF q = Root /\ View(q)' # View(q)
                           THEN rootChanges + 1 ELSE rootChanges
  <1> DEFINE ls == listeners[q]
             hears == {i \in DOMAIN ls : ShouldRaise(ls[i], View(q), View(q)', ready)}
             after == [i \in DOMAIN ls |->
                        IF i \in hears THEN [cb |-> ls[i].cb, raised |-> TRUE]
                        ELSE ls[i]]
  <1>1. View(q)' = LocalDocuments(q, cache', pending')
    BY DEF View
  <1>2. /\ listeners' = [listeners EXCEPT ![q] = after]
        /\ rootChanges' = IF q = Root /\ View(q)' # View(q)
                          THEN rootChanges + 1 ELSE rootChanges
        /\ mainQueue' = IF hears = {} THEN mainQueue
                        ELSE Append(mainQueue,
                               Snapshot(View(q)', FALSE,
                                        [i \in hears |-> ls[i].cb], rootChanges'))
    BY <1>1 DEF EmitNewSnapshots
  <1>3. PICK told : told = hears
    OBVIOUS
  <1>4. /\ \A i \in DOMAIN ls : ls[i] \in Listener
        /\ DOMAIN listeners = Queries
    BY DEF FsTypeOK
  <1>5. /\ told \in SUBSET DOMAIN ls
        /\ \A i \in DOMAIN ls :
             /\ ls[i].raised => (i \in told <=> View(q)' # View(q))
             /\ ~ls[i].raised /\ i \notin told => View(q)' = {}
    BY <1>3 DEF ShouldRaise
  <1>6. /\ DOMAIN after = DOMAIN ls
        /\ \A i \in DOMAIN ls :
             /\ after[i].cb = ls[i].cb
             /\ after[i].raised = (ls[i].raised \/ i \in told)
    <2>1. \A i \in DOMAIN ls : ls[i].raised \in BOOLEAN
      BY <1>4 DEF Listener
    <2> HIDE DEF hears
    <2> QED
      BY <1>3, <2>1
  <1>7. mainQueue' = IF told = {} THEN mainQueue
                     ELSE Append(mainQueue,
                            Snapshot(View(q)', FALSE,
                                     [i \in told |-> ls[i].cb], rootChanges'))
    BY <1>2, <1>3
  <1> HIDE DEF after, hears
  <1>8. listeners'[q] = after /\ \A p \in Queries \ {q} : listeners'[p] = listeners[p]
    BY <1>2, <1>4
  <1>9. /\ DOMAIN listeners'[q] = DOMAIN listeners[q]
        /\ \A i \in DOMAIN listeners[q] :
             /\ listeners'[q][i].cb = listeners[q][i].cb
             /\ listeners'[q][i].raised = (listeners[q][i].raised \/ i \in told)
    BY <1>6, <1>8
  <1>10. Told(q, told)
    BY <1>5, <1>7, <1>9 DEF Told
  <1> QED
    BY <1>2, <1>8, <1>10

\* An emission is of the only view that changed.
Emits == \E q \in Queries, ready \in BOOLEAN :
           /\ EmitNewSnapshots(q, ready)
           /\ \A p \in Queries \ {q} : View(p)' = View(p)
           /\ RunWriteTask \/ Network \/ Refusal

LEMMA OtherViews ==
  ASSUME FsTypeOK, NEW p \in Queries
  PROVE  /\ \A h \in Doc : h.coll # p =>
              LocalDocuments(p, cache, Append(pending, h)) = View(p)
         /\ pending # <<>> /\ Head(pending).coll # p =>
              /\ LocalDocuments(p, cache, Tail(pending)) = View(p)
              /\ LocalDocuments(p, With(Head(pending), cache), Tail(pending)) = View(p)
         /\ \A q \in Queries \ {p} :
              LocalDocuments(p, {d \in cache : d.coll # q}
                                \cup {d \in server : d.coll = q}, pending) = View(p)
  <1> DEFINE own(writes) == {w \in Elements(writes) : w.coll = p}
  <1>1. ASSUME NEW h \in Doc, h.coll # p
        PROVE  LocalDocuments(p, cache, Append(pending, h)) = View(p)
    <2>1. Elements(Append(pending, h)) = Elements(pending) \cup {h}
      BY AppendElements DEF FsTypeOK
    <2>2. own(Append(pending, h)) = own(pending)
      BY <1>1, <2>1
    <2> QED
      BY <2>2 DEF LocalDocuments, View
  <1>2. ASSUME pending # <<>>, Head(pending).coll # p
        PROVE  own(Tail(pending)) = own(pending)
    <2>1. Elements(pending) = Elements(Tail(pending)) \cup {Head(pending)}
      BY <1>2, TailElements DEF FsTypeOK
    <2> QED
      BY <1>2, <2>1
  <1>3. ASSUME pending # <<>>, Head(pending).coll # p
        PROVE  /\ LocalDocuments(p, cache, Tail(pending)) = View(p)
               /\ LocalDocuments(p, With(Head(pending), cache), Tail(pending)) = View(p)
    <2>1. own(Tail(pending)) = own(pending)
      BY <1>2, <1>3
    <2>2. {d \in With(Head(pending), cache) : d.coll = p /\ ~IsIn(d, own(pending))}
            = {d \in cache : d.coll = p /\ ~IsIn(d, own(pending))}
      BY <1>3, WithFacts
    <2> QED
      BY <2>1, <2>2 DEF LocalDocuments, View
  <1>4. ASSUME NEW q \in Queries \ {p}
        PROVE  LocalDocuments(p, {d \in cache : d.coll # q}
                                \cup {d \in server : d.coll = q}, pending) = View(p)
    BY DEF LocalDocuments, View
  <1> QED
    BY <1>1, <1>3, <1>4

LEMMA NewsCases ==
  ASSUME Inv, [Next]_vars
  PROVE  \/ /\ UNCHANGED <<listeners, mainQueue, rootChanges>>
            /\ UNCHANGED <<cache, pending>>
         \/ RunListenTask
         \/ Emits
         \/ \E q \in Queries : HandleRejectedListen(q)
         \/ DeliverEvent
         \/ Crash
  <1>0. FsTypeOK
    BY DEF Inv
  <1>1. ASSUME RunWriteTask PROVE Emits
    <2>1. PICK h : h = Head(workerQueue).doc
      OBVIOUS
    <2>2. h \in Doc /\ h.coll \in Queries
      BY <1>0, <1>1, <2>1, WorkerQueueType, DocType DEF RunWriteTask
    <2>3. /\ pending' = Append(pending, h) /\ cache' = cache
          /\ EmitNewSnapshots(h.coll, FALSE)
      BY <1>1, <2>1 DEF RunWriteTask
    <2>4. \A p \in Queries \ {h.coll} : View(p)' = View(p)
      BY <1>0, <2>2, <2>3, OtherViews DEF View
    <2> QED
      BY <1>1, <2>2, <2>3, <2>4 DEF Emits
  <1>2. ASSUME HandleSuccessfulWrite \/ HandleRejectedWrite, Network \/ Refusal
        PROVE  Emits
    <2>1. PICK h : h = Head(pending)
      OBVIOUS
    <2>2. pending # <<>> /\ h \in Doc /\ h.coll \in Queries
      BY <1>0, <1>2, <2>1, PendingType DEF HandleSuccessfulWrite, HandleRejectedWrite
    <2>3. /\ pending' = Tail(pending) /\ cache' \in {cache, With(h, cache)}
          /\ EmitNewSnapshots(h.coll, FALSE)
      BY <1>2, <2>1 DEF HandleSuccessfulWrite, HandleRejectedWrite
    <2>4. \A p \in Queries \ {h.coll} : View(p)' = View(p)
      BY <1>0, <2>1, <2>2, <2>3, OtherViews DEF View
    <2> QED
      BY <1>2, <2>2, <2>3, <2>4 DEF Emits
  <1>3. ASSUME NEW q \in Queries, ApplyRemoteEvent(q) \/ HandleOffline(q), Network
        PROVE  Emits
    <2>1. EmitNewSnapshots(q, TRUE)
      BY <1>3 DEF ApplyRemoteEvent, HandleOffline
    <2>2. \/ UNCHANGED <<cache, pending>>
          \/ /\ cache' = {d \in cache : d.coll # q} \cup {d \in server : d.coll = q}
             /\ pending' = pending
      BY <1>3 DEF ApplyRemoteEvent, HandleOffline
    <2>3. \A p \in Queries \ {q} : View(p)' = View(p)
      <3> TAKE p \in Queries \ {q}
      <3>1. LocalDocuments(p, {d \in cache : d.coll # q}
                                \cup {d \in server : d.coll = q}, pending) = View(p)
        BY <1>0, OtherViews
      <3> QED
        BY <2>2, <3>1 DEF View
    <2> QED
      BY <1>3, <2>1, <2>3 DEF Emits
  <1>4. CASE Worker
    BY <1>1, <1>4 DEF Worker
  <1>5. CASE Network
    BY <1>2, <1>3, <1>5 DEF Network, ServerCommit
  <1>6. CASE Refusal
    BY <1>2, <1>6 DEF Refusal, LoseResults
  <1> QED
    BY <1>4, <1>5, <1>6
       DEF Next, vars, fsvars, didSelectRow, goBack, sendFakeMessage,
           channelButtonTapped, OtherClient

-----------------------------------------------------------------------------
(* The closures of Sends stand in line *)

IsSend(cb) == cb.kind = "send"
AsksAt(i) == workerQueue[i].op = "listen" /\ IsSend(workerQueue[i].cb)
HearsAt(i) == IsSend(listeners[Root][i].cb)

\* In the worker queue, among the listeners and in every snapshot the closures
\* of earlier Sends come before those of later ones; none is there twice.
TasksInLine ==
  \A i, j \in DOMAIN workerQueue :
    i < j /\ AsksAt(i) /\ AsksAt(j) => workerQueue[i].cb.arg < workerQueue[j].cb.arg
ListenersInLine ==
  \A i, j \in DOMAIN listeners[Root] :
    i < j /\ HearsAt(i) /\ HearsAt(j)
      => listeners[Root][i].cb.arg < listeners[Root][j].cb.arg
TasksBehind ==
  \A i \in DOMAIN listeners[Root], j \in DOMAIN workerQueue :
    HearsAt(i) /\ AsksAt(j) => listeners[Root][i].cb.arg < workerQueue[j].cb.arg
IsInLine(to) == \A i, j \in DOMAIN to :
                  i < j /\ IsSend(to[i]) /\ IsSend(to[j]) => to[i].arg < to[j].arg
CallsInLine == \A k \in DOMAIN mainQueue :
                 ~mainQueue[k].error => IsInLine(mainQueue[k].to)

InLine == TasksInLine /\ ListenersInLine /\ TasksBehind /\ CallsInLine

\* Sends are numbers, and so are positions.
LEMMA SendNumbers ==
  ASSUME Inv
  PROVE  /\ \A i \in DOMAIN workerQueue :
              i \in Nat \ {0} /\ (AsksAt(i) => workerQueue[i].cb.arg \in DOMAIN sends)
         /\ \A i \in DOMAIN listeners[Root] :
              i \in Nat \ {0} /\ (HearsAt(i) => listeners[Root][i].cb.arg \in DOMAIN sends)
         /\ DOMAIN sends = 1..Len(sends) /\ Len(sends) \in Nat
         /\ Root \in Queries
  <1>1. Root \in Queries /\ FsTypeOK /\ AppTypeOK /\ Served
    BY DEF Inv, Queries
  <1>2. DOMAIN sends = 1..Len(sends) /\ Len(sends) \in Nat
    BY <1>1 DEF AppTypeOK
  <1>3. \A i \in DOMAIN workerQueue :
              i \in Nat \ {0} /\ (AsksAt(i) => workerQueue[i].cb.arg \in DOMAIN sends)
    BY <1>1 DEF FsTypeOK, Served, ServedTasks, Serves, AsksAt, IsSend
  <1>4. \A i \in DOMAIN listeners[Root] :
              i \in Nat \ {0} /\ (HearsAt(i) => listeners[Root][i].cb.arg \in DOMAIN sends)
    <2>1. listeners[Root] \in Seq(Listener)
      BY <1>1 DEF FsTypeOK
    <2>2. \A i \in DOMAIN listeners[Root] : i \in Nat \ {0}
      BY <2>1
    <2>3. \A i \in DOMAIN listeners[Root] : Serves(listeners[Root][i].cb, Root)
      BY <1>1 DEF Served, ServedListeners
    <2> QED
      BY <2>2, <2>3 DEF Serves, HearsAt, IsSend
  <1> QED
    BY <1>1, <1>2, <1>3, <1>4

\* A task that registers the closure of a Send was there, perhaps one
\* place behind, or is the one a tap on Send adds.
AskedBefore(i, shift) ==
  /\ i + shift \in DOMAIN workerQueue
  /\ workerQueue'[i] = workerQueue[i + shift]
  /\ AsksAt(i + shift)

LEMMA AskedCases ==
  ASSUME Inv, [Next]_vars
  PROVE  \E shift \in {0, 1} :
           /\ shift = 1 => workerQueue # <<>> /\ workerQueue' = Tail(workerQueue)
           /\ \A i \in DOMAIN workerQueue' : AsksAt(i)' =>
                \/ AskedBefore(i, shift)
                \/ /\ sendFakeMessage /\ shift = 0
                   /\ i = Len(workerQueue) + 1
                   /\ workerQueue'[i].cb.arg = Len(sends) + 1
  <1>0. FsTypeOK /\ workerQueue \in Seq(Task) /\ DOMAIN workerQueue \subseteq Nat
    BY DEF Inv, FsTypeOK
  <1>1. CASE UNCHANGED workerQueue
    <2>1. \A i \in DOMAIN workerQueue' : AsksAt(i)' => AskedBefore(i, 0)
      BY <1>0, <1>1 DEF AskedBefore, AsksAt
    <2> QED
      BY <2>1
  <1>2. CASE workerQueue # <<>> /\ workerQueue' = Tail(workerQueue)
    <2>1. \A i \in DOMAIN workerQueue' :
            i + 1 \in DOMAIN workerQueue /\ workerQueue'[i] = workerQueue[i + 1]
      BY <1>0, <1>2
    <2>2. \A i \in DOMAIN workerQueue' : AsksAt(i)' => AskedBefore(i, 1)
      BY <2>1 DEF AskedBefore, AsksAt
    <2> QED
      BY <1>2, <2>2
  <1>3. CASE workerQueue' = <<getAllChannels>>
    <2>1. \A i \in DOMAIN workerQueue' : ~AsksAt(i)'
      BY <1>3 DEF AsksAt, getAllChannels, ListenTask, IsSend
    <2> QED
      BY <2>1
  <1>4. ASSUME NEW t \in Task, workerQueue' = Append(workerQueue, t),
               ~(t.op = "listen" /\ IsSend(t.cb))
        PROVE  \A i \in DOMAIN workerQueue' : AsksAt(i)' => AskedBefore(i, 0)
    <2>1. /\ DOMAIN workerQueue' = DOMAIN workerQueue \cup {Len(workerQueue) + 1}
          /\ \A i \in DOMAIN workerQueue : workerQueue'[i] = workerQueue[i]
          /\ workerQueue'[Len(workerQueue) + 1] = t
      BY <1>0, <1>4, AppendElements
    <2> QED
      BY <1>0, <1>4, <2>1 DEF AskedBefore, AsksAt
  <1>5. ASSUME NEW t, NEW u, Registers(t), Registers(u),
               t = createMessage(Len(sends) + 1), u.cb.kind = "messages",
               workerQueue' = Append(Append(workerQueue, t), u), sendFakeMessage
        PROVE  \A i \in DOMAIN workerQueue' : AsksAt(i)' =>
                 \/ AskedBefore(i, 0)
                 \/ /\ i = Len(workerQueue) + 1
                    /\ workerQueue'[i].cb.arg = Len(sends) + 1
    <2>0. PICK w : w = Append(workerQueue, t)
      OBVIOUS
    <2>1. /\ DOMAIN w = DOMAIN workerQueue \cup {Len(workerQueue) + 1}
          /\ \A i \in DOMAIN workerQueue : w[i] = workerQueue[i]
          /\ w[Len(workerQueue) + 1] = t /\ w \in Seq(Task)
      BY <1>0, <1>5, <2>0, AppendElements DEF Registers
    <2>2. workerQueue' = Append(w, u) /\ u \in Task
      BY <1>5, <2>0 DEF Registers
    <2>3. /\ DOMAIN workerQueue' = DOMAIN w \cup {Len(w) + 1}
          /\ \A i \in DOMAIN w : workerQueue'[i] = w[i]
          /\ workerQueue'[Len(w) + 1] = u
      BY <2>1, <2>2, AppendElements
    <2>4. t.cb.arg = Len(sends) + 1
      BY <1>5 DEF createMessage, ListenTask
    <2>5. ~IsSend(u.cb)
      BY <1>5 DEF IsSend
    <2> QED
      BY <1>0, <2>1, <2>3, <2>4, <2>5 DEF AskedBefore, AsksAt
  <1>6. \A d \in Doc : WriteTask(d) \in Task /\ WriteTask(d).op = "write"
    BY TaskType DEF WriteTask
  <1>7. \A t : Registers(t) /\ t.cb.kind = "messages" =>
          t \in Task /\ ~IsSend(t.cb)
    BY DEF Registers, IsSend
  <1>8. ASSUME NEW t \in Task, workerQueue' = Append(workerQueue, t),
               t.op = "write" \/ ~IsSend(t.cb)
        PROVE  \A i \in DOMAIN workerQueue' : AsksAt(i)' => AskedBefore(i, 0)
    BY <1>4, <1>8
  <1> QED
    BY <1>1, <1>2, <1>3, <1>5, <1>6, <1>7, <1>8, TaskCases

\* A listener of q was there, or is the one just added at the end.
HeardBefore(q, i) ==
  /\ i \in DOMAIN listeners[q]
  /\ listeners'[q][i].cb = listeners[q][i].cb
  /\ listeners[q][i].raised => listeners'[q][i].raised
AddedAt(q, i) ==
  /\ RunListenTask /\ Head(workerQueue).query = q
  /\ i = Len(listeners[q]) + 1
  /\ listeners'[q][i].cb = Head(workerQueue).cb

LEMMA AddedListener ==
  ASSUME Inv, RunListenTask, NEW q, q = Head(workerQueue).query
  PROVE  /\ q \in Queries /\ workerQueue # <<>>
         /\ DOMAIN listeners'[q] = DOMAIN listeners[q] \cup {Len(listeners[q]) + 1}
         /\ Len(listeners[q]) + 1 \notin DOMAIN listeners[q]
         /\ \A i \in DOMAIN listeners[q] :
              /\ listeners'[q][i] = listeners[q][i]
              /\ i < Len(listeners[q]) + 1 /\ i \in Nat
         /\ AddedAt(q, Len(listeners[q]) + 1)
         /\ \A p \in Queries \ {q} : listeners'[p] = listeners[p]
         /\ UNCHANGED <<cache, pending, rootChanges>>
         /\ \/ /\ ~listeners'[q][Len(listeners[q]) + 1].raised
               /\ View(q) = {} /\ mainQueue' = mainQueue
            \/ /\ listeners'[q][Len(listeners[q]) + 1].raised
               /\ mainQueue' = Append(mainQueue,
                    Snapshot(View(q), FALSE,
                             [i \in {Len(listeners[q]) + 1} |->
                                Head(workerQueue).cb], rootChanges))
  <1>0. FsTypeOK
    BY DEF Inv
  <1>1. q \in Queries /\ Head(workerQueue).cb \in Callback /\ workerQueue # <<>>
    BY <1>0, WorkerQueueType DEF RunListenTask
  <1>2. PICK ready \in BOOLEAN : AddQueryListener(q, Head(workerQueue).cb, ready)
    BY DEF RunListenTask
  <1>3. PICK l : l = [cb |-> Head(workerQueue).cb, raised |-> View(q) # {} \/ ready]
    OBVIOUS
  <1>4. l \in Listener
    BY <1>1, <1>3 DEF Listener
  <1>5. /\ listeners' = [listeners EXCEPT ![q] = Append(listeners[q], l)]
        /\ mainQueue' =
             IF l.raised
             THEN Append(mainQueue,
                    Snapshot(View(q), FALSE,
                             [i \in {Len(listeners[q]) + 1} |->
                                Head(workerQueue).cb], rootChanges))
             ELSE mainQueue
    BY <1>2, <1>3 DEF AddQueryListener
  <1>6. /\ listeners'[q] = Append(listeners[q], l)
        /\ \A p \in Queries \ {q} : listeners'[p] = listeners[p]
        /\ listeners[q] \in Seq(Listener)
    BY <1>0, <1>1, <1>5 DEF FsTypeOK
  <1>7. /\ DOMAIN listeners'[q] = DOMAIN listeners[q] \cup {Len(listeners[q]) + 1}
        /\ \A i \in DOMAIN listeners[q] : listeners'[q][i] = listeners[q][i]
        /\ listeners'[q][Len(listeners[q]) + 1] = l
    BY <1>4, <1>6, AppendElements
  <1>8. /\ \A i \in DOMAIN listeners[q] : i < Len(listeners[q]) + 1 /\ i \in Nat
        /\ Len(listeners[q]) + 1 \notin DOMAIN listeners[q]
    BY <1>6
  <1>9. UNCHANGED <<cache, pending, rootChanges>>
    BY DEF RunListenTask
  <1>10. AddedAt(q, Len(listeners[q]) + 1)
    BY <1>3, <1>7 DEF AddedAt
  <1>11. \/ /\ ~l.raised /\ View(q) = {} /\ mainQueue' = mainQueue
         \/ /\ l.raised
            /\ mainQueue' = Append(mainQueue,
                    Snapshot(View(q), FALSE,
                             [i \in {Len(listeners[q]) + 1} |->
                                Head(workerQueue).cb], rootChanges))
    BY <1>3, <1>5
  <1> QED
    BY <1>1, <1>6, <1>7, <1>8, <1>9, <1>10, <1>11

LEMMA HeardCases ==
  ASSUME Inv, [Next]_vars, NEW q \in Queries
  PROVE  \A i \in DOMAIN listeners'[q] : HeardBefore(q, i) \/ AddedAt(q, i)
  <1>0. FsTypeOK
    BY DEF Inv
  <1>1. CASE UNCHANGED listeners
    BY <1>1 DEF HeardBefore
  <1>2. CASE RunListenTask
    <2>1. PICK p : p = Head(workerQueue).query
      OBVIOUS
    <2>2. CASE p = q
      <3>1. q = Head(workerQueue).query
        BY <2>1, <2>2
      <3> QED
        <4>1. /\ DOMAIN listeners'[q] = DOMAIN listeners[q] \cup {Len(listeners[q]) + 1}
              /\ \A i \in DOMAIN listeners[q] : listeners'[q][i] = listeners[q][i]
              /\ AddedAt(q, Len(listeners[q]) + 1)
          BY <1>2, <3>1, AddedListener
        <4> QED
          BY <4>1 DEF HeardBefore
    <2>3. CASE p # q
      <3>1. listeners'[q] = listeners[q]
        BY <1>2, <2>1, <2>3, AddedListener
      <3> QED
        BY <3>1 DEF HeardBefore
    <2> QED
      BY <2>2, <2>3
  <1>3. CASE Emits
    <2>1. PICK p \in Queries, ready \in BOOLEAN : EmitNewSnapshots(p, ready)
      BY <1>3 DEF Emits
    <2>2. CASE p = q
      BY <1>0, <2>1, <2>2, EmitTells DEF Told, HeardBefore
    <2>3. CASE p # q
      <3>1. listeners'[q] = listeners[q]
        BY <1>0, <2>1, <2>3, EmitTells
      <3> QED
        BY <3>1 DEF HeardBefore
    <2> QED
      BY <2>2, <2>3
  <1>4. ASSUME NEW p \in Queries, HandleRejectedListen(p)
        PROVE  \A i \in DOMAIN listeners'[q] : HeardBefore(q, i)
    <2>1. listeners' = [listeners EXCEPT ![p] = <<>>]
      BY <1>4 DEF HandleRejectedListen
    <2>2. listeners'[q] = <<>> \/ listeners'[q] = listeners[q]
      BY <1>0, <2>1 DEF FsTypeOK
    <2> QED
      BY <2>2 DEF HeardBefore
  <1>5. CASE DeliverEvent
    BY <1>1, <1>5 DEF DeliverEvent
  <1>6. CASE Crash
    BY <1>6 DEF Crash, NoListeners
  <1> QED
    BY <1>1, <1>2, <1>3, <1>4, <1>5, <1>6, NewsCases

\* What is posted to the main queue: an answer to listeners of q, all of them
\* listening still, an error, which calls nobody's attention, or nothing.
Tells(q, b) ==
  /\ ~b.error /\ b.docs = View(q)' /\ b.at = rootChanges'
  /\ \A i \in DOMAIN b.to :
       /\ i \in DOMAIN listeners'[q]
       /\ b.to[i] = listeners'[q][i].cb
       /\ listeners'[q][i].raised
       /\ \/ AddedAt(q, i)
          \/ HeardBefore(q, i) /\ ~listeners[q][i].raised
          \/ HeardBefore(q, i) /\ View(q)' # View(q)
  /\ rootChanges' = IF q = Root /\ View(q)' # View(q)
                    THEN rootChanges + 1 ELSE rootChanges

Appends(b) == mainQueue' = Append(mainQueue, b)

LEMMA PostCases ==
  ASSUME Inv, [Next]_vars
  PROVE  \/ UNCHANGED mainQueue
         \/ \E q \in Queries, b \in Elements(mainQueue') : Tells(q, b) /\ Appends(b)
         \/ \E b \in Elements(mainQueue') : b.error /\ b.docs = {} /\ Appends(b)
         \/ DeliverEvent
         \/ mainQueue' = <<>> /\ Crash
  <1>0. FsTypeOK
    BY DEF Inv
  <1>1. ASSUME NEW b, Appends(b) PROVE b \in Elements(mainQueue')
    <2>1. /\ DOMAIN mainQueue' = DOMAIN mainQueue \cup {Len(mainQueue) + 1}
          /\ mainQueue'[Len(mainQueue) + 1] = b
      BY <1>0, <1>1, AppendIsSeq DEF Appends, FsTypeOK
    <2> QED
      BY <2>1 DEF Elements
  <1>2. CASE RunListenTask
    <2>1. PICK q, n : q = Head(workerQueue).query /\ n = Len(listeners[q]) + 1
      OBVIOUS
    <2>2. CASE UNCHANGED mainQueue
      BY <2>2
    <2>3. CASE mainQueue' # mainQueue
      <3>1. PICK b : /\ b = Snapshot(View(q), FALSE,
                              [i \in {n} |-> Head(workerQueue).cb], rootChanges)
                     /\ Appends(b)
        BY <1>2, <2>1, <2>3, AddedListener DEF Appends
      <3>2. /\ UNCHANGED <<cache, pending, rootChanges>>
            /\ n \in DOMAIN listeners'[q] /\ AddedAt(q, n)
            /\ listeners'[q][n].raised /\ q \in Queries
        BY <1>2, <2>1, <2>3, AddedListener
      <3>3. View(q)' = View(q)
        BY <3>2 DEF View
      <3>4. /\ ~b.error /\ b.docs = View(q) /\ b.at = rootChanges
            /\ DOMAIN b.to = {n} /\ b.to[n] = Head(workerQueue).cb
        BY <3>1 DEF Snapshot
      <3>5. Tells(q, b)
        BY <3>2, <3>3, <3>4 DEF Tells, AddedAt
      <3> QED
        BY <1>1, <3>1, <3>2, <3>5
    <2> QED
      BY <2>2, <2>3
  <1>3. CASE Emits
    <2>1. PICK q \in Queries, ready \in BOOLEAN : EmitNewSnapshots(q, ready)
      BY <1>3 DEF Emits
    <2>2. PICK told : Told(q, told)
      BY <1>0, <2>1, EmitTells
    <2>3. CASE told = {}
      BY <2>2, <2>3 DEF Told
    <2>4. CASE told # {}
      <3>1. PICK b : /\ b = Snapshot(View(q)', FALSE,
                              [i \in told |-> listeners[q][i].cb], rootChanges')
                     /\ Appends(b)
        BY <2>2, <2>4 DEF Told, Appends
      <3>2. /\ ~b.error /\ b.docs = View(q)' /\ b.at = rootChanges'
            /\ DOMAIN b.to = told /\ \A i \in told : b.to[i] = listeners[q][i].cb
        BY <3>1 DEF Snapshot
      <3>3. \A i \in told :
              /\ i \in DOMAIN listeners'[q]
              /\ listeners'[q][i].cb = listeners[q][i].cb
              /\ listeners'[q][i].raised
              /\ HeardBefore(q, i)
              /\ ~listeners[q][i].raised \/ View(q)' # View(q)
        BY <2>2 DEF Told, HeardBefore
      <3>4. Tells(q, b)
        BY <1>0, <2>1, <3>2, <3>3, EmitTells DEF Tells
      <3> QED
        BY <1>1, <3>1, <3>4
    <2> QED
      BY <2>3, <2>4
  <1>4. ASSUME NEW q \in Queries, HandleRejectedListen(q)
        PROVE  \E b \in Elements(mainQueue') : b.error /\ b.docs = {} /\ Appends(b)
    <2>1. PICK b : /\ b = Snapshot({}, TRUE,
                            [i \in DOMAIN listeners[q] |-> listeners[q][i].cb],
                            rootChanges)
                   /\ Appends(b)
      BY <1>4 DEF HandleRejectedListen, Appends
    <2> QED
      BY <1>1, <2>1 DEF Snapshot
  <1>5. CASE Crash
    BY <1>5 DEF Crash
  <1> QED
    BY <1>2, <1>3, <1>4, <1>5, NewsCases

\* The views change only where somebody is told.
LEMMA ChangeCases ==
  ASSUME Inv, [Next]_vars
  PROVE  /\ rootChanges' = rootChanges \/ rootChanges' = rootChanges + 1
         /\ rootChanges \in Nat /\ rootChanges' \in Nat /\ rootChanges <= rootChanges'
  <1>0. FsTypeOK
    BY DEF Inv
  <1>1. rootChanges' = rootChanges \/ rootChanges' = rootChanges + 1
    <2>1. CASE Emits
      <3>1. PICK q \in Queries, ready \in BOOLEAN : EmitNewSnapshots(q, ready)
        BY <2>1 DEF Emits
      <3> QED
        BY <1>0, <3>1, EmitTells
    <2>2. CASE DeliverEvent \/ Crash \/ RunListenTask
      BY <2>2 DEF RunListenTask, DeliverEvent, Crash
    <2>3. CASE \E q \in Queries : HandleRejectedListen(q)
      BY <2>3 DEF HandleRejectedListen
    <2> QED
      BY <2>1, <2>2, <2>3, NewsCases
  <1> QED
    BY <1>0, <1>1 DEF FsTypeOK

-----------------------------------------------------------------------------
(* Snapshots, one step on *)

\* c is what is left of b when some of its calls were made.
IsRestOf(c, b) ==
  /\ c.docs = b.docs /\ c.error = b.error /\ c.at = b.at
  /\ DOMAIN c.to \subseteq DOMAIN b.to
  /\ \A j \in DOMAIN c.to : c.to[j] = b.to[j]

\* The k-th snapshot after the step was there, perhaps one place behind.
PostedBefore(k, shift) ==
  /\ k + shift \in DOMAIN mainQueue
  /\ IsRestOf(mainQueue'[k], mainQueue[k + shift])

LEMMA TakenShift ==
  ASSUME FsTypeOK, NEW i, IsNext(i), TakeEvent(i)
  PROVE  /\ 1 \in DOMAIN mainQueue /\ Head(mainQueue) = mainQueue[1]
         /\ i \in DOMAIN mainQueue[1].to
         /\ \A j \in DOMAIN mainQueue[1].to : j \in Nat /\ i <= j
         /\ \E shift \in {0, 1} : \A k \in DOMAIN mainQueue' :
              /\ PostedBefore(k, shift)
              /\ k + shift = 1 => i \notin DOMAIN mainQueue'[k].to
  <1> DEFINE b == Head(mainQueue)
             left == DOMAIN b.to \ {i}
             c == Snapshot(b.docs, b.error, [j \in left |-> b.to[j]], b.at)
  <1>1. /\ mainQueue # <<>> /\ b = mainQueue[1] /\ 1 \in DOMAIN mainQueue
        /\ mainQueue \in Seq(Elements(mainQueue))
    BY TailIsSeq DEF FsTypeOK, IsNext
  <1>2. /\ i \in DOMAIN mainQueue[1].to
        /\ \A j \in DOMAIN mainQueue[1].to : j \in Nat /\ i <= j
    BY <1>1 DEF FsTypeOK, IsNext, IsSnapshot
  <1>3. CASE left = {}
    <2>1. mainQueue' = Tail(mainQueue)
      BY <1>3 DEF TakeEvent
    <2>2. \A k \in DOMAIN mainQueue' :
            k \in Nat \ {0} /\ k + 1 \in DOMAIN mainQueue /\ mainQueue'[k] = mainQueue[k + 1]
      BY <1>1, <2>1, TailIsSeq
    <2>3. \A k \in DOMAIN mainQueue' : PostedBefore(k, 1) /\ k + 1 # 1
      BY <2>2 DEF PostedBefore, IsRestOf
    <2> QED
      BY <1>1, <1>2, <2>3
  <1>4. CASE left # {}
    <2>1. mainQueue' = [mainQueue EXCEPT ![1] = c]
      BY <1>4 DEF TakeEvent
    <2>2. IsRestOf(c, mainQueue[1]) /\ i \notin DOMAIN c.to
      BY <1>1 DEF Snapshot, IsRestOf
    <2> HIDE DEF c
    <2>3. \A k \in DOMAIN mainQueue' :
            /\ k \in DOMAIN mainQueue
            /\ k = 1 => mainQueue'[k] = c
            /\ k # 1 => mainQueue'[k] = mainQueue[k]
      BY <1>1, <2>1
    <2>4. \A k \in DOMAIN mainQueue' : k + 0 = k
      BY <1>1, <2>3
    <2>5. \A k \in DOMAIN mainQueue' :
            PostedBefore(k, 0) /\ (k + 0 = 1 => i \notin DOMAIN mainQueue'[k].to)
      BY <2>2, <2>3, <2>4 DEF PostedBefore, IsRestOf
    <2> QED
      BY <1>1, <1>2, <2>5
  <1> QED
    BY <1>3, <1>4

LEMMA AppendedSnapshot ==
  ASSUME FsTypeOK, NEW b, Appends(b)
  PROVE  /\ \A k \in DOMAIN mainQueue' :
              \/ PostedBefore(k, 0) /\ mainQueue'[k] = mainQueue[k]
              \/ k = Len(mainQueue) + 1 /\ mainQueue'[k] = b
         /\ Len(mainQueue) \in Nat /\ DOMAIN mainQueue = 1..Len(mainQueue)
         /\ DOMAIN mainQueue' = 1..(Len(mainQueue) + 1)
         /\ \A k \in DOMAIN mainQueue : mainQueue'[k] = mainQueue[k]
         /\ mainQueue'[Len(mainQueue) + 1] = b
  <1>1. /\ DOMAIN mainQueue' = DOMAIN mainQueue \cup {Len(mainQueue) + 1}
        /\ \A k \in DOMAIN mainQueue : mainQueue'[k] = mainQueue[k]
        /\ mainQueue'[Len(mainQueue) + 1] = b
    BY AppendIsSeq DEF FsTypeOK, Appends
  <1>2. DOMAIN mainQueue = 1..Len(mainQueue) /\ Len(mainQueue) \in Nat
    BY DEF FsTypeOK
  <1>3. \A k \in DOMAIN mainQueue : k + 0 = k
    BY <1>2
  <1> QED
    BY <1>1, <1>2, <1>3 DEF PostedBefore, IsRestOf

\* A snapshot on the main queue was there, or was posted at the end.
LEMMA SnapshotCases ==
  ASSUME Inv, [Next]_vars
  PROVE  \E shift \in {0, 1} : \A k \in DOMAIN mainQueue' :
           \/ PostedBefore(k, shift)
           \/ /\ k = Len(mainQueue) + 1 /\ shift = 0 /\ Appends(mainQueue'[k])
              /\ \/ mainQueue'[k].error /\ mainQueue'[k].docs = {}
                 \/ \E q \in Queries : Tells(q, mainQueue'[k])
  <1>0. FsTypeOK
    BY DEF Inv
  <1>1. CASE UNCHANGED mainQueue
    <2>1. \A k \in DOMAIN mainQueue : k + 0 = k
      BY <1>0 DEF FsTypeOK
    <2>2. \A k \in DOMAIN mainQueue' : PostedBefore(k, 0)
      BY <1>1, <2>1 DEF PostedBefore, IsRestOf
    <2> QED
      BY <2>2
  <1>2. ASSUME NEW b, Appends(b),
               \/ b.error /\ b.docs = {}
               \/ \E q \in Queries : Tells(q, b)
        PROVE  \A k \in DOMAIN mainQueue' :
           \/ PostedBefore(k, 0)
           \/ /\ k = Len(mainQueue) + 1 /\ Appends(mainQueue'[k])
              /\ \/ mainQueue'[k].error /\ mainQueue'[k].docs = {}
                 \/ \E q \in Queries : Tells(q, mainQueue'[k])
    BY <1>0, <1>2, AppendedSnapshot
  <1>3. CASE DeliverEvent
    BY <1>0, <1>3, TakenShift DEF DeliverEvent
  <1>4. CASE mainQueue' = <<>>
    BY <1>4
  <1> QED
    BY <1>1, <1>2, <1>3, <1>4, PostCases

-----------------------------------------------------------------------------
(* The line is kept *)

LEMMA TasksInLineNext ==
  ASSUME Inv, TasksInLine, [Next]_vars
  PROVE  TasksInLine'
  <1>1. PICK shift \in {0, 1} : \A i \in DOMAIN workerQueue' : AsksAt(i)' =>
                \/ AskedBefore(i, shift)
                \/ /\ i = Len(workerQueue) + 1 /\ shift = 0
                   /\ workerQueue'[i].cb.arg = Len(sends) + 1
    BY AskedCases
  <1>2. DOMAIN workerQueue = 1..Len(workerQueue) /\ Len(workerQueue) \in Nat
    BY DEF Inv, FsTypeOK
  <1>3. DOMAIN workerQueue' \subseteq Nat
    BY NextInv DEF Inv, FsTypeOK
  <1> SUFFICES ASSUME NEW i \in DOMAIN workerQueue', NEW j \in DOMAIN workerQueue',
                      i < j, AsksAt(i)', AsksAt(j)'
               PROVE  workerQueue'[i].cb.arg < workerQueue'[j].cb.arg
    BY DEF TasksInLine
  <1>4. AskedBefore(i, shift)
    BY <1>1, <1>2, <1>3 DEF AskedBefore
  <1>5. CASE AskedBefore(j, shift)
    <2>1. i + shift < j + shift
      BY <1>3
    <2> QED
      BY <1>4, <1>5, <2>1 DEF AskedBefore, TasksInLine
  <1>6. CASE workerQueue'[j].cb.arg = Len(sends) + 1
    <2>1. workerQueue'[i].cb.arg \in 1..Len(sends) /\ Len(sends) \in Nat
      BY <1>4, SendNumbers DEF AskedBefore
    <2> QED
      BY <1>6, <2>1
  <1> QED
    BY <1>1, <1>5, <1>6

LEMMA ListenersInLineNext ==
  ASSUME Inv, ListenersInLine, TasksBehind, [Next]_vars
  PROVE  ListenersInLine'
  <1>1. Root \in Queries /\ FsTypeOK
    BY DEF Inv, Queries
  <1>2. \A i \in DOMAIN listeners'[Root] : HeardBefore(Root, i) \/ AddedAt(Root, i)
    BY <1>1, HeardCases
  <1>3. \A i \in DOMAIN listeners[Root] : i < Len(listeners[Root]) + 1 /\ i \in Nat
    BY <1>1 DEF FsTypeOK
  <1> SUFFICES ASSUME NEW i \in DOMAIN listeners'[Root],
                      NEW j \in DOMAIN listeners'[Root],
                      i < j, HearsAt(i)', HearsAt(j)'
               PROVE  listeners'[Root][i].cb.arg < listeners'[Root][j].cb.arg
    BY DEF ListenersInLine
  <1>4. HeardBefore(Root, i)
    <2>1. Len(listeners[Root]) \in Nat
      BY <1>1 DEF FsTypeOK
    <2> QED
      BY <1>2, <1>3, <2>1 DEF HeardBefore, AddedAt
  <1>5. CASE HeardBefore(Root, j)
    BY <1>4, <1>5 DEF HeardBefore, ListenersInLine, HearsAt
  <1>6. CASE AddedAt(Root, j)
    <2>1. 1 \in DOMAIN workerQueue /\ Head(workerQueue) = workerQueue[1]
      BY <1>1, <1>6 DEF AddedAt, RunListenTask, FsTypeOK
    <2>2. AsksAt(1) /\ workerQueue[1].cb = listeners'[Root][j].cb
      BY <1>6, <2>1 DEF AddedAt, AsksAt, HearsAt, RunListenTask
    <2> QED
      BY <1>4, <2>1, <2>2 DEF HeardBefore, TasksBehind, HearsAt
  <1> QED
    BY <1>2, <1>5, <1>6

LEMMA TasksBehindNext ==
  ASSUME Inv, TasksInLine, TasksBehind, [Next]_vars
  PROVE  TasksBehind'
  <1>1. Root \in Queries /\ FsTypeOK
    BY DEF Inv, Queries
  <1>2. PICK shift \in {0, 1} :
          /\ shift = 1 => workerQueue' = Tail(workerQueue)
          /\ \A i \in DOMAIN workerQueue' : AsksAt(i)' =>
                \/ AskedBefore(i, shift)
                \/ /\ sendFakeMessage
                   /\ workerQueue'[i].cb.arg = Len(sends) + 1
    BY AskedCases
  <1> SUFFICES ASSUME NEW i \in DOMAIN listeners'[Root],
                      NEW j \in DOMAIN workerQueue', HearsAt(i)', AsksAt(j)'
               PROVE  listeners'[Root][i].cb.arg < workerQueue'[j].cb.arg
    BY DEF TasksBehind
  <1>3. CASE HeardBefore(Root, i)
    <2>1. HearsAt(i) /\ listeners'[Root][i].cb = listeners[Root][i].cb
      BY <1>3 DEF HeardBefore, HearsAt
    <2>2. CASE AskedBefore(j, shift)
      BY <1>3, <2>1, <2>2 DEF HeardBefore, AskedBefore, TasksBehind
    <2>3. CASE workerQueue'[j].cb.arg = Len(sends) + 1
      <3>1. listeners[Root][i].cb.arg \in 1..Len(sends) /\ Len(sends) \in Nat
        BY <1>3, <2>1, SendNumbers DEF HeardBefore
      <3> QED
        BY <2>1, <2>3, <3>1
    <2> QED
      BY <1>2, <2>2, <2>3
  <1>4. CASE AddedAt(Root, i)
    <2>1. workerQueue' = Tail(workerQueue) /\ workerQueue # <<>>
      BY <1>4 DEF AddedAt, RunListenTask
    <2>2. \A k \in DOMAIN workerQueue' :
            k + 1 \in DOMAIN workerQueue /\ workerQueue'[k] = workerQueue[k + 1]
            /\ 1 < k + 1
      BY <1>1, <2>1 DEF FsTypeOK
    <2>3. 1 \in DOMAIN workerQueue /\ Head(workerQueue) = workerQueue[1]
      BY <1>1, <2>1 DEF FsTypeOK
    <2>4. AsksAt(1) /\ workerQueue[1].cb = listeners'[Root][i].cb
      BY <1>4, <2>3 DEF AddedAt, AsksAt, HearsAt, RunListenTask
    <2>5. AsksAt(j + 1)
      BY <2>2 DEF AsksAt
    <2> QED
      BY <2>2, <2>3, <2>4, <2>5 DEF TasksInLine
  <1> QED
    BY <1>1, <1>3, <1>4, HeardCases

LEMMA CallsInLineNext ==
  ASSUME Inv, CallsInLine, ListenersInLine, TasksBehind, [Next]_vars
  PROVE  CallsInLine'
  <1>1. ListenersInLine' /\ Inv'
    BY ListenersInLineNext, NextInv
  <1>2. ASSUME NEW b, NEW q \in Queries, Tells(q, b)
        PROVE  IsInLine(b.to)
    <2>1. \A i \in DOMAIN b.to : i \in DOMAIN listeners'[q] /\ b.to[i] = listeners'[q][i].cb
      BY <1>2 DEF Tells
    <2>2. CASE q = Root
      BY <1>1, <2>1, <2>2 DEF IsInLine, ListenersInLine, HearsAt
    <2>3. CASE q # Root
      <3>1. \A i \in DOMAIN listeners'[q] : ~IsSend(listeners'[q][i].cb)
        BY <1>1, <2>3 DEF Inv, Served, ServedListeners, Serves, IsSend
      <3> QED
        BY <2>1, <3>1 DEF IsInLine
    <2> QED
      BY <2>2, <2>3
  <1>3. PICK shift \in {0, 1} : \A k \in DOMAIN mainQueue' :
           \/ PostedBefore(k, shift)
           \/ mainQueue'[k].error
           \/ \E q \in Queries : Tells(q, mainQueue'[k])
    BY SnapshotCases
  <1>4. ASSUME NEW k \in DOMAIN mainQueue', PostedBefore(k, shift),
               ~mainQueue'[k].error
        PROVE  IsInLine(mainQueue'[k].to)
    <2>1. /\ ~mainQueue[k + shift].error /\ k + shift \in DOMAIN mainQueue
          /\ IsRestOf(mainQueue'[k], mainQueue[k + shift])
      BY <1>4 DEF PostedBefore, IsRestOf
    <2>2. IsInLine(mainQueue[k + shift].to)
      BY <2>1 DEF CallsInLine
    <2> QED
      BY <2>1, <2>2 DEF IsInLine, IsRestOf
  <1> QED
    BY <1>2, <1>3, <1>4 DEF CallsInLine

LEMMA InLineNext ==
  ASSUME Inv, InLine, [Next]_vars
  PROVE  InLine'
  BY TasksInLineNext, ListenersInLineNext, TasksBehindNext, CallsInLineNext
     DEF InLine

LEMMA InLineInvariance == Spec => []InLine
  <1>1. Init => InLine
    <2> SUFFICES ASSUME Init PROVE InLine
      OBVIOUS
    <2>1. /\ workerQueue = <<getAllChannels>> /\ mainQueue = <<>>
          /\ listeners[Root] = <<>>
      BY DEF Init, NoListeners, Queries
    <2> QED
      BY <2>1 DEF InLine, TasksInLine, ListenersInLine, TasksBehind, CallsInLine,
                  AsksAt, IsSend, getAllChannels, ListenTask
  <1> QED
    BY Invariance, InLineNext, <1>1, PTL DEF Spec

-----------------------------------------------------------------------------
(* How often a Send may still be called *)

IsOf(cb, m) == IsSend(cb) /\ cb.arg = m
Calls(b, m) == ~b.error /\ \E i \in DOMAIN b.to : IsOf(b.to[i], m)
Asked(m) == \E i \in DOMAIN workerQueue : AsksAt(i) /\ workerQueue[i].cb.arg = m
Waits(m) == \E i \in DOMAIN listeners[Root] :
              IsOf(listeners[Root][i].cb, m) /\ ~listeners[Root][i].raised

\* The changes of "channels" since the tap on Send m pay for the copies there
\* are and for every call that is on its way: each is of a later change than
\* the one before.  Before the first there are none.
Paid(m) ==
  /\ sends[m].since <= rootChanges
  /\ copies[m] <= 1 + (rootChanges - sends[m].since)
CallsPaid(m) ==
  \A k \in DOMAIN mainQueue : Calls(mainQueue[k], m) =>
    /\ copies[m] <= mainQueue[k].at - sends[m].since
    /\ mainQueue[k].at <= rootChanges
CallsRise(m) ==
  \A k, l \in DOMAIN mainQueue :
    k < l /\ Calls(mainQueue[k], m) /\ Calls(mainQueue[l], m)
      => mainQueue[k].at < mainQueue[l].at
NotYet(m) ==
  Asked(m) \/ Waits(m) =>
    copies[m] = 0 /\ \A k \in DOMAIN mainQueue : ~Calls(mainQueue[k], m)

Owed == \A m \in DOMAIN sends : Paid(m) /\ CallsPaid(m) /\ CallsRise(m) /\ NotYet(m)

LEMMA OwedNumbers ==
  ASSUME Inv, NEW m \in DOMAIN sends
  PROVE  /\ m \in Nat /\ m \in DOMAIN copies /\ copies[m] \in Nat
         /\ sends[m].since \in Nat /\ rootChanges \in Nat
         /\ DOMAIN mainQueue \subseteq Nat
         /\ \A k \in DOMAIN mainQueue : mainQueue[k].at \in Nat
  <1>1. FsTypeOK /\ AppTypeOK
    BY DEF Inv
  <1>2. rootChanges \in Nat
    BY <1>1 DEF FsTypeOK
  <1>3. DOMAIN mainQueue \subseteq Nat
    BY <1>1 DEF FsTypeOK
  <1>4. \A k \in DOMAIN mainQueue : mainQueue[k].at \in Nat
    BY <1>1 DEF FsTypeOK, IsSnapshot
  <1>5. /\ m \in Nat /\ m \in DOMAIN copies
        /\ copies \in Seq(Nat)
    BY <1>1 DEF AppTypeOK
  <1>6. copies[m] \in Nat
    BY <1>5
  <1>7. PICK S : S = [channel : Channel, since : Nat, launch : Nat]
    OBVIOUS
  <1>8. sends \in Seq(S)
    BY <1>1, <1>7 DEF AppTypeOK
  <1>9. sends[m] \in S
    BY <1>8
  <1> QED
    BY <1>2, <1>3, <1>4, <1>5, <1>6, <1>7, <1>9

LEMMA OldSends ==
  ASSUME Inv, [Next]_vars
  PROVE  /\ DOMAIN sends \subseteq DOMAIN sends'
         /\ \A m \in DOMAIN sends : sends'[m] = sends[m]
         /\ \A m \in DOMAIN sends' :
              \/ m \in DOMAIN sends
              \/ /\ sendFakeMessage /\ m = Len(sends) + 1
                 /\ sends'[m].since = rootChanges /\ copies'[m] = 0
                 /\ UNCHANGED <<mainQueue, listeners, rootChanges>>
         /\ \A m \in DOMAIN sends :
              \/ copies'[m] = copies[m]
              \/ /\ \E i \in DOMAIN Head(mainQueue).to, d \in Head(mainQueue).docs :
                      Writes(i, m, d)
                 /\ DeliverEvent
                 /\ copies'[m] = copies[m] + 1
  <1>0. AppTypeOK
    BY DEF Inv
  <1>1. CASE sendFakeMessage
    <2>1. PICK s : /\ s.since = rootChanges
                   /\ sends' = Append(sends, s)
                   /\ copies' = Append(copies, 0)
                   /\ UNCHANGED <<mainQueue, listeners, rootChanges>>
      BY <1>1 DEF sendFakeMessage
    <2> QED
      BY <1>0, <1>1, <2>1 DEF AppTypeOK
  <1>2. CASE DeliverEvent
    <2>1. UNCHANGED sends
      BY <1>2 DEF DeliverEvent
    <2>2. CASE UNCHANGED copies
      BY <2>1, <2>2
    <2>3. CASE copies' # copies
      <3>1. PICK i \in DOMAIN Head(mainQueue).to, n \in DOMAIN sends,
                 d \in Head(mainQueue).docs : Writes(i, n, d)
        BY <1>2, <2>3, SendWrites
      <3>2. copies' = [copies EXCEPT ![n] = copies[n] + 1]
        BY <3>1 DEF Writes
      <3>3. n \in DOMAIN copies
        BY <1>0 DEF AppTypeOK
      <3>4. \A m \in DOMAIN sends :
              copies'[m] = copies[m] \/ (m = n /\ copies'[m] = copies[m] + 1)
        BY <1>0, <3>2, <3>3 DEF AppTypeOK
      <3> QED
        BY <1>2, <2>1, <3>1, <3>4
    <2> QED
      BY <2>2, <2>3
  <1>3. CASE UNCHANGED <<sends, copies>>
    BY <1>3
  <1> QED
    BY <1>1, <1>2, <1>3
       DEF Next, vars, appvars, didSelectRow, goBack, channelButtonTapped,
           Worker, Network, Refusal, Crash, OtherClient

\* Who still has to be called for the first time had to be before.
LEMMA StillToCome ==
  ASSUME Inv, [Next]_vars, NEW m \in DOMAIN sends, (Asked(m) \/ Waits(m))'
  PROVE  Asked(m) \/ Waits(m)
  <1>0. Root \in Queries /\ FsTypeOK /\ m # Len(sends) + 1
    BY SendNumbers DEF Inv
  <1>1. CASE Asked(m)'
    <2>1. PICK i \in DOMAIN workerQueue' : AsksAt(i)' /\ workerQueue'[i].cb.arg = m
      BY <1>1 DEF Asked
    <2>2. PICK shift \in {0, 1} : AskedBefore(i, shift)
      BY <1>0, <2>1, AskedCases
    <2> QED
      BY <2>1, <2>2 DEF AskedBefore, Asked
  <1>2. CASE Waits(m)'
    <2>1. PICK i \in DOMAIN listeners'[Root] :
            IsOf(listeners'[Root][i].cb, m) /\ ~listeners'[Root][i].raised
      BY <1>2 DEF Waits
    <2>2. CASE HeardBefore(Root, i)
      BY <2>1, <2>2 DEF HeardBefore, Waits
    <2>3. CASE AddedAt(Root, i)
      <3>1. 1 \in DOMAIN workerQueue /\ Head(workerQueue) = workerQueue[1]
        BY <1>0, <2>3 DEF AddedAt, RunListenTask, FsTypeOK
      <3> QED
        BY <2>1, <2>3, <3>1 DEF AddedAt, RunListenTask, Asked, AsksAt, IsOf
    <2> QED
      BY <1>0, <2>2, <2>3, HeardCases
  <1> QED
    BY <1>1, <1>2

\* A new snapshot that calls m finds nothing left to come, ...
LEMMA CalledIsHere ==
  ASSUME Inv, InLine, [Next]_vars, NEW m \in DOMAIN sends, NEW q \in Queries,
         NEW b, Tells(q, b), Calls(b, m)
  PROVE  /\ ~Asked(m)' /\ ~Waits(m)'
         /\ \/ Asked(m) \/ Waits(m)
            \/ rootChanges' = rootChanges + 1
  <1>0. Root \in Queries /\ Inv' /\ InLine' /\ FsTypeOK
    BY NextInv, InLineNext DEF Queries, Inv
  <1>1. PICK i \in DOMAIN b.to : IsOf(b.to[i], m)
    BY DEF Calls
  <1>2. /\ i \in DOMAIN listeners'[q]
        /\ b.to[i] = listeners'[q][i].cb
        /\ listeners'[q][i].raised
        /\ \/ AddedAt(q, i)
           \/ HeardBefore(q, i) /\ ~listeners[q][i].raised
           \/ HeardBefore(q, i) /\ View(q)' # View(q)
        /\ rootChanges' = IF q = Root /\ View(q)' # View(q)
                          THEN rootChanges + 1 ELSE rootChanges
    BY DEF Tells
  <1>3. q = Root
    BY <1>0, <1>1, <1>2 DEF Inv, Served, ServedListeners, Serves, IsOf, IsSend
  <1>4. HearsAt(i)' /\ listeners'[Root][i].cb.arg = m
    BY <1>1, <1>2, <1>3 DEF HearsAt, IsOf
  <1>5. ~Asked(m)'
    BY <1>0, <1>2, <1>3, <1>4, OwedNumbers DEF InLine, TasksBehind, Asked
  <1>6. ~Waits(m)'
    <2> SUFFICES ASSUME NEW j \in DOMAIN listeners'[Root], HearsAt(j)',
                        listeners'[Root][j].cb.arg = m, ~listeners'[Root][j].raised
                 PROVE  FALSE
      BY DEF Waits, IsOf, HearsAt
    <2>1. i \in Nat /\ j \in Nat /\ m \in Nat
      BY <1>0, <1>2, <1>3, OwedNumbers DEF Inv, FsTypeOK
    <2>2. i < j \/ j < i
      BY <1>2, <1>3, <2>1
    <2> QED
      BY <1>0, <1>2, <1>3, <1>4, <2>1, <2>2 DEF InLine, ListenersInLine
  <1>7. ASSUME AddedAt(Root, i) PROVE Asked(m)
    <2>1. 1 \in DOMAIN workerQueue /\ Head(workerQueue) = workerQueue[1]
      BY <1>0, <1>7 DEF AddedAt, RunListenTask, FsTypeOK
    <2> QED
      BY <1>4, <1>7, <2>1 DEF AddedAt, RunListenTask, Asked, AsksAt, HearsAt
  <1>8. ASSUME HeardBefore(Root, i), ~listeners[Root][i].raised PROVE Waits(m)
    BY <1>4, <1>8 DEF HeardBefore, Waits, IsOf, HearsAt
  <1> QED
    BY <1>2, <1>3, <1>5, <1>6, <1>7, <1>8

\* The steps in which nothing of m is written: the snapshots there were stay,
\* and one that is new is paid for by a change of its own.
LEMMA QuietStep ==
  ASSUME Inv, InLine, Owed, [Next]_vars, NEW m \in DOMAIN sends,
         copies'[m] = copies[m], sends'[m] = sends[m]
  PROVE  Paid(m)' /\ CallsPaid(m)' /\ CallsRise(m)' /\ NotYet(m)'
  <1>0. /\ Inv' /\ m \in DOMAIN sends' /\ copies[m] \in Nat /\ sends[m].since \in Nat
        /\ rootChanges \in Nat /\ rootChanges' \in Nat
        /\ rootChanges <= rootChanges'
    BY NextInv, OldSends, OwedNumbers, ChangeCases
  <1>1. Paid(m) /\ CallsPaid(m) /\ CallsRise(m) /\ NotYet(m)
    BY DEF Owed
  <1>2. PICK shift \in {0, 1} : \A k \in DOMAIN mainQueue' :
           \/ PostedBefore(k, shift)
           \/ /\ k = Len(mainQueue) + 1 /\ shift = 0
              /\ \/ mainQueue'[k].error
                 \/ \E q \in Queries : Tells(q, mainQueue'[k])
    BY SnapshotCases
  <1>3. /\ DOMAIN mainQueue = 1..Len(mainQueue) /\ Len(mainQueue) \in Nat
        /\ DOMAIN mainQueue' \subseteq Nat
        /\ \A k \in DOMAIN mainQueue : mainQueue[k].at \in Nat
        /\ \A k \in DOMAIN mainQueue' : mainQueue'[k].at \in Nat
    <2>1. DOMAIN mainQueue = 1..Len(mainQueue) /\ Len(mainQueue) \in Nat
      BY DEF Inv, FsTypeOK
    <2>2. DOMAIN mainQueue' \subseteq Nat
      BY <1>0 DEF Inv, FsTypeOK
    <2>3. \A k \in DOMAIN mainQueue : mainQueue[k].at \in Nat
      BY OwedNumbers
    <2>4. \A k \in DOMAIN mainQueue' : mainQueue'[k].at \in Nat
      BY <1>0 DEF Inv, FsTypeOK, IsSnapshot
    <2> QED
      BY <2>1, <2>2, <2>3, <2>4
  \* What a snapshot that calls m may be.
  <1>4. ASSUME NEW k \in DOMAIN mainQueue', Calls(mainQueue'[k], m),
               PostedBefore(k, shift)
        PROVE  /\ k + shift \in DOMAIN mainQueue
               /\ Calls(mainQueue[k + shift], m)
               /\ mainQueue'[k].at = mainQueue[k + shift].at
    BY <1>4 DEF PostedBefore, IsRestOf, Calls
  <1>5. ASSUME NEW k \in DOMAIN mainQueue', Calls(mainQueue'[k], m),
               ~PostedBefore(k, shift)
        PROVE  /\ k = Len(mainQueue) + 1 /\ shift = 0
               /\ mainQueue'[k].at = rootChanges'
               /\ ~Asked(m)' /\ ~Waits(m)'
               /\ \/ /\ copies[m] = 0
                     /\ \A l \in DOMAIN mainQueue : ~Calls(mainQueue[l], m)
                  \/ rootChanges' = rootChanges + 1
    <2>1. PICK q \in Queries : Tells(q, mainQueue'[k])
      BY <1>2, <1>5 DEF Calls
    <2>2. /\ ~Asked(m)' /\ ~Waits(m)'
          /\ \/ Asked(m) \/ Waits(m)
             \/ rootChanges' = rootChanges + 1
      BY <1>5, <2>1, CalledIsHere
    <2>3. mainQueue'[k].at = rootChanges'
      BY <2>1 DEF Tells
    <2> QED
      BY <1>1, <1>2, <1>5, <2>2, <2>3 DEF NotYet
  <1>6. Paid(m)'
    BY <1>0, <1>1 DEF Paid
  <1>7. CallsPaid(m)'
    <2> SUFFICES ASSUME NEW k \in DOMAIN mainQueue', Calls(mainQueue'[k], m)
                 PROVE  /\ copies[m] <= mainQueue'[k].at - sends[m].since
                        /\ mainQueue'[k].at <= rootChanges'
      BY DEF CallsPaid, Calls
    <2>1. CASE PostedBefore(k, shift)
      BY <1>0, <1>1, <1>3, <1>4, <2>1 DEF CallsPaid
    <2>2. CASE ~PostedBefore(k, shift)
      BY <1>0, <1>1, <1>5, <2>2 DEF Paid
    <2> QED
      BY <2>1, <2>2
  <1>8. CallsRise(m)'
    <2> SUFFICES ASSUME NEW k \in DOMAIN mainQueue', NEW l \in DOMAIN mainQueue',
                        k < l, Calls(mainQueue'[k], m), Calls(mainQueue'[l], m)
                 PROVE  mainQueue'[k].at < mainQueue'[l].at
      BY DEF CallsRise, Calls
    <2>1. CASE PostedBefore(k, shift) /\ PostedBefore(l, shift)
      <3>1. k + shift < l + shift
        BY <1>3
      <3> QED
        BY <1>1, <1>4, <2>1, <3>1 DEF CallsRise
    <2>2. CASE PostedBefore(k, shift) /\ ~PostedBefore(l, shift)
      <3>1. mainQueue'[k].at <= rootChanges
        BY <1>1, <1>4, <2>2 DEF CallsPaid
      <3>2. rootChanges' = rootChanges + 1 /\ mainQueue'[l].at = rootChanges'
        BY <1>4, <1>5, <2>2
      <3> QED
        BY <1>0, <1>3, <3>1, <3>2
    <2>3. CASE ~PostedBefore(k, shift)
      <3>1. k = Len(mainQueue) + 1 /\ shift = 0
        BY <1>5, <2>3
      <3>2. l \in DOMAIN mainQueue \/ l = Len(mainQueue) + 1
        BY <1>2, <1>3, <3>1 DEF PostedBefore
      <3> QED
        BY <1>3, <3>1, <3>2
    <2> QED
      BY <2>1, <2>2, <2>3
  <1>9. NotYet(m)'
    <2> SUFFICES ASSUME (Asked(m) \/ Waits(m))'
                 PROVE  /\ copies[m] = 0
                        /\ \A k \in DOMAIN mainQueue' : ~Calls(mainQueue'[k], m)
      BY DEF NotYet, Calls
    <2>1. copies[m] = 0 /\ \A k \in DOMAIN mainQueue : ~Calls(mainQueue[k], m)
      BY <1>1, StillToCome DEF NotYet
    <2> QED
      BY <1>4, <1>5, <2>1
  <1> QED
    BY <1>6, <1>7, <1>8, <1>9

\* The steps in which m is written: the call is used up, and those that follow
\* are of later changes.
LEMMA WritingStep ==
  ASSUME Inv, InLine, Owed, DeliverEvent, NEW m \in DOMAIN sends,
         NEW i, NEW d, Writes(i, m, d),
         copies'[m] = copies[m] + 1, sends'[m] = sends[m]
  PROVE  Paid(m)' /\ CallsPaid(m)' /\ CallsRise(m)' /\ NotYet(m)'
  <1>0. /\ FsTypeOK /\ copies[m] \in Nat /\ sends[m].since \in Nat
        /\ rootChanges \in Nat /\ rootChanges' = rootChanges
        /\ \A k \in DOMAIN mainQueue : k \in Nat /\ mainQueue[k].at \in Nat
    BY OwedNumbers DEF Inv, DeliverEvent
  <1>1. Paid(m) /\ CallsPaid(m) /\ CallsRise(m) /\ NotYet(m)
    BY DEF Owed
  <1>2. /\ 1 \in DOMAIN mainQueue /\ Head(mainQueue) = mainQueue[1]
        /\ i \in DOMAIN mainQueue[1].to
        /\ \A j \in DOMAIN mainQueue[1].to : j \in Nat /\ i <= j
    BY <1>0, TakenShift DEF Writes
  <1>3. PICK shift \in {0, 1} : \A k \in DOMAIN mainQueue' :
              /\ PostedBefore(k, shift)
              /\ k + shift = 1 => i \notin DOMAIN mainQueue'[k].to
    BY <1>0, TakenShift DEF Writes
  <1>4. IsOf(mainQueue[1].to[i], m) /\ ~mainQueue[1].error
    BY <1>2 DEF Writes, SendCb, IsOf, IsSend
  <1>5. Calls(mainQueue[1], m)
    BY <1>2, <1>4 DEF Calls
  <1>6. DOMAIN mainQueue' \subseteq Nat
    <2>1. [Next]_vars
      BY DEF Next
    <2> QED
      BY <2>1, NextInv DEF Inv, FsTypeOK
  <1>7. ASSUME NEW k \in DOMAIN mainQueue', Calls(mainQueue'[k], m)
        PROVE  /\ k + shift \in DOMAIN mainQueue /\ 1 < k + shift
               /\ Calls(mainQueue[k + shift], m)
               /\ mainQueue'[k].at = mainQueue[k + shift].at
    <2>1. /\ k + shift \in DOMAIN mainQueue
          /\ IsRestOf(mainQueue'[k], mainQueue[k + shift])
      BY <1>3 DEF PostedBefore
    <2>2. Calls(mainQueue[k + shift], m) /\ mainQueue'[k].at = mainQueue[k + shift].at
      BY <1>7, <2>1 DEF IsRestOf, Calls
    <2>3. k + shift # 1
      <3> SUFFICES ASSUME k + shift = 1 PROVE FALSE
        OBVIOUS
      <3>1. PICK j \in DOMAIN mainQueue'[k].to : IsOf(mainQueue'[k].to[j], m)
        BY <1>7 DEF Calls
      <3>2. /\ j \in DOMAIN mainQueue[1].to /\ IsOf(mainQueue[1].to[j], m)
            /\ j # i
        BY <1>3, <2>1, <3>1 DEF IsRestOf
      <3>3. i < j /\ m \in Nat
        BY <1>2, <3>2, OwedNumbers
      <3> QED
        BY <1>2, <1>4, <3>2, <3>3 DEF InLine, CallsInLine, IsInLine, IsOf
    <2>4. k + shift \in Nat \ {0}
      BY <1>0, <2>1 DEF FsTypeOK
    <2> QED
      BY <2>1, <2>2, <2>3, <2>4
  <1>8. Paid(m)'
    BY <1>0, <1>1, <1>2, <1>5 DEF Paid, CallsPaid
  <1>9. CallsPaid(m)'
    <2> SUFFICES ASSUME NEW k \in DOMAIN mainQueue', Calls(mainQueue'[k], m)
                 PROVE  /\ copies[m] + 1 <= mainQueue'[k].at - sends[m].since
                        /\ mainQueue'[k].at <= rootChanges
      BY <1>0 DEF CallsPaid, Calls
    <2>1. copies[m] <= mainQueue[1].at - sends[m].since
      BY <1>1, <1>2, <1>5 DEF CallsPaid
    <2>2. mainQueue[1].at < mainQueue[k + shift].at
      BY <1>1, <1>2, <1>5, <1>7 DEF CallsRise
    <2> QED
      BY <1>0, <1>1, <1>2, <1>7, <2>1, <2>2 DEF CallsPaid
  <1>10. CallsRise(m)'
    <2> SUFFICES ASSUME NEW k \in DOMAIN mainQueue', NEW l \in DOMAIN mainQueue',
                        k < l, Calls(mainQueue'[k], m), Calls(mainQueue'[l], m)
                 PROVE  mainQueue'[k].at < mainQueue'[l].at
      BY DEF CallsRise, Calls
    <2>1. k + shift < l + shift
      BY <1>6
    <2> QED
      BY <1>1, <1>7, <2>1 DEF CallsRise
  <1>11. NotYet(m)'
    <2>1. ~(Asked(m) \/ Waits(m))
      BY <1>1, <1>2, <1>5 DEF NotYet
    <2>2. [Next]_vars
      BY DEF Next
    <2> QED
      BY <2>1, <2>2, StillToCome DEF NotYet
  <1> QED
    BY <1>8, <1>9, <1>10, <1>11

LEMMA OwedNext ==
  ASSUME Inv, InLine, Owed, [Next]_vars
  PROVE  Owed'
  <1> SUFFICES ASSUME NEW m \in DOMAIN sends'
               PROVE  Paid(m)' /\ CallsPaid(m)' /\ CallsRise(m)' /\ NotYet(m)'
    BY DEF Owed
  <1>1. CASE m \in DOMAIN sends
    <2>1. sends'[m] = sends[m]
      BY <1>1, OldSends
    <2>2. CASE copies'[m] = copies[m]
      BY <1>1, <2>1, <2>2, QuietStep
    <2>3. CASE copies'[m] # copies[m]
      <3>1. PICK i, d : Writes(i, m, d)
        BY <1>1, <2>3, OldSends
      <3>2. DeliverEvent /\ copies'[m] = copies[m] + 1
        BY <1>1, <2>3, OldSends
      <3> QED
        BY <1>1, <2>1, <3>1, <3>2, WritingStep
    <2> QED
      BY <2>2, <2>3
  <1>2. CASE m \notin DOMAIN sends
    <2>1. /\ sends'[m].since = rootChanges /\ copies'[m] = 0
          /\ UNCHANGED <<mainQueue, listeners, rootChanges>>
          /\ rootChanges \in Nat
      BY <1>2, OldSends, ChangeCases
    <2>2. \A k \in DOMAIN mainQueue : ~Calls(mainQueue[k], m)
      BY <1>2 DEF Calls, IsOf, IsSend, Inv, Served, ServedSnapshots, IsServed, Serves
    <2>3. \A k \in DOMAIN mainQueue' : ~Calls(mainQueue'[k], m)
      BY <2>1, <2>2
    <2> QED
      BY <2>1, <2>3 DEF Paid, CallsPaid, CallsRise, NotYet, Calls
  <1> QED
    BY <1>1, <1>2

\* A Send makes at most one copy plus one for each change of the channels since
\* the tap (FirebaseService.createMessage adds a listener that is never removed
\* and writes each time it is called).
THEOREM CopiesBoundedHolds == Spec => []CopiesBounded
  <1>1. Init => Owed
    BY DEF Init, Owed
  <1>2. Owed => CopiesBounded
    BY DEF Owed, Paid, CopiesBounded
  <1> QED
    BY Invariance, InLineInvariance, OwedNext, <1>1, <1>2, PTL DEF Spec

-----------------------------------------------------------------------------
(***************************************************************************)
(* PART 2.  The list: what the server, the local store, each snapshot on   *)
(* its way and the list show of a channel follow one another, the older    *)
(* behind the newer, but where a pending write covers what the server      *)
(* and the cache have, or the creation of the channel was refused.         *)
(***************************************************************************)

(* Versions of a channel *)

RootDocs(docs) == {d \in docs : d.coll = Root}

\* docs has the channel d is of, and no older.  Malformed is the last version.
Newer(d, docs) ==
  \E e \in docs : /\ e.coll = Root /\ e.id = d.id
                  /\ \/ e.ver = Malformed
                     \/ d.ver # Malformed /\ e.ver >= d.ver

\* later shows every channel earlier did, except those whose creation was
\* refused, and shows none of them older.
Follows(later, earlier, refused) ==
  \A d \in RootDocs(earlier) :
    Newer(d, later) \/ ChannelDoc(d.id, 0) \in refused

LEMMA NewerHolds ==
  /\ \A d \in Doc : \A docs : d.coll = Root /\ d \in docs => Newer(d, docs)
  /\ \A d \in Doc, as \in SUBSET Doc, bs \in SUBSET Doc :
       Newer(d, as) /\ (\A e \in RootDocs(as) : e.id = d.id => Newer(e, bs))
         => Newer(d, bs)
  <1>1. \A d \in Doc : d.ver = Malformed \/ (d.ver # Malformed /\ d.ver \in Nat)
    BY DocType, MalformedAssumption
  <1>2. ASSUME NEW d \in Doc, NEW docs, d.coll = Root, d \in docs
        PROVE  Newer(d, docs)
    <2>1. d.ver = Malformed \/ d.ver >= d.ver
      BY <1>1
    <2> QED
      BY <1>2, <2>1 DEF Newer
  <1>3. ASSUME NEW d \in Doc, NEW as \in SUBSET Doc, NEW bs \in SUBSET Doc,
               Newer(d, as), \A e \in RootDocs(as) : e.id = d.id => Newer(e, bs)
        PROVE  Newer(d, bs)
    <2>1. PICK e \in as : /\ e.coll = Root /\ e.id = d.id
                          /\ \/ e.ver = Malformed
                             \/ d.ver # Malformed /\ e.ver >= d.ver
      BY <1>3 DEF Newer
    <2>2. PICK f \in bs : /\ f.coll = Root /\ f.id = e.id
                          /\ \/ f.ver = Malformed
                             \/ e.ver # Malformed /\ f.ver >= e.ver
      BY <1>3, <2>1 DEF Newer, RootDocs
    <2>3. d \in Doc /\ e \in Doc /\ f \in Doc
      OBVIOUS
    <2>4. /\ d.ver = Malformed \/ d.ver \in Nat
          /\ e.ver = Malformed \/ e.ver \in Nat
          /\ f.ver = Malformed \/ f.ver \in Nat
      BY <1>1, <2>3
    <2>5. f.ver = Malformed \/ (d.ver # Malformed /\ f.ver >= d.ver)
      <3>1. CASE f.ver = Malformed \/ e.ver = Malformed
        BY <2>1, <2>2, <3>1
      <3>2. CASE f.ver # Malformed /\ e.ver # Malformed
        <4>1. d.ver # Malformed /\ f.ver >= e.ver /\ e.ver >= d.ver
          BY <2>1, <2>2, <3>2
        <4>2. d.ver \in Nat /\ e.ver \in Nat /\ f.ver \in Nat
          BY <2>4, <3>2, <4>1
        <4> QED
          BY <4>1, <4>2
      <3> QED
        BY <3>1, <3>2
    <2> QED
      BY <2>1, <2>2, <2>5 DEF Newer
  <1> QED
    BY <1>2, <1>3

LEMMA FollowsItself ==
  ASSUME NEW docs \in SUBSET Doc, NEW refused
  PROVE  Follows(docs, docs, refused)
  BY NewerHolds DEF Follows, RootDocs

LEMMA FollowsOn ==
  ASSUME NEW as \in SUBSET Doc, NEW bs \in SUBSET Doc, NEW cs \in SUBSET Doc,
         NEW refused, NEW more, refused \subseteq more,
         Follows(bs, as, refused), Follows(cs, bs, more)
  PROVE  Follows(cs, as, more)
  <1> SUFFICES ASSUME NEW d \in RootDocs(as), ChannelDoc(d.id, 0) \notin more
               PROVE  Newer(d, cs)
    BY DEF Follows
  <1>1. Newer(d, bs)
    BY DEF Follows
  <1>2. \A e \in RootDocs(bs) : e.id = d.id => Newer(e, cs)
    BY DEF Follows
  <1> QED
    BY <1>1, <1>2, NewerHolds DEF RootDocs

-----------------------------------------------------------------------------
(* The store's channels *)

ServerHasOne == \A d, e \in RootDocs(server) : SameKey(d, e) => d = e
MadeFirst == \A d \in RootDocs(Outgoing) : d.ver = 0

\* What the cache has of a channel is no newer than what the server has, unless
\* the server may still set its first fields once more.
Behind(d) == \/ IsIn(d, Elements(pending))
             \/ ChannelDoc(d.id, 0) \in rejected
             \/ Newer(d, server)
CacheBehind == \A d \in RootDocs(cache) : Behind(d)

\* A commit that is older than the cached document is so on the server too.
OlderBehind ==
  \A i \in DOMAIN results : results[i] = "older" =>
    \A d \in RootDocs(cache) : SameKey(d, pending[i]) => Newer(d, server)

Versions == ServerHasOne /\ MadeFirst /\ CacheBehind /\ OlderBehind

LEMMA RejectedGrows ==
  ASSUME Inv, [Next]_vars
  PROVE  rejected \subseteq rejected'
  <1>1. CASE didSelectRow \/ sendFakeMessage \/ channelButtonTapped
    BY <1>1, UserStep
  <1>2. CASE DeliverEvent
    BY <1>2, DeliveryStep
  <1>3. CASE Crash \/ OtherClient \/ goBack \/ UNCHANGED vars
    BY <1>3, OthersStep
  <1>4. CASE Worker \/ Network \/ Refusal
    BY <1>4 DEF Worker, RunListenTask, RunWriteTask, Network, Refusal,
                ServerCommit, HandleSuccessfulWrite, HandleRejectedWrite,
                ApplyRemoteEvent, HandleOffline, HandleRejectedListen,
                LoseResults
  <1> QED
    BY <1>1, <1>2, <1>3, <1>4 DEF Next

\* The server's channels grow newer, but for the one a pending write sets, and
\* have one version at a time.
Overwritten(d) == ServerCommit /\ SameKey(pending[Len(results) + 1], d)

LEMMA ServerMoves ==
  ASSUME Inv, ServerHasOne, [Next]_vars
  PROVE  /\ ServerHasOne'
         /\ \A d \in RootDocs(server) :
              \/ Newer(d, server') /\ (d.ver = Malformed => d \in server')
              \/ Overwritten(d)
  <1>0. FsTypeOK /\ server \subseteq Doc
    BY DEF Inv, FsTypeOK
  <1> DEFINE Moves(d) == Newer(d, server') /\ (d.ver = Malformed => d \in server')
             Goal == /\ ServerHasOne'
                     /\ \A d \in RootDocs(server) : Moves(d) \/ Overwritten(d)
  <1>1. ASSUME server \subseteq server',
               \A d, e \in RootDocs(server') : SameKey(d, e) => d = e
        PROVE  Goal
    <2>1. \A d \in RootDocs(server) : Newer(d, server')
      BY <1>0, <1>1, NewerHolds DEF RootDocs
    <2> QED
      BY <1>1, <2>1 DEF ServerHasOne, RootDocs
  <1>2. CASE UNCHANGED server
    BY <1>1, <1>2 DEF ServerHasOne
  <1>3. ASSUME NEW d, server' = server \cup {d}, ~IsIn(d, server) \/ d.coll # Root
        PROVE  Goal
    <2>1. \A e, f \in RootDocs(server') : SameKey(e, f) => e = f
      BY <1>3, InMeansSameKey DEF ServerHasOne, RootDocs, SameKey
    <2> QED
      BY <1>1, <1>3, <2>1
  <1>4. CASE ServerCommit
    <2>1. PICK w : w = pending[Len(results) + 1] /\ server' = With(w, server)
      BY <1>0, <1>4, CommitFacts
    <2>2. \A d \in server' : d = w \/ (d \in server /\ ~SameKey(w, d))
      BY <2>1, InMeansSameKey DEF With, SameKey
    <2>3. \A d \in server : d \in server' \/ SameKey(w, d)
      BY <2>1, WithFacts DEF SameKey
    <2>4. \A d \in RootDocs(server) : Moves(d) \/ Overwritten(d)
      BY <1>0, <1>4, <2>1, <2>3, NewerHolds DEF RootDocs, Overwritten
    <2>5. ServerHasOne'
      BY <2>2 DEF ServerHasOne, RootDocs, SameKey
    <2> QED
      BY <2>4, <2>5
  <1>5. CASE OthersAddChannel
    <2>1. PICK c \in Channels : /\ IsFreshChannel(c)
                                /\ server' = server \cup {ChannelDoc(c, 0)}
      BY <1>5 DEF OthersAddChannel
    <2>2. ~IsIn(ChannelDoc(c, 0), server)
      BY <2>1, InMeansSameKey DEF IsFreshChannel
    <2> QED
      BY <1>3, <2>1, <2>2
  <1>6. CASE OthersPost
    <2>1. PICK d \in server : /\ d.coll = Root
             /\ \E v : server' = server \cup {MessageDoc(d.id, 0, spent["post"] + 1, v)}
      BY <1>6 DEF OthersPost
    <2>2. d.id \in Channels
      BY <1>0, <2>1, DocType
    <2>3. \A v : MessageDoc(d.id, 0, spent["post"] + 1, v).coll # Root
      BY <2>2, RootAssumption DEF MessageDoc
    <2> QED
      BY <1>3, <2>1, <2>3
  <1>7. CASE OthersUpdateChannel
    <2>1. PICK d \in server : /\ d.coll = Root /\ d.ver # Malformed
             /\ \E v \in {d.ver + 1, Malformed} :
                  server' = (server \ {d}) \cup {ChannelDoc(d.id, v)}
      BY <1>7 DEF OthersUpdateChannel
    <2>2. PICK v \in {d.ver + 1, Malformed} :
             server' = (server \ {d}) \cup {ChannelDoc(d.id, v)}
      BY <2>1
    <2>3. PICK u : u = ChannelDoc(d.id, v)
      OBVIOUS
    <2>4. u.coll = Root /\ u.id = d.id /\ u.ver = v /\ SameKey(d, u)
      BY <2>1, <2>3 DEF ChannelDoc, SameKey
    <2>5. u.ver = Malformed \/ u.ver >= d.ver
      <3>1. d.ver \in Nat
        BY <1>0, <2>1, DocType
      <3> QED
        BY <2>2, <2>4, <3>1
    <2>6. Newer(d, server')
      BY <2>1, <2>2, <2>3, <2>4, <2>5 DEF Newer
    <2>7. \A e \in RootDocs(server) : e # d => Newer(e, server') /\ e \in server'
      BY <1>0, <2>2, NewerHolds DEF RootDocs
    <2>8. ServerHasOne'
      <3>1. \A e \in RootDocs(server) : SameKey(e, u) => e = d
        BY <2>1, <2>4 DEF ServerHasOne, SameKey, RootDocs
      <3>2. \A e \in server' : e = u \/ (e \in server /\ e # d)
        BY <2>2, <2>3
      <3> QED
        BY <3>1, <3>2 DEF ServerHasOne, RootDocs, SameKey
    <2> QED
      BY <2>1, <2>6, <2>7, <2>8 DEF RootDocs
  <1> QED
    BY <1>2, <1>4, <1>5, <1>6, <1>7, StoreCases
       DEF RunWriteTask, HandleSuccessfulWrite, HandleRejectedWrite,
           ApplyRemoteEvent, OtherClient

LEMMA StaysNewer ==
  ASSUME Inv, ServerHasOne, [Next]_vars, NEW d \in Doc, d.coll = Root,
         Newer(d, server), ~Overwritten(d)
  PROVE  Newer(d, server')
  <1>1. server \subseteq Doc /\ server' \subseteq Doc
    BY NextInv DEF Inv, FsTypeOK
  <1>2. \A e \in RootDocs(server) : e.id = d.id => Newer(e, server')
    BY ServerMoves DEF Overwritten, SameKey, RootDocs
  <1> QED
    BY <1>1, <1>2, NewerHolds

LEMMA BehindKept ==
  ASSUME Inv, ServerHasOne, [Next]_vars, NEW d \in Doc, d.coll = Root, Behind(d),
         IsIn(d, Elements(pending)) => IsIn(d, Elements(pending'))
  PROVE  Behind(d)'
  <1>1. rejected \subseteq rejected'
    BY RejectedGrows
  <1>2. Overwritten(d) => IsIn(d, Elements(pending))
    BY CommitFacts, InMeansSameKey DEF Overwritten, SameKey, Inv
  <1> QED
    BY <1>1, <1>2, StaysNewer DEF Behind

LEMMA MadeFirstNext ==
  ASSUME Inv, MadeFirst, [Next]_vars
  PROVE  MadeFirst'
  <1>0. FsTypeOK /\ AppTypeOK
    BY DEF Inv
  <1>1. Elements(pending') \cup rejected' \subseteq Outgoing
    <2>1. CASE didSelectRow \/ sendFakeMessage \/ channelButtonTapped
      BY <2>1, UserStep DEF Outgoing
    <2>2. CASE DeliverEvent
      BY <2>2, DeliveryStep DEF Outgoing
    <2>3. CASE Worker \/ Network \/ Refusal
      BY <2>3, LibraryStep DEF Outgoing
    <2>4. CASE Crash \/ OtherClient \/ goBack \/ UNCHANGED vars
      BY <2>4, OthersStep DEF Outgoing
    <2> QED
      BY <2>1, <2>2, <2>3, <2>4 DEF Next
  <1> DEFINE Ok(d) == d \in QueuedWrites \/ d.coll # Root \/ d.ver = 0
  <1>2. \A d \in QueuedWrites' : Ok(d)
    <2>1. CASE UNCHANGED workerQueue
      BY <2>1 DEF QueuedWrites, Elements
    <2>2. CASE workerQueue # <<>> /\ workerQueue' = Tail(workerQueue)
      BY <1>0, <2>2, TakenTask
    <2>3. CASE workerQueue' = <<getAllChannels>> /\ Crash
      BY <2>3, OthersStep
    <2>4. ASSUME NEW t, Registers(t), workerQueue' = Append(workerQueue, t)
          PROVE  \A d \in QueuedWrites' : Ok(d)
      BY <1>0, <2>4, AppendedTask DEF Registers
    <2>5. ASSUME NEW t, NEW u, Registers(t), Registers(u),
                 workerQueue' = Append(Append(workerQueue, t), u)
          PROVE  \A d \in QueuedWrites' : Ok(d)
      <3>1. PICK w : w = Append(workerQueue, t)
        OBVIOUS
      <3>2. /\ w \in Seq(Task)
            /\ Elements(w) = Elements(workerQueue) \cup {t}
        BY <1>0, <2>5, <3>1, AppendElements DEF FsTypeOK, Registers
      <3>3. workerQueue' = Append(w, u) /\ u \in Task
        BY <2>5, <3>1 DEF Registers
      <3>4. Elements(Append(w, u)) = Elements(w) \cup {u}
        BY <3>2, <3>3, AppendElements
      <3> QED
        BY <2>5, <3>2, <3>3, <3>4 DEF Registers, QueuedWrites, Elements
    <2>6. ASSUME NEW e \in Doc, workerQueue' = Append(workerQueue, WriteTask(e)),
                 e.coll # Root \/ e.ver = 0
          PROVE  \A d \in QueuedWrites' : Ok(d)
      <3>1. WriteTask(e) \in Task /\ WriteTask(e).doc = e
        BY TaskType DEF WriteTask
      <3>2. \A d \in QueuedWrites' : d \in QueuedWrites \/ d = WriteTask(e).doc
        BY <1>0, <2>6, <3>1, AppendedTask
      <3> QED
        BY <2>6, <3>1, <3>2
    <2>7. CASE channelButtonTapped
      <3>1. PICK c \in Channels :
              workerQueue' = Append(workerQueue, WriteTask(ChannelDoc(c, 0)))
        BY <2>7 DEF channelButtonTapped
      <3>2. PICK e : e = ChannelDoc(c, 0)
        OBVIOUS
      <3>3. e \in Doc /\ e.ver = 0
        BY <3>2, MadeDocType DEF ChannelDoc
      <3> QED
        BY <2>6, <3>1, <3>2, <3>3
    <2>8. CASE DeliverEvent
      <3>1. \A m \in DOMAIN sends : \A k :
              MessageDoc(sends[m].channel.identifier, m, k, 0).coll # Root
        <4>1. PICK S : S = [channel : Channel, since : Nat, launch : Nat]
          OBVIOUS
        <4>2. sends \in Seq(S)
          BY <1>0, <4>1 DEF AppTypeOK
        <4>4. \A m \in DOMAIN sends : sends[m] \in S
          BY <4>2
        <4>3. \A m \in DOMAIN sends : sends[m].channel.identifier \in Channels
          BY <4>1, <4>4 DEF Channel
        <4> QED
          BY <4>3, RootAssumption DEF MessageDoc
      <3> QED
        BY <2>8, <3>1, DeliveryStep
    <2> QED
      BY <2>1, <2>2, <2>3, <2>4, <2>5, <2>7, <2>8, TaskCases
  <1> QED
    BY <1>1, <1>2 DEF MadeFirst, RootDocs, Outgoing

\* The write that was acknowledged is on the server, at least.
LEMMA HeadIsBehind ==
  ASSUME Inv, MadeFirst, pending # <<>>, results # <<>>, Head(pending).coll = Root
  PROVE  Newer(Head(pending), server)
  <1> DEFINE h == Head(pending)
  <1>1. h \in Elements(pending) /\ IsIn(h, server) /\ server \subseteq Doc
    BY HeadIsPending, HeadIsCarried DEF Inv, FsTypeOK
  <1>2. PICK e \in server : SameKey(h, e)
    BY <1>1, InMeansSameKey
  <1>3. h.ver = 0
    BY <1>1 DEF MadeFirst, RootDocs, Outgoing
  <1>4. e.ver = Malformed \/ e.ver \in Nat
    BY <1>1, DocType
  <1>5. e.ver = Malformed \/ (h.ver # Malformed /\ e.ver >= h.ver)
    BY <1>3, <1>4, MalformedAssumption
  <1> QED
    BY <1>2, <1>5 DEF Newer, SameKey

LEMMA CacheBehindNext ==
  ASSUME Inv, WriteInv, Versions, [Next]_vars
  PROVE  CacheBehind'
  <1>0. /\ FsTypeOK /\ cache \subseteq Doc /\ cache' \subseteq Doc
        /\ server \subseteq Doc /\ pending \in Seq(Doc) /\ PendingApart
    BY NextInv DEF Inv, FsTypeOK, WriteInv, Apart
  <1> SUFFICES ASSUME NEW d \in RootDocs(cache') PROVE Behind(d)'
    BY DEF CacheBehind
  <1>1. d \in Doc /\ d.coll = Root
    BY <1>0 DEF RootDocs
  <1>2. ASSUME d \in cache,
               IsIn(d, Elements(pending)) => IsIn(d, Elements(pending'))
        PROVE  Behind(d)'
    BY <1>1, <1>2, BehindKept DEF Versions, CacheBehind, RootDocs
  <1>3. CASE UNCHANGED <<cache, pending>>
    BY <1>2, <1>3 DEF RootDocs, Elements
  <1>4. CASE RunWriteTask
    <2>1. Elements(pending) \subseteq Elements(pending') /\ cache' = cache
      BY <1>0, <1>4, WorkerQueueType, AppendElements DEF RunWriteTask
    <2> QED
      BY <1>2, <2>1, InMeansSameKey DEF RootDocs
  <1>5. CASE HandleSuccessfulWrite \/ HandleRejectedWrite
    <2>0. PICK h : h = Head(pending)
      OBVIOUS
    <2>1. /\ pending # <<>> /\ pending' = Tail(pending) /\ h \in Elements(pending)
          /\ Elements(pending) = Elements(pending') \cup {h}
      BY <1>0, <1>5, <2>0, HeadIsPending, HeadIsApart
         DEF HandleSuccessfulWrite, HandleRejectedWrite
    <2>2. CASE ~SameKey(h, d)
      <3>1. d \in cache
        <4>1. cache' \in {cache, With(h, cache)}
          BY <1>5, <2>0 DEF HandleSuccessfulWrite, HandleRejectedWrite
        <4>2. d # h /\ d \in cache'
          BY <2>2 DEF SameKey, RootDocs
        <4> QED
          BY <4>1, <4>2, WithFacts
      <3>2. IsIn(d, Elements(pending)) => IsIn(d, Elements(pending'))
        BY <2>1, <2>2, InMeansSameKey DEF SameKey
      <3> QED
        BY <1>2, <3>1, <3>2
    <2>3. CASE HandleRejectedWrite /\ SameKey(h, d)
      <3>1. h.coll = Root /\ h.id = d.id /\ h \in Doc
        BY <1>0, <1>1, <2>0, <2>1, <2>3, PendingType DEF SameKey
      <3>2. h.ver = 0
        BY <2>1, <3>1 DEF Versions, MadeFirst, RootDocs, Outgoing
      <3>3. h = ChannelDoc(d.id, 0)
        BY <3>1, <3>2, RootAssumption DEF Doc, ChannelDoc
      <3> QED
        BY <2>0, <2>3, <3>3 DEF HandleRejectedWrite, Behind
    <2>4. CASE HandleSuccessfulWrite /\ SameKey(h, d)
      <3>0. results # <<>> /\ server' = server
        BY <2>4 DEF HandleSuccessfulWrite
      <3>1. CASE d = h
        BY <1>1, <2>0, <2>1, <3>0, <3>1, HeadIsBehind DEF Versions, Behind
      <3>2. CASE d # h
        <4>1. cache' # With(h, cache)
          BY <2>4, <3>2, InMeansSameKey DEF With, SameKey, RootDocs
        <4>2. Head(results) = "older" /\ cache' = cache
          <5>1. Head(results) \in {"newer", "older"}
            BY <1>0, <3>0 DEF FsTypeOK
          <5> QED
            BY <2>0, <2>4, <4>1, <5>1 DEF HandleSuccessfulWrite
        <4>3. 1 \in DOMAIN results /\ results[1] = "older" /\ pending[1] = h
          BY <1>0, <2>0, <2>1, <3>0, <4>2 DEF FsTypeOK
        <4>4. Newer(d, server)
          BY <2>4, <4>2, <4>3 DEF Versions, OlderBehind, RootDocs, SameKey
        <4> QED
          BY <3>0, <4>4 DEF Behind
      <3> QED
        BY <3>1, <3>2
    <2> QED
      BY <1>5, <2>2, <2>3, <2>4
  <1>6. ASSUME NEW q \in Queries, ApplyRemoteEvent(q)
        PROVE  Behind(d)'
    <2>1. /\ cache' = {e \in cache : e.coll # q} \cup {e \in server : e.coll = q}
          /\ pending' = pending /\ server' = server
      BY <1>6 DEF ApplyRemoteEvent
    <2>2. CASE d \in cache
      BY <1>2, <2>1, <2>2
    <2>3. CASE d \in server
      BY <1>1, <2>1, <2>3, NewerHolds DEF Behind
    <2> QED
      BY <2>1, <2>2, <2>3 DEF RootDocs
  <1> QED
    BY <1>3, <1>4, <1>5, <1>6, StoreCases DEF ServerCommit, OtherClient

LEMMA ResultCases ==
  ASSUME [Next]_vars
  PROVE  \/ results' = <<>>
         \/ UNCHANGED <<results, cache, pending>> /\ ~ServerCommit
         \/ RunWriteTask
         \/ ServerCommit
         \/ HandleSuccessfulWrite
         \/ \E q \in Queries : ApplyRemoteEvent(q)
  BY DEF Next, vars, fsvars, didSelectRow, goBack, sendFakeMessage,
         channelButtonTapped, DeliverEvent, Worker, RunListenTask, Network,
         Refusal, LoseResults, HandleOffline, HandleRejectedListen, Crash,
         HandleRejectedWrite, OtherClient

LEMMA OlderBehindNext ==
  ASSUME Inv, WriteInv, Versions, [Next]_vars
  PROVE  OlderBehind'
  <1>0. /\ FsTypeOK /\ cache \subseteq Doc /\ cache' \subseteq Doc
        /\ server \subseteq Doc /\ pending \in Seq(Doc)
        /\ results \in Seq({"newer", "older"})
        /\ PendingApart /\ Carried /\ ServerHasOne
    BY NextInv DEF Inv, FsTypeOK, WriteInv, Apart, Versions
  <1> SUFFICES ASSUME NEW i \in DOMAIN results', results'[i] = "older",
                      NEW d \in RootDocs(cache'), SameKey(d, pending'[i])
               PROVE  Newer(d, server')
    BY DEF OlderBehind
  <1>1. d \in Doc /\ d.coll = Root /\ d \in cache'
    BY <1>0 DEF RootDocs
  <1>2. ASSUME NEW j \in DOMAIN results, results[j] = "older", d \in cache,
               SameKey(d, pending[j])
        PROVE  Newer(d, server)
    BY <1>1, <1>2 DEF Versions, OlderBehind, RootDocs
  <1>3. CASE results' = <<>>
    BY <1>3
  <1>4. CASE UNCHANGED <<results, cache, pending>> /\ ~ServerCommit
    <2>1. Newer(d, server) /\ ~Overwritten(d)
      BY <1>1, <1>2, <1>4 DEF Overwritten
    <2> QED
      BY <1>0, <1>1, <2>1, StaysNewer
  <1>5. CASE RunWriteTask
    <2>1. /\ UNCHANGED <<results, cache, server>> /\ i \in DOMAIN pending
          /\ pending' = Append(pending, Head(workerQueue).doc)
      BY <1>0, <1>5 DEF RunWriteTask, Carried
    <2>2. pending'[i] = pending[i]
      BY <1>0, <1>5, <2>1, WorkerQueueType, AppendElements DEF RunWriteTask
    <2> QED
      BY <1>1, <1>2, <2>1, <2>2
  <1>6. CASE ServerCommit
    <2> DEFINE n == Len(results) + 1
    <2>1. /\ n \in DOMAIN pending /\ UNCHANGED <<cache, pending>>
          /\ results' = Append(results, "newer")
      BY <1>0, <1>6, CommitFacts DEF ServerCommit
    <2>2. i \in DOMAIN results /\ results[i] = "older" /\ i # n
      BY <1>0, <2>1
    <2>3. ~Overwritten(d)
      <3>1. i \in DOMAIN pending
        BY <1>0, <2>2 DEF Carried
      <3> QED
        BY <1>0, <2>1, <2>2, <3>1 DEF PendingApart, Overwritten, SameKey
    <2> QED
      BY <1>0, <1>1, <1>2, <2>1, <2>2, <2>3, StaysNewer
  <1>7. CASE HandleSuccessfulWrite
    <2>1. /\ pending # <<>> /\ pending' = Tail(pending)
          /\ results # <<>> /\ results' = Tail(results) /\ server' = server
      BY <1>7 DEF HandleSuccessfulWrite
    <2>2. /\ i + 1 \in DOMAIN results /\ results[i + 1] = "older" /\ i + 1 # 1
          /\ i \in Nat \ {0}
      BY <1>0, <2>1
    <2>3. i + 1 \in DOMAIN pending
      BY <1>0, <2>2 DEF Carried
    <2>4. pending'[i] = pending[i + 1] /\ Head(pending) = pending[1]
          /\ 1 \in DOMAIN pending
      BY <1>0, <2>1, <2>2, <2>3
    <2>5. ~SameKey(d, Head(pending))
      BY <1>0, <2>2, <2>3, <2>4 DEF PendingApart, SameKey
    <2>6. d \in cache
      BY <1>1, <1>7, <2>5, WithFacts DEF HandleSuccessfulWrite, SameKey
    <2> QED
      BY <1>2, <2>1, <2>2, <2>4, <2>6
  <1>8. ASSUME NEW q \in Queries, ApplyRemoteEvent(q)
        PROVE  Newer(d, server')
    <2>1. /\ cache' = {e \in cache : e.coll # q} \cup {e \in server : e.coll = q}
          /\ results' = [j \in DOMAIN results |->
                            IF pending[j].coll = q THEN "older" ELSE results[j]]
          /\ pending' = pending /\ server' = server
      BY <1>8 DEF ApplyRemoteEvent
    <2>2. CASE d \in server
      BY <1>1, <2>1, <2>2, NewerHolds
    <2>3. CASE d \in cache /\ q # Root
      <3>1. i \in DOMAIN results /\ results[i] = "older"
        BY <1>1, <2>1, <2>3 DEF SameKey
      <3> QED
        BY <1>2, <2>1, <2>3, <3>1
    <2> QED
      BY <1>1, <2>1, <2>2, <2>3
  <1> QED
    BY <1>3, <1>4, <1>5, <1>6, <1>7, <1>8, ResultCases

LEMMA VersionsNext ==
  ASSUME Inv, WriteInv, Versions, [Next]_vars
  PROVE  Versions'
  BY ServerMoves, MadeFirstNext, CacheBehindNext, OlderBehindNext DEF Versions

-----------------------------------------------------------------------------
(* The channels the app may see *)

LEMMA ShownChannels ==
  ASSUME NEW stored, NEW writes, NEW d
  PROVE  d \in LocalDocuments(Root, stored, writes) <=>
           \/ d \in RootDocs(Elements(writes))
           \/ /\ d \in RootDocs(stored)
              /\ \A w \in Elements(writes) : ~SameKey(w, d)
  BY InMeansSameKey DEF LocalDocuments, RootDocs, SameKey

\* The view of "channels" loses a channel only if its creation is refused, and
\* shows none of them older than before.
LEMMA ViewMoves ==
  ASSUME Inv, WriteInv, Versions, [Next]_vars
  PROVE  Follows(View(Root)', View(Root), rejected')
  <1>0. /\ FsTypeOK /\ Root \in Queries /\ cache \subseteq Doc /\ pending \in Seq(Doc)
        /\ Apart /\ PendingApart /\ QueuedUnseen
        /\ FsTypeOK' /\ cache' \subseteq Doc /\ pending' \in Seq(Doc)
    BY NextInv DEF Inv, FsTypeOK, Queries, WriteInv, Apart
  <1>1. View(Root) \subseteq Doc /\ View(Root)' \subseteq Doc
    BY <1>0, ViewType DEF View
  <1>2. \A d : /\ d \in View(Root) <=>
                    \/ d \in RootDocs(Elements(pending))
                    \/ /\ d \in RootDocs(cache)
                       /\ \A w \in Elements(pending) : ~SameKey(w, d)
               /\ d \in View(Root)' <=>
                    \/ d \in RootDocs(Elements(pending'))
                    \/ /\ d \in RootDocs(cache')
                       /\ \A w \in Elements(pending') : ~SameKey(w, d)
    BY ShownChannels DEF View
  <1> SUFFICES ASSUME NEW d \in RootDocs(View(Root)), ChannelDoc(d.id, 0) \notin rejected'
               PROVE  Newer(d, View(Root)')
    BY DEF Follows
  <1>3. d \in Doc /\ d \in View(Root) /\ d.coll = Root
    BY <1>1 DEF RootDocs
  <1>4. ASSUME d \in View(Root)' PROVE Newer(d, View(Root)')
    BY <1>1, <1>3, <1>4, NewerHolds
  <1>5. CASE UNCHANGED <<cache, pending>>
    BY <1>3, <1>4, <1>5 DEF View, Elements
  <1>6. CASE RunWriteTask
    <2>0. PICK h : h = Head(workerQueue).doc
      OBVIOUS
    <2>1. h \in Doc /\ h \in QueuedWrites
      BY <1>0, <1>6, <2>0, WorkerQueueType, TakenTask DEF RunWriteTask
    <2>2. Elements(pending') = Elements(pending) \cup {h} /\ cache' = cache
      BY <1>0, <1>6, <2>0, <2>1, AppendElements DEF RunWriteTask
    <2>3. \A e \in cache : ~SameKey(h, e)
      BY <1>0, <2>1, InMeansSameKey DEF QueuedUnseen
    <2> QED
      BY <1>2, <1>3, <1>4, <2>2, <2>3 DEF RootDocs
  <1>7. ASSUME pending # <<>>, pending' = Tail(pending), d # Head(pending),
               \A e \in cache : e \in cache' \/ SameKey(Head(pending), e)
        PROVE  Newer(d, View(Root)')
    <2>1. Elements(pending) = Elements(pending') \cup {Head(pending)}
      BY <1>0, <1>7, HeadIsApart
    <2>2. Head(pending) \in Elements(pending)
      BY <2>1
    <2> QED
      BY <1>2, <1>3, <1>4, <1>7, <2>1, <2>2 DEF RootDocs
  <1>8. CASE HandleRejectedWrite
    <2>1. CASE d = Head(pending)
      <3>1. d \in Elements(pending) /\ d \in rejected'
        BY <1>0, <1>8, <2>1, HeadIsPending DEF HandleRejectedWrite
      <3>2. d.ver = 0
        BY <1>3, <3>1 DEF Versions, MadeFirst, RootDocs, Outgoing
      <3>3. d = ChannelDoc(d.id, 0)
        BY <1>3, <3>2, RootAssumption DEF Doc, ChannelDoc
      <3> QED
        BY <3>1, <3>3
    <2> QED
      BY <1>7, <1>8, <2>1 DEF HandleRejectedWrite
  <1>9. CASE HandleSuccessfulWrite
    <2>1. CASE d = Head(pending)
      <3>1. d \in Elements(pending) /\ d.ver = 0
        BY <1>0, <1>3, <1>9, <2>1, HeadIsPending
           DEF HandleSuccessfulWrite, Versions, MadeFirst, RootDocs, Outgoing
      <3>2. PICK e \in cache' : SameKey(d, e)
        <4>1. (IsIn(d, cache) /\ cache' = cache) \/ cache' = With(d, cache)
          BY <1>9, <2>1 DEF HandleSuccessfulWrite
        <4> QED
          BY <4>1, InMeansSameKey, WithFacts DEF SameKey
      <3>3. e.ver = Malformed \/ (d.ver # Malformed /\ e.ver >= d.ver)
        <4>1. e.ver = Malformed \/ e.ver \in Nat
          BY <1>0, DocType
        <4> QED
          BY <3>1, <4>1, MalformedAssumption
      <3>4. \A w \in Elements(pending') : ~SameKey(w, e)
        BY <1>0, <1>9, <2>1, <3>2, HeadIsApart DEF HandleSuccessfulWrite, SameKey
      <3>5. e \in View(Root)' /\ e.coll = Root /\ e.id = d.id
        BY <1>2, <1>3, <3>2, <3>4 DEF RootDocs, SameKey
      <3> QED
        BY <3>3, <3>5 DEF Newer
    <2>2. \A e \in cache : e \in cache' \/ SameKey(Head(pending), e)
      BY <1>9, WithFacts DEF HandleSuccessfulWrite, SameKey
    <2> QED
      BY <1>7, <1>9, <2>1, <2>2 DEF HandleSuccessfulWrite
  <1>10. ASSUME NEW q \in Queries, ApplyRemoteEvent(q)
         PROVE  Newer(d, View(Root)')
    <2>0. /\ cache' = {e \in cache : e.coll # q} \cup {e \in server : e.coll = q}
          /\ Elements(pending') = Elements(pending)
      BY <1>10 DEF ApplyRemoteEvent, Elements
    <2>1. CASE d \in Elements(pending) \/ q # Root
      BY <1>2, <1>3, <1>4, <2>0, <2>1 DEF RootDocs
    <2>2. CASE d \notin Elements(pending) /\ q = Root
      <3>1. d \in RootDocs(cache) /\ \A w \in Elements(pending) : ~SameKey(w, d)
        BY <1>2, <1>3, <2>2 DEF RootDocs
      <3>2. PICK e \in server : /\ e.coll = Root /\ e.id = d.id
                                /\ \/ e.ver = Malformed
                                   \/ d.ver # Malformed /\ e.ver >= d.ver
        <4>1. ~IsIn(d, Elements(pending))
          BY <3>1, InMeansSameKey DEF SameKey
        <4>2. ChannelDoc(d.id, 0) \notin rejected
          BY <1>10 DEF ApplyRemoteEvent
        <4> QED
          BY <3>1, <4>1, <4>2 DEF Versions, CacheBehind, Behind, Newer
      <3>3. e \in View(Root)'
        BY <1>2, <1>3, <2>0, <2>2, <3>1, <3>2 DEF RootDocs, SameKey
      <3> QED
        BY <3>2, <3>3 DEF Newer
    <2> QED
      BY <2>1, <2>2
  <1> QED
    BY <1>5, <1>6, <1>8, <1>9, <1>10, StoreCases DEF ServerCommit, OtherClient

-----------------------------------------------------------------------------
(* What the list screen hears of *)

ForList(b) == ~b.error /\ \E i \in DOMAIN b.to : b.to[i].kind = "channels"

\* The rows of the list screen, as the documents they were made from.
Rows == {ChannelDoc(c.identifier, c.ver) : c \in channelsList}

\* Each snapshot for the list follows those before it, and the rows there are;
\* what the local store would show now follows them all.
ListInOrder ==
  \A k, l \in DOMAIN mainQueue :
    k < l /\ ForList(mainQueue[k]) /\ ForList(mainQueue[l])
      => Follows(mainQueue[l].docs, mainQueue[k].docs, rejected)
ListBehindStore ==
  \A k \in DOMAIN mainQueue :
    ForList(mainQueue[k]) => Follows(View(Root), mainQueue[k].docs, rejected)
RowsBehindList ==
  \A k \in DOMAIN mainQueue :
    ForList(mainQueue[k]) => Follows(mainQueue[k].docs, Rows, rejected)
RowsBehindStore == Follows(View(Root), Rows, rejected)

\* An unreadable channel is unreadable on the server, for good, unless its
\* creation was refused.
Broken(d) == \/ d \in server /\ ~IsIn(d, Elements(pending))
             \/ ChannelDoc(d.id, 0) \in rejected
BrokenThere ==
  \A k \in DOMAIN mainQueue : \A d \in RootDocs(mainQueue[k].docs) :
    d.ver = Malformed => Broken(d)

DirectoryInv ==
  /\ Versions /\ ListInOrder /\ ListBehindStore
  /\ RowsBehindList /\ RowsBehindStore /\ BrokenThere

LEMMA FollowsLess ==
  ASSUME NEW as, NEW fewer, RootDocs(fewer) \subseteq as, NEW bs, NEW refused,
         NEW more, refused \subseteq more, Follows(bs, as, refused)
  PROVE  Follows(bs, fewer, more)
  BY DEF Follows, RootDocs

\* A "channels" snapshot is of the query on the channels.
LEMMA ListServed ==
  ASSUME Inv
  PROVE  /\ \A q \in Queries : \A i \in DOMAIN listeners[q] :
              listeners[q][i].cb.kind = "channels" => q = Root
         /\ \A k \in DOMAIN mainQueue : \A i \in DOMAIN mainQueue[k].to :
              mainQueue[k].to[i].kind = "channels" =>
                \A d \in mainQueue[k].docs : d.coll = Root
  BY DEF Inv, Served, ServedListeners, ServedSnapshots, Serves, IsServed

LEMMA RowsCases ==
  ASSUME Inv, [Next]_vars
  PROVE  \/ channelsList' = channelsList
         \/ channelsList' = {} /\ Crash
         \/ \E i : /\ DeliverEvent /\ IsNext(i) /\ TakeEvent(i)
                   /\ ForList(mainQueue[1])
                   /\ channelsList' = {channelFromSnapshot(d) : d \in mainQueue[1].docs}
                                        \ {NoChannel}
                   /\ \A d \in mainQueue[1].docs : d.coll = Root /\ d \in Doc
  <1>0. FsTypeOK
    BY DEF Inv
  <1>1. CASE DeliverEvent
    <2>1. PICK i \in DOMAIN Head(mainQueue).to :
            /\ IsNext(i) /\ TakeEvent(i)
            /\ \/ UNCHANGED channelsList
               \/ /\ ~Head(mainQueue).error /\ Head(mainQueue).to[i].kind = "channels"
                  /\ OnChannels(Head(mainQueue).docs)
      BY <1>1 DEF DeliverEvent, OnMessages, OnChannelsForSend, IsNext
    <2>2. 1 \in DOMAIN mainQueue /\ Head(mainQueue) = mainQueue[1]
      BY <1>0, <2>1, TakenShift
    <2>3. CASE UNCHANGED channelsList
      BY <2>3
    <2>4. CASE /\ ~Head(mainQueue).error /\ Head(mainQueue).to[i].kind = "channels"
               /\ OnChannels(Head(mainQueue).docs)
      <3>1. \A d \in mainQueue[1].docs : d.coll = Root /\ d \in Doc
        BY <1>0, <2>1, <2>2, <2>4, ListServed DEF FsTypeOK, IsSnapshot
      <3> QED
        BY <1>1, <2>1, <2>2, <2>4, <3>1 DEF ForList, OnChannels
    <2> QED
      BY <2>1, <2>3, <2>4
  <1>2. CASE Crash
    BY <1>2 DEF Crash
  <1>3. CASE ~DeliverEvent /\ ~Crash
    BY <1>3 DEF Next, vars, appvars, didSelectRow, goBack, sendFakeMessage,
                channelButtonTapped, Worker, Network, Refusal, OtherClient
  <1> QED
    BY <1>1, <1>2, <1>3

\* New rows are documents of the snapshot that brought them.
LEMMA NewRows ==
  ASSUME Inv, NEW docs, \A d \in docs : d.coll = Root /\ d \in Doc,
         channelsList' = {channelFromSnapshot(d) : d \in docs} \ {NoChannel}
  PROVE  Rows' \subseteq docs
  <1> SUFFICES ASSUME NEW c \in channelsList'
               PROVE  ChannelDoc(c.identifier, c.ver) \in docs
    BY DEF Rows
  <1>1. PICK d \in docs : c = channelFromSnapshot(d) /\ c # NoChannel
    OBVIOUS
  <1>2. c.identifier = d.id /\ c.ver = d.ver
    BY <1>1 DEF channelFromSnapshot
  <1>3. d = ChannelDoc(d.id, d.ver)
    BY RootAssumption DEF Doc, ChannelDoc
  <1> QED
    BY <1>2, <1>3

LEMMA DirectoryTypes ==
  ASSUME Inv
  PROVE  /\ Rows \subseteq Doc
         /\ \A r \in Rows : r.coll = Root /\ r.ver \in Nat
         /\ View(Root) \subseteq Doc
         /\ \A k \in DOMAIN mainQueue : mainQueue[k].docs \subseteq Doc
         /\ DOMAIN mainQueue \subseteq Nat
         /\ Root \in Queries
  <1>0. FsTypeOK /\ AppTypeOK /\ Root \in Queries
    BY DEF Inv, Queries
  <1>1. Rows \subseteq Doc /\ \A r \in Rows : r.coll = Root /\ r.ver \in Nat
    BY <1>0, MadeDocType DEF AppTypeOK, Channel, Rows, ChannelDoc
  <1>2. View(Root) \subseteq Doc
    BY <1>0, ViewType DEF View, FsTypeOK
  <1>3. \A k \in DOMAIN mainQueue : mainQueue[k].docs \subseteq Doc
    BY <1>0 DEF FsTypeOK, IsSnapshot
  <1>4. DOMAIN mainQueue \subseteq Nat
    BY <1>0 DEF FsTypeOK
  <1> QED
    BY <1>0, <1>1, <1>2, <1>3, <1>4

-----------------------------------------------------------------------------
(* The list, one step on *)

\* What a snapshot after a step shows: what it did before, or what the store
\* shows of the channels now.
LEMMA ListSnapshots ==
  ASSUME Inv, [Next]_vars
  PROVE  \E shift \in {0, 1} : \A k \in DOMAIN mainQueue' :
           \/ /\ PostedBefore(k, shift) /\ k + shift \in DOMAIN mainQueue
              /\ mainQueue'[k].docs = mainQueue[k + shift].docs
              /\ ForList(mainQueue'[k]) => ForList(mainQueue[k + shift])
           \/ /\ shift = 0 /\ k = Len(mainQueue) + 1
              /\ Appends(mainQueue'[k])
              /\ ForList(mainQueue'[k]) => mainQueue'[k].docs = View(Root)'
              /\ \A d \in mainQueue'[k].docs : d.coll = Root => d \in View(Root)'
  <1>1. PICK shift \in {0, 1} : \A k \in DOMAIN mainQueue' :
           \/ PostedBefore(k, shift)
           \/ /\ k = Len(mainQueue) + 1 /\ shift = 0 /\ Appends(mainQueue'[k])
              /\ \/ mainQueue'[k].error /\ mainQueue'[k].docs = {}
                 \/ \E q \in Queries : Tells(q, mainQueue'[k])
    BY SnapshotCases
  <1>2. ASSUME NEW k \in DOMAIN mainQueue', PostedBefore(k, shift)
        PROVE  /\ k + shift \in DOMAIN mainQueue
               /\ mainQueue'[k].docs = mainQueue[k + shift].docs
               /\ ForList(mainQueue'[k]) => ForList(mainQueue[k + shift])
    BY <1>2 DEF PostedBefore, IsRestOf, ForList
  <1>3. ASSUME NEW k \in DOMAIN mainQueue',
               \/ mainQueue'[k].error /\ mainQueue'[k].docs = {}
               \/ \E q \in Queries : Tells(q, mainQueue'[k])
        PROVE  /\ ForList(mainQueue'[k]) => mainQueue'[k].docs = View(Root)'
               /\ \A d \in mainQueue'[k].docs : d.coll = Root => d \in View(Root)'
    <2>1. CASE mainQueue'[k].error /\ mainQueue'[k].docs = {}
      BY <2>1 DEF ForList
    <2>2. ASSUME NEW q \in Queries, Tells(q, mainQueue'[k])
          PROVE  /\ ForList(mainQueue'[k]) => mainQueue'[k].docs = View(Root)'
                 /\ \A d \in mainQueue'[k].docs : d.coll = Root => d \in View(Root)'
      <3>1. ForList(mainQueue'[k]) => q = Root
        <4>1. Inv'
          BY NextInv
        <4>2. \A i \in DOMAIN listeners'[q] :
                listeners'[q][i].cb.kind = "channels" => q = Root
          BY <4>1 DEF Inv, Served, ServedListeners, Serves
        <4> QED
          BY <2>2, <4>2 DEF ForList, Tells
      <3>2. mainQueue'[k].docs = View(q)'
        BY <2>2 DEF Tells
      <3>3. \A d \in View(q)' : d.coll = q
        BY DEF View, LocalDocuments
      <3> QED
        BY <3>1, <3>2, <3>3
    <2> QED
      BY <1>3, <2>1, <2>2
  <1> QED
    BY <1>1, <1>2, <1>3

LEMMA ListInOrderNext ==
  ASSUME Inv, WriteInv, DirectoryInv, [Next]_vars
  PROVE  ListInOrder' /\ ListBehindStore'
  <1>0. /\ rejected \subseteq rejected' /\ Inv'
        /\ Follows(View(Root)', View(Root), rejected')
    BY RejectedGrows, NextInv, ViewMoves DEF DirectoryInv
  <1>1. /\ DOMAIN mainQueue \subseteq Nat /\ DOMAIN mainQueue' \subseteq Nat
        /\ View(Root) \subseteq Doc /\ View(Root)' \subseteq Doc
        /\ \A k \in DOMAIN mainQueue : mainQueue[k].docs \subseteq Doc
        /\ Len(mainQueue) \in Nat /\ DOMAIN mainQueue = 1..Len(mainQueue)
    <2>1. /\ FsTypeOK /\ DOMAIN mainQueue \subseteq Nat
          /\ FsTypeOK' /\ DOMAIN mainQueue' \subseteq Nat
          /\ Len(mainQueue) \in Nat /\ DOMAIN mainQueue = 1..Len(mainQueue)
      BY <1>0 DEF Inv, FsTypeOK
    <2>2. View(Root)' \subseteq Doc
      BY <2>1, DirectoryTypes, ViewType DEF View, FsTypeOK
    <2> QED
      BY <2>1, <2>2, DirectoryTypes
  <1>2. PICK shift \in {0, 1} : \A k \in DOMAIN mainQueue' :
           \/ /\ PostedBefore(k, shift) /\ k + shift \in DOMAIN mainQueue
              /\ mainQueue'[k].docs = mainQueue[k + shift].docs
              /\ ForList(mainQueue'[k]) => ForList(mainQueue[k + shift])
           \/ /\ shift = 0 /\ k = Len(mainQueue) + 1
              /\ Appends(mainQueue'[k])
              /\ ForList(mainQueue'[k]) => mainQueue'[k].docs = View(Root)'
              /\ \A d \in mainQueue'[k].docs : d.coll = Root => d \in View(Root)'
    BY ListSnapshots
  <1>3. ASSUME NEW k \in DOMAIN mainQueue', ForList(mainQueue'[k]),
               k + shift \in DOMAIN mainQueue,
               mainQueue'[k].docs = mainQueue[k + shift].docs,
               ForList(mainQueue[k + shift])
        PROVE  Follows(View(Root)', mainQueue'[k].docs, rejected')
    <2>1. Follows(View(Root), mainQueue[k + shift].docs, rejected)
      BY <1>3 DEF DirectoryInv, ListBehindStore
    <2> QED
      BY <1>0, <1>1, <1>3, <2>1, FollowsOn
  <1>4. \A k \in DOMAIN mainQueue' : ForList(mainQueue'[k]) =>
          Follows(View(Root)', mainQueue'[k].docs, rejected')
    BY <1>1, <1>2, <1>3, FollowsItself
  <1>5. ASSUME NEW k \in DOMAIN mainQueue', NEW l \in DOMAIN mainQueue', k < l,
               ForList(mainQueue'[k]), ForList(mainQueue'[l])
        PROVE  Follows(mainQueue'[l].docs, mainQueue'[k].docs, rejected')
    <2>1. CASE mainQueue'[l].docs = View(Root)'
      BY <1>4, <1>5, <2>1
    <2>2. CASE mainQueue'[l].docs # View(Root)'
      <3>1. /\ l + shift \in DOMAIN mainQueue /\ ForList(mainQueue[l + shift])
            /\ mainQueue'[l].docs = mainQueue[l + shift].docs
        BY <1>2, <1>5, <2>2
      <3>2. k \in Nat /\ l \in Nat /\ ~(shift = 0 /\ k = Len(mainQueue) + 1)
        BY <1>1, <1>5, <3>1
      <3>3. /\ k + shift \in DOMAIN mainQueue /\ ForList(mainQueue[k + shift])
            /\ mainQueue'[k].docs = mainQueue[k + shift].docs
        BY <1>2, <1>5, <3>2
      <3>4. k + shift < l + shift
        BY <1>5, <3>2
      <3>5. Follows(mainQueue[l + shift].docs, mainQueue[k + shift].docs, rejected)
        BY <3>1, <3>3, <3>4 DEF DirectoryInv, ListInOrder
      <3> QED
        BY <1>0, <3>1, <3>3, <3>5, FollowsLess DEF RootDocs
    <2> QED
      BY <2>1, <2>2
  <1> QED
    BY <1>4, <1>5 DEF ListInOrder, ListBehindStore

LEMMA RowsNext ==
  ASSUME Inv, WriteInv, DirectoryInv, [Next]_vars
  PROVE  RowsBehindList' /\ RowsBehindStore'
  <1>0. /\ rejected \subseteq rejected' /\ Inv'
        /\ Follows(View(Root)', View(Root), rejected')
    BY RejectedGrows, NextInv, ViewMoves DEF DirectoryInv
  <1>1. /\ DOMAIN mainQueue \subseteq Nat /\ DOMAIN mainQueue' \subseteq Nat
        /\ View(Root) \subseteq Doc /\ View(Root)' \subseteq Doc
        /\ Rows \subseteq Doc /\ FsTypeOK
        /\ \A k \in DOMAIN mainQueue : mainQueue[k].docs \subseteq Doc
        /\ \A k \in DOMAIN mainQueue' : mainQueue'[k].docs \subseteq Doc
    <2>1. FsTypeOK /\ DOMAIN mainQueue \subseteq Nat
      BY DEF Inv, FsTypeOK
    <2>2. FsTypeOK' /\ DOMAIN mainQueue' \subseteq Nat
      BY <1>0 DEF Inv, FsTypeOK
    <2>3. View(Root)' \subseteq Doc
      BY <2>2, DirectoryTypes, ViewType DEF View, FsTypeOK
    <2>4. \A k \in DOMAIN mainQueue' : mainQueue'[k].docs \subseteq Doc
      BY <2>2 DEF FsTypeOK, IsSnapshot
    <2> QED
      BY <2>1, <2>2, <2>3, <2>4, DirectoryTypes
  <1>2. CASE channelsList' = channelsList
    <2>1. Rows' = Rows
      BY <1>2 DEF Rows
    <2>2. Follows(View(Root)', Rows, rejected')
      BY <1>0, <1>1, FollowsOn DEF DirectoryInv, RowsBehindStore
    <2>3. PICK shift \in {0, 1} : \A k \in DOMAIN mainQueue' :
           \/ /\ PostedBefore(k, shift) /\ k + shift \in DOMAIN mainQueue
              /\ mainQueue'[k].docs = mainQueue[k + shift].docs
              /\ ForList(mainQueue'[k]) => ForList(mainQueue[k + shift])
           \/ /\ shift = 0 /\ k = Len(mainQueue) + 1
              /\ Appends(mainQueue'[k])
              /\ ForList(mainQueue'[k]) => mainQueue'[k].docs = View(Root)'
              /\ \A d \in mainQueue'[k].docs : d.coll = Root => d \in View(Root)'
      BY ListSnapshots
    <2>4. \A k \in DOMAIN mainQueue : ForList(mainQueue[k]) =>
            Follows(mainQueue[k].docs, Rows, rejected')
      BY <1>0, FollowsLess DEF DirectoryInv, RowsBehindList, RootDocs
    <2>5. \A k \in DOMAIN mainQueue' : ForList(mainQueue'[k]) =>
            Follows(mainQueue'[k].docs, Rows, rejected')
      BY <2>2, <2>3, <2>4
    <2> QED
      BY <2>1, <2>2, <2>5 DEF RowsBehindList, RowsBehindStore
  <1>3. CASE channelsList' = {} /\ Crash
    <2>1. Rows' = {}
      BY <1>3 DEF Rows
    <2> QED
      BY <2>1 DEF RowsBehindList, RowsBehindStore, Follows, RootDocs
  <1>4. ASSUME NEW i, DeliverEvent, IsNext(i), TakeEvent(i), ForList(mainQueue[1]),
               channelsList' = {channelFromSnapshot(d) : d \in mainQueue[1].docs}
                                  \ {NoChannel},
               \A d \in mainQueue[1].docs : d.coll = Root /\ d \in Doc
        PROVE  RowsBehindList' /\ RowsBehindStore'
    <2>1. Rows' \subseteq mainQueue[1].docs /\ 1 \in DOMAIN mainQueue
      BY <1>1, <1>4, NewRows, TakenShift
    <2>2. RootDocs(Rows') \subseteq mainQueue[1].docs
      BY <2>1 DEF RootDocs
    <2>3. Follows(View(Root)', Rows', rejected')
      <3>1. Follows(View(Root), mainQueue[1].docs, rejected)
        BY <1>4, <2>1 DEF DirectoryInv, ListBehindStore
      <3>2. Follows(View(Root)', mainQueue[1].docs, rejected')
        BY <1>0, <1>1, <2>1, <3>1, FollowsOn
      <3> QED
        BY <2>2, <3>2, FollowsLess
    <2>4. PICK shift \in {0, 1} : \A k \in DOMAIN mainQueue' : PostedBefore(k, shift)
      BY <1>1, <1>4, TakenShift
    <2>5. ASSUME NEW k \in DOMAIN mainQueue', ForList(mainQueue'[k])
          PROVE  Follows(mainQueue'[k].docs, Rows', rejected')
      <3>1. /\ k + shift \in DOMAIN mainQueue /\ ForList(mainQueue[k + shift])
            /\ mainQueue'[k].docs = mainQueue[k + shift].docs
        BY <2>4, <2>5 DEF PostedBefore, IsRestOf, ForList
      <3>2. Follows(mainQueue[k + shift].docs, mainQueue[1].docs, rejected)
        <4>1. CASE k + shift = 1
          BY <1>1, <2>1, <4>1, FollowsItself
        <4>2. CASE k + shift # 1
          <5>1. 1 < k + shift
            BY <1>1, <3>1, <4>2 DEF FsTypeOK
          <5> QED
            BY <1>4, <2>1, <3>1, <5>1 DEF DirectoryInv, ListInOrder
        <4> QED
          BY <4>1, <4>2
      <3> QED
        BY <1>0, <2>2, <3>1, <3>2, FollowsLess
    <2> QED
      BY <2>3, <2>5 DEF RowsBehindList, RowsBehindStore
  <1> QED
    BY <1>2, <1>3, <1>4, RowsCases

LEMMA BrokenStays ==
  ASSUME Inv, WriteInv, Versions, [Next]_vars, NEW d \in Doc, d.coll = Root,
         d.ver = Malformed, Broken(d)
  PROVE  Broken(d)'
  <1>0. /\ FsTypeOK /\ pending \in Seq(Doc) /\ QueuedUnseen /\ PendingApart
        /\ rejected \subseteq rejected'
    BY RejectedGrows DEF Inv, FsTypeOK, WriteInv, Apart
  <1>1. CASE ChannelDoc(d.id, 0) \in rejected
    BY <1>0, <1>1 DEF Broken
  <1>2. CASE d \in server /\ ~IsIn(d, Elements(pending))
    <2>1. ~Overwritten(d)
      BY <1>0, <1>2, CommitFacts, InMeansSameKey DEF Overwritten, SameKey
    <2>2. d \in server'
      BY <1>2, <2>1, ServerMoves DEF Versions, RootDocs
    <2>3. ~IsIn(d, Elements(pending'))
      <3>1. CASE UNCHANGED pending
        BY <1>2, <3>1 DEF Elements
      <3>2. CASE RunWriteTask
        <4>0. PICK h : h = Head(workerQueue).doc
          OBVIOUS
        <4>1. h \in Doc /\ h \in QueuedWrites
          BY <1>0, <3>2, <4>0, WorkerQueueType, TakenTask DEF RunWriteTask
        <4>2. Elements(pending') = Elements(pending) \cup {h}
          BY <1>0, <3>2, <4>0, <4>1, AppendElements DEF RunWriteTask
        <4>3. ~SameKey(d, h)
          <5>1. ~IsIn(h, Known \cup cache) /\ d \in Known \cup cache
            BY <1>0, <1>2, <4>1 DEF QueuedUnseen, Known
          <5> QED
            BY <5>1, InMeansSameKey DEF SameKey
        <4>4. ~SameKey(d, h) /\ \A e \in Elements(pending) : ~SameKey(d, e)
          BY <1>2, <4>3, InMeansSameKey
        <4> QED
          BY <4>2, <4>4, InMeansSameKey
      <3>3. CASE HandleSuccessfulWrite \/ HandleRejectedWrite
        <4>1. Elements(pending') \subseteq Elements(pending)
          BY <1>0, <3>3, HeadIsPending DEF HandleSuccessfulWrite, HandleRejectedWrite
        <4> QED
          BY <1>2, <4>1, InMeansSameKey
      <3> QED
        BY <3>1, <3>2, <3>3, StoreCases DEF ServerCommit, ApplyRemoteEvent, OtherClient
    <2> QED
      BY <2>2, <2>3 DEF Broken
  <1> QED
    BY <1>1, <1>2 DEF Broken

LEMMA BrokenThereNext ==
  ASSUME Inv, WriteInv, DirectoryInv, [Next]_vars
  PROVE  BrokenThere'
  <1>0. Inv' /\ Versions' /\ cache' \subseteq Doc /\ server' \subseteq Doc
        /\ \A k \in DOMAIN mainQueue : mainQueue[k].docs \subseteq Doc
    BY NextInv, VersionsNext, DirectoryTypes DEF DirectoryInv, Inv, FsTypeOK
  <1>1. ASSUME NEW d \in View(Root)', d.ver = Malformed
        PROVE  Broken(d)'
    <2>1. \/ d \in RootDocs(Elements(pending'))
          \/ /\ d \in RootDocs(cache')
             /\ \A w \in Elements(pending') : ~SameKey(w, d)
      BY ShownChannels DEF View
    <2>2. d \notin RootDocs(Elements(pending'))
      BY <1>0, <1>1, MalformedAssumption DEF Versions, MadeFirst, RootDocs, Outgoing
    <2>3. d \in Doc /\ d.coll = Root /\ ~IsIn(d, Elements(pending'))
      BY <1>0, <2>1, <2>2, InMeansSameKey DEF RootDocs, SameKey
    <2>4. CASE ChannelDoc(d.id, 0) \in rejected'
      BY <2>4 DEF Broken
    <2>5. CASE Newer(d, server')
      <3>1. PICK e \in server' : e.coll = Root /\ e.id = d.id /\ e.ver = Malformed
        BY <1>1, <2>5 DEF Newer
      <3>2. d = e
        BY <1>0, <1>1, <2>3, <3>1, RootAssumption DEF Doc
      <3> QED
        BY <2>3, <3>2 DEF Broken
    <2> QED
      BY <1>0, <2>1, <2>2, <2>3, <2>4, <2>5 DEF Versions, CacheBehind, Behind
  <1>2. PICK shift \in {0, 1} : \A k \in DOMAIN mainQueue' :
           \/ /\ PostedBefore(k, shift) /\ k + shift \in DOMAIN mainQueue
              /\ mainQueue'[k].docs = mainQueue[k + shift].docs
              /\ ForList(mainQueue'[k]) => ForList(mainQueue[k + shift])
           \/ /\ shift = 0 /\ k = Len(mainQueue) + 1
              /\ Appends(mainQueue'[k])
              /\ ForList(mainQueue'[k]) => mainQueue'[k].docs = View(Root)'
              /\ \A d \in mainQueue'[k].docs : d.coll = Root => d \in View(Root)'
    BY ListSnapshots
  <1> SUFFICES ASSUME NEW k \in DOMAIN mainQueue', NEW d \in RootDocs(mainQueue'[k].docs),
                      d.ver = Malformed
               PROVE  Broken(d)'
    BY DEF BrokenThere
  <1>3. ASSUME k + shift \in DOMAIN mainQueue,
               mainQueue'[k].docs = mainQueue[k + shift].docs
        PROVE  Broken(d)'
    <2>1. d \in Doc /\ d.coll = Root /\ Broken(d)
      BY <1>0, <1>3 DEF DirectoryInv, BrokenThere, RootDocs
    <2> QED
      BY <2>1, BrokenStays DEF DirectoryInv
  <1>4. CASE d \in View(Root)'
    BY <1>1, <1>4
  <1> QED
    BY <1>2, <1>3, <1>4 DEF RootDocs

-----------------------------------------------------------------------------
(* The theorem *)

LEMMA DirectoryInvariance == Spec => []DirectoryInv
  <1>1. Init => DirectoryInv
    <2> SUFFICES ASSUME Init PROVE DirectoryInv
      OBVIOUS
    <2>0. Inv /\ server \subseteq Doc
      BY InitInv DEF Inv, FsTypeOK
    <2>1. /\ \A d \in server : d = ChannelDoc(d.id, 0)
          /\ cache \subseteq server
          /\ pending = <<>> /\ QueuedWrites = {} /\ rejected = {}
          /\ results = <<>> /\ mainQueue = <<>> /\ channelsList = {}
      BY DEF Init, ChannelDoc, Elements, QueuedWrites, getAllChannels, ListenTask
    <2>2. ServerHasOne
      BY <2>1 DEF ServerHasOne, SameKey, RootDocs
    <2>3. MadeFirst
      BY <2>1 DEF MadeFirst, Outgoing, RootDocs, Elements
    <2>4. CacheBehind /\ OlderBehind
      BY <2>0, <2>1, NewerHolds DEF CacheBehind, OlderBehind, Behind, RootDocs
    <2>5. ListInOrder /\ ListBehindStore /\ RowsBehindList /\ BrokenThere
      BY <2>1 DEF ListInOrder, ListBehindStore, RowsBehindList, BrokenThere
    <2>6. RowsBehindStore
      BY <2>1 DEF RowsBehindStore, Follows, Rows, RootDocs
    <2> QED
      BY <2>2, <2>3, <2>4, <2>5, <2>6 DEF DirectoryInv, Versions
  <1>2. Inv /\ WriteInv /\ DirectoryInv /\ [Next]_vars => DirectoryInv'
    BY VersionsNext, ListInOrderNext, RowsNext, BrokenThereNext DEF DirectoryInv
  <1> QED
    BY Invariance, WriteInvariance, <1>1, <1>2, PTL DEF Spec

\* Neither what the local store gives the app nor the list goes back to older
\* fields of a channel, also when a lost result makes the server set the first
\* ones again, and a channel leaves the list only if its creation was refused
\* or its fields became unreadable (LocalDocumentsView, LocalStore's
\* AcknowledgeBatch and ApplyRemoteEvent, and the snapshots
\* ConversationListViewController replaces its rows from).
THEOREM DirectoryNeverGoesBackHolds == Spec => DirectoryNeverGoesBack
  <1> DEFINE StoreKept ==
               \A d \in View(Root) :
                 d.ver # Malformed =>
                   \/ \E e \in View(Root)' :
                        e.id = d.id /\ (e.ver = Malformed \/ e.ver >= d.ver)
                   \/ ChannelDoc(d.id, 0) \in rejected'
  <1> DEFINE ListKept ==
               spent'["crash"] = spent["crash"] =>
                 \A a \in channelsList :
                   \/ \E b \in channelsList' :
                        b.identifier = a.identifier /\ b.ver >= a.ver
                   \/ ChannelDoc(a.identifier, 0) \in rejected
                   \/ ChannelDoc(a.identifier, Malformed) \in server
  <1>1. ASSUME Inv, WriteInv, DirectoryInv, [Next]_vars
        PROVE  StoreKept
    <2>1. \A d \in View(Root) : d.coll = Root
      BY DEF View, LocalDocuments
    <2> QED
      BY <1>1, <2>1, ViewMoves DEF DirectoryInv, Follows, RootDocs, Newer
  <1>2. ASSUME Inv, DirectoryInv, [Next]_vars
        PROVE  ListKept
    <2>0. /\ AppTypeOK /\ \A a \in channelsList : a.ver \in Nat
      BY <1>2 DEF Inv, AppTypeOK, Channel
    <2>1. CASE channelsList' = channelsList
      BY <2>0, <2>1
    <2>2. CASE Crash
      <3>1. spent' = [spent EXCEPT !["crash"] = @ + 1]
        BY <2>2 DEF Crash, Spend
      <3>2. spent'["crash"] = spent["crash"] + 1 /\ spent["crash"] \in Nat
        BY <2>0, <3>1 DEF AppTypeOK, Kinds
      <3> QED
        BY <3>2
    <2>3. ASSUME NEW i, ForList(mainQueue[1]), IsNext(i), TakeEvent(i),
                 channelsList' = {channelFromSnapshot(d) : d \in mainQueue[1].docs}
                                   \ {NoChannel},
                 \A d \in mainQueue[1].docs : d.coll = Root /\ d \in Doc
          PROVE  ListKept
      <3> SUFFICES ASSUME NEW a \in channelsList, ChannelDoc(a.identifier, 0) \notin rejected
                   PROVE  \/ \E b \in channelsList' :
                               b.identifier = a.identifier /\ b.ver >= a.ver
                          \/ ChannelDoc(a.identifier, Malformed) \in server
        OBVIOUS
      <3>1. 1 \in DOMAIN mainQueue
        BY <1>2, <2>3, TakenShift DEF Inv
      <3>2. PICK r : r = ChannelDoc(a.identifier, a.ver)
        OBVIOUS
      <3>3. r \in RootDocs(Rows) /\ r.id = a.identifier /\ r.ver = a.ver
        BY <3>2 DEF Rows, RootDocs, ChannelDoc
      <3>4. Newer(r, mainQueue[1].docs)
        BY <1>2, <2>3, <3>1, <3>3 DEF DirectoryInv, RowsBehindList, Follows
      <3>5. PICK e \in mainQueue[1].docs :
              /\ e.coll = Root /\ e.id = a.identifier
              /\ e.ver = Malformed \/ e.ver >= a.ver
        BY <3>3, <3>4 DEF Newer
      <3>6. CASE e.ver = Malformed
        <4>1. e \in server
          BY <1>2, <3>1, <3>5, <3>6 DEF DirectoryInv, BrokenThere, Broken, RootDocs
        <4>2. e = ChannelDoc(a.identifier, Malformed)
          BY <2>3, <3>5, <3>6, RootAssumption DEF Doc, ChannelDoc
        <4> QED
          BY <4>1, <4>2
      <3>7. CASE e.ver # Malformed
        <4>1. PICK b : b = channelFromSnapshot(e)
          OBVIOUS
        <4>2. b.identifier = a.identifier /\ b.ver >= a.ver
          BY <3>5, <3>7, <4>1 DEF channelFromSnapshot
        <4>3. b \in Channel
          <5>1. e \in Doc /\ e.id \in Channels /\ e.ver \in Nat
            BY <2>3, <3>5, <3>7, DocType
          <5> QED
            BY <3>7, <4>1, <5>1 DEF channelFromSnapshot, Channel
        <4> QED
          BY <2>3, <4>1, <4>2, <4>3, NoChannelAssumption
      <3> QED
        BY <3>6, <3>7
    <2> QED
      BY <1>2, <2>1, <2>2, <2>3, RowsCases
  <1>3. Inv /\ WriteInv /\ DirectoryInv /\ [Next]_vars
          => [StoreKept /\ ListKept]_vars
    BY <1>1, <1>2
  <1> QED
    BY Invariance, WriteInvariance, DirectoryInvariance, <1>3, PTL DEF Spec, DirectoryNeverGoesBack

-----------------------------------------------------------------------------
(***************************************************************************)
(* PART 3.  The screens: what a screen shows, each snapshot on its way to  *)
(* it and the local store grow from one to the next, but for messages the  *)
(* server refuses.                                                         *)
(***************************************************************************)

(* What a conversation screen hears of *)

\* The k-th snapshot calls the closure of a screen for channel q.
ForScreen(k, q) ==
  /\ ~mainQueue[k].error
  /\ \E i \in DOMAIN mainQueue[k].to :
       /\ mainQueue[k].to[i].kind = "messages"
       /\ conversations[mainQueue[k].to[i].arg].identifier = q

\* What the store shows of a channel's messages only grows, but for those the
\* server refuses: the messages of others are the server's own, and an
\* acknowledged one stays as it was.
LEMMA ViewKeeps ==
  ASSUME Inv, WriteInv, [Next]_vars, NEW q \in Channels
  PROVE  View(q) \subseteq View(q)' \cup rejected'
  <1>0. /\ FsTypeOK /\ q \in Queries /\ q # Root
        /\ cache \subseteq Doc /\ server \subseteq Doc /\ pending \in Seq(Doc)
        /\ PendingApart /\ QueuedUnseen /\ Genuine /\ CacheKnown
    BY RootAssumption DEF Inv, FsTypeOK, Queries, WriteInv, Apart, ScreenInv
  <1>1. \A stored, writes, d :
          d \in LocalDocuments(q, stored, writes) <=>
            /\ d.coll = q
            /\ \/ d \in Elements(writes)
               \/ d \in stored /\ \A w \in Elements(writes) : ~SameKey(w, d)
    BY InMeansSameKey DEF LocalDocuments, SameKey
  <1>2. \A d : /\ d \in View(q) <=>
                    /\ d.coll = q
                    /\ \/ d \in Elements(pending)
                       \/ d \in cache /\ \A w \in Elements(pending) : ~SameKey(w, d)
               /\ d \in View(q)' <=>
                    /\ d.coll = q
                    /\ \/ d \in Elements(pending')
                       \/ d \in cache' /\ \A w \in Elements(pending') : ~SameKey(w, d)
    BY <1>1 DEF View
  <1> SUFFICES ASSUME NEW d \in View(q)
               PROVE  d \in View(q)' \cup rejected'
    OBVIOUS
  <1>3. d.coll = q
    BY <1>2
  <1>5. CASE UNCHANGED <<cache, pending>>
    BY <1>5 DEF View, Elements
  <1>6. CASE RunWriteTask
    <2>0. PICK h : h = Head(workerQueue).doc
      OBVIOUS
    <2>1. h \in Doc /\ h \in QueuedWrites
      BY <1>0, <1>6, <2>0, WorkerQueueType, TakenTask DEF RunWriteTask
    <2>2. Elements(pending') = Elements(pending) \cup {h} /\ cache' = cache
      BY <1>0, <1>6, <2>0, <2>1, AppendElements DEF RunWriteTask
    <2>3. \A e \in cache : ~SameKey(h, e)
      BY <1>0, <2>1, InMeansSameKey DEF QueuedUnseen
    <2> QED
      BY <1>2, <2>2, <2>3
  <1>7. ASSUME pending # <<>>, pending' = Tail(pending), d # Head(pending),
               \A e \in cache : e \in cache' \/ SameKey(Head(pending), e)
        PROVE  d \in View(q)'
    <2>1. /\ Elements(pending) = Elements(pending') \cup {Head(pending)}
          /\ Head(pending) \in Elements(pending)
      BY <1>0, <1>7, HeadIsApart
    <2> QED
      BY <1>2, <1>7, <2>1
  <1>8. CASE HandleRejectedWrite
    BY <1>7, <1>8 DEF HandleRejectedWrite
  <1>9. CASE HandleSuccessfulWrite
    <2>1. CASE d = Head(pending)
      <3>1. /\ d \in Elements(pending) /\ d \in Doc /\ d \in server
            /\ d.id[1] # 0 /\ d.ver = 0
        BY <1>0, <1>3, <1>9, <2>1, HeadIsPending, PendingType, AcknowledgedIsThere
           DEF HandleSuccessfulWrite, Genuine, Messages, Outgoing
      <3>2. d \in cache'
        <4>1. CASE IsIn(d, cache)
          <5>1. PICK e \in cache : SameKey(d, e)
            BY <4>1, InMeansSameKey
          <5>2. e \in server /\ e.ver = 0 /\ e \in Doc
            BY <1>0, <1>3, <3>1, <5>1 DEF CacheKnown, Messages, Genuine, Own, SameKey
          <5>3. e = d
            BY <1>0, <1>3, <3>1, <5>1, <5>2 DEF SameKey, Doc
          <5> QED
            BY <1>9, <2>1, <5>1, <5>3, WithFacts DEF HandleSuccessfulWrite
        <4>2. CASE ~IsIn(d, cache)
          BY <1>9, <2>1, <4>2, WithFacts DEF HandleSuccessfulWrite
        <4> QED
          BY <4>1, <4>2
      <3>3. \A w \in Elements(pending') : ~SameKey(w, d)
        BY <1>0, <1>9, <2>1, HeadIsApart DEF HandleSuccessfulWrite, SameKey
      <3> QED
        BY <1>2, <1>3, <3>2, <3>3
    <2>2. \A e \in cache : e \in cache' \/ SameKey(Head(pending), e)
      BY <1>9, WithFacts DEF HandleSuccessfulWrite, SameKey
    <2> QED
      BY <1>7, <1>9, <2>1, <2>2 DEF HandleSuccessfulWrite
  <1>10. ASSUME NEW p \in Queries, ApplyRemoteEvent(p)
         PROVE  d \in View(q)'
    <2>0. /\ cache' = {e \in cache : e.coll # p} \cup {e \in server : e.coll = p}
          /\ Elements(pending') = Elements(pending)
      BY <1>10 DEF ApplyRemoteEvent, Elements
    <2>1. d \in cache => d \in server
      BY <1>0, <1>3 DEF CacheKnown, Messages
    <2>2. d \in cache => d \in cache'
      BY <1>3, <2>0, <2>1
    <2> QED
      BY <1>2, <2>0, <2>2
  <1> QED
    BY <1>5, <1>6, <1>8, <1>9, <1>10, StoreCases DEF ServerCommit, OtherClient

\* The screens, and what they show.
LEMMA ScreenCases ==
  ASSUME Inv, [Next]_vars
  PROVE  \/ /\ Crash /\ messagesList' = <<>> /\ mainQueue' = <<>>
         \/ /\ DOMAIN conversations \subseteq DOMAIN conversations'
            /\ \A s \in DOMAIN conversations : conversations'[s] = conversations[s]
            /\ \A s \in DOMAIN messagesList' :
                 \/ s \notin DOMAIN messagesList /\ messagesList'[s] = {}
                 \/ /\ s \in DOMAIN messagesList /\ s \in DOMAIN conversations
                    /\ messagesList'[s] = messagesList[s]
                 \/ /\ s \in DOMAIN messagesList /\ s \in DOMAIN conversations
                    /\ DeliverEvent /\ \E i : IsNext(i) /\ TakeEvent(i)
                    /\ ForScreen(1, conversations[s].identifier)
                    /\ messagesList'[s] = {d \in mainQueue[1].docs : d.ver # Malformed}
  <1>0. FsTypeOK /\ AppTypeOK /\ DOMAIN messagesList = DOMAIN conversations
    BY DEF Inv, AppTypeOK
  <1>1. CASE Crash
    BY <1>1 DEF Crash
  <1>2. CASE UNCHANGED <<conversations, messagesList>>
    BY <1>0, <1>2
  <1>3. CASE didSelectRow
    <2>1. PICK channel \in channelsList :
            /\ conversations' = Append(conversations, channel)
            /\ messagesList' = Append(messagesList, {})
      BY <1>3 DEF didSelectRow
    <2>2. channel \in Channel /\ conversations \in Seq(Channel)
          /\ messagesList \in Seq(SUBSET Doc) /\ {} \in SUBSET Doc
      BY <1>0 DEF AppTypeOK
    <2>3. /\ DOMAIN conversations' = DOMAIN conversations \cup {Len(conversations) + 1}
          /\ \A s \in DOMAIN conversations : conversations'[s] = conversations[s]
      BY <2>1, <2>2, AppendElements
    <2>4. /\ DOMAIN messagesList' = DOMAIN messagesList \cup {Len(messagesList) + 1}
          /\ \A s \in DOMAIN messagesList : messagesList'[s] = messagesList[s]
          /\ messagesList'[Len(messagesList) + 1] = {}
          /\ Len(messagesList) + 1 \notin DOMAIN messagesList
      BY <2>1, <2>2, AppendElements
    <2> QED
      BY <1>0, <2>3, <2>4
  <1>4. CASE DeliverEvent
    <2>1. PICK i \in DOMAIN Head(mainQueue).to :
            /\ IsNext(i) /\ TakeEvent(i) /\ UNCHANGED conversations
            /\ \/ UNCHANGED messagesList
               \/ /\ ~Head(mainQueue).error /\ Head(mainQueue).to[i].kind = "messages"
                  /\ OnMessages(Head(mainQueue).docs, Head(mainQueue).to[i].arg)
      BY <1>4 DEF DeliverEvent, OnChannels, OnChannelsForSend, IsNext
    <2>2. 1 \in DOMAIN mainQueue /\ Head(mainQueue) = mainQueue[1]
      BY <1>0, <2>1, TakenShift
    <2>3. CASE UNCHANGED messagesList
      BY <1>2, <2>1, <2>3
    <2>4. CASE /\ ~Head(mainQueue).error /\ Head(mainQueue).to[i].kind = "messages"
               /\ OnMessages(Head(mainQueue).docs, Head(mainQueue).to[i].arg)
      <3>1. PICK s : s = Head(mainQueue).to[i].arg
        OBVIOUS
      <3>2. messagesList' = [messagesList EXCEPT ![s] =
                               {d \in mainQueue[1].docs : d.ver # Malformed}]
        BY <2>2, <2>4, <3>1 DEF OnMessages
      <3>3. ForScreen(1, conversations[s].identifier)
        BY <2>1, <2>2, <2>4, <3>1 DEF ForScreen
      <3>4. /\ DOMAIN messagesList' = DOMAIN messagesList
            /\ \A r \in DOMAIN messagesList : r # s => messagesList'[r] = messagesList[r]
            /\ s \in DOMAIN messagesList =>
                 messagesList'[s] = {d \in mainQueue[1].docs : d.ver # Malformed}
        BY <1>0, <3>2 DEF AppTypeOK
      <3> QED
        BY <1>0, <1>4, <2>1, <3>3, <3>4
    <2> QED
      BY <2>1, <2>3, <2>4
  <1>5. CASE ~DeliverEvent /\ ~Crash /\ ~didSelectRow
    <2>1. UNCHANGED <<conversations, messagesList>>
      BY <1>5 DEF Next, vars, appvars, goBack, sendFakeMessage,
                  channelButtonTapped, Worker, Network, Refusal, OtherClient
    <2> QED
      BY <1>2, <2>1
  <1> QED
    BY <1>1, <1>3, <1>4, <1>5

-----------------------------------------------------------------------------
(* Snapshots and rows of a channel grow *)

SnapshotsGrow ==
  \A k, l \in DOMAIN mainQueue : \A q \in Channels :
    k < l /\ ForScreen(k, q) /\ ForScreen(l, q)
      => mainQueue[k].docs \subseteq mainQueue[l].docs \cup rejected
StoreGrows ==
  \A k \in DOMAIN mainQueue : \A q \in Channels :
    ForScreen(k, q) => mainQueue[k].docs \subseteq View(q) \cup rejected

\* The rows of a screen for channel q.
OnScreen(s, q) == /\ s \in DOMAIN messagesList
                  /\ s \in DOMAIN conversations /\ conversations[s].identifier = q

RowsGrow ==
  \A s : \A q \in Channels : OnScreen(s, q) =>
    /\ messagesList[s] \subseteq View(q) \cup rejected
    /\ \A k \in DOMAIN mainQueue :
         ForScreen(k, q) => messagesList[s] \subseteq mainQueue[k].docs \cup rejected
RowsReadable == \A s \in DOMAIN messagesList : \A d \in messagesList[s] : d.ver # Malformed

GrowInv == SnapshotsGrow /\ StoreGrows /\ RowsGrow /\ RowsReadable

\* What a snapshot after a step shows: what it did before, or what the store
\* shows of its channel now.
LEMMA ScreenSnapshots ==
  ASSUME Inv, [Next]_vars, mainQueue' # <<>> \/ ~Crash
  PROVE  \E shift \in {0, 1} : \A k \in DOMAIN mainQueue' :
           \/ /\ k + shift \in DOMAIN mainQueue
              /\ mainQueue'[k].docs = mainQueue[k + shift].docs
              /\ \A q : ForScreen(k, q)' => ForScreen(k + shift, q)
           \/ /\ shift = 0 /\ k = Len(mainQueue) + 1
              /\ \A q : ForScreen(k, q)' => mainQueue'[k].docs = View(q)'
  <1>0. Inv'
    BY NextInv
  <1>1. PICK shift \in {0, 1} : \A k \in DOMAIN mainQueue' :
           \/ PostedBefore(k, shift)
           \/ /\ k = Len(mainQueue) + 1 /\ shift = 0 /\ Appends(mainQueue'[k])
              /\ \/ mainQueue'[k].error /\ mainQueue'[k].docs = {}
                 \/ \E q \in Queries : Tells(q, mainQueue'[k])
    BY SnapshotCases
  <1>2. /\ DOMAIN conversations \subseteq DOMAIN conversations'
        /\ \A s \in DOMAIN conversations : conversations'[s] = conversations[s]
    BY ScreenCases DEF Crash
  <1>3. ASSUME NEW k \in DOMAIN mainQueue', PostedBefore(k, shift)
        PROVE  /\ k + shift \in DOMAIN mainQueue
               /\ mainQueue'[k].docs = mainQueue[k + shift].docs
               /\ \A q : ForScreen(k, q)' => ForScreen(k + shift, q)
    <2>1. \A i \in DOMAIN mainQueue[k + shift].to :
            mainQueue[k + shift].to[i].kind = "messages" =>
              mainQueue[k + shift].to[i].arg \in DOMAIN conversations
      BY <1>3 DEF PostedBefore, Inv, Served, ServedSnapshots, IsServed, Serves
    <2>2. /\ k + shift \in DOMAIN mainQueue
          /\ mainQueue'[k].docs = mainQueue[k + shift].docs
          /\ mainQueue'[k].error = mainQueue[k + shift].error
          /\ DOMAIN mainQueue'[k].to \subseteq DOMAIN mainQueue[k + shift].to
          /\ \A j \in DOMAIN mainQueue'[k].to : mainQueue'[k].to[j] = mainQueue[k + shift].to[j]
      BY <1>3 DEF PostedBefore, IsRestOf
    <2> QED
      BY <1>2, <2>1, <2>2 DEF ForScreen
  <1>4. ASSUME NEW k \in DOMAIN mainQueue',
               \/ mainQueue'[k].error /\ mainQueue'[k].docs = {}
               \/ \E q \in Queries : Tells(q, mainQueue'[k])
        PROVE  \A q : ForScreen(k, q)' => mainQueue'[k].docs = View(q)'
    <2>1. CASE mainQueue'[k].error /\ mainQueue'[k].docs = {}
      BY <2>1 DEF ForScreen
    <2>2. ASSUME NEW p \in Queries, Tells(p, mainQueue'[k])
          PROVE  \A q : ForScreen(k, q)' => mainQueue'[k].docs = View(q)'
      <3>1. \A i \in DOMAIN listeners'[p] :
              listeners'[p][i].cb.kind = "messages" =>
                p = conversations'[listeners'[p][i].cb.arg].identifier
        BY <1>0 DEF Inv, Served, ServedListeners, Serves
      <3>2. \A q : ForScreen(k, q)' => q = p
        BY <2>2, <3>1 DEF ForScreen, Tells
      <3>3. mainQueue'[k].docs = View(p)'
        BY <2>2 DEF Tells
      <3> QED
        BY <3>2, <3>3
    <2> QED
      BY <1>4, <2>1, <2>2
  <1> QED
    BY <1>1, <1>3, <1>4

LEMMA SnapshotsGrowNext ==
  ASSUME Inv, WriteInv, GrowInv, [Next]_vars
  PROVE  SnapshotsGrow' /\ StoreGrows'
  <1>1. CASE mainQueue' = <<>>
    BY <1>1 DEF SnapshotsGrow, StoreGrows
  <1>2. CASE mainQueue' # <<>>
    <2>0. /\ rejected \subseteq rejected' /\ Inv'
          /\ \A q \in Channels : View(q) \subseteq View(q)' \cup rejected'
      BY RejectedGrows, NextInv, ViewKeeps
    <2>1. /\ DOMAIN mainQueue \subseteq Nat /\ DOMAIN mainQueue' \subseteq Nat
          /\ Len(mainQueue) \in Nat /\ DOMAIN mainQueue = 1..Len(mainQueue)
      BY <2>0 DEF Inv, FsTypeOK
    <2>2. PICK shift \in {0, 1} : \A k \in DOMAIN mainQueue' :
           \/ /\ k + shift \in DOMAIN mainQueue
              /\ mainQueue'[k].docs = mainQueue[k + shift].docs
              /\ \A q : ForScreen(k, q)' => ForScreen(k + shift, q)
           \/ /\ shift = 0 /\ k = Len(mainQueue) + 1
              /\ \A q : ForScreen(k, q)' => mainQueue'[k].docs = View(q)'
      BY <1>2, ScreenSnapshots
    <2>3. ASSUME NEW k \in DOMAIN mainQueue', NEW q \in Channels, ForScreen(k, q)'
          PROVE  mainQueue'[k].docs \subseteq View(q)' \cup rejected'
      BY <2>0, <2>2, <2>3 DEF GrowInv, StoreGrows
    <2>4. ASSUME NEW k \in DOMAIN mainQueue', NEW l \in DOMAIN mainQueue', k < l,
                 NEW q \in Channels,
                 ForScreen(k, q)', ForScreen(l, q)'
          PROVE  mainQueue'[k].docs \subseteq mainQueue'[l].docs \cup rejected'
      <3>1. CASE mainQueue'[l].docs = View(q)'
        BY <2>3, <2>4, <3>1
      <3>2. CASE mainQueue'[l].docs # View(q)'
        <4>1. /\ l + shift \in DOMAIN mainQueue /\ ForScreen(l + shift, q)
              /\ mainQueue'[l].docs = mainQueue[l + shift].docs
          BY <2>2, <2>4, <3>2
        <4>2. k \in Nat /\ l \in Nat /\ ~(shift = 0 /\ k = Len(mainQueue) + 1)
          BY <2>1, <2>4, <4>1
        <4>3. /\ k + shift \in DOMAIN mainQueue /\ ForScreen(k + shift, q)
              /\ mainQueue'[k].docs = mainQueue[k + shift].docs
          BY <2>2, <2>4, <4>2
        <4>4. k + shift < l + shift
          BY <2>4, <4>2
        <4>5. mainQueue[k + shift].docs \subseteq mainQueue[l + shift].docs \cup rejected
          BY <4>1, <4>3, <4>4 DEF GrowInv, SnapshotsGrow
        <4> QED
          BY <2>0, <4>1, <4>3, <4>5
      <3> QED
        BY <3>1, <3>2
    <2>5. SnapshotsGrow'
      BY <2>4 DEF SnapshotsGrow
    <2>6. StoreGrows'
      BY <2>3 DEF StoreGrows
    <2> QED
      BY <2>5, <2>6
  <1> QED
    BY <1>1, <1>2

\* Rows that were there stay behind whatever is still to come.
LEMMA OldRows ==
  ASSUME Inv, WriteInv, GrowInv, [Next]_vars, ~Crash,
         NEW s, NEW q \in Channels, OnScreen(s, q)
  PROVE  /\ messagesList[s] \subseteq View(q)' \cup rejected'
         /\ \A k \in DOMAIN mainQueue' : ForScreen(k, q)' =>
              messagesList[s] \subseteq mainQueue'[k].docs \cup rejected'
  <1>0. /\ rejected \subseteq rejected'
        /\ View(q) \subseteq View(q)' \cup rejected'
    BY RejectedGrows, ViewKeeps
  <1>1. messagesList[s] \subseteq View(q)' \cup rejected'
    BY <1>0 DEF GrowInv, RowsGrow
  <1>2. PICK shift \in {0, 1} : \A k \in DOMAIN mainQueue' :
           \/ /\ k + shift \in DOMAIN mainQueue
              /\ mainQueue'[k].docs = mainQueue[k + shift].docs
              /\ \A p : ForScreen(k, p)' => ForScreen(k + shift, p)
           \/ /\ shift = 0 /\ k = Len(mainQueue) + 1
              /\ \A p : ForScreen(k, p)' => mainQueue'[k].docs = View(p)'
    BY ScreenSnapshots
  <1> SUFFICES ASSUME NEW k \in DOMAIN mainQueue', ForScreen(k, q)'
               PROVE  messagesList[s] \subseteq mainQueue'[k].docs \cup rejected'
    BY <1>1
  <1>3. CASE mainQueue'[k].docs = View(q)'
    BY <1>1, <1>3
  <1>4. CASE /\ k + shift \in DOMAIN mainQueue
             /\ mainQueue'[k].docs = mainQueue[k + shift].docs
             /\ ForScreen(k + shift, q)
    BY <1>0, <1>4 DEF GrowInv, RowsGrow
  <1> QED
    BY <1>2, <1>3, <1>4

\* New rows are those of the first snapshot in the queue.
LEMMA FreshRows ==
  ASSUME Inv, WriteInv, GrowInv, [Next]_vars, ~Crash, DeliverEvent,
         NEW i, IsNext(i), TakeEvent(i),
         NEW q \in Channels, ForScreen(1, q)
  PROVE  /\ mainQueue[1].docs \subseteq View(q)' \cup rejected'
         /\ \A k \in DOMAIN mainQueue' : ForScreen(k, q)' =>
              mainQueue[1].docs \subseteq mainQueue'[k].docs \cup rejected'
  <1>0. /\ FsTypeOK /\ DOMAIN mainQueue \subseteq Nat \ {0}
        /\ UNCHANGED <<rejected, cache, pending, conversations>>
        /\ 1 \in DOMAIN mainQueue
    <2>1. FsTypeOK /\ DOMAIN mainQueue \subseteq Nat \ {0}
      BY DEF Inv, FsTypeOK
    <2> QED
      BY <2>1, TakenShift DEF DeliverEvent
  <1>1. mainQueue[1].docs \subseteq View(q)' \cup rejected'
    BY <1>0 DEF GrowInv, StoreGrows, View
  <1>2. PICK shift \in {0, 1} : \A k \in DOMAIN mainQueue' : PostedBefore(k, shift)
    BY <1>0, TakenShift
  <1> SUFFICES ASSUME NEW k \in DOMAIN mainQueue', ForScreen(k, q)'
               PROVE  mainQueue[1].docs \subseteq mainQueue'[k].docs \cup rejected'
    BY <1>1
  <1>3. /\ k + shift \in DOMAIN mainQueue /\ ForScreen(k + shift, q)
        /\ mainQueue'[k].docs = mainQueue[k + shift].docs
    BY <1>0, <1>2 DEF PostedBefore, IsRestOf, ForScreen
  <1>4. k + shift = 1 \/ 1 < k + shift
    BY <1>0, <1>3
  <1> QED
    BY <1>0, <1>3, <1>4 DEF GrowInv, SnapshotsGrow

LEMMA RowsGrowNext ==
  ASSUME Inv, WriteInv, GrowInv, [Next]_vars
  PROVE  RowsGrow' /\ RowsReadable'
  <1>1. CASE Crash
    BY <1>1 DEF Crash, RowsGrow, RowsReadable, OnScreen
  <1>2. CASE ~Crash
    <2>1. /\ DOMAIN conversations \subseteq DOMAIN conversations'
          /\ \A s \in DOMAIN conversations : conversations'[s] = conversations[s]
          /\ \A s \in DOMAIN messagesList' :
               \/ s \notin DOMAIN messagesList /\ messagesList'[s] = {}
               \/ /\ s \in DOMAIN messagesList /\ s \in DOMAIN conversations
                  /\ messagesList'[s] = messagesList[s]
               \/ /\ s \in DOMAIN messagesList /\ s \in DOMAIN conversations
                  /\ DeliverEvent /\ \E i : IsNext(i) /\ TakeEvent(i)
                  /\ ForScreen(1, conversations[s].identifier)
                  /\ messagesList'[s] = {d \in mainQueue[1].docs : d.ver # Malformed}
      BY <1>2, ScreenCases
    <2>2. RowsReadable'
      BY <2>1 DEF RowsReadable, GrowInv
    <2>3. ASSUME NEW s, NEW q \in Channels, OnScreen(s, q)'
          PROVE  /\ messagesList'[s] \subseteq View(q)' \cup rejected'
                 /\ \A k \in DOMAIN mainQueue' : ForScreen(k, q)' =>
                      messagesList'[s] \subseteq mainQueue'[k].docs \cup rejected'
      <3>1. s \in DOMAIN messagesList' /\ conversations'[s].identifier = q
        BY <2>3 DEF OnScreen
      <3>2. CASE messagesList'[s] = {}
        BY <3>2
      <3>3. CASE /\ s \in DOMAIN messagesList /\ s \in DOMAIN conversations
                 /\ messagesList'[s] = messagesList[s]
        <4>1. OnScreen(s, q)
          BY <2>1, <3>1, <3>3 DEF OnScreen
        <4> QED
          BY <1>2, <3>3, <4>1, OldRows
      <3>4. CASE /\ s \in DOMAIN conversations
                 /\ DeliverEvent /\ \E i : IsNext(i) /\ TakeEvent(i)
                 /\ ForScreen(1, conversations[s].identifier)
                 /\ messagesList'[s] = {d \in mainQueue[1].docs : d.ver # Malformed}
        <4>1. conversations[s].identifier = q
          BY <2>1, <3>1, <3>4
        <4>2. /\ mainQueue[1].docs \subseteq View(q)' \cup rejected'
              /\ \A k \in DOMAIN mainQueue' : ForScreen(k, q)' =>
                   mainQueue[1].docs \subseteq mainQueue'[k].docs \cup rejected'
          BY <1>2, <3>4, <4>1, FreshRows
        <4>3. messagesList'[s] \subseteq mainQueue[1].docs
          BY <3>4
        <4> QED
          BY <4>2, <4>3
      <3> QED
        BY <2>1, <3>1, <3>2, <3>3, <3>4
    <2>4. RowsGrow'
      BY <2>3 DEF RowsGrow
    <2> QED
      BY <2>2, <2>4
  <1> QED
    BY <1>1, <1>2

-----------------------------------------------------------------------------
(* The theorem *)

LEMMA GrowInvariance == Spec => []GrowInv
  <1>1. Init => GrowInv
    BY DEF Init, GrowInv, SnapshotsGrow, StoreGrows, RowsGrow, RowsReadable, OnScreen
  <1>2. Inv /\ WriteInv /\ GrowInv /\ [Next]_vars => GrowInv'
    BY SnapshotsGrowNext, RowsGrowNext DEF GrowInv
  <1> QED
    BY Invariance, WriteInvariance, <1>1, <1>2, PTL DEF Spec

\* A message once shown stays on its screen unless the server refuses it: each
\* of the listeners of a screen replaces the whole list, with a snapshot no
\* older than what is shown (ConversationViewController.addAllMessages).
THEOREM MessagesNeverDisappearHolds == Spec => MessagesNeverDisappear
  <1> DEFINE Kept == \A i \in DOMAIN messagesList \cap DOMAIN messagesList' :
                       messagesList[i] \ messagesList'[i] \subseteq rejected
  <1>1. ASSUME Inv, GrowInv, [Next]_vars
        PROVE  Kept
    <2> SUFFICES ASSUME NEW s \in DOMAIN messagesList, s \in DOMAIN messagesList'
                 PROVE  messagesList[s] \ messagesList'[s] \subseteq rejected
      OBVIOUS
    <2>0. FsTypeOK /\ AppTypeOK
      BY <1>1 DEF Inv
    <2>1. CASE messagesList'[s] = messagesList[s]
      BY <2>1
    <2>2. ASSUME NEW i, IsNext(i), TakeEvent(i), s \in DOMAIN conversations,
                 ForScreen(1, conversations[s].identifier),
                 messagesList'[s] = {d \in mainQueue[1].docs : d.ver # Malformed}
          PROVE  messagesList[s] \ messagesList'[s] \subseteq rejected
      <3>1. PICK q : q = conversations[s].identifier
        OBVIOUS
      <3>2. q \in Channels /\ OnScreen(s, q) /\ 1 \in DOMAIN mainQueue
        <4>1. conversations[s] \in Channel
          BY <2>0, <2>2 DEF AppTypeOK
        <4> QED
          BY <2>0, <2>2, <3>1, <4>1, TakenShift DEF Channel, OnScreen
      <3>3. messagesList[s] \subseteq mainQueue[1].docs \cup rejected
        BY <1>1, <2>2, <3>1, <3>2 DEF GrowInv, RowsGrow
      <3>4. \A d \in messagesList[s] : d.ver # Malformed
        BY <1>1 DEF GrowInv, RowsReadable
      <3> QED
        BY <2>2, <3>3, <3>4
    <2> QED
      BY <1>1, <2>1, <2>2, ScreenCases
  <1>2. Inv /\ GrowInv /\ [Next]_vars => [Kept]_vars
    BY <1>1
  <1> QED
    BY Invariance, GrowInvariance, <1>2, PTL DEF Spec, MessagesNeverDisappear

-----------------------------------------------------------------------------
(***************************************************************************)
(* PART 4.  The Sends: of two Sends to one channel in one launch the first *)
(* is called first, writes first, and its writes stay ahead, unless the    *)
(* creation of the channel is refused.                                     *)
(***************************************************************************)

(* A channel is shown in one version, and never in an older one again *)

OneVersion == \A d, e \in RootDocs(cache) : SameKey(d, e) => d = e

LEMMA OneVersionNext ==
  ASSUME Inv, Versions, OneVersion, [Next]_vars
  PROVE  OneVersion'
  <1>0. \A d, e \in RootDocs(server) : SameKey(d, e) => d = e
    BY DEF Versions, ServerHasOne
  <1>1. CASE UNCHANGED cache
    BY <1>1 DEF OneVersion, RootDocs
  <1>2. CASE HandleSuccessfulWrite
    <2>1. PICK h : h = Head(pending)
      OBVIOUS
    <2>2. cache' \in {cache, With(h, cache)}
      BY <1>2, <2>1 DEF HandleSuccessfulWrite
    <2>3. \A d \in With(h, cache) : d = h \/ (d \in cache /\ ~SameKey(h, d))
      BY InMeansSameKey DEF With, SameKey
    <2> QED
      BY <1>1, <2>2, <2>3 DEF OneVersion, RootDocs, SameKey
  <1>3. ASSUME NEW q \in Queries, ApplyRemoteEvent(q)
        PROVE  OneVersion'
    <2>1. cache' = {d \in cache : d.coll # q} \cup {d \in server : d.coll = q}
      BY <1>3 DEF ApplyRemoteEvent
    <2>2. CASE q = Root
      BY <1>0, <2>1, <2>2 DEF OneVersion, RootDocs
    <2>3. CASE q # Root
      BY <2>1, <2>3 DEF OneVersion, RootDocs
    <2> QED
      BY <2>2, <2>3
  <1> QED
    BY <1>1, <1>2, <1>3, StoreCases
       DEF RunWriteTask, ServerCommit, HandleRejectedWrite, OtherClient

LEMMA OneShown ==
  ASSUME NEW stored, NEW writes,
         \A d, e \in RootDocs(stored) : SameKey(d, e) => d = e,
         \A d, e \in Elements(writes) : SameKey(d, e) => d = e
  PROVE  \A d, e \in LocalDocuments(Root, stored, writes) : d.id = e.id => d = e
  BY ShownChannels DEF SameKey, RootDocs

\* A channel that left the view in the fields a Send captured does not come
\* back to them, unless its creation was refused: then it may leave the view
\* although it was committed, and come back from the server.
LEMMA NeverBack ==
  ASSUME Inv, WriteInv, Versions, OneVersion, [Next]_vars,
         NEW c \in Channel,
         \/ Newer(ChannelDoc(c.identifier, c.ver), View(Root))
         \/ ChannelDoc(c.identifier, 0) \in rejected,
         ChannelDoc(c.identifier, 0) \notin rejected',
         ChannelDoc(c.identifier, c.ver) \in View(Root)'
  PROVE  ChannelDoc(c.identifier, c.ver) \in View(Root)
  <1>0. /\ Inv' /\ WriteInv' /\ Versions' /\ OneVersion'
        /\ FsTypeOK /\ Root \in Queries /\ View(Root) \subseteq Doc
        /\ cache \subseteq Doc /\ pending \in Seq(Doc)
        /\ FsTypeOK' /\ cache' \subseteq Doc /\ pending' \in Seq(Doc)
    BY NextInv, WriteNext, VersionsNext, OneVersionNext, DirectoryTypes DEF Inv, FsTypeOK
  <1>1. PICK u : u = ChannelDoc(c.identifier, c.ver)
    OBVIOUS
  <1>2. /\ u.coll = Root /\ u.id = c.identifier /\ u.ver = c.ver
        /\ c.identifier \in Channels /\ c.ver \in Nat /\ c.ver # Malformed
    BY <1>1, MalformedAssumption DEF ChannelDoc, Channel
  <1>3. \A d, e \in View(Root)' : d.id = e.id => d = e
    <2>1. \A d, e \in RootDocs(cache') : SameKey(d, e) => d = e
      BY <1>0 DEF OneVersion
    <2>2. \A d, e \in Elements(pending') : SameKey(d, e) => d = e
      BY <1>0 DEF WriteInv, Apart, PendingApart, Elements
    <2> QED
      BY <2>1, <2>2, OneShown DEF View
  <1>5. rejected \subseteq rejected' /\ Follows(View(Root)', View(Root), rejected')
    BY RejectedGrows, ViewMoves
  <1>6. PICK e \in View(Root) : /\ e.coll = Root /\ e.id = c.identifier
                                /\ e.ver = Malformed \/ e.ver >= c.ver
    BY <1>1, <1>2, <1>5 DEF Newer
  <1>7. Newer(e, View(Root)')
    BY <1>5, <1>6 DEF Follows, RootDocs
  <1>8. PICK f \in View(Root)' : /\ f.coll = Root /\ f.id = c.identifier
                                 /\ \/ f.ver = Malformed
                                    \/ e.ver # Malformed /\ f.ver >= e.ver
    BY <1>6, <1>7 DEF Newer
  <1>9. f = u
    BY <1>1, <1>2, <1>3, <1>8
  <1>10. e.ver = c.ver
    <2>1. e \in Doc /\ e.ver # Malformed /\ c.ver >= e.ver /\ e.ver >= c.ver
      BY <1>0, <1>2, <1>6, <1>8, <1>9
    <2>2. e.ver \in Nat
      BY <2>1, DocType
    <2> QED
      BY <1>2, <2>1, <2>2
  <1>11. e = u
    BY <1>0, <1>1, <1>2, <1>6, <1>10, RootAssumption DEF Doc, ChannelDoc
  <1> QED
    BY <1>1, <1>11

-----------------------------------------------------------------------------
(* What the Sends captured *)

\* The channels the screens and the Sends hold copies of.
Captured == Elements(conversations) \cup {sends[m].channel : m \in DOMAIN sends}

\* The view has them still, or later versions of them, or they were refused.
CapturedBehind ==
  \A c \in Captured : \/ Newer(ChannelDoc(c.identifier, c.ver), View(Root))
                      \/ ChannelDoc(c.identifier, 0) \in rejected

LEMMA CapturedType ==
  ASSUME Inv
  PROVE  Captured \subseteq Channel /\ channelsList \subseteq Channel
  <1>0. AppTypeOK
    BY DEF Inv
  <1>1. Elements(conversations) \subseteq Channel
    BY <1>0 DEF AppTypeOK, Elements
  <1>2. \A m \in DOMAIN sends : sends[m].channel \in Channel
    <2>1. PICK S : S = [channel : Channel, since : Nat, launch : Nat]
      OBVIOUS
    <2>2. sends \in Seq(S)
      BY <1>0, <2>1 DEF AppTypeOK
    <2>3. \A m \in DOMAIN sends : sends[m] \in S
      BY <2>2
    <2> QED
      BY <2>1, <2>3
  <1> QED
    BY <1>0, <1>1, <1>2 DEF Captured, AppTypeOK

LEMMA CapturedCases ==
  ASSUME Inv, [Next]_vars
  PROVE  Captured' \subseteq Captured \cup channelsList
  <1>0. AppTypeOK
    BY DEF Inv
  <1>1. CASE UNCHANGED <<conversations, sends>>
    BY <1>1 DEF Captured, Elements
  <1>2. CASE didSelectRow
    <2>1. PICK channel \in channelsList : conversations' = Append(conversations, channel)
      BY <1>2 DEF didSelectRow
    <2>2. Elements(conversations') = Elements(conversations) \cup {channel}
      BY <1>0, <2>1, AppendElements DEF AppTypeOK
    <2> QED
      BY <1>2, <2>2 DEF didSelectRow, Captured
  <1>3. CASE sendFakeMessage
    <2>1. /\ top \in DOMAIN conversations /\ UNCHANGED conversations
          /\ sends' = Append(sends, [channel |-> conversations[top],
                                     since |-> rootChanges,
                                     launch |-> spent["crash"]])
      BY <1>0, <1>3 DEF sendFakeMessage, AppTypeOK
    <2>2. PICK r : r = [channel |-> conversations[top], since |-> rootChanges,
                        launch |-> spent["crash"]]
      OBVIOUS
    <2>3. /\ DOMAIN sends' = DOMAIN sends \cup {Len(sends) + 1}
          /\ \A m \in DOMAIN sends : sends'[m] = sends[m]
          /\ sends'[Len(sends) + 1] = r
      <3>1. PICK S : S = [channel : Channel, since : Nat, launch : Nat]
        OBVIOUS
      <3>2. sends \in Seq(S) /\ r \in S
        <4>1. conversations[top] \in Channel /\ rootChanges \in Nat /\ spent["crash"] \in Nat
          <5>1. conversations[top] \in Channel
            BY <1>0, <2>1 DEF AppTypeOK
          <5>2. rootChanges \in Nat
            BY DEF Inv, FsTypeOK
          <5>3. spent \in [Kinds -> Nat] /\ "crash" \in Kinds
            BY <1>0 DEF AppTypeOK, Kinds
          <5> QED
            BY <5>1, <5>2, <5>3
        <4>2. r \in S
          BY <2>2, <3>1, <4>1
        <4> QED
          BY <1>0, <3>1, <4>2 DEF AppTypeOK
      <3> QED
        BY <2>1, <2>2, <3>2, AppendElements
    <2>4. \A m \in DOMAIN sends' : sends'[m].channel \in Captured
      BY <2>1, <2>2, <2>3 DEF Captured, Elements
    <2> QED
      BY <2>1, <2>4 DEF Captured, Elements
  <1>4. CASE Crash
    BY <1>4 DEF Crash, Captured, Elements
  <1> QED
    BY <1>1, <1>2, <1>3, <1>4
       DEF Next, vars, appvars, goBack, channelButtonTapped, DeliverEvent,
           Worker, Network, Refusal, OtherClient

LEMMA CapturedNext ==
  ASSUME Inv, WriteInv, DirectoryInv, CapturedBehind, [Next]_vars
  PROVE  CapturedBehind'
  <1> SUFFICES ASSUME NEW c \in Captured', ChannelDoc(c.identifier, 0) \notin rejected'
               PROVE  Newer(ChannelDoc(c.identifier, c.ver), View(Root)')
    BY DEF CapturedBehind
  <1>1. /\ rejected \subseteq rejected' /\ Follows(View(Root)', View(Root), rejected')
        /\ View(Root) \subseteq Doc
    BY RejectedGrows, ViewMoves, DirectoryTypes DEF DirectoryInv
  <1>2. c \in Channel
    BY CapturedCases, CapturedType
  <1>3. PICK u : u = ChannelDoc(c.identifier, c.ver)
    OBVIOUS
  <1>4. u.coll = Root /\ u.id = c.identifier /\ u \in Doc
    BY <1>2, <1>3, MadeDocType DEF ChannelDoc, Channel
  <1>5. Newer(u, View(Root))
    <2>1. CASE c \in Captured
      BY <1>1, <1>3, <2>1 DEF CapturedBehind
    <2>2. CASE c \in channelsList
      BY <1>1, <1>3, <1>4, <2>2 DEF DirectoryInv, RowsBehindStore, Follows, Rows, RootDocs
    <2> QED
      BY <2>1, <2>2, CapturedCases
  <1>6. \A e \in RootDocs(View(Root)) : e.id = u.id => Newer(e, View(Root)')
    BY <1>1, <1>4 DEF Follows
  <1>7. View(Root)' \subseteq Doc
    BY NextInv, ViewType DEF Inv, FsTypeOK, View, Queries
  <1> QED
    BY <1>1, <1>3, <1>4, <1>5, <1>6, <1>7, NewerHolds

-----------------------------------------------------------------------------
(* Closures die with their process *)

Now(m) == sends[m].launch = spent["crash"]

Listens(m) == \E i \in DOMAIN listeners[Root] : IsOf(listeners[Root][i].cb, m)

Alive ==
  \A m \in DOMAIN sends :
    /\ sends[m].launch <= spent["crash"]
    /\ Asked(m) \/ Listens(m) => Now(m)
    /\ \A k \in DOMAIN mainQueue : Calls(mainQueue[k], m) => Now(m)

LEMMA CrashCounts ==
  ASSUME Inv, [Next]_vars
  PROVE  /\ spent["crash"] \in Nat
         /\ ~Crash => spent'["crash"] = spent["crash"]
         /\ Crash => spent'["crash"] = spent["crash"] + 1
  <1>0. AppTypeOK /\ spent \in [Kinds -> Nat]
    BY DEF Inv, AppTypeOK
  <1>1. \A k \in Kinds : Spend(k) =>
          /\ spent'[k] = spent[k] + 1
          /\ \A j \in Kinds : j # k => spent'[j] = spent[j]
    BY <1>0 DEF Spend
  <1>2. Crash => spent'["crash"] = spent["crash"] + 1
    BY <1>0, <1>1 DEF Crash, Kinds
  <1>3. \A k \in Kinds \ {"crash"} : Spend(k) => spent'["crash"] = spent["crash"]
    BY <1>0, <1>1 DEF Kinds
  <1>4. /\ "open" \in Kinds \ {"crash"} /\ "send" \in Kinds \ {"crash"}
        /\ "create" \in Kinds \ {"crash"} /\ "touch" \in Kinds \ {"crash"}
        /\ "break" \in Kinds \ {"crash"} /\ "post" \in Kinds \ {"crash"}
        /\ "lose" \in Kinds \ {"crash"}
        /\ "reject" \in Kinds \ {"crash"} /\ "refuse" \in Kinds \ {"crash"}
    BY DEF Kinds
  <1>5. OtherClient => spent'["crash"] = spent["crash"]
    BY <1>3, <1>4 DEF OtherClient, OthersAddChannel, OthersUpdateChannel, OthersPost
  <1>6. Refusal => spent'["crash"] = spent["crash"]
    BY <1>3, <1>4 DEF Refusal
  <1>7. didSelectRow \/ sendFakeMessage \/ channelButtonTapped
          => spent'["crash"] = spent["crash"]
    BY <1>3, <1>4 DEF didSelectRow, sendFakeMessage, channelButtonTapped
  <1>8. Crash \/ OtherClient \/ Refusal \/ didSelectRow \/ sendFakeMessage
        \/ channelButtonTapped \/ UNCHANGED spent
    BY DEF Next, vars, appvars, goBack, DeliverEvent, Worker, Network
  <1>9. spent["crash"] \in Nat
    BY <1>0 DEF Kinds
  <1> QED
    BY <1>2, <1>5, <1>6, <1>7, <1>8, <1>9

\* A new Send, which is the last one.
LEMMA NewSend ==
  ASSUME Inv, sendFakeMessage
  PROVE  /\ DOMAIN sends' = DOMAIN sends \cup {Len(sends) + 1}
         /\ sends'[Len(sends) + 1].launch = spent["crash"]
         /\ copies'[Len(sends) + 1] = 0
         /\ \E i \in DOMAIN workerQueue' :
              AsksAt(i)' /\ workerQueue'[i].cb.arg = Len(sends) + 1
  <1>0. FsTypeOK /\ AppTypeOK
    BY DEF Inv
  <1>1. PICK r : /\ r = [channel |-> conversations[top], since |-> rootChanges,
                         launch |-> spent["crash"]]
                 /\ sends' = Append(sends, r) /\ copies' = Append(copies, 0)
    BY DEF sendFakeMessage
  <1>2. /\ DOMAIN sends' = DOMAIN sends \cup {Len(sends) + 1}
        /\ sends'[Len(sends) + 1] = r
        /\ copies'[Len(sends) + 1] = 0
    BY <1>0, <1>1 DEF AppTypeOK
  <1>3. PICK t, u : /\ t = createMessage(Len(sends) + 1)
                    /\ workerQueue' = workerQueue \o <<t, u>>
    BY DEF sendFakeMessage
  <1>4. /\ Len(workerQueue) + 1 \in DOMAIN workerQueue'
        /\ workerQueue'[Len(workerQueue) + 1] = t
    BY <1>0, <1>3 DEF FsTypeOK
  <1>5. t.op = "listen" /\ IsSend(t.cb) /\ t.cb.arg = Len(sends) + 1
    BY <1>3 DEF createMessage, ListenTask, IsSend
  <1>6. \E i \in DOMAIN workerQueue' :
          AsksAt(i)' /\ workerQueue'[i].cb.arg = Len(sends) + 1
    BY <1>4, <1>5 DEF AsksAt
  <1>7. r.launch = spent["crash"]
    BY <1>1
  <1> QED
    BY <1>2, <1>6, <1>7

LEMMA AliveNext ==
  ASSUME Inv, Alive, [Next]_vars
  PROVE  Alive'
  <1>0. /\ FsTypeOK /\ AppTypeOK /\ Inv' /\ Root \in Queries
        /\ spent["crash"] \in Nat /\ DOMAIN sends = 1..Len(sends)
        /\ DOMAIN sends \subseteq DOMAIN sends'
        /\ \A m \in DOMAIN sends : sends'[m] = sends[m]
        /\ \A m \in DOMAIN sends' : m \in DOMAIN sends \/ (sendFakeMessage /\ m = Len(sends) + 1)
    BY NextInv, SendNumbers, CrashCounts, OldSends DEF Inv
  <1>1. \A m \in DOMAIN sends : sends[m].launch \in Nat
    <2>1. PICK S : S = [channel : Channel, since : Nat, launch : Nat]
      OBVIOUS
    <2>2. sends \in Seq(S)
      BY <1>0, <2>1 DEF AppTypeOK
    <2>3. \A m \in DOMAIN sends : sends[m] \in S
      BY <2>2
    <2> QED
      BY <2>1, <2>3
  <1>2. CASE Crash
    <2>1. /\ workerQueue' = <<getAllChannels>> /\ listeners' = NoListeners
          /\ mainQueue' = <<>> /\ sends' = sends
      BY <1>2 DEF Crash
    <2>2. \A i \in DOMAIN workerQueue' : ~AsksAt(i)'
      BY <2>1 DEF AsksAt, IsSend, getAllChannels, ListenTask
    <2>3. DOMAIN listeners'[Root] = {} /\ DOMAIN mainQueue' = {}
      BY <1>0, <2>1 DEF NoListeners
    <2>4. \A m \in DOMAIN sends' : sends'[m].launch <= spent'["crash"]
      BY <1>0, <1>1, <1>2, <2>1, CrashCounts DEF Alive
    <2>5. \A m \in DOMAIN sends' : ~Asked(m)' /\ ~Listens(m)'
      BY <2>2, <2>3 DEF Asked, Listens
    <2> QED
      BY <2>3, <2>4, <2>5 DEF Alive
  <1>3. CASE ~Crash
    <2>0. spent'["crash"] = spent["crash"]
      BY <1>3, CrashCounts
    <2> SUFFICES ASSUME NEW m \in DOMAIN sends'
                 PROVE  /\ sends'[m].launch <= spent'["crash"]
                        /\ (Asked(m) \/ Listens(m))' => Now(m)'
                        /\ \A k \in DOMAIN mainQueue' : Calls(mainQueue'[k], m) => Now(m)'
      BY DEF Alive
    <2>1. CASE m \notin DOMAIN sends
      <3>1. m = Len(sends) + 1 /\ sends'[m].launch = spent["crash"]
        BY <1>0, <2>1, NewSend
      <3> QED
        BY <1>0, <2>0, <3>1 DEF Now
    <2>2. CASE m \in DOMAIN sends
      <3>1. /\ sends'[m].launch <= spent'["crash"]
            /\ Now(m) => Now(m)'
        BY <1>0, <2>0, <2>2 DEF Alive, Now
      <3>2. Asked(m)' => Now(m)'
        <4>1. m # Len(sends) + 1
          BY <2>2, SendNumbers
        <4>2. Asked(m)' => Asked(m)
          BY <4>1, AskedCases DEF Asked, AskedBefore
        <4> QED
          BY <2>2, <3>1, <4>2 DEF Alive
      <3>3. Listens(m)' => Asked(m) \/ Listens(m)
        <4> SUFFICES ASSUME NEW i \in DOMAIN listeners'[Root], IsOf(listeners'[Root][i].cb, m)
                     PROVE  Asked(m) \/ Listens(m)
          BY DEF Listens
        <4>1. CASE HeardBefore(Root, i)
          BY <4>1 DEF HeardBefore, Listens
        <4>2. CASE AddedAt(Root, i)
          <5>1. 1 \in DOMAIN workerQueue /\ Head(workerQueue) = workerQueue[1]
            BY <1>0, <4>2 DEF AddedAt, RunListenTask, FsTypeOK
          <5> QED
            BY <4>2, <5>1 DEF AddedAt, RunListenTask, Asked, AsksAt, IsOf
        <4> QED
          BY <1>0, <4>1, <4>2, HeardCases
      <3>4. Listens(m)' => Now(m)'
        BY <2>2, <3>1, <3>3 DEF Alive
      <3>5. ASSUME NEW k \in DOMAIN mainQueue', Calls(mainQueue'[k], m)
            PROVE  Now(m)'
        <4>1. PICK shift \in {0, 1} :
                 \/ PostedBefore(k, shift)
                 \/ mainQueue'[k].error
                 \/ \E q \in Queries : Tells(q, mainQueue'[k])
          BY SnapshotCases
        <4>2. CASE PostedBefore(k, shift)
          <5>1. k + shift \in DOMAIN mainQueue /\ Calls(mainQueue[k + shift], m)
            BY <3>5, <4>2 DEF PostedBefore, IsRestOf, Calls
          <5> QED
            BY <2>2, <3>1, <5>1 DEF Alive
        <4>3. ASSUME NEW q \in Queries, Tells(q, mainQueue'[k])
              PROVE  Now(m)'
          <5>1. PICK i \in DOMAIN listeners'[q] : IsOf(listeners'[q][i].cb, m)
            BY <3>5, <4>3 DEF Tells, Calls
          <5>2. q = Root
            BY <1>0, <5>1 DEF Inv, Served, ServedListeners, Serves, IsOf, IsSend
          <5> QED
            BY <3>4, <5>1, <5>2 DEF Listens
        <4> QED
          BY <3>5, <4>1, <4>2, <4>3 DEF Calls
      <3> QED
        BY <3>1, <3>2, <3>4, <3>5
    <2> QED
      BY <2>1, <2>2
  <1> QED
    BY <1>2, <1>3

-----------------------------------------------------------------------------
(* Calls that will write *)

\* docs show the channel Send m captured, as it was.
Fits(docs, m) == \E d \in docs : channelFromSnapshot(d) = sends[m].channel

\* The k-th snapshot calls Send m and will have it write.
Due(k, m) == /\ k \in DOMAIN mainQueue
             /\ Calls(mainQueue[k], m) /\ Fits(mainQueue[k].docs, m)

\* A call that will write stays in its place, or has written.
LEMMA DueStays ==
  ASSUME Inv, [Next]_vars, ~Crash
  PROVE  \E shift \in {0, 1} :
           /\ \A k \in DOMAIN mainQueue' :
                \/ PostedBefore(k, shift)
                \/ /\ k = Len(mainQueue) + 1 /\ shift = 0 /\ Appends(mainQueue'[k])
                   /\ mainQueue'[k].error \/ \E q \in Queries : Tells(q, mainQueue'[k])
           /\ \A m \in DOMAIN sends, k \in DOMAIN mainQueue : Due(k, m) =>
                \/ copies'[m] > 0
                \/ \E l \in DOMAIN mainQueue' : l + shift = k /\ Due(l, m)'
  <1>0. /\ FsTypeOK /\ AppTypeOK /\ DOMAIN mainQueue \subseteq Nat
        /\ \A m \in DOMAIN sends : m \in DOMAIN sends' /\ sends'[m] = sends[m]
        /\ \A m \in DOMAIN sends : copies[m] \in Nat /\ m \in DOMAIN copies
    BY OldSends, OwedNumbers DEF Inv, FsTypeOK
  <1>1. ASSUME \A k \in DOMAIN mainQueue : k \in DOMAIN mainQueue' /\ mainQueue'[k] = mainQueue[k]
        PROVE  \A m \in DOMAIN sends, k \in DOMAIN mainQueue : Due(k, m) =>
                 \E l \in DOMAIN mainQueue' : l + 0 = k /\ Due(l, m)'
    <2>1. \A k \in DOMAIN mainQueue : k + 0 = k
      BY <1>0
    <2> QED
      BY <1>0, <1>1, <2>1 DEF Due, Fits
  <1>2. CASE UNCHANGED mainQueue
    <2>1. \A k \in DOMAIN mainQueue' : PostedBefore(k, 0)
      <3>1. \A k \in DOMAIN mainQueue : k + 0 = k
        BY <1>0
      <3> QED
        BY <1>2, <3>1 DEF PostedBefore, IsRestOf
    <2> QED
      BY <1>1, <1>2, <2>1
  <1>3. ASSUME NEW b, Appends(b), b.error \/ \E q \in Queries : Tells(q, b)
        PROVE  /\ \A k \in DOMAIN mainQueue' :
                    \/ PostedBefore(k, 0)
                    \/ /\ k = Len(mainQueue) + 1 /\ Appends(mainQueue'[k])
                       /\ mainQueue'[k].error \/ \E q \in Queries : Tells(q, mainQueue'[k])
               /\ \A k \in DOMAIN mainQueue : k \in DOMAIN mainQueue' /\ mainQueue'[k] = mainQueue[k]
    <2>1. /\ \A k \in DOMAIN mainQueue' :
              \/ PostedBefore(k, 0) /\ mainQueue'[k] = mainQueue[k]
              \/ k = Len(mainQueue) + 1 /\ mainQueue'[k] = b
          /\ Len(mainQueue) \in Nat /\ DOMAIN mainQueue = 1..Len(mainQueue)
          /\ DOMAIN mainQueue' = 1..(Len(mainQueue) + 1)
          /\ \A k \in DOMAIN mainQueue : mainQueue'[k] = mainQueue[k]
      BY <1>0, <1>3, AppendedSnapshot
    <2>2. \A k \in DOMAIN mainQueue : k \in DOMAIN mainQueue'
      BY <2>1
    <2> QED
      BY <1>3, <2>1, <2>2
  <1>4. CASE DeliverEvent
    <2>1. PICK i \in DOMAIN Head(mainQueue).to :
            /\ IsNext(i) /\ TakeEvent(i) /\ UNCHANGED sends
            /\ \/ Head(mainQueue).error
               \/ Head(mainQueue).to[i].kind # "send"
               \/ OnChannelsForSend(Head(mainQueue).docs, Head(mainQueue).to[i].arg)
      BY <1>4 DEF DeliverEvent, IsNext
    <2>2. /\ 1 \in DOMAIN mainQueue /\ Head(mainQueue) = mainQueue[1]
          /\ i \in DOMAIN mainQueue[1].to
          /\ mainQueue # <<>> /\ mainQueue \in Seq(Elements(mainQueue))
      BY <1>0, <2>1, TakenShift DEF IsNext, FsTypeOK
    \* The call that is made writes, if it is due to.
    <2>3. ASSUME NEW m \in DOMAIN sends, Due(1, m), IsOf(mainQueue[1].to[i], m)
          PROVE  copies'[m] > 0
      <3>1. /\ ~Head(mainQueue).error /\ Head(mainQueue).to[i].kind = "send"
            /\ Head(mainQueue).to[i].arg = m
            /\ Matches(Head(mainQueue).docs, m) # {}
        BY <2>2, <2>3 DEF Due, Calls, Fits, IsOf, IsSend, Matches
      <3>2. copies' = [copies EXCEPT ![m] = @ + 1]
        BY <2>1, <3>1 DEF OnChannelsForSend
      <3>3. copies'[m] = copies[m] + 1
        BY <1>0, <3>2
      <3> QED
        BY <1>0, <3>3
    <2>4. CASE DOMAIN Head(mainQueue).to \ {i} = {}
      <3>1. mainQueue' = Tail(mainQueue)
        BY <2>1, <2>4 DEF TakeEvent
      <3>2. /\ DOMAIN Tail(mainQueue) = 1..(Len(mainQueue) - 1)
            /\ DOMAIN mainQueue = 1..Len(mainQueue) /\ Len(mainQueue) \in Nat \ {0}
            /\ \A k \in DOMAIN Tail(mainQueue) :
                 k + 1 \in DOMAIN mainQueue /\ Tail(mainQueue)[k] = mainQueue[k + 1]
        BY <2>2, TailIsSeq
      <3>3. \A k \in DOMAIN mainQueue' : PostedBefore(k, 1)
        BY <3>1, <3>2 DEF PostedBefore, IsRestOf
      <3>4. ASSUME NEW m \in DOMAIN sends, NEW k \in DOMAIN mainQueue, Due(k, m), k # 1
            PROVE  \E l \in DOMAIN mainQueue' : l + 1 = k /\ Due(l, m)'
        <4>1. PICK l : l = k - 1
          OBVIOUS
        <4>2. l \in DOMAIN mainQueue' /\ l + 1 = k
          BY <3>1, <3>2, <3>4, <4>1
        <4>3. mainQueue'[l] = mainQueue[k]
          BY <3>1, <3>2, <4>2
        <4> QED
          BY <1>0, <3>4, <4>2, <4>3 DEF Due, Fits
      <3>5. ASSUME NEW m \in DOMAIN sends, Due(1, m)
            PROVE  copies'[m] > 0
        BY <2>2, <2>3, <2>4, <3>5 DEF Due, Calls
      <3> QED
        BY <3>3, <3>4, <3>5
    <2>5. CASE DOMAIN Head(mainQueue).to \ {i} # {}
      <3>1. PICK c : /\ c = Snapshot(mainQueue[1].docs, mainQueue[1].error,
                              [j \in DOMAIN mainQueue[1].to \ {i} |-> mainQueue[1].to[j]],
                              mainQueue[1].at)
                     /\ mainQueue' = [mainQueue EXCEPT ![1] = c]
        BY <2>1, <2>2, <2>5 DEF TakeEvent
      <3>2. /\ c.docs = mainQueue[1].docs /\ c.error = mainQueue[1].error
            /\ c.at = mainQueue[1].at
            /\ DOMAIN c.to = DOMAIN mainQueue[1].to \ {i}
            /\ \A j \in DOMAIN c.to : c.to[j] = mainQueue[1].to[j]
        BY <3>1 DEF Snapshot
      <3>3. /\ DOMAIN mainQueue' = DOMAIN mainQueue
            /\ mainQueue'[1] = c
            /\ \A k \in DOMAIN mainQueue : k # 1 => mainQueue'[k] = mainQueue[k]
        BY <2>2, <3>1
      <3>4. \A k \in DOMAIN mainQueue : k + 0 = k
        BY <1>0
      <3>5. \A k \in DOMAIN mainQueue' : PostedBefore(k, 0)
        BY <3>2, <3>3, <3>4 DEF PostedBefore, IsRestOf
      <3>6. ASSUME NEW m \in DOMAIN sends, NEW k \in DOMAIN mainQueue, Due(k, m)
            PROVE  copies'[m] > 0 \/ Due(k, m)'
        <4>1. CASE k # 1
          BY <1>0, <3>3, <3>6, <4>1 DEF Due, Fits
        <4>2. CASE k = 1
          <5>1. PICK j \in DOMAIN mainQueue[1].to : IsOf(mainQueue[1].to[j], m)
            BY <3>6, <4>2 DEF Due, Calls
          <5>2. CASE j = i
            BY <2>3, <3>6, <4>2, <5>1, <5>2
          <5>3. CASE j # i
            <6>1. Calls(c, m)
              BY <3>2, <3>6, <4>2, <5>1, <5>3 DEF Due, Calls
            <6> QED
              BY <1>0, <2>2, <3>2, <3>3, <3>6, <4>2, <6>1 DEF Due, Fits
          <5> QED
            BY <5>2, <5>3
        <4> QED
          BY <4>1, <4>2
      <3>7. \A m \in DOMAIN sends, k \in DOMAIN mainQueue : Due(k, m) =>
              \/ copies'[m] > 0
              \/ \E l \in DOMAIN mainQueue' : l + 0 = k /\ Due(l, m)'
        BY <3>3, <3>4, <3>6
      <3> QED
        BY <3>5, <3>7
    <2> QED
      BY <2>4, <2>5
  <1>5. CASE \E b \in Elements(mainQueue') : /\ b.error \/ \E q \in Queries : Tells(q, b)
                                             /\ Appends(b)
    BY <1>1, <1>3, <1>5
  <1> QED
    BY <1>2, <1>4, <1>5, PostCases

-----------------------------------------------------------------------------
(* Every Send that is still to write is told of its channel *)

\* docs fit a Send if they have its channel in the version it captured.
LEMMA FitsMeans ==
  ASSUME NEW docs, docs \subseteq Doc, \A d \in docs : d.coll = Root,
         NEW m, sends[m].channel \in Channel
  PROVE  Fits(docs, m) <=> ChannelDoc(sends[m].channel.identifier,
                                      sends[m].channel.ver) \in docs
  <1>1. PICK c \in Channel : c = sends[m].channel
    OBVIOUS
  <1>2. /\ c = [identifier |-> c.identifier, ver |-> c.ver]
        /\ c.ver \in Nat /\ c.ver # Malformed
    BY MalformedAssumption DEF Channel
  <1>3. ASSUME NEW d \in docs, channelFromSnapshot(d) = c
        PROVE  d = ChannelDoc(c.identifier, c.ver)
    <2>1. d.id = c.identifier /\ d.ver = c.ver
      BY <1>2, <1>3, NoChannelAssumption DEF channelFromSnapshot
    <2>2. d \in Doc /\ d.coll = Root
      OBVIOUS
    <2> QED
      BY <2>1, <2>2, RootAssumption DEF Doc, ChannelDoc
  <1>4. channelFromSnapshot(ChannelDoc(c.identifier, c.ver)) = c
    BY <1>2 DEF channelFromSnapshot, ChannelDoc
  <1> QED
    BY <1>1, <1>3, <1>4 DEF Fits

\* m has heard of its channel as it was when it was tapped, if the store
\* has it still: it was written, or a call that writes it is on its way.
Informed(m) ==
  Fits(View(Root), m) => copies[m] > 0 \/ \E k \in DOMAIN mainQueue : Due(k, m)

\* The channel of m is there for good.
Kept(m) == ChannelDoc(sends[m].channel.identifier, 0) \notin rejected

AllInformed ==
  \A m \in DOMAIN sends : Now(m) /\ Kept(m) => Asked(m) \/ Informed(m)

\* What leaves the worker queue to be registered is told of the store.
LEMMA AskedIsTold ==
  ASSUME Inv, RunListenTask, NEW m \in DOMAIN sends, sends'[m] = sends[m],
         IsOf(Head(workerQueue).cb, m), Fits(View(Root)', m)
  PROVE  \E k \in DOMAIN mainQueue' : Due(k, m)'
  <1>0. FsTypeOK /\ DOMAIN mainQueue \subseteq Nat /\ mainQueue \in Seq(Elements(mainQueue))
    BY DEF Inv, FsTypeOK
  <1>1. PICK q : q = Head(workerQueue).query
    OBVIOUS
  <1>2. q = Root
    <2>1. 1 \in DOMAIN workerQueue /\ Head(workerQueue) = workerQueue[1]
          /\ workerQueue[1].op = "listen"
      BY <1>0 DEF RunListenTask, FsTypeOK
    <2> QED
      BY <1>1, <2>1 DEF Inv, Served, ServedTasks, Serves, IsOf, IsSend
  <1>3. View(Root)' = View(Root) /\ View(Root) # {}
    <2>1. UNCHANGED <<cache, pending>>
      BY DEF RunListenTask
    <2> QED
      BY <2>1 DEF View, Fits
  <1>4. PICK b : /\ b = Snapshot(View(Root), FALSE,
                          [i \in {Len(listeners[Root]) + 1} |-> Head(workerQueue).cb],
                          rootChanges)
                 /\ Appends(b)
    BY <1>1, <1>2, <1>3, AddedListener DEF Appends
  <1>5. Len(mainQueue) + 1 \in DOMAIN mainQueue' /\ mainQueue'[Len(mainQueue) + 1] = b
    <2>1. /\ DOMAIN mainQueue' = 1..(Len(mainQueue) + 1) /\ Len(mainQueue) \in Nat
          /\ mainQueue'[Len(mainQueue) + 1] = b
      BY <1>0, <1>4, AppendedSnapshot
    <2> QED
      BY <2>1
  <1>6. Calls(b, m) /\ b.docs = View(Root)
    BY <1>4 DEF Calls, Snapshot
  <1> QED
    BY <1>3, <1>5, <1>6 DEF Due, Fits

\* Where a Send asked no longer, its listener is being registered.
LEMMA AskedUntil ==
  ASSUME Inv, [Next]_vars, ~Crash, NEW m \in DOMAIN sends, Asked(m), ~Asked(m)'
  PROVE  RunListenTask /\ IsOf(Head(workerQueue).cb, m)
  <1>0. workerQueue \in Seq(Task)
    BY DEF Inv, FsTypeOK
  <1>1. PICK i \in DOMAIN workerQueue : AsksAt(i) /\ workerQueue[i].cb.arg = m
    BY DEF Asked
  <1>2. CASE UNCHANGED workerQueue
    BY <1>2 DEF Asked, AsksAt
  <1>3. ASSUME NEW t \in Task, workerQueue' = Append(workerQueue, t)
        PROVE  FALSE
    <2>1. i \in DOMAIN workerQueue' /\ workerQueue'[i] = workerQueue[i]
      BY <1>0, <1>3, AppendElements
    <2> QED
      BY <1>1, <2>1 DEF Asked, AsksAt
  <1>4. ASSUME NEW t \in Task, NEW u \in Task,
               workerQueue' = Append(Append(workerQueue, t), u)
        PROVE  FALSE
    <2>0. PICK w : w = Append(workerQueue, t)
      OBVIOUS
    <2>1. w \in Seq(Task) /\ i \in DOMAIN w /\ w[i] = workerQueue[i]
      BY <1>0, <2>0, AppendElements
    <2>2. i \in DOMAIN workerQueue' /\ workerQueue'[i] = workerQueue[i]
      BY <1>4, <2>0, <2>1, AppendElements
    <2> QED
      BY <1>1, <2>2 DEF Asked, AsksAt
  <1>5. CASE workerQueue # <<>> /\ workerQueue' = Tail(workerQueue) /\ Worker
    <2>1. i = 1
      <3> SUFFICES ASSUME i # 1 PROVE FALSE
        OBVIOUS
      <3>1. i - 1 \in DOMAIN workerQueue' /\ workerQueue'[i - 1] = workerQueue[i]
        BY <1>0, <1>5
      <3> QED
        BY <1>1, <3>1 DEF Asked, AsksAt
    <2>2. Head(workerQueue) = workerQueue[1]
      BY <1>0, <1>5
    <2> QED
      BY <1>1, <1>5, <2>1, <2>2 DEF AsksAt, Worker, RunWriteTask, IsOf
  <1>6. \A d \in Doc : WriteTask(d) \in Task
    BY TaskType
  <1> QED
    BY <1>2, <1>3, <1>4, <1>5, <1>6, TaskCases DEF Registers

\* The channel of a Send is among those captured, and a view that fits it now
\* did before.
LEMMA FittedBefore ==
  ASSUME Inv, WriteInv, Versions, OneVersion, CapturedBehind, [Next]_vars,
         NEW m \in DOMAIN sends, Fits(View(Root)', m),
         ChannelDoc(sends[m].channel.identifier, 0) \notin rejected'
  PROVE  Fits(View(Root), m)
  <1>0. /\ sends[m].channel \in Channel /\ sends[m].channel \in Captured
        /\ View(Root) \subseteq Doc /\ Root \in Queries
        /\ \A d \in View(Root) : d.coll = Root
    <2>1. sends[m].channel \in Captured
      BY DEF Captured
    <2>2. Root \in Queries /\ cache \subseteq Doc /\ pending \in Seq(Doc)
      BY DEF Inv, FsTypeOK, Queries
    <2>3. \A d \in View(Root) : d.coll = Root
      BY <2>2, ViewType DEF View
    <2> QED
      BY <2>1, <2>2, <2>3, CapturedType, DirectoryTypes
  <1>1. /\ View(Root)' \subseteq Doc /\ \A d \in View(Root)' : d.coll = Root
    <2>1. Root \in Queries /\ cache' \subseteq Doc /\ pending' \in Seq(Doc)
      BY NextInv DEF Inv, FsTypeOK, Queries
    <2> QED
      BY <2>1, ViewType DEF View
  <1>2. PICK c \in Channel : c = sends[m].channel
    BY <1>0
  <1>3. ChannelDoc(c.identifier, c.ver) \in View(Root)'
    BY <1>0, <1>1, <1>2, FitsMeans
  <1>4. \/ Newer(ChannelDoc(c.identifier, c.ver), View(Root))
        \/ ChannelDoc(c.identifier, 0) \in rejected
    BY <1>0, <1>2 DEF CapturedBehind
  <1>5. ChannelDoc(c.identifier, c.ver) \in View(Root)
    BY <1>2, <1>3, <1>4, NeverBack
  <1> QED
    BY <1>0, <1>2, <1>5, FitsMeans

LEMMA AllInformedNext ==
  ASSUME Inv, WriteInv, Versions, OneVersion, CapturedBehind, Alive, AllInformed,
         [Next]_vars
  PROVE  AllInformed'
  <1>0. /\ DOMAIN sends \subseteq DOMAIN sends'
        /\ \A m \in DOMAIN sends : sends'[m] = sends[m] /\ m \in Nat
        /\ \A m \in DOMAIN sends : copies[m] \in Nat
        /\ \A m \in DOMAIN sends : copies'[m] = copies[m] \/ copies'[m] = copies[m] + 1
        /\ spent["crash"] \in Nat
    BY OldSends, CrashCounts, OwedNumbers
  <1> SUFFICES ASSUME NEW m \in DOMAIN sends', Now(m)', Kept(m)', ~Asked(m)',
                      Fits(View(Root), m)'
               PROVE  copies'[m] > 0 \/ \E k \in DOMAIN mainQueue' : Due(k, m)'
    BY DEF AllInformed, Informed
  <1>1. CASE m \notin DOMAIN sends
    <2>1. sendFakeMessage /\ m = Len(sends) + 1
      BY <1>1, OldSends
    <2>2. Asked(m)'
      BY <2>1, NewSend DEF Asked
    <2> QED
      BY <2>2
  <1>2. CASE m \in DOMAIN sends
    <2>1. ~Crash /\ Now(m)
      <3>1. sends[m].launch <= spent["crash"] /\ sends[m].launch = spent'["crash"]
        BY <1>0, <1>2 DEF Alive, Now
      <3> QED
        BY <1>0, <3>1, CrashCounts DEF Now
    <2>2. Fits(View(Root)', m)
      BY <1>0, <1>2 DEF Fits
    <2>3. Fits(View(Root), m) /\ Kept(m)
      BY <1>0, <1>2, <2>2, FittedBefore, RejectedGrows DEF Kept
    <2>4. CASE Asked(m)
      <3>1. RunListenTask /\ IsOf(Head(workerQueue).cb, m)
        BY <1>2, <2>1, <2>4, AskedUntil
      <3> QED
        BY <1>0, <1>2, <2>2, <3>1, AskedIsTold
    <2>5. CASE ~Asked(m)
      <3>1. copies[m] > 0 \/ \E k \in DOMAIN mainQueue : Due(k, m)
        BY <1>2, <2>1, <2>3, <2>5 DEF AllInformed, Informed
      <3>2. CASE copies[m] > 0
        BY <1>0, <1>2, <3>2
      <3>3. ASSUME NEW k \in DOMAIN mainQueue, Due(k, m)
            PROVE  copies'[m] > 0 \/ \E l \in DOMAIN mainQueue' : Due(l, m)'
        BY <1>2, <2>1, <3>3, DueStays
      <3> QED
        BY <3>1, <3>2, <3>3
    <2> QED
      BY <2>4, <2>5
  <1> QED
    BY <1>1, <1>2

-----------------------------------------------------------------------------
(* The earlier of two Sends hears first *)

Pair(m, n) == /\ m < n
              /\ sends[m].channel = sends[n].channel
              /\ sends[m].launch = sends[n].launch
              /\ Kept(m)

FirstHeard ==
  \A m, n \in DOMAIN sends : Pair(m, n) =>
    /\ copies[n] > 0 => copies[m] > 0
    /\ \A k \in DOMAIN mainQueue : Due(k, n) =>
         copies[m] > 0 \/ \E l \in DOMAIN mainQueue : l <= k /\ Due(l, m)

\* A delivery that writes is of the first call there is.
LEMMA FirstIsWritten ==
  ASSUME Inv, InLine, FirstHeard, NEW m \in DOMAIN sends, NEW n \in DOMAIN sends,
         Pair(m, n), NEW i, NEW d \in Head(mainQueue).docs, Writes(i, n, d)
  PROVE  copies[m] > 0 /\ Due(1, n)
  <1>0. FsTypeOK /\ DOMAIN mainQueue \subseteq Nat /\ m < n /\ m \in Nat /\ n \in Nat
    BY OwedNumbers DEF Inv, Pair
  <1>1. /\ 1 \in DOMAIN mainQueue /\ Head(mainQueue) = mainQueue[1]
        /\ i \in DOMAIN mainQueue[1].to
        /\ \A j \in DOMAIN mainQueue[1].to : j \in Nat /\ i <= j
    BY <1>0, TakenShift DEF Writes
  <1>2. /\ ~mainQueue[1].error /\ IsOf(mainQueue[1].to[i], n)
        /\ Fits(mainQueue[1].docs, n)
    BY <1>1 DEF Writes, SendCb, IsOf, IsSend, Fits
  <1>3. Due(1, n)
    BY <1>1, <1>2 DEF Due, Calls
  <1>4. ~Calls(mainQueue[1], m)
    <2> SUFFICES ASSUME NEW j \in DOMAIN mainQueue[1].to, IsOf(mainQueue[1].to[j], m)
                 PROVE  FALSE
      BY DEF Calls
    <2>1. i < j
      BY <1>0, <1>1, <1>2 DEF IsOf
    <2>2. mainQueue[1].to[i].arg < mainQueue[1].to[j].arg
      BY <1>1, <1>2, <2>1 DEF InLine, CallsInLine, IsInLine, IsOf
    <2> QED
      BY <1>0, <1>2, <2>2 DEF IsOf
  <1>5. \A l \in DOMAIN mainQueue : l <= 1 => l = 1
    BY <1>0, <1>1 DEF FsTypeOK
  <1>6. copies[m] > 0 \/ \E l \in DOMAIN mainQueue : l <= 1 /\ Due(l, m)
    BY <1>1, <1>3 DEF FirstHeard
  <1> QED
    BY <1>3, <1>4, <1>5, <1>6 DEF Due

\* A snapshot that calls the later of two Sends finds the earlier one informed.
LEMMA BothAreTold ==
  ASSUME Inv, InLine, Alive, [Next]_vars, AllInformed', Alive',
         NEW m \in DOMAIN sends, NEW n \in DOMAIN sends, Pair(m, n), Kept(m)',
         NEW q \in Queries, NEW b, Tells(q, b), Calls(b, n), Fits(b.docs, n)
  PROVE  copies'[m] > 0 \/ \E l \in DOMAIN mainQueue' : Due(l, m)'
  <1>0. /\ Inv' /\ InLine' /\ m \in Nat /\ n \in Nat /\ m < n
        /\ m \in DOMAIN sends' /\ n \in DOMAIN sends'
        /\ sends'[m] = sends[m] /\ sends'[n] = sends[n]
        /\ sends[m].channel = sends[n].channel /\ sends[m].launch = sends[n].launch
    BY NextInv, InLineNext, OwedNumbers, OldSends DEF Pair
  <1>1. PICK i \in DOMAIN listeners'[q] : IsOf(listeners'[q][i].cb, n)
    BY DEF Tells, Calls
  <1>2. q = Root
    BY <1>0, <1>1 DEF Inv, Served, ServedListeners, Serves, IsOf, IsSend
  <1>3. Listens(n)' /\ Now(n)'
    <2>1. Listens(n)'
      BY <1>1, <1>2 DEF Listens
    <2> QED
      BY <1>0, <2>1 DEF Alive
  <1>4. Now(m)'
    BY <1>0, <1>3 DEF Now
  <1>5. ~Asked(m)'
    BY <1>0, <1>1, <1>2 DEF Asked, InLine, TasksBehind, HearsAt, IsOf
  <1>6. Fits(View(Root), m)'
    BY <1>0, <1>2 DEF Fits, Tells
  <1> QED
    BY <1>0, <1>4, <1>5, <1>6 DEF AllInformed, Informed

LEMMA FirstHeardNext ==
  ASSUME Inv, InLine, Alive, FirstHeard, [Next]_vars, AllInformed', Alive'
  PROVE  FirstHeard'
  <1>0. /\ FsTypeOK /\ Inv' /\ DOMAIN mainQueue \subseteq Nat
        /\ DOMAIN sends \subseteq DOMAIN sends' /\ DOMAIN sends = 1..Len(sends)
        /\ Len(sends) \in Nat
        /\ \A m \in DOMAIN sends : sends'[m] = sends[m]
        /\ \A m \in DOMAIN sends : copies[m] \in Nat
        /\ \A m \in DOMAIN sends : copies'[m] = copies[m] \/ copies'[m] = copies[m] + 1
    BY NextInv, SendNumbers, OldSends, OwedNumbers DEF Inv, FsTypeOK
  <1>a. DOMAIN mainQueue' \subseteq Nat
    BY <1>0 DEF Inv, FsTypeOK
  <1>b. \A m \in DOMAIN sends : copies[m] > 0 => copies'[m] > 0
    BY <1>0
  <1> SUFFICES ASSUME NEW m \in DOMAIN sends', NEW n \in DOMAIN sends', Pair(m, n)'
               PROVE  /\ copies'[n] > 0 => copies'[m] > 0
                      /\ \A k \in DOMAIN mainQueue' : Due(k, n)' =>
                           \/ copies'[m] > 0
                           \/ \E l \in DOMAIN mainQueue' : l <= k /\ Due(l, m)'
    BY DEF FirstHeard
  <1>1. CASE n \notin DOMAIN sends
    <2>1. copies'[n] = 0 /\ UNCHANGED mainQueue /\ n \notin DOMAIN sends
      BY <1>1, OldSends
    <2>2. \A k \in DOMAIN mainQueue : ~Calls(mainQueue[k], n)
      BY <2>1 DEF Inv, Served, ServedSnapshots, IsServed, Serves, Calls, IsOf, IsSend
    <2> QED
      BY <2>1, <2>2 DEF Due
  <1>2. CASE n \in DOMAIN sends
    <2>0. m \in DOMAIN sends /\ Pair(m, n)
      <3>1. m < n /\ m \in Nat
        BY <1>0, SendNumbers, NextInv, OwedNumbers DEF Pair, Inv, AppTypeOK
      <3>2. m \in DOMAIN sends
        BY <1>0, <1>2, <3>1, OldSends
      <3> QED
        BY <1>0, <1>2, <3>2, RejectedGrows DEF Pair, Kept
    <2>1. copies'[n] > 0 => copies'[m] > 0
      <3>1. CASE copies'[n] = copies[n]
        BY <1>b, <1>2, <2>0, <3>1 DEF FirstHeard
      <3>2. CASE copies'[n] # copies[n]
        <4>1. PICK i \in DOMAIN Head(mainQueue).to, d \in Head(mainQueue).docs :
                 Writes(i, n, d)
          BY <1>2, <3>2, OldSends
        <4> QED
          BY <1>b, <1>2, <2>0, <4>1, FirstIsWritten
      <3> QED
        BY <3>1, <3>2
    <2>2. ASSUME NEW k \in DOMAIN mainQueue', Due(k, n)'
          PROVE  copies'[m] > 0 \/ \E l \in DOMAIN mainQueue' : l <= k /\ Due(l, m)'
      <3>0. ~Crash
        BY <2>2 DEF Crash
      <3>1. PICK shift \in {0, 1} :
           /\ \A j \in DOMAIN mainQueue' :
                \/ PostedBefore(j, shift)
                \/ /\ j = Len(mainQueue) + 1 /\ shift = 0 /\ Appends(mainQueue'[j])
                   /\ mainQueue'[j].error \/ \E q \in Queries : Tells(q, mainQueue'[j])
           /\ \A p \in DOMAIN sends, j \in DOMAIN mainQueue : Due(j, p) =>
                \/ copies'[p] > 0
                \/ \E l \in DOMAIN mainQueue' : l + shift = j /\ Due(l, p)'
        BY <3>0, DueStays
      <3>2. CASE PostedBefore(k, shift)
        <4>1. PICK j \in DOMAIN mainQueue : j = k + shift
          BY <3>2 DEF PostedBefore
        <4>2. Due(j, n)
          BY <1>0, <1>2, <2>2, <3>2, <4>1 DEF PostedBefore, IsRestOf, Due, Calls, Fits
        <4>3. copies[m] > 0 \/ \E l \in DOMAIN mainQueue : l <= j /\ Due(l, m)
          BY <1>2, <2>0, <4>2 DEF FirstHeard
        <4>4. ASSUME NEW l \in DOMAIN mainQueue, l <= j, Due(l, m)
              PROVE  copies'[m] > 0 \/ \E x \in DOMAIN mainQueue' : x <= k /\ Due(x, m)'
          <5>1. \/ copies'[m] > 0
                \/ \E x \in DOMAIN mainQueue' : x + shift = l /\ Due(x, m)'
            BY <2>0, <3>1, <4>4
          <5>2. \A x \in DOMAIN mainQueue' : x + shift = l => x <= k
            BY <1>0, <1>a, <4>1, <4>4
          <5> QED
            BY <5>1, <5>2
        <4> QED
          BY <1>b, <2>0, <4>3, <4>4
      <3>3. ASSUME NEW q \in Queries, Tells(q, mainQueue'[k]),
                   k = Len(mainQueue) + 1, Appends(mainQueue'[k])
            PROVE  copies'[m] > 0 \/ \E l \in DOMAIN mainQueue' : l <= k /\ Due(l, m)'
        <4>1. PICK b : b = mainQueue'[k]
          OBVIOUS
        <4>2. Calls(b, n) /\ Fits(b.docs, n)
          BY <1>0, <1>2, <2>2, <4>1 DEF Due, Calls, Fits
        <4>3. copies'[m] > 0 \/ \E l \in DOMAIN mainQueue' : Due(l, m)'
          <5>1. Kept(m)'
            BY DEF Pair
          <5> QED
            BY <1>2, <2>0, <3>3, <4>1, <4>2, <5>1, BothAreTold
        <4>4. DOMAIN mainQueue' = 1..(Len(mainQueue) + 1)
          BY <1>0, <3>3, AppendedSnapshot
        <4> QED
          BY <3>3, <4>3, <4>4
      <3>4. ~mainQueue'[k].error
        BY <2>2 DEF Due, Calls
      <3> QED
        BY <3>1, <3>2, <3>3, <3>4
    <2> QED
      BY <2>1, <2>2
  <1> QED
    BY <1>1, <1>2

-----------------------------------------------------------------------------
(* What was heard first is written first *)

OfSend(d, m) == d.coll # Root /\ d.id[1] # 0 /\ d.id[1] = m
HasCopy(docs, m) == \E d \in docs : OfSend(d, m)

\* While its process lives, what a Send has written is somewhere.
AllWritten ==
  \A m \in DOMAIN sends :
    Now(m) /\ copies[m] > 0 => HasCopy(Known \cup QueuedWrites, m)

\* A copy of the later Send is behind one of the earlier one on the server, in
\* the mutation queue and in the worker queue.
WaitsAfter(i, m) == \E j \in 1..(i - 1) : OfSend(pending[j], m)
QueuedAfter(i, m) == \E j \in DOMAIN workerQueue :
                       j < i /\ IsWrite(j) /\ OfSend(workerQueue[j].doc, m)

ServerInOrder(m, n) == HasCopy(server, n) => HasCopy(Settled, m)
PendingInOrder(m, n) ==
  \A i \in DOMAIN pending :
    OfSend(pending[i], n) => HasCopy(Settled, m) \/ WaitsAfter(i, m)
TasksInOrder(m, n) ==
  \A i \in DOMAIN workerQueue :
    IsWrite(i) /\ OfSend(workerQueue[i].doc, n)
      => HasCopy(Known, m) \/ QueuedAfter(i, m)

WriteOrder ==
  \A m, n \in DOMAIN sends : Pair(m, n) =>
    ServerInOrder(m, n) /\ PendingInOrder(m, n) /\ TasksInOrder(m, n)

LEMMA CopiesMean ==
  ASSUME NEW docs, NEW m, m # 0
  PROVE  CopiesIn(docs, m) # {} <=> HasCopy(docs, m)
  BY DEF CopiesIn, Own, Messages, HasCopy, OfSend

\* What was settled, or known, stays so.
LEMMA CopiesStay ==
  ASSUME Inv, WriteInv, [Next]_vars, NEW m
  PROVE  /\ HasCopy(Settled, m) => HasCopy(Settled', m)
         /\ HasCopy(Known, m) => HasCopy(Known', m)
  <1>1. HasCopy(Known, m) => HasCopy(Known', m)
    BY KnownKept DEF WriteInv, ScreenInv, HasCopy, OfSend, Messages
  <1>2. \A d \in server : d \in server' \/ d.coll = Root
    <2>1. CASE UNCHANGED server
      BY <2>1
    <2>2. CASE OtherClient
      BY <2>2, OthersStep
    <2>3. CASE ServerCommit
      BY <2>3, CommitKeepsMessages DEF WriteInv, ScreenInv, Messages
    <2> QED
      BY <2>1, <2>2, <2>3, StoreCases
         DEF RunWriteTask, HandleSuccessfulWrite, HandleRejectedWrite, ApplyRemoteEvent
  <1> QED
    BY <1>1, <1>2, RejectedGrows DEF HasCopy, OfSend, Settled

\* A Send that was just tapped has no copy anywhere.
LEMMA NewHasNoCopy ==
  ASSUME Inv, WriteInv, sendFakeMessage, NEW n, n \notin DOMAIN sends
  PROVE  ~HasCopy((Known \cup QueuedWrites)', n)
  <1>1. \A d \in Own(Everywhere) : d.id[1] \in DOMAIN sends
    BY DEF Inv, AppTypeOK, WriteInv, Numbered
  <1>2. UNCHANGED <<server, pending, rejected>>
        /\ \A d \in QueuedWrites' : d \in QueuedWrites \/ d.coll = Root
    BY UserStep
  <1> QED
    BY <1>1, <1>2 DEF HasCopy, OfSend, Own, Messages, Everywhere, Known

LEMMA AllWrittenNext ==
  ASSUME Inv, WriteInv, Alive, AllWritten, [Next]_vars
  PROVE  AllWritten'
  <1>0. /\ \A m \in DOMAIN sends : sends'[m] = sends[m] /\ m \in Nat /\ m # 0
        /\ \A m \in DOMAIN sends : copies[m] \in Nat
        /\ spent["crash"] \in Nat /\ FsTypeOK /\ workerQueue \in Seq(Task)
    BY OldSends, CrashCounts, OwedNumbers, SendNumbers DEF Inv, FsTypeOK
  <1> SUFFICES ASSUME NEW m \in DOMAIN sends', Now(m)', copies'[m] > 0
               PROVE  HasCopy((Known \cup QueuedWrites)', m)
    BY DEF AllWritten
  <1>1. m \in DOMAIN sends
    <2>1. 0 \in Nat /\ ~(0 > 0)
      OBVIOUS
    <2> QED
      BY <2>1, OldSends
  <1>2. ~Crash /\ Now(m)
    <2>1. sends[m].launch <= spent["crash"] /\ sends[m].launch = spent'["crash"]
      BY <1>0, <1>1 DEF Alive, Now
    <2> QED
      BY <1>0, <2>1, CrashCounts DEF Now
  <1>3. CASE copies'[m] = copies[m]
    <2>1. HasCopy(Known, m) \/ HasCopy(QueuedWrites, m)
      BY <1>1, <1>2, <1>3 DEF AllWritten, HasCopy
    <2>2. CASE HasCopy(Known, m)
      BY <2>2, CopiesStay DEF HasCopy
    <2>3. CASE HasCopy(QueuedWrites, m)
      <3>1. PICK i \in DOMAIN workerQueue : IsWrite(i) /\ OfSend(workerQueue[i].doc, m)
        BY <2>3 DEF HasCopy, QueuedWrites, Elements, IsWrite
      <3>2. ASSUME NEW j \in DOMAIN workerQueue', workerQueue'[j] = workerQueue[i]
            PROVE  HasCopy((Known \cup QueuedWrites)', m)
        BY <3>1, <3>2 DEF HasCopy, QueuedWrites, Elements, IsWrite
      <3>3. CASE UNCHANGED workerQueue
        BY <3>2, <3>3
      <3>4. ASSUME NEW t \in Task, workerQueue' = Append(workerQueue, t)
            PROVE  HasCopy((Known \cup QueuedWrites)', m)
        BY <1>0, <3>2, <3>4, AppendElements
      <3>5. ASSUME NEW t \in Task, NEW u \in Task,
                   workerQueue' = Append(Append(workerQueue, t), u)
            PROVE  HasCopy((Known \cup QueuedWrites)', m)
        <4>0. PICK w : w = Append(workerQueue, t)
          OBVIOUS
        <4>1. w \in Seq(Task) /\ i \in DOMAIN w /\ w[i] = workerQueue[i]
          BY <1>0, <4>0, AppendElements
        <4>2. i \in DOMAIN workerQueue' /\ workerQueue'[i] = workerQueue[i]
          BY <3>5, <4>0, <4>1, AppendElements
        <4> QED
          BY <3>2, <4>2
      <3>6. CASE workerQueue # <<>> /\ workerQueue' = Tail(workerQueue) /\ Worker
        <4>1. CASE i = 1
          <5>1. RunWriteTask /\ Head(workerQueue) = workerQueue[1]
            BY <1>0, <3>1, <3>6, <4>1 DEF Worker, RunListenTask, IsWrite
          <5>2. Head(workerQueue).doc \in Elements(pending')
            <6>1. Head(workerQueue).doc \in Doc /\ pending \in Seq(Doc)
              BY <1>0, <5>1, WorkerQueueType DEF RunWriteTask, FsTypeOK
            <6> QED
              BY <5>1, <6>1, AppendElements DEF RunWriteTask
          <5> QED
            BY <3>1, <4>1, <5>1, <5>2 DEF HasCopy, Known
        <4>2. CASE i # 1
          <5>1. i - 1 \in DOMAIN workerQueue' /\ workerQueue'[i - 1] = workerQueue[i]
            BY <1>0, <3>6, <4>2
          <5> QED
            BY <3>2, <5>1
        <4> QED
          BY <4>1, <4>2
      <3>7. \A d \in Doc : WriteTask(d) \in Task
        BY TaskType
      <3> QED
        BY <1>2, <3>3, <3>4, <3>5, <3>6, <3>7, TaskCases DEF Registers
    <2> QED
      BY <2>1, <2>2, <2>3
  <1>4. CASE copies'[m] # copies[m]
    <2>1. PICK i \in DOMAIN Head(mainQueue).to, d \in Head(mainQueue).docs :
             Writes(i, m, d)
      BY <1>1, <1>4, OldSends
    <2>2. PICK e, t : /\ e = MessageDoc(d.id, m, copies[m] + 1, 0)
                      /\ t = WriteTask(e) /\ workerQueue' = Append(workerQueue, t)
      BY <2>1 DEF Writes
    <2>3. OfSend(e, m) /\ e \in Doc
      <3>1. d.id \in Channels
        BY <2>1 DEF Writes
      <3>2. m \in Nat \ {0} /\ copies[m] + 1 \in Nat
        BY <1>0, <1>1
      <3>3. e.coll = d.id /\ e.id = <<m, copies[m] + 1>>
        BY <2>2 DEF MessageDoc
      <3>4. e \in Doc
        BY <2>2, <3>1, <3>2, MadeDocType
      <3> QED
        BY <3>1, <3>2, <3>3, <3>4, RootAssumption DEF OfSend
    <2>4. e \in QueuedWrites'
      <3>1. t \in Task /\ t.op = "write" /\ t.doc = e
        BY <2>2, <2>3, TaskType DEF WriteTask
      <3>2. t \in Elements(workerQueue')
        BY <1>0, <2>2, <3>1, AppendElements
      <3> QED
        BY <3>1, <3>2 DEF QueuedWrites
    <2> QED
      BY <2>3, <2>4 DEF HasCopy
  <1> QED
    BY <1>3, <1>4

LEMMA ServerInOrderNext ==
  ASSUME Inv, WriteInv, [Next]_vars, NEW m, NEW n,
         ServerInOrder(m, n), PendingInOrder(m, n)
  PROVE  ServerInOrder(m, n)'
  <1>0. FsTypeOK
    BY DEF Inv
  <1>1. HasCopy(server, n) => HasCopy(Settled', m)
    BY CopiesStay DEF ServerInOrder
  <1>2. CASE \A d \in server' : d \in server \/ d.coll = Root \/ d.id[1] = 0
    BY <1>1, <1>2 DEF ServerInOrder, HasCopy, OfSend
  <1>3. CASE ServerCommit
    <2> DEFINE i == Len(results) + 1
    <2>1. /\ i \in DOMAIN pending /\ server' = With(pending[i], server)
          /\ \A j \in 1..(i - 1) : IsIn(pending[j], server)
      <3>1. Len(results) \in Nat /\ DOMAIN results = 1..Len(results)
        BY <1>0 DEF FsTypeOK
      <3> QED
        BY <1>0, <1>3, <3>1, CommitFacts DEF Inv, Carried
    <2>2. ASSUME OfSend(pending[i], n)
          PROVE  HasCopy(Settled, m)
      <3>2. CASE WaitsAfter(i, m)
        <4>1. PICK j \in 1..(i - 1) : OfSend(pending[j], m)
          BY <3>2 DEF WaitsAfter
        <4>2. PICK e \in server : SameKey(pending[j], e)
          BY <2>1, <4>1, InMeansSameKey
        <4> QED
          BY <4>1, <4>2 DEF SameKey, OfSend, HasCopy, Settled
      <3> QED
        BY <2>1, <2>2, <3>2 DEF PendingInOrder
    <2>3. OfSend(pending[i], n) => HasCopy(Settled', m)
      BY <2>2, CopiesStay
    <2> QED
      BY <1>1, <2>1, <2>3, WithFacts DEF ServerInOrder, HasCopy
  <1>4. CASE OtherClient
    BY <1>2, <1>4, OthersStep
  <1> QED
    BY <1>2, <1>3, <1>4, StoreCases
       DEF RunWriteTask, HandleSuccessfulWrite, HandleRejectedWrite, ApplyRemoteEvent

LEMMA PendingInOrderNext ==
  ASSUME Inv, WriteInv, [Next]_vars, NEW m, NEW n,
         PendingInOrder(m, n), TasksInOrder(m, n)
  PROVE  PendingInOrder(m, n)'
  <1>0. FsTypeOK /\ pending \in Seq(Doc) /\ DOMAIN pending = 1..Len(pending)
        /\ Len(pending) \in Nat
    BY DEF Inv, FsTypeOK
  <1>1. ASSUME NEW i \in DOMAIN pending, OfSend(pending[i], n)
        PROVE  HasCopy(Settled', m) \/ WaitsAfter(i, m)
    BY <1>1, CopiesStay DEF PendingInOrder
  <1>2. CASE UNCHANGED pending
    BY <1>1, <1>2 DEF PendingInOrder, WaitsAfter
  <1>3. CASE RunWriteTask
    <2>0. PICK h, l : h = Head(workerQueue).doc /\ l = Len(pending) + 1
      OBVIOUS
    <2>1. h \in Doc
      BY <1>0, <1>3, <2>0, WorkerQueueType DEF RunWriteTask
    <2>2. /\ DOMAIN pending' = DOMAIN pending \cup {l}
          /\ pending'[l] = h
          /\ \A i \in DOMAIN pending : pending'[i] = pending[i]
      BY <1>0, <1>3, <2>0, <2>1, AppendElements DEF RunWriteTask
    <2>3. ASSUME OfSend(h, n)
          PROVE  HasCopy(Settled', m) \/ WaitsAfter(l, m)'
      <3>0. 1 \in DOMAIN workerQueue /\ Head(workerQueue) = workerQueue[1]
            /\ DOMAIN workerQueue \subseteq Nat \ {0}
        BY <1>0, <1>3 DEF RunWriteTask, FsTypeOK
      <3>1. HasCopy(Known, m)
        <4>1. ~QueuedAfter(1, m)
          BY <3>0 DEF QueuedAfter
        <4> QED
          BY <1>3, <2>0, <2>3, <3>0, <4>1 DEF TasksInOrder, IsWrite, RunWriteTask
      <3>2. CASE HasCopy(Settled, m)
        BY <3>2, CopiesStay
      <3>3. CASE HasCopy(Elements(pending), m)
        <4>1. PICK j \in 1..Len(pending) : OfSend(pending[j], m)
          BY <1>0, <3>3 DEF HasCopy, Elements
        <4>2. j \in 1..(l - 1) /\ j \in DOMAIN pending
          BY <1>0, <2>0
        <4>3. OfSend(pending'[j], m)
          BY <2>2, <4>1, <4>2
        <4> QED
          BY <4>2, <4>3 DEF WaitsAfter
      <3> QED
        BY <3>1, <3>2, <3>3 DEF HasCopy, Known, Settled
    <2>4. ASSUME NEW i \in DOMAIN pending, WaitsAfter(i, m) PROVE WaitsAfter(i, m)'
      BY <1>0, <2>2, <2>4 DEF WaitsAfter
    <2>5. ASSUME NEW i \in DOMAIN pending', OfSend(pending'[i], n)
          PROVE  HasCopy(Settled', m) \/ WaitsAfter(i, m)'
      <3>1. CASE i = l
        BY <2>2, <2>3, <2>5, <3>1
      <3>2. CASE i # l
        BY <1>1, <2>2, <2>4, <2>5, <3>2
      <3> QED
        BY <3>1, <3>2
    <2> QED
      BY <2>5 DEF PendingInOrder
  <1>4. CASE HandleSuccessfulWrite \/ HandleRejectedWrite
    <2>1. /\ pending # <<>> /\ pending' = Tail(pending)
          /\ pending \in Seq(Elements(pending))
      <3>1. pending # <<>> /\ pending' = Tail(pending)
        BY <1>4 DEF HandleSuccessfulWrite, HandleRejectedWrite
      <3>2. pending \in Seq(Elements(pending))
        BY <1>0 DEF Elements
      <3> QED
        BY <3>1, <3>2
    <2>2. /\ Head(pending) = pending[1]
          /\ DOMAIN pending' = 1..(Len(pending) - 1)
          /\ \A i \in DOMAIN pending' :
               i + 1 \in DOMAIN pending /\ pending'[i] = pending[i + 1]
      BY <2>1, TailIsSeq
    \* The head was settled.
    <2>3. OfSend(pending[1], m) => HasCopy(Settled', m)
      <3>1. CASE HandleSuccessfulWrite
        <4>1. PICK e \in server : SameKey(pending[1], e)
          BY <2>2, <3>1, HeadIsCarried, InMeansSameKey DEF HandleSuccessfulWrite
        <4>2. server' = server
          BY <3>1 DEF HandleSuccessfulWrite
        <4> QED
          BY <4>1, <4>2 DEF SameKey, OfSend, HasCopy, Settled
      <3>2. CASE HandleRejectedWrite
        BY <2>2, <3>2 DEF HandleRejectedWrite, HasCopy, Settled
      <3> QED
        BY <1>4, <3>1, <3>2
    <2>4. ASSUME NEW i \in DOMAIN pending', OfSend(pending'[i], n)
          PROVE  HasCopy(Settled', m) \/ WaitsAfter(i, m)'
      <3>1. CASE WaitsAfter(i + 1, m)
        <4>1. PICK j \in 1..i : OfSend(pending[j], m)
          BY <1>0, <2>2, <3>1 DEF WaitsAfter
        <4>2. CASE j = 1
          BY <2>3, <4>1, <4>2
        <4>3. CASE j # 1
          <5>1. /\ j - 1 \in 1..(i - 1) /\ j - 1 \in DOMAIN pending'
                /\ (j - 1) + 1 = j
            BY <1>0, <2>2, <4>3
          <5>2. pending'[j - 1] = pending[j]
            BY <2>2, <5>1
          <5> QED
            BY <4>1, <5>1, <5>2 DEF WaitsAfter
        <4> QED
          BY <4>2, <4>3
      <3> QED
        BY <1>1, <2>2, <2>4, <3>1
    <2> QED
      BY <2>4 DEF PendingInOrder
  <1> QED
    BY <1>2, <1>3, <1>4, PendingChanges DEF PendingChange

LEMMA SameAppended ==
  ASSUME NEW S, NEW s \in Seq(S), NEW x \in S, NEW y \in S,
         Append(s, x) = Append(s, y)
  PROVE  x = y
  <1>1. Append(s, x)[Len(s) + 1] = x /\ Append(s, y)[Len(s) + 1] = y
    BY AppendElements
  <1> QED
    BY <1>1

LEMMA TasksInOrderNext ==
  ASSUME Inv, WriteInv, InLine, Alive, FirstHeard, AllWritten, [Next]_vars,
         NEW m \in DOMAIN sends, NEW n \in DOMAIN sends, Pair(m, n), TasksInOrder(m, n)
  PROVE  TasksInOrder(m, n)'
  <1>0. /\ FsTypeOK /\ workerQueue \in Seq(Task) /\ DOMAIN workerQueue \subseteq Nat
        /\ Len(workerQueue) \in Nat /\ DOMAIN workerQueue = 1..Len(workerQueue)
        /\ m \in Nat /\ n \in Nat /\ m < n
    BY OwedNumbers DEF Inv, FsTypeOK, Pair
  <1>1. ASSUME NEW i \in DOMAIN workerQueue, IsWrite(i), OfSend(workerQueue[i].doc, n)
        PROVE  HasCopy(Known', m) \/ QueuedAfter(i, m)
    BY <1>1, CopiesStay DEF TasksInOrder
  <1>2. CASE UNCHANGED workerQueue
    BY <1>1, <1>2 DEF TasksInOrder, QueuedAfter, IsWrite
  <1>3. CASE workerQueue' = <<getAllChannels>>
    BY <1>3 DEF TasksInOrder, IsWrite, getAllChannels, ListenTask
  <1>4. ASSUME NEW t \in Task, workerQueue' = Append(workerQueue, t),
               t.op = "write" /\ OfSend(t.doc, n)
                 => HasCopy(Known', m) \/ HasCopy(QueuedWrites, m)
        PROVE  TasksInOrder(m, n)'
    <2>0. PICK l : l = Len(workerQueue) + 1
      OBVIOUS
    <2>1. /\ DOMAIN workerQueue' = DOMAIN workerQueue \cup {l}
          /\ \A i \in DOMAIN workerQueue : workerQueue'[i] = workerQueue[i] /\ i < l
          /\ workerQueue'[l] = t
      BY <1>0, <1>4, <2>0, AppendElements
    <2>2. \A i : QueuedAfter(i, m) => QueuedAfter(i, m)'
      BY <2>1 DEF QueuedAfter, IsWrite
    <2>3. HasCopy(QueuedWrites, m) => QueuedAfter(l, m)'
      <3> SUFFICES ASSUME HasCopy(QueuedWrites, m) PROVE QueuedAfter(l, m)'
        OBVIOUS
      <3>1. PICK j \in DOMAIN workerQueue : IsWrite(j) /\ OfSend(workerQueue[j].doc, m)
        BY DEF HasCopy, QueuedWrites, Elements, IsWrite
      <3> QED
        BY <2>1, <3>1 DEF QueuedAfter, IsWrite
    <2>4. ASSUME NEW i \in DOMAIN workerQueue', IsWrite(i)', OfSend(workerQueue'[i].doc, n)
          PROVE  HasCopy(Known', m) \/ QueuedAfter(i, m)'
      <3>1. CASE i = l
        BY <1>4, <2>1, <2>3, <2>4, <3>1 DEF IsWrite
      <3>2. CASE i \in DOMAIN workerQueue
        BY <1>1, <2>1, <2>2, <2>4, <3>2 DEF IsWrite
      <3> QED
        BY <2>1, <3>1, <3>2
    <2> QED
      BY <2>4 DEF TasksInOrder
  <1>5. ASSUME NEW t \in Task, NEW u \in Task, t.op = "listen", u.op = "listen",
               workerQueue' = Append(Append(workerQueue, t), u)
        PROVE  TasksInOrder(m, n)'
    <2>0. PICK w : w = Append(workerQueue, t)
      OBVIOUS
    <2>1. /\ w \in Seq(Task)
          /\ DOMAIN w = DOMAIN workerQueue \cup {Len(workerQueue) + 1}
          /\ \A i \in DOMAIN workerQueue : w[i] = workerQueue[i]
          /\ w[Len(workerQueue) + 1] = t
      BY <1>0, <2>0, AppendElements
    <2>2. /\ DOMAIN workerQueue' = DOMAIN w \cup {Len(w) + 1}
          /\ \A i \in DOMAIN w : workerQueue'[i] = w[i]
          /\ workerQueue'[Len(w) + 1] = u
      BY <1>5, <2>0, <2>1, AppendElements
    <2>3. \A i \in DOMAIN workerQueue :
            i \in DOMAIN workerQueue' /\ workerQueue'[i] = workerQueue[i]
      BY <2>1, <2>2
    <2>4. \A i \in DOMAIN workerQueue' : IsWrite(i)' => i \in DOMAIN workerQueue
      BY <1>5, <2>1, <2>2 DEF IsWrite
    <2> QED
      BY <1>1, <2>3, <2>4 DEF TasksInOrder, QueuedAfter, IsWrite
  <1>6. CASE workerQueue # <<>> /\ workerQueue' = Tail(workerQueue) /\ Worker
    <2>1. /\ Head(workerQueue) = workerQueue[1]
          /\ DOMAIN workerQueue' = 1..(Len(workerQueue) - 1)
          /\ \A i \in DOMAIN workerQueue' :
               i + 1 \in DOMAIN workerQueue /\ workerQueue'[i] = workerQueue[i + 1]
      BY <1>0, <1>6
    <2>2. IsWrite(1) /\ OfSend(workerQueue[1].doc, m) => HasCopy(Known', m)
      <3> SUFFICES ASSUME IsWrite(1), OfSend(workerQueue[1].doc, m)
                   PROVE  HasCopy(Known', m)
        OBVIOUS
      <3>1. RunWriteTask
        BY <1>6, <2>1 DEF Worker, RunListenTask, IsWrite
      <3>2. Head(workerQueue).doc \in Elements(pending')
        <4>1. Head(workerQueue).doc \in Doc /\ pending \in Seq(Doc)
          BY <1>0, <3>1, WorkerQueueType DEF RunWriteTask, FsTypeOK
        <4> QED
          BY <3>1, <4>1, AppendElements DEF RunWriteTask
      <3> QED
        BY <2>1, <3>2 DEF HasCopy, Known
    <2>3. ASSUME NEW i \in DOMAIN workerQueue', IsWrite(i)', OfSend(workerQueue'[i].doc, n)
          PROVE  HasCopy(Known', m) \/ QueuedAfter(i, m)'
      <3>1. HasCopy(Known', m) \/ QueuedAfter(i + 1, m)
        BY <1>1, <2>1, <2>3 DEF IsWrite
      <3>2. ASSUME NEW j \in DOMAIN workerQueue, j < i + 1, IsWrite(j),
                   OfSend(workerQueue[j].doc, m)
            PROVE  HasCopy(Known', m) \/ QueuedAfter(i, m)'
        <4>1. CASE j = 1
          BY <2>2, <3>2, <4>1
        <4>2. CASE j # 1
          <5>1. /\ j - 1 \in DOMAIN workerQueue' /\ (j - 1) + 1 = j
                /\ j - 1 < i
            BY <1>0, <2>1, <3>2, <4>2
          <5>2. workerQueue'[j - 1] = workerQueue[j]
            BY <2>1, <5>1
          <5> QED
            BY <3>2, <5>1, <5>2 DEF QueuedAfter, IsWrite
        <4> QED
          BY <4>1, <4>2
      <3> QED
        BY <3>1, <3>2 DEF QueuedAfter
    <2> QED
      BY <2>3 DEF TasksInOrder
  <1>7. ASSUME NEW e \in Doc, workerQueue' = Append(workerQueue, WriteTask(e)),
               channelButtonTapped \/ DeliverEvent, OfSend(e, n)
        PROVE  HasCopy(Known', m) \/ HasCopy(QueuedWrites, m)
    <2>1. DeliverEvent
      <3> SUFFICES ASSUME channelButtonTapped PROVE FALSE
        BY <1>7
      <3>1. PICK c \in Channels, f \in Doc :
              /\ f = ChannelDoc(c, 0)
              /\ workerQueue' = Append(workerQueue, WriteTask(f))
        BY MadeDocType DEF channelButtonTapped
      <3>2. WriteTask(f) = WriteTask(e)
        <4>1. WriteTask(f) \in Task /\ WriteTask(e) \in Task
          BY TaskType
        <4> QED
          BY <1>0, <1>7, <3>1, <4>1, SameAppended
      <3>3. WriteTask(f).doc = WriteTask(e).doc
        BY <3>2
      <3> QED
        BY <1>7, <3>1, <3>3 DEF WriteTask, ChannelDoc, OfSend
    <2>2. PICK i \in DOMAIN Head(mainQueue).to, p \in DOMAIN sends,
               d \in Head(mainQueue).docs : Writes(i, p, d)
      <3>1. workerQueue' # workerQueue
        <4>1. Len(workerQueue') = Len(workerQueue) + 1
          BY <1>0, <1>7, TaskType
        <4> QED
          BY <1>0, <4>1
      <3> QED
        BY <2>1, <3>1, SendWrites
    <2>3. p = n
      <3>1. PICK f \in Doc : /\ f = MessageDoc(d.id, p, copies[p] + 1, 0)
                             /\ workerQueue' = Append(workerQueue, WriteTask(f))
        <4>1. p \in Nat /\ copies[p] + 1 \in Nat /\ d.id \in Channels
          BY <2>2, OwedNumbers DEF Writes
        <4> QED
          BY <2>2, <4>1, MadeDocType DEF Writes
      <3>2. WriteTask(f) = WriteTask(e)
        <4>1. WriteTask(f) \in Task /\ WriteTask(e) \in Task
          BY TaskType
        <4> QED
          BY <1>0, <1>7, <3>1, <4>1, SameAppended
      <3>3. WriteTask(f).doc = WriteTask(e).doc
        BY <3>2
      <3> QED
        BY <1>7, <3>1, <3>3 DEF WriteTask, MessageDoc, OfSend
    <2>4. copies[m] > 0 /\ Due(1, n)
      BY <2>2, <2>3, FirstIsWritten
    <2>5. Now(m)
      BY <2>4 DEF Due, Alive, Now, Pair
    <2>6. HasCopy(Known, m) \/ HasCopy(QueuedWrites, m)
      BY <2>4, <2>5 DEF AllWritten, HasCopy
    <2> QED
      BY <2>6, CopiesStay
  <1>8. \A e \in Doc : /\ WriteTask(e) \in Task
                       /\ WriteTask(e).op = "write" /\ WriteTask(e).doc = e
    BY TaskType DEF WriteTask
  <1>9. ASSUME NEW e \in Doc, workerQueue' = Append(workerQueue, WriteTask(e)),
               channelButtonTapped \/ DeliverEvent
        PROVE  TasksInOrder(m, n)'
    BY <1>4, <1>7, <1>8, <1>9
  <1>10. ASSUME NEW t, Registers(t), workerQueue' = Append(workerQueue, t)
         PROVE  TasksInOrder(m, n)'
    BY <1>4, <1>10 DEF Registers
  <1> QED
    BY <1>2, <1>3, <1>5, <1>6, <1>9, <1>10, TaskCases DEF Registers

LEMMA WriteOrderNext ==
  ASSUME Inv, WriteInv, InLine, Alive, FirstHeard, AllWritten, WriteOrder, [Next]_vars
  PROVE  WriteOrder'
  <1>0. /\ DOMAIN sends \subseteq DOMAIN sends' /\ DOMAIN sends = 1..Len(sends)
        /\ Len(sends) \in Nat
        /\ \A m \in DOMAIN sends : sends'[m] = sends[m]
    BY SendNumbers, OldSends
  <1> SUFFICES ASSUME NEW m \in DOMAIN sends', NEW n \in DOMAIN sends', Pair(m, n)'
               PROVE  (ServerInOrder(m, n) /\ PendingInOrder(m, n) /\ TasksInOrder(m, n))'
    BY DEF WriteOrder
  <1>1. CASE n \notin DOMAIN sends
    <2>1. ~HasCopy((Known \cup QueuedWrites)', n)
      BY <1>1, OldSends, NewHasNoCopy
    <2>2. ServerInOrder(m, n)'
      BY <2>1 DEF HasCopy, Known, ServerInOrder
    <2>3. PendingInOrder(m, n)'
      BY <2>1 DEF HasCopy, Known, PendingInOrder, Elements
    <2>4. TasksInOrder(m, n)'
      BY <2>1 DEF HasCopy, QueuedWrites, Elements, TasksInOrder, IsWrite
    <2> QED
      BY <2>2, <2>3, <2>4
  <1>2. CASE n \in DOMAIN sends
    <2>1. m \in DOMAIN sends
      <3>1. m < n /\ (m \in DOMAIN sends \/ m = Len(sends) + 1)
        BY OldSends DEF Pair
      <3> QED
        BY <1>0, <1>2, <3>1
    <2>2. Pair(m, n)
      BY <1>0, <1>2, <2>1, RejectedGrows DEF Pair, Kept
    <2>3. ServerInOrder(m, n) /\ PendingInOrder(m, n) /\ TasksInOrder(m, n)
      BY <1>2, <2>1, <2>2 DEF WriteOrder
    <2> QED
      BY <1>2, <2>1, <2>2, <2>3, ServerInOrderNext, PendingInOrderNext, TasksInOrderNext
  <1> QED
    BY <1>1, <1>2

-----------------------------------------------------------------------------
(* The theorem *)

\* The inductive invariant, with the ones it rests on.
SendInv == /\ Inv /\ WriteInv /\ InLine /\ DirectoryInv
           /\ OneVersion /\ CapturedBehind
           /\ Alive /\ AllInformed /\ FirstHeard /\ AllWritten /\ WriteOrder

LEMMA InitSendInv ==
  ASSUME Init
  PROVE  /\ OneVersion /\ CapturedBehind
         /\ Alive /\ AllInformed /\ FirstHeard /\ AllWritten /\ WriteOrder
  <1>1. DOMAIN sends = {} /\ DOMAIN conversations = {} /\ rejected = {}
    BY DEF Init
  <1>2. OneVersion
    BY <1>1 DEF Init, OneVersion, RootDocs, SameKey, ChannelDoc
  <1>3. CapturedBehind
    BY <1>1 DEF CapturedBehind, Captured, Elements
  <1> QED
    BY <1>1, <1>2, <1>3 DEF Alive, AllInformed, FirstHeard, AllWritten, WriteOrder

LEMMA SendInvNext ==
  ASSUME SendInv, [Next]_vars
  PROVE  /\ OneVersion' /\ CapturedBehind'
         /\ Alive' /\ AllInformed' /\ FirstHeard' /\ AllWritten' /\ WriteOrder'
  <1>0. /\ Inv /\ WriteInv /\ InLine /\ DirectoryInv /\ Versions
        /\ OneVersion /\ CapturedBehind
        /\ Alive /\ AllInformed /\ FirstHeard /\ AllWritten /\ WriteOrder
    BY DEF SendInv, DirectoryInv
  <1>1. OneVersion' /\ CapturedBehind' /\ Alive' /\ AllInformed'
    BY <1>0, OneVersionNext, CapturedNext, AliveNext, AllInformedNext
  <1>2. FirstHeard' /\ AllWritten' /\ WriteOrder'
    BY <1>0, <1>1, FirstHeardNext, AllWrittenNext, WriteOrderNext
  <1> QED
    BY <1>1, <1>2

LEMMA SendInvariance == Spec => []SendInv
  <1>1. Init => OneVersion /\ CapturedBehind /\ Alive /\ AllInformed /\ FirstHeard
                /\ AllWritten /\ WriteOrder
    BY InitSendInv
  <1>2. SendInv /\ [Next]_vars
          => (OneVersion /\ CapturedBehind /\ Alive /\ AllInformed /\ FirstHeard
              /\ AllWritten /\ WriteOrder)'
    BY SendInvNext
  <1> QED
    BY <1>1, <1>2, Invariance, WriteInvariance, InLineInvariance,
       DirectoryInvariance, PTL DEF Spec, SendInv

\* Two Sends to one channel in one launch are written, and reach the server,
\* in the order of the taps: their listeners are called in that order over both
\* queues (FirebaseService.createMessage, SyncEngine::Listen), and what they
\* write keeps it (the mutation queue, RemoteStore::FillWritePipeline).  What
\* it needs of the channel is that its creation is not refused.
THEOREM SendsKeepOrderHolds == Spec => []SendsKeepOrder
  <1>1. SendInv => SendsKeepOrder
    <2> SUFFICES ASSUME SendInv, NEW m \in DOMAIN sends, NEW n \in DOMAIN sends,
                        Pair(m, n)
                 PROVE  /\ copies[n] > 0 => copies[m] > 0
                        /\ CopiesIn(server, n) # {} => CopiesIn(server \cup rejected, m) # {}
      BY DEF SendsKeepOrder, Pair, Kept
    <2>1. m # 0 /\ n # 0
      BY SendNumbers DEF SendInv
    <2>2. copies[n] > 0 => copies[m] > 0
      BY DEF SendInv, FirstHeard
    <2>3. HasCopy(server, n) => HasCopy(server \cup rejected, m)
      BY DEF SendInv, WriteOrder, ServerInOrder, Settled
    <2> QED
      BY <2>1, <2>2, <2>3, CopiesMean
  <1> QED
    BY <1>1, SendInvariance, PTL
=============================================================================
