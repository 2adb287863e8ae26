----------------------------- MODULE ChatProofs -----------------------------
(***************************************************************************)
(* Machine-checked facts about Chat, for any set of channels and any       *)
(* budget, in five parts, each on the ones before it:                      *)
(*                                                                         *)
(*   Types and closures   TypeCorrect                                      *)
(*   Delivery             NoCrossDeliveryHolds                             *)
(*   Screens and channels ScreensShowTheirChannelHolds, NoOrphansHolds     *)
(*   One path per write   WriteInv: no document is written twice           *)
(*   The message board    BoardSpecHolds                                   *)
(*                                                                         *)
(* What the listeners hear, and in which order, is in ListenerProofs.      *)
(***************************************************************************)
EXTENDS ChatProperties, SequenceTheorems, TLAPS

-----------------------------------------------------------------------------
(***************************************************************************)
(* PART 1.  Types and closures: the state has the types the code gives it, *)
(* and every closure is registered with the query it was written for.      *)
(***************************************************************************)

(* Sequences and their elements *)

LEMMA SeqOfElements ==
  ASSUME NEW s, s \in Seq(Elements(s)), NEW S,
         \A i \in DOMAIN s : s[i] \in S
  PROVE  s \in Seq(S)
  BY DEF Elements

LEMMA FunctionIsSeq ==
  ASSUME NEW S, NEW n \in Nat, NEW f \in [1..n -> S]
  PROVE  f \in Seq(S) /\ Len(f) = n
  OBVIOUS

LEMMA AppendElements ==
  ASSUME NEW S, NEW s \in Seq(S), NEW e \in S
  PROVE  /\ Append(s, e) \in Seq(S)
         /\ Elements(Append(s, e)) = Elements(s) \cup {e}
         /\ DOMAIN Append(s, e) = DOMAIN s \cup {Len(s) + 1}
         /\ \A i \in DOMAIN s : Append(s, e)[i] = s[i]
         /\ Append(s, e)[Len(s) + 1] = e
  BY DEF Elements

LEMMA TailElements ==
  ASSUME NEW S, NEW s \in Seq(S), s # <<>>
  PROVE  /\ Tail(s) \in Seq(S)
         /\ Head(s) \in S
         /\ Head(s) \in Elements(s)
         /\ Elements(Tail(s)) \subseteq Elements(s)
         /\ Elements(s) = Elements(Tail(s)) \cup {Head(s)}
  <1>1. /\ Tail(s) \in Seq(S) /\ Len(s) \in Nat /\ Len(s) > 0
        /\ DOMAIN s = 1..Len(s) /\ DOMAIN Tail(s) = 1..(Len(s) - 1)
        /\ \A i \in 1..(Len(s) - 1) : Tail(s)[i] = s[i + 1]
        /\ Head(s) = s[1]
    OBVIOUS
  <1>2. ASSUME NEW i \in 1..Len(s)
        PROVE  s[i] \in Elements(Tail(s)) \cup {Head(s)}
    <2>1. CASE i = 1
      BY <1>1, <2>1
    <2>2. CASE i > 1
      <3>1. i - 1 \in DOMAIN Tail(s) /\ s[i] = Tail(s)[i - 1]
        BY <1>1, <2>2
      <3> QED
        BY <3>1 DEF Elements
    <2> QED
      BY <1>1, <2>1, <2>2
  <1>3. ASSUME NEW i \in 1..(Len(s) - 1)
        PROVE  Tail(s)[i] \in Elements(s)
    BY <1>1 DEF Elements
  <1>4. Head(s) \in Elements(s)
    BY <1>1 DEF Elements
  <1> QED
    BY <1>1, <1>2, <1>3, <1>4 DEF Elements

LEMMA AppendIsSeq ==
  ASSUME NEW s, s \in Seq(Elements(s)), NEW e
  PROVE  /\ Append(s, e) \in Seq(Elements(Append(s, e)))
         /\ DOMAIN Append(s, e) = DOMAIN s \cup {Len(s) + 1}
         /\ \A i \in DOMAIN s : Append(s, e)[i] = s[i]
         /\ Append(s, e)[Len(s) + 1] = e
  <1> DEFINE S == Elements(s) \cup {e}
  <1>1. s \in Seq(S) /\ e \in S
    BY SeqMonotonic
  <1>2. /\ Append(s, e) \in Seq(S)
        /\ Elements(Append(s, e)) = S
        /\ DOMAIN Append(s, e) = DOMAIN s \cup {Len(s) + 1}
        /\ \A i \in DOMAIN s : Append(s, e)[i] = s[i]
        /\ Append(s, e)[Len(s) + 1] = e
    BY <1>1, AppendElements
  <1> QED
    BY <1>2

LEMMA TailIsSeq ==
  ASSUME NEW s, s \in Seq(Elements(s)), s # <<>>
  PROVE  /\ Tail(s) \in Seq(Elements(Tail(s)))
         /\ DOMAIN Tail(s) = 1..(Len(s) - 1)
         /\ DOMAIN s = 1..Len(s)
         /\ Len(s) \in Nat \ {0}
         /\ \A i \in DOMAIN Tail(s) : i + 1 \in DOMAIN s /\ Tail(s)[i] = s[i + 1]
         /\ Head(s) = s[1]
  <1>1. /\ Tail(s) \in Seq(Elements(s))
        /\ DOMAIN Tail(s) = 1..(Len(s) - 1)
        /\ DOMAIN s = 1..Len(s)
        /\ Len(s) \in Nat \ {0}
        /\ \A i \in DOMAIN Tail(s) : i + 1 \in DOMAIN s /\ Tail(s)[i] = s[i + 1]
        /\ Head(s) = s[1]
    OBVIOUS
  <1>2. \A i \in DOMAIN Tail(s) : Tail(s)[i] \in Elements(Tail(s))
    BY DEF Elements
  <1>3. Tail(s) = [i \in 1..(Len(s) - 1) |-> Tail(s)[i]]
    BY <1>1, LenProperties
  <1>4. Tail(s) \in [1..(Len(s) - 1) -> Elements(Tail(s))]
    BY <1>1, <1>2, <1>3
  <1> DEFINE n == Len(s) - 1
             T == Elements(Tail(s))
  <1>5. n \in Nat /\ Tail(s) \in [1..n -> T]
    BY <1>1, <1>4
  <1> HIDE DEF n, T
  <1>6. Tail(s) \in Seq(T)
    BY <1>5, FunctionIsSeq
  <1> QED
    BY <1>1, <1>6 DEF T

-----------------------------------------------------------------------------
(* Types *)

MainOK == /\ mainQueue \in Seq(Elements(mainQueue))
          /\ \A k \in DOMAIN mainQueue : IsSnapshot(mainQueue[k])

\* A snapshot appended to the main queue is the only news there.
LEMMA PostSnapshot ==
  ASSUME MainOK, NEW b, IsSnapshot(b), mainQueue' = Append(mainQueue, b)
  PROVE  MainOK'
  BY AppendIsSeq DEF MainOK

\* What the local store shows of a query are documents of that collection.
LEMMA ViewType ==
  ASSUME NEW q \in Queries, NEW stored, NEW writes \in Seq(Doc),
         stored \subseteq Doc
  PROVE  /\ LocalDocuments(q, stored, writes) \subseteq Doc
         /\ \A d \in LocalDocuments(q, stored, writes) :
              d.coll = q /\ d \in stored \cup Elements(writes)
  BY DEF LocalDocuments, Elements

LEMMA DocType ==
  ASSUME NEW d \in Doc
  PROVE  /\ d.coll \in Queries
         /\ d.ver \in Nat \cup {Malformed}
         /\ d.coll = Root => d.id \in Channels
         /\ d.coll # Root => /\ d.coll \in Channels
                            /\ d.id \in Nat \X Nat
                            /\ d.id[1] \in Nat /\ d.id[2] \in Nat
                            /\ d.id = <<d.id[1], d.id[2]>>
  BY RootAssumption DEF Doc, Queries

LEMMA EmitType ==
  ASSUME FsTypeOK, NEW q \in Queries, NEW ready \in BOOLEAN,
         (cache \subseteq Doc)', (pending \in Seq(Doc))',
         EmitNewSnapshots(q, ready)
  PROVE  MainOK' /\ (listeners \in [Queries -> Seq(Listener)])'
         /\ rootChanges' \in Nat
  <1> DEFINE new == LocalDocuments(q, cache', pending')
             ls  == listeners[q]
             hears == {i \in DOMAIN ls : ShouldRaise(ls[i], View(q), new, ready)}
             to == [i \in hears |-> ls[i].cb]
             told == [i \in DOMAIN ls |->
                        IF i \in hears THEN [cb |-> ls[i].cb, raised |-> TRUE]
                        ELSE ls[i]]
  <1>0. ls \in Seq(Listener)
    BY DEF FsTypeOK
  <1>1. /\ ls \in Seq(Listener) /\ Len(ls) \in Nat /\ DOMAIN ls = 1..Len(ls)
        /\ \A i \in 1..Len(ls) : ls[i] \in Listener
    BY <1>0, LenProperties, ElementOfSeq
  <1>2. new \subseteq Doc
    BY ViewType
  <1>3. rootChanges' \in Nat
    BY DEF EmitNewSnapshots, FsTypeOK
  <1>4. told \in Seq(Listener)
    <2> HIDE DEF hears
    <2>1. \A i \in 1..Len(ls) : told[i] \in Listener
      BY <1>1 DEF Listener
    <2>3. told \in [1..Len(ls) -> Listener]
      BY <1>1, <2>1
    <2> QED
      BY <1>1, <2>3, FunctionIsSeq
  <1>5. listeners' \in [Queries -> Seq(Listener)]
    BY <1>4 DEF EmitNewSnapshots, FsTypeOK
  <1>6. IsSnapshot(Snapshot(new, FALSE, to, rootChanges'))
    <2>1. \A i \in DOMAIN ls : i \in Nat \ {0} /\ ls[i].cb \in Callback
      BY <1>1 DEF Listener
    <2>2. hears \subseteq DOMAIN ls
      OBVIOUS
    <2> HIDE DEF hears, new
    <2> QED
      BY <1>2, <1>3, <2>1, <2>2 DEF IsSnapshot, Snapshot
  <1>7. MainOK'
    <2>1. MainOK
      BY DEF FsTypeOK, MainOK
    <2>2. CASE hears = {}
      BY <2>1, <2>2 DEF EmitNewSnapshots, MainOK
    <2>3. CASE hears # {}
      <3>1. mainQueue' = Append(mainQueue, Snapshot(new, FALSE, to, rootChanges'))
        BY <2>3 DEF EmitNewSnapshots
      <3> QED
        BY <1>6, <2>1, <3>1, PostSnapshot
    <2> QED
      BY <2>2, <2>3
  <1> QED
    BY <1>3, <1>5, <1>7

\* The event at the head of the main queue, and what is left once it is taken.
LEMMA TakeEventType ==
  ASSUME MainOK, NEW i, IsNext(i), TakeEvent(i)
  PROVE  /\ MainOK'
         /\ IsSnapshot(Head(mainQueue))
         /\ Head(mainQueue).to[i] \in Callback
  <1> DEFINE b == Head(mainQueue)
             left == DOMAIN b.to \ {i}
             c == Snapshot(b.docs, b.error, [j \in left |-> b.to[j]], b.at)
  <1>1. /\ mainQueue # <<>> /\ b = mainQueue[1] /\ 1 \in DOMAIN mainQueue
        /\ mainQueue \in Seq(Elements(mainQueue))
        /\ i \in DOMAIN b.to
    BY TailIsSeq DEF MainOK, IsNext
  <1>2. IsSnapshot(b) /\ b.to[i] \in Callback
    BY <1>1 DEF MainOK, IsSnapshot
  <1>3. CASE left = {}
    <2>1. mainQueue' = Tail(mainQueue)
      BY <1>3 DEF TakeEvent
    <2> QED
      BY <1>1, <1>2, <2>1, TailIsSeq DEF MainOK
  <1>4. CASE left # {}
    <2>1. mainQueue' = [mainQueue EXCEPT ![1] = c]
      BY <1>4 DEF TakeEvent
    <2>2. IsSnapshot(c)
      BY <1>2 DEF IsSnapshot, Snapshot
    <2> DEFINE S == Elements(mainQueue) \cup {c}
    <2> HIDE DEF c
    <2>3. mainQueue \in Seq(S)
      BY <1>1, SeqMonotonic
    <2>4. mainQueue' \in Seq(S) /\ DOMAIN mainQueue' = DOMAIN mainQueue
          /\ \A k \in DOMAIN mainQueue :
               mainQueue'[k] = IF k = 1 THEN c ELSE mainQueue[k]
      BY <1>1, <2>1, <2>3
    <2>5. mainQueue' \in Seq(Elements(mainQueue'))
      <3>1. mainQueue' \in [1..Len(mainQueue') -> Elements(mainQueue')]
        BY <2>4, LenProperties DEF Elements
      <3> QED
        BY <2>4, <3>1, FunctionIsSeq, LenProperties
    <2> QED
      BY <1>2, <2>2, <2>4, <2>5 DEF MainOK
  <1> QED
    BY <1>2, <1>3, <1>4

LEMMA WorkerQueueType ==
  ASSUME FsTypeOK, workerQueue # <<>>
  PROVE  /\ Tail(workerQueue) \in Seq(Task)
         /\ Head(workerQueue) \in Task
         /\ Head(workerQueue).op = "listen" =>
              /\ Head(workerQueue).query \in Queries
              /\ Head(workerQueue).cb \in Callback
         /\ Head(workerQueue).op = "write" => Head(workerQueue).doc \in Doc
  <1>1. Head(workerQueue) \in Task /\ Tail(workerQueue) \in Seq(Task)
    BY TailElements DEF FsTypeOK
  <1> QED
    BY <1>1 DEF Task

LEMMA PendingType ==
  ASSUME FsTypeOK, pending # <<>>
  PROVE  /\ Tail(pending) \in Seq(Doc)
         /\ Head(pending) \in Doc
         /\ Head(pending).coll \in Queries
  <1>1. Head(pending) \in Doc /\ Tail(pending) \in Seq(Doc)
    BY TailElements DEF FsTypeOK
  <1> QED
    BY <1>1, DocType

LEMMA TaskType ==
  /\ \A q \in Queries, cb \in Callback : ListenTask(q, cb) \in Task
  /\ \A d \in Doc : WriteTask(d) \in Task
  BY DEF ListenTask, WriteTask, Task

LEMMA AddListenerType ==
  ASSUME FsTypeOK, NEW q \in Queries, NEW cb \in Callback,
         NEW ready \in BOOLEAN, AddQueryListener(q, cb, ready)
  PROVE  MainOK' /\ (listeners \in [Queries -> Seq(Listener)])'
  <1> DEFINE raised == View(q) # {} \/ ready
             b == Snapshot(View(q), FALSE,
                           [i \in {Len(listeners[q]) + 1} |-> cb], rootChanges)
  <1>1. listeners[q] \in Seq(Listener) /\ Len(listeners[q]) \in Nat
    BY DEF FsTypeOK
  <1>2. raised \in BOOLEAN
    OBVIOUS
  <1>3. IsSnapshot(b)
    BY <1>1, ViewType DEF IsSnapshot, Snapshot, View, FsTypeOK
  <1>4. MainOK
    BY DEF FsTypeOK, MainOK
  <1>5. MainOK'
    <2>1. mainQueue' = IF raised THEN Append(mainQueue, b) ELSE mainQueue
      BY DEF AddQueryListener
    <2> HIDE DEF b, raised
    <2> QED
      BY <1>3, <1>4, <2>1, PostSnapshot DEF MainOK
  <1>6. listeners' \in [Queries -> Seq(Listener)]
    <2> DEFINE l == [cb |-> cb, raised |-> raised]
    <2>1. listeners' = [listeners EXCEPT ![q] = Append(listeners[q], l)]
      BY DEF AddQueryListener
    <2> HIDE DEF raised
    <2>2. l \in Listener
      BY <1>2 DEF Listener
    <2> HIDE DEF l
    <2> QED
      BY <1>1, <2>1, <2>2 DEF FsTypeOK
  <1> QED
    BY <1>5, <1>6

\* Each step of the client library keeps its state well-typed.
LEMMA RunListenTaskType ==
  ASSUME FsTypeOK, RunListenTask
  PROVE  FsTypeOK'
  <1>1. PICK ready \in BOOLEAN :
          AddQueryListener(Head(workerQueue).query, Head(workerQueue).cb, ready)
    BY DEF RunListenTask
  <1>2. MainOK' /\ (listeners \in [Queries -> Seq(Listener)])'
    BY <1>1, WorkerQueueType, AddListenerType DEF RunListenTask
  <1> QED
    BY <1>2, WorkerQueueType DEF RunListenTask, FsTypeOK, MainOK

LEMMA RunWriteTaskType ==
  ASSUME FsTypeOK, RunWriteTask
  PROVE  FsTypeOK'
  <1>1. Head(workerQueue).doc \in Doc /\ Head(workerQueue).doc.coll \in Queries
    BY WorkerQueueType, DocType DEF RunWriteTask
  <1>2. pending' \in Seq(Doc) /\ cache' \subseteq Doc
    BY <1>1 DEF RunWriteTask, FsTypeOK
  <1>3. MainOK' /\ (listeners \in [Queries -> Seq(Listener)])'
        /\ rootChanges' \in Nat
    BY <1>1, <1>2, EmitType DEF RunWriteTask
  <1> QED
    BY <1>2, <1>3, WorkerQueueType DEF RunWriteTask, FsTypeOK, MainOK

\* A document set is there, every other document stays as it is, and only what
\* was at the same path goes.
LEMMA WithFacts ==
  ASSUME NEW d, NEW docs
  PROVE  /\ d \in With(d, docs)
         /\ \A e \in With(d, docs) : e = d \/ e \in docs
         /\ \A e \in docs : \/ e \in With(d, docs)
                            \/ e.coll = d.coll /\ e.id = d.id
         /\ Keys(With(d, docs)) = Keys(docs) \cup {<<d.coll, d.id>>}
  <1>1. \A e \in docs : IsIn(e, {d}) <=> e.coll = d.coll /\ e.id = d.id
    BY DEF IsIn, Keys
  <1>2. /\ d \in With(d, docs)
        /\ \A e \in With(d, docs) : e = d \/ e \in docs
        /\ \A e \in docs : \/ e \in With(d, docs)
                           \/ e.coll = d.coll /\ e.id = d.id
    BY <1>1 DEF With
  <1> QED
    BY <1>2 DEF Keys

\* The write that is carried out next is one of the mutation queue.
LEMMA CommitFacts ==
  ASSUME FsTypeOK, ServerCommit
  PROVE  /\ Len(results) + 1 \in DOMAIN pending
         /\ pending[Len(results) + 1] \in Doc
         /\ pending[Len(results) + 1] \in Elements(pending)
         /\ server' = With(pending[Len(results) + 1], server)
         /\ results' \in Seq({"newer", "older"})
         /\ Len(results') = Len(results) + 1
         /\ UNCHANGED <<cache, pending, listeners, workerQueue, mainQueue,
                        rejected, rootChanges>>
  <1>1. Len(results) \in Nat /\ Len(pending) \in Nat
    BY DEF FsTypeOK
  <1>2. Len(results) + 1 \in DOMAIN pending
    BY <1>1 DEF ServerCommit, FsTypeOK
  <1>3. pending[Len(results) + 1] \in Doc
    BY <1>2 DEF FsTypeOK
  <1> QED
    BY <1>2, <1>3 DEF ServerCommit, FsTypeOK, Elements

LEMMA ServerCommitType ==
  ASSUME FsTypeOK, ServerCommit
  PROVE  FsTypeOK'
  <1>1. server' \subseteq Doc
    BY CommitFacts, WithFacts DEF FsTypeOK
  <1> QED
    BY <1>1, CommitFacts DEF FsTypeOK

LEMMA LoseResultsType ==
  ASSUME FsTypeOK, LoseResults
  PROVE  FsTypeOK'
  BY DEF LoseResults, FsTypeOK

LEMMA HandleWriteType ==
  ASSUME FsTypeOK, HandleSuccessfulWrite \/ HandleRejectedWrite
  PROVE  FsTypeOK'
  <1>1. /\ pending # <<>> /\ pending' = Tail(pending)
        /\ EmitNewSnapshots(Head(pending).coll, FALSE)
        /\ UNCHANGED <<server, workerQueue>>
    BY DEF HandleSuccessfulWrite, HandleRejectedWrite
  <1>2. /\ pending' \in Seq(Doc) /\ cache' \subseteq Doc
        /\ rejected' \subseteq Doc
    BY <1>1, PendingType, WithFacts
       DEF HandleSuccessfulWrite, HandleRejectedWrite, FsTypeOK
  <1>4. results' \in Seq({"newer", "older"})
    <2>1. results \in Seq({"newer", "older"})
      BY DEF FsTypeOK
    <2>2. results # <<>> => Tail(results) \in Seq({"newer", "older"})
      BY <2>1, TailElements
    <2>3. <<>> \in Seq({"newer", "older"})
      OBVIOUS
    <2> QED
      BY <2>2, <2>3 DEF HandleSuccessfulWrite, HandleRejectedWrite
  <1>3. MainOK' /\ (listeners \in [Queries -> Seq(Listener)])'
        /\ rootChanges' \in Nat
    BY <1>1, <1>2, PendingType, EmitType
  <1> QED
    BY <1>1, <1>2, <1>3, <1>4 DEF FsTypeOK, MainOK

LEMMA WatchType ==
  ASSUME FsTypeOK, NEW q \in Queries, ApplyRemoteEvent(q) \/ HandleOffline(q)
  PROVE  FsTypeOK'
  <1>1. /\ pending' = pending /\ EmitNewSnapshots(q, TRUE)
        /\ UNCHANGED <<server, workerQueue, rejected>>
        /\ cache' \subseteq Doc
    BY DEF ApplyRemoteEvent, HandleOffline, FsTypeOK
  <1>2. (pending \in Seq(Doc))'
    BY <1>1 DEF FsTypeOK
  <1>3. MainOK' /\ (listeners \in [Queries -> Seq(Listener)])'
        /\ rootChanges' \in Nat
    BY <1>1, <1>2, EmitType
  <1>4. results' \in Seq({"newer", "older"})
    <2>1. CASE UNCHANGED results
      BY <2>1 DEF FsTypeOK
    <2>2. CASE ApplyRemoteEvent(q)
      <3>1. /\ Len(results) \in Nat /\ DOMAIN results = 1..Len(results)
            /\ \A i \in 1..Len(results) : results[i] \in {"newer", "older"}
        BY DEF FsTypeOK
      <3>2. results' \in [1..Len(results) -> {"newer", "older"}]
        BY <2>2, <3>1 DEF ApplyRemoteEvent
      <3> QED
        BY <3>1, <3>2, FunctionIsSeq
    <2> QED
      BY <2>1, <2>2 DEF HandleOffline
  <1> QED
    BY <1>1, <1>2, <1>3, <1>4 DEF FsTypeOK, MainOK

LEMMA RejectedListenType ==
  ASSUME FsTypeOK, NEW q \in Queries, HandleRejectedListen(q)
  PROVE  FsTypeOK'
  <1> DEFINE b == Snapshot({}, TRUE,
                    [i \in DOMAIN listeners[q] |-> listeners[q][i].cb],
                    rootChanges)
  <1>1. /\ listeners[q] \in Seq(Listener)
        /\ \A i \in DOMAIN listeners[q] :
             i \in Nat \ {0} /\ listeners[q][i] \in Listener
    BY DEF FsTypeOK
  <1>2. IsSnapshot(b)
    BY <1>1 DEF IsSnapshot, Snapshot, Listener, FsTypeOK
  <1>3. MainOK'
    BY <1>2, PostSnapshot DEF HandleRejectedListen, FsTypeOK, MainOK
  <1>4. (listeners \in [Queries -> Seq(Listener)])'
    BY DEF HandleRejectedListen, FsTypeOK
  <1>5. UNCHANGED <<server, cache, pending, results, workerQueue, rejected,
                    rootChanges>>
    BY DEF HandleRejectedListen
  <1> QED
    BY <1>3, <1>4, <1>5 DEF FsTypeOK, MainOK

\* The app's part of TypeOK.
AppTypeOK ==
  /\ channelsList \subseteq Channel
  /\ conversations \in Seq(Channel)
  /\ messagesList \in Seq(SUBSET Doc)
  /\ Len(messagesList) = Len(conversations)
  /\ top \in 0..Len(conversations)
  /\ sends \in Seq([channel : Channel, since : Nat, launch : Nat])
  /\ copies \in Seq(Nat)
  /\ Len(copies) = Len(sends)
  /\ spent \in [Kinds -> Nat]

LEMMA SpendType ==
  ASSUME AppTypeOK, NEW k \in Kinds, Spend(k)
  PROVE  spent' \in [Kinds -> Nat]
  BY DEF Spend, AppTypeOK

LEMMA RegistrationType ==
  /\ getAllChannels \in Task
  /\ \A c \in Channel, s \in Nat : getAllMessages(c, s) \in Task
  /\ \A m \in Nat : createMessage(m) \in Task
  <1>1. /\ [kind |-> "channels", arg |-> 0] \in Callback
        /\ \A n \in Nat : /\ [kind |-> "messages", arg |-> n] \in Callback
                         /\ [kind |-> "send", arg |-> n] \in Callback
    BY DEF Callback
  <1>2. Root \in Queries /\ \A c \in Channel : c.identifier \in Queries
    BY DEF Queries, Channel
  <1> QED
    BY <1>1, <1>2, TaskType DEF getAllChannels, getAllMessages, createMessage

\* The documents the app and other clients make.
LEMMA MadeDocType ==
  /\ \A c \in Channels, v \in Nat \cup {Malformed} : ChannelDoc(c, v) \in Doc
  /\ \A c \in Channels, m, k \in Nat, v \in Nat \cup {Malformed} :
       MessageDoc(c, m, k, v) \in Doc
  BY DEF ChannelDoc, MessageDoc, Doc

LEMMA InitType == Init => TypeOK
  <1> SUFFICES ASSUME Init PROVE TypeOK
    OBVIOUS
  <1>1. PICK C \in SUBSET Channels : server = {ChannelDoc(c, 0) : c \in C}
    BY DEF Init
  <1>2. server \subseteq Doc
    BY <1>1, MadeDocType
  <1>3. getAllChannels \in Task
    BY RegistrationType
  <1>4. listeners \in [Queries -> Seq(Listener)]
    BY DEF Init, NoListeners
  <1>5. mainQueue \in Seq(Elements(mainQueue))
        /\ \A k \in DOMAIN mainQueue : IsSnapshot(mainQueue[k])
    BY DEF Init
  <1>6. FsTypeOK
    BY <1>2, <1>3, <1>4, <1>5 DEF Init, FsTypeOK
  <1>7. AppTypeOK
    BY DEF Init, AppTypeOK
  <1> QED
    BY <1>6, <1>7 DEF TypeOK, AppTypeOK

LEMMA didSelectRowType ==
  ASSUME FsTypeOK, AppTypeOK, didSelectRow
  PROVE  FsTypeOK' /\ AppTypeOK'
  <1>1. PICK channel \in channelsList :
          /\ conversations' = Append(conversations, channel)
          /\ workerQueue' = Append(workerQueue,
                getAllMessages(channel, Len(conversations) + 1))
    BY DEF didSelectRow
  <1>2. channel \in Channel /\ channel.identifier \in Channels
    BY DEF AppTypeOK, Channel
  <1>3. getAllMessages(channel, Len(conversations) + 1) \in Task
    BY <1>2, RegistrationType DEF AppTypeOK
  <1>4. workerQueue' \in Seq(Task)
    BY <1>1, <1>3 DEF FsTypeOK
  <1>5. FsTypeOK'
    BY <1>4 DEF didSelectRow, FsTypeOK
  <1>6. spent' \in [Kinds -> Nat]
    BY SpendType DEF didSelectRow, Kinds
  <1>7. AppTypeOK'
    BY <1>1, <1>2, <1>6 DEF didSelectRow, AppTypeOK
  <1> QED
    BY <1>5, <1>7

LEMMA sendFakeMessageType ==
  ASSUME FsTypeOK, AppTypeOK, sendFakeMessage
  PROVE  FsTypeOK' /\ AppTypeOK'
  <1> DEFINE a == createMessage(Len(sends) + 1)
             b == getAllMessages(conversations[top], top)
  <1>0. top \in 1..Len(conversations)
    BY DEF sendFakeMessage, AppTypeOK
  <1>1. conversations[top] \in Channel /\ top \in Nat
    BY <1>0 DEF AppTypeOK
  <1>2. a \in Task /\ b \in Task
    BY <1>1, RegistrationType DEF AppTypeOK
  <1>3. workerQueue' = workerQueue \o <<a, b>>
    BY DEF sendFakeMessage
  <1> HIDE DEF a, b
  <1>4. workerQueue' \in Seq(Task)
    BY <1>2, <1>3 DEF FsTypeOK
  <1>5. FsTypeOK'
    BY <1>4 DEF sendFakeMessage, FsTypeOK
  <1>6. spent' \in [Kinds -> Nat]
    BY SpendType DEF sendFakeMessage, Kinds
  <1>7. /\ sends' \in Seq([channel : Channel, since : Nat, launch : Nat])
        /\ copies' \in Seq(Nat)
        /\ Len(copies') = Len(sends')
    <2> DEFINE S == [channel : Channel, since : Nat, launch : Nat]
               r == [channel |-> conversations[top], since |-> rootChanges,
                     launch |-> spent["crash"]]
    <2>1. r \in S
      BY <1>1 DEF AppTypeOK, FsTypeOK, Kinds
    <2>2. sends' = Append(sends, r) /\ copies' = Append(copies, 0)
      BY DEF sendFakeMessage
    <2> HIDE DEF r
    <2>3. sends \in Seq(S) /\ copies \in Seq(Nat) /\ Len(copies) = Len(sends)
      BY DEF AppTypeOK
    <2> HIDE DEF S
    <2>4. /\ sends' \in Seq(S) /\ Len(sends') = Len(sends) + 1
          /\ copies' \in Seq(Nat) /\ Len(copies') = Len(copies) + 1
      BY <2>1, <2>2, <2>3
    <2> QED
      BY <2>3, <2>4 DEF S
  <1>8. AppTypeOK'
    BY <1>6, <1>7 DEF sendFakeMessage, AppTypeOK
  <1> QED
    BY <1>5, <1>8

LEMMA channelButtonTappedType ==
  ASSUME FsTypeOK, AppTypeOK, channelButtonTapped
  PROVE  FsTypeOK' /\ AppTypeOK'
  <1>1. PICK c \in Channels :
          workerQueue' = Append(workerQueue, WriteTask(ChannelDoc(c, 0)))
    BY DEF channelButtonTapped
  <1>2. WriteTask(ChannelDoc(c, 0)) \in Task
    BY TaskType, MadeDocType
  <1>3. workerQueue' \in Seq(Task)
    BY <1>1, <1>2 DEF FsTypeOK
  <1>4. spent' \in [Kinds -> Nat]
    BY SpendType DEF channelButtonTapped, Kinds
  <1> QED
    BY <1>3, <1>4 DEF channelButtonTapped, FsTypeOK, AppTypeOK

LEMMA OtherClientType ==
  ASSUME FsTypeOK, AppTypeOK, OtherClient
  PROVE  FsTypeOK' /\ AppTypeOK'
  <1>1. \A d \in server : /\ d.ver \in Nat \cup {Malformed}
                          /\ d.coll = Root => d.id \in Channels
    BY DocType DEF FsTypeOK
  <1>2. spent' \in [Kinds -> Nat] /\ spent["post"] \in Nat
    BY SpendType DEF OtherClient, OthersAddChannel, OthersUpdateChannel,
                     OthersPost, Kinds, AppTypeOK
  <1>3. server' \subseteq Doc
    <2>1. CASE OthersAddChannel
      BY <2>1, MadeDocType DEF OthersAddChannel, FsTypeOK
    <2>2. CASE OthersUpdateChannel
      <3>1. PICK d \in server :
              /\ d.coll = Root /\ d.ver # Malformed
              /\ \/ server' = (server \ {d}) \cup {ChannelDoc(d.id, d.ver + 1)}
                 \/ server' = (server \ {d}) \cup {ChannelDoc(d.id, Malformed)}
        BY <2>2 DEF OthersUpdateChannel
      <3>2. d.id \in Channels /\ d.ver + 1 \in Nat
        BY <1>1, <3>1
      <3>3. /\ ChannelDoc(d.id, d.ver + 1) \in Doc
            /\ ChannelDoc(d.id, Malformed) \in Doc
        BY <3>2, MadeDocType
      <3> QED
        BY <3>1, <3>3 DEF FsTypeOK
    <2>3. CASE OthersPost
      BY <2>3, <1>1, <1>2, MadeDocType DEF OthersPost, FsTypeOK
    <2> QED
      BY <2>1, <2>2, <2>3 DEF OtherClient
  <1>4. FsTypeOK'
    BY <1>3 DEF OtherClient, FsTypeOK
  <1>5. AppTypeOK'
    BY <1>2 DEF OtherClient, AppTypeOK
  <1> QED
    BY <1>4, <1>5

LEMMA CrashType ==
  ASSUME FsTypeOK, AppTypeOK, Crash
  PROVE  FsTypeOK' /\ AppTypeOK'
  <1>1. getAllChannels \in Task
    BY RegistrationType
  <1>2. listeners' \in [Queries -> Seq(Listener)]
    BY DEF Crash, NoListeners
  <1>3. MainOK'
    BY DEF Crash, MainOK
  <1>4. FsTypeOK'
    BY <1>1, <1>2, <1>3 DEF Crash, FsTypeOK, MainOK
  <1>5. spent' \in [Kinds -> Nat]
    BY SpendType DEF Crash, Kinds
  <1>6. AppTypeOK'
    BY <1>5 DEF Crash, AppTypeOK
  <1> QED
    BY <1>4, <1>6

-----------------------------------------------------------------------------
(* Who listens to what *)

\* cb is a closure of the app that a query q may call.
Serves(cb, q) ==
  \/ cb.kind = "channels" /\ q = Root
  \/ cb.kind = "send" /\ q = Root /\ cb.arg \in DOMAIN sends
  \/ /\ cb.kind = "messages"
     /\ cb.arg \in DOMAIN conversations
     /\ q = conversations[cb.arg].identifier

\* b is a snapshot of one query, for closures that query may call.
IsServed(b) ==
  \E q \in Queries : /\ \A i \in DOMAIN b.to : Serves(b.to[i], q)
                     /\ \A d \in b.docs : d.coll = q

ServedListeners ==
  \A q \in Queries : \A i \in DOMAIN listeners[q] : Serves(listeners[q][i].cb, q)
ServedTasks ==
  \A i \in DOMAIN workerQueue :
    workerQueue[i].op = "listen" => Serves(workerQueue[i].cb, workerQueue[i].query)
ServedSnapshots == \A k \in DOMAIN mainQueue : IsServed(mainQueue[k])

Served == ServedListeners /\ ServedTasks /\ ServedSnapshots

\* New Sends and new screens take nothing from the closures there are.
Grown == /\ DOMAIN sends \subseteq DOMAIN sends'
         /\ DOMAIN conversations \subseteq DOMAIN conversations'
         /\ \A s \in DOMAIN conversations : conversations'[s] = conversations[s]

LEMMA GrownServes ==
  ASSUME Grown
  PROVE  /\ \A cb, q : Serves(cb, q) => Serves(cb, q)'
         /\ \A b : IsServed(b) => IsServed(b)'
  BY DEF Grown, Serves, IsServed

LEMMA PostServed ==
  ASSUME Grown, MainOK, ServedSnapshots, NEW b, IsServed(b)',
         mainQueue' = Append(mainQueue, b)
  PROVE  ServedSnapshots'
  <1>1. /\ DOMAIN mainQueue' = DOMAIN mainQueue \cup {Len(mainQueue) + 1}
        /\ \A k \in DOMAIN mainQueue : mainQueue'[k] = mainQueue[k]
        /\ mainQueue'[Len(mainQueue) + 1] = b
    BY AppendIsSeq DEF MainOK
  <1> QED
    BY <1>1, GrownServes DEF ServedSnapshots

LEMMA EmitServed ==
  ASSUME FsTypeOK, Served, Grown, NEW q \in Queries, NEW ready \in BOOLEAN,
         (cache \subseteq Doc)', (pending \in Seq(Doc))',
         EmitNewSnapshots(q, ready)
  PROVE  ServedListeners' /\ ServedSnapshots'
  <1> DEFINE new == LocalDocuments(q, cache', pending')
             ls  == listeners[q]
             hears == {i \in DOMAIN ls : ShouldRaise(ls[i], View(q), new, ready)}
             b == Snapshot(new, FALSE, [i \in hears |-> ls[i].cb], rootChanges')
             told == [i \in DOMAIN ls |->
                        IF i \in hears THEN [cb |-> ls[i].cb, raised |-> TRUE]
                        ELSE ls[i]]
  <1>1. \A i \in DOMAIN ls : Serves(ls[i].cb, q)
    BY DEF Served, ServedListeners
  <1>2. ServedListeners'
    <2> HIDE DEF hears
    <2>1. listeners' = [listeners EXCEPT ![q] = told]
      BY DEF EmitNewSnapshots, hears
    <2>2. \A i \in DOMAIN ls : told[i].cb = ls[i].cb
      OBVIOUS
    <2>3. DOMAIN told = DOMAIN ls
      OBVIOUS
    <2> HIDE DEF told
    <2>4. \A p \in Queries : /\ DOMAIN listeners'[p] = DOMAIN listeners[p]
                             /\ \A i \in DOMAIN listeners[p] :
                                  listeners'[p][i].cb = listeners[p][i].cb
      BY <2>1, <2>2, <2>3 DEF FsTypeOK
    <2> QED
      BY <2>4, GrownServes DEF Served, ServedListeners
  <1>3. ServedSnapshots'
    <2>1. CASE hears = {}
      BY <2>1, GrownServes DEF EmitNewSnapshots, Served, ServedSnapshots
    <2>2. CASE hears # {}
      <3>1. mainQueue' = Append(mainQueue, b)
        BY <2>2 DEF EmitNewSnapshots
      <3>2. \A d \in new : d.coll = q
        BY ViewType
      <3>3. IsServed(b)
        BY <1>1, <3>2 DEF IsServed, Snapshot
      <3> QED
        BY <3>1, <3>3, PostServed, GrownServes DEF Served, FsTypeOK, MainOK
    <2> QED
      BY <2>1, <2>2
  <1> QED
    BY <1>2, <1>3

\* Tasks that are all run, or lost, or registered for closures that serve.
LEMMA TailTasksServed ==
  ASSUME FsTypeOK, Served, Grown, workerQueue # <<>>,
         workerQueue' = Tail(workerQueue)
  PROVE  ServedTasks'
  <1>1. \A i \in DOMAIN workerQueue' :
          i + 1 \in DOMAIN workerQueue /\ workerQueue'[i] = workerQueue[i + 1]
    BY DEF FsTypeOK
  <1> QED
    BY <1>1, GrownServes DEF Served, ServedTasks

LEMMA AppendTaskServed ==
  ASSUME FsTypeOK, Served, Grown, NEW t \in Task,
         t.op = "listen" => Serves(t.cb, t.query)',
         workerQueue' = Append(workerQueue, t)
  PROVE  ServedTasks'
  <1>1. /\ DOMAIN workerQueue' = DOMAIN workerQueue \cup {Len(workerQueue) + 1}
        /\ \A i \in DOMAIN workerQueue : workerQueue'[i] = workerQueue[i]
        /\ workerQueue'[Len(workerQueue) + 1] = t
    BY AppendElements DEF FsTypeOK
  <1> QED
    BY <1>1, GrownServes DEF Served, ServedTasks

LEMMA WorkerServed ==
  ASSUME FsTypeOK, AppTypeOK, Served, Worker
  PROVE  Served'
  <1>1. Grown
    BY DEF Worker, appvars, Grown
  <1>2. ServedTasks'
    BY <1>1, TailTasksServed DEF Worker, RunListenTask, RunWriteTask
  <1>3. CASE RunListenTask
    <2> DEFINE q == Head(workerQueue).query
               cb == Head(workerQueue).cb
               b == Snapshot(View(q), FALSE,
                             [i \in {Len(listeners[q]) + 1} |-> cb], rootChanges)
    <2>1. PICK ready \in BOOLEAN : AddQueryListener(q, cb, ready)
      BY <1>3 DEF RunListenTask
    <2>2. workerQueue # <<>> /\ Head(workerQueue).op = "listen"
      BY <1>3 DEF RunListenTask
    <2>3. q \in Queries /\ cb \in Callback
      BY <2>2, WorkerQueueType
    <2>4. Serves(cb, q)
      <3>1. 1 \in DOMAIN workerQueue /\ Head(workerQueue) = workerQueue[1]
        BY <2>2 DEF FsTypeOK
      <3> QED
        BY <2>2, <3>1 DEF Served, ServedTasks
    <2> HIDE DEF q, cb
    <2> DEFINE l == [cb |-> cb, raised |-> View(q) # {} \/ ready]
    <2>5. ServedListeners'
      <3>1. /\ listeners' = [listeners EXCEPT ![q] = Append(listeners[q], l)]
            /\ l.cb = cb
        BY <2>1 DEF AddQueryListener
      <3> HIDE DEF l
      <3>2. listeners[q] \in Seq(Listener)
        BY <2>3 DEF FsTypeOK
      <3>3. listeners[q] \in Seq(Listener \cup {l}) /\ l \in Listener \cup {l}
        BY <3>2, SeqMonotonic
      <3>4. /\ DOMAIN listeners'[q] = DOMAIN listeners[q] \cup {Len(listeners[q]) + 1}
            /\ \A i \in DOMAIN listeners[q] : listeners'[q][i] = listeners[q][i]
            /\ listeners'[q][Len(listeners[q]) + 1] = l
            /\ \A p \in Queries \ {q} : listeners'[p] = listeners[p]
        BY <2>3, <3>1, <3>3, AppendElements DEF FsTypeOK
      <3> QED
        BY <1>1, <2>3, <2>4, <3>1, <3>4, GrownServes DEF Served, ServedListeners
    <2>6. ServedSnapshots'
      <3>1. mainQueue' = mainQueue \/ mainQueue' = Append(mainQueue, b)
        BY <2>1 DEF AddQueryListener
      <3>2. \A d \in View(q) : d.coll = q
        BY <2>3, ViewType DEF View, FsTypeOK
      <3>3. IsServed(b)
        BY <2>3, <2>4, <3>2 DEF IsServed, Snapshot
      <3>4. CASE mainQueue' = mainQueue
        BY <1>1, <3>4, GrownServes DEF Served, ServedSnapshots
      <3>5. CASE mainQueue' = Append(mainQueue, b)
        BY <1>1, <3>3, <3>5, PostServed, GrownServes DEF Served, FsTypeOK, MainOK
      <3> QED
        BY <3>1, <3>4, <3>5
    <2> QED
      BY <1>2, <2>5, <2>6 DEF Served
  <1>4. CASE RunWriteTask
    <2>1. Head(workerQueue).doc \in Doc /\ Head(workerQueue).doc.coll \in Queries
      BY <1>4, WorkerQueueType, DocType DEF RunWriteTask
    <2>2. (cache \subseteq Doc)' /\ (pending \in Seq(Doc))'
      BY <1>4, RunWriteTaskType DEF FsTypeOK
    <2>3. ServedListeners' /\ ServedSnapshots'
      BY <1>1, <1>4, <2>1, <2>2, EmitServed DEF RunWriteTask
    <2> QED
      BY <1>2, <2>3 DEF Served
  <1> QED
    BY <1>3, <1>4 DEF Worker

LEMMA NetworkServed ==
  ASSUME FsTypeOK, AppTypeOK, Served, UNCHANGED <<sends, conversations>>,
         NEW q \in Queries,
         \/ HandleSuccessfulWrite \/ HandleRejectedWrite
         \/ ApplyRemoteEvent(q) \/ HandleOffline(q)
  PROVE  Served'
  <1>1. Grown
    BY DEF Grown
  <1>2. FsTypeOK'
    BY HandleWriteType, WatchType
  <1>3. /\ workerQueue' = workerQueue
        /\ \E p \in Queries, ready \in BOOLEAN : EmitNewSnapshots(p, ready)
    BY PendingType DEF HandleSuccessfulWrite, HandleRejectedWrite,
                       ApplyRemoteEvent, HandleOffline
  <1>4. ServedListeners' /\ ServedSnapshots'
    BY <1>1, <1>2, <1>3, EmitServed DEF FsTypeOK
  <1>5. ServedTasks'
    BY <1>1, <1>3, GrownServes DEF Served, ServedTasks
  <1> QED
    BY <1>4, <1>5 DEF Served

LEMMA RejectedListenServed ==
  ASSUME FsTypeOK, Served, UNCHANGED <<sends, conversations>>,
         NEW q \in Queries, HandleRejectedListen(q)
  PROVE  Served'
  <1> DEFINE b == Snapshot({}, TRUE,
                    [i \in DOMAIN listeners[q] |-> listeners[q][i].cb],
                    rootChanges)
  <1>1. Grown
    BY DEF Grown
  <1>2. IsServed(b)
    BY DEF IsServed, Snapshot, Served, ServedListeners
  <1>3. ServedSnapshots'
    BY <1>1, <1>2, PostServed, GrownServes
       DEF HandleRejectedListen, Served, FsTypeOK, MainOK
  <1>4. ServedListeners'
    <2>1. \A p \in Queries :
            listeners'[p] = IF p = q THEN <<>> ELSE listeners[p]
      BY DEF HandleRejectedListen, FsTypeOK
    <2> QED
      BY <1>1, <2>1, GrownServes DEF Served, ServedListeners
  <1>5. ServedTasks'
    BY <1>1, GrownServes DEF HandleRejectedListen, Served, ServedTasks
  <1> QED
    BY <1>3, <1>4, <1>5 DEF Served

LEMMA TakeServed ==
  ASSUME MainOK, ServedSnapshots, Grown, NEW i, IsNext(i), TakeEvent(i)
  PROVE  ServedSnapshots' /\ IsServed(Head(mainQueue))
  <1> DEFINE b == Head(mainQueue)
             left == DOMAIN b.to \ {i}
             c == Snapshot(b.docs, b.error, [j \in left |-> b.to[j]], b.at)
  <1>1. /\ mainQueue # <<>> /\ b = mainQueue[1] /\ 1 \in DOMAIN mainQueue
        /\ mainQueue \in Seq(Elements(mainQueue))
    BY TailIsSeq DEF MainOK, IsNext
  <1>2. IsServed(b)
    BY <1>1 DEF ServedSnapshots
  <1>3. CASE left = {}
    <2>1. mainQueue' = Tail(mainQueue)
      BY <1>3 DEF TakeEvent
    <2>2. \A k \in DOMAIN mainQueue' :
            k + 1 \in DOMAIN mainQueue /\ mainQueue'[k] = mainQueue[k + 1]
      BY <1>1, <2>1, TailIsSeq
    <2> QED
      BY <1>2, <2>2, GrownServes DEF ServedSnapshots
  <1>4. CASE left # {}
    <2>1. mainQueue' = [mainQueue EXCEPT ![1] = c]
      BY <1>4 DEF TakeEvent
    <2>2. IsServed(c)
      BY <1>2 DEF IsServed, Snapshot
    <2> HIDE DEF c
    <2>3. \A k \in DOMAIN mainQueue' :
            k \in DOMAIN mainQueue /\ mainQueue'[k] \in {c, mainQueue[k]}
      BY <1>1, <2>1
    <2> QED
      BY <1>2, <2>2, <2>3, GrownServes DEF ServedSnapshots
  <1> QED
    BY <1>2, <1>3, <1>4

\* The listener of a Send recognises a channel only by the channel's id.
LEMMA MatchIsTheChannel ==
  ASSUME AppTypeOK, NEW m \in DOMAIN sends, NEW d,
         channelFromSnapshot(d) = sends[m].channel
  PROVE  /\ d.id = sends[m].channel.identifier
         /\ d.id \in Channels
  <1> DEFINE S == [channel : Channel, since : Nat, launch : Nat]
  <1>0. sends[m] \in S
    <2>1. sends \in Seq(S)
      BY DEF AppTypeOK
    <2> HIDE DEF S
    <2> QED
      BY <2>1
  <1>1. sends[m].channel \in Channel
    BY <1>0
  <1>2. channelFromSnapshot(d) = [identifier |-> d.id, ver |-> d.ver]
    BY <1>1, NoChannelAssumption DEF channelFromSnapshot
  <1> QED
    BY <1>1, <1>2 DEF Channel

LEMMA DeliverEventInv ==
  ASSUME FsTypeOK, AppTypeOK, Served, DeliverEvent
  PROVE  FsTypeOK' /\ AppTypeOK' /\ Served'
  <1> DEFINE snap == Head(mainQueue)
  <1>1. PICK i : /\ IsNext(i) /\ TakeEvent(i)
                 /\ \/ /\ snap.error
                       /\ UNCHANGED <<workerQueue, channelsList, messagesList,
                                      copies>>
                    \/ /\ snap.to[i].kind = "channels"
                       /\ OnChannels(snap.docs)
                    \/ /\ snap.to[i].kind = "messages"
                       /\ OnMessages(snap.docs, snap.to[i].arg)
                    \/ /\ snap.to[i].kind = "send"
                       /\ OnChannelsForSend(snap.docs, snap.to[i].arg)
                 /\ i \in DOMAIN snap.to
                 /\ UNCHANGED <<server, cache, pending, results, listeners,
                                rejected, rootChanges, conversations, top,
                                sends, spent>>
    BY DEF DeliverEvent, IsNext
  <1> DEFINE cb == snap.to[i]
             m == cb.arg
  <1>2. Grown /\ MainOK
    BY <1>1 DEF Grown, FsTypeOK, MainOK
  <1>3. MainOK' /\ IsSnapshot(snap) /\ cb \in Callback
    BY <1>1, <1>2, TakeEventType
  <1>4. ServedSnapshots' /\ IsServed(snap)
    BY <1>1, <1>2, TakeServed DEF Served
  <1>5. /\ snap.docs \subseteq Doc
        /\ m \in Nat
        /\ cb.kind \in {"channels", "messages", "send"}
    BY <1>3 DEF IsSnapshot, Callback
  <1>6. PICK q \in Queries : Serves(cb, q) /\ \A d \in snap.docs : d.coll = q
    BY <1>1, <1>4 DEF IsServed
  <1> HIDE DEF snap, cb, m
  <1>7. CASE UNCHANGED <<workerQueue, channelsList, messagesList, copies>>
    <2>1. FsTypeOK' /\ AppTypeOK'
      BY <1>1, <1>3, <1>7 DEF FsTypeOK, AppTypeOK, MainOK
    <2>2. Served'
      BY <1>1, <1>2, <1>4, <1>7, GrownServes
         DEF Served, ServedListeners, ServedTasks
    <2> QED
      BY <2>1, <2>2
  <1>8. CASE cb.kind = "channels" /\ OnChannels(snap.docs)
    <2>1. q = Root
      BY <1>6, <1>8 DEF Serves
    <2>2. channelsList' \subseteq Channel
      <3>1. ASSUME NEW d \in snap.docs, d.ver # Malformed
            PROVE  channelFromSnapshot(d) \in Channel
        BY <1>5, <1>6, <2>1, <3>1, DocType DEF channelFromSnapshot, Channel
      <3>2. \A d \in snap.docs : d.ver = Malformed => channelFromSnapshot(d) = NoChannel
        BY DEF channelFromSnapshot
      <3> QED
        BY <1>8, <3>1, <3>2 DEF OnChannels
    <2>3. FsTypeOK' /\ AppTypeOK'
      BY <1>1, <1>3, <1>8, <2>2 DEF OnChannels, FsTypeOK, AppTypeOK, MainOK
    <2>4. Served'
      BY <1>1, <1>2, <1>4, <1>8, GrownServes
         DEF OnChannels, Served, ServedListeners, ServedTasks
    <2> QED
      BY <2>3, <2>4
  <1>9. CASE cb.kind = "messages" /\ OnMessages(snap.docs, m)
    <2>1. m \in DOMAIN messagesList
      BY <1>6, <1>9 DEF Serves, AppTypeOK, m
    <2>2. {d \in snap.docs : d.ver # Malformed} \in SUBSET Doc
      BY <1>5
    <2>3. /\ messagesList' \in Seq(SUBSET Doc)
          /\ Len(messagesList') = Len(messagesList)
      BY <1>9, <2>1, <2>2 DEF OnMessages, AppTypeOK
    <2>4. FsTypeOK' /\ AppTypeOK'
      BY <1>1, <1>3, <1>9, <2>3 DEF OnMessages, FsTypeOK, AppTypeOK, MainOK
    <2>5. Served'
      BY <1>1, <1>2, <1>4, <1>9, GrownServes
         DEF OnMessages, Served, ServedListeners, ServedTasks
    <2> QED
      BY <2>4, <2>5
  <1>10. CASE cb.kind = "send" /\ OnChannelsForSend(snap.docs, m)
    <2>1. m \in DOMAIN sends /\ m \in DOMAIN copies
      BY <1>6, <1>10 DEF Serves, AppTypeOK, m
    <2>2. CASE UNCHANGED <<copies, workerQueue>>
      BY <1>7, <1>10, <2>2 DEF OnChannelsForSend
    <2>3. ASSUME NEW d \in snap.docs,
                 channelFromSnapshot(d) = sends[m].channel,
                 copies' = [copies EXCEPT ![m] = copies[m] + 1],
                 workerQueue' = Append(workerQueue,
                   WriteTask(MessageDoc(d.id, m, copies[m] + 1, 0)))
          PROVE  FsTypeOK' /\ AppTypeOK' /\ Served'
      <3> DEFINE t == WriteTask(MessageDoc(d.id, m, copies[m] + 1, 0))
      <3>1. d.id \in Channels
        BY <2>1, <2>3, MatchIsTheChannel
      <3>2. copies' \in Seq(Nat) /\ Len(copies') = Len(copies)
            /\ copies[m] + 1 \in Nat
        BY <2>1, <2>3 DEF AppTypeOK
      <3>3. t \in Task /\ t.op = "write"
        BY <1>5, <3>1, <3>2, MadeDocType, TaskType DEF WriteTask
      <3>4. workerQueue' = Append(workerQueue, t)
        BY <2>3
      <3> HIDE DEF t
      <3>5. workerQueue' \in Seq(Task)
        BY <3>3, <3>4 DEF FsTypeOK
      <3>6. ServedTasks'
        BY <1>2, <3>3, <3>4, AppendTaskServed
      <3>7. ServedListeners'
        BY <1>1, <1>2, GrownServes DEF Served, ServedListeners
      <3>8. UNCHANGED <<channelsList, messagesList>>
        BY <1>10 DEF OnChannelsForSend
      <3>9. FsTypeOK'
        BY <1>1, <1>3, <3>5 DEF FsTypeOK, MainOK
      <3>10. AppTypeOK'
        BY <1>1, <3>2, <3>8 DEF AppTypeOK
      <3> QED
        BY <1>4, <3>6, <3>7, <3>9, <3>10 DEF Served
    <2> QED
      BY <1>10, <2>2, <2>3 DEF OnChannelsForSend, Matches
  <1> QED
    BY <1>1, <1>7, <1>8, <1>9, <1>10 DEF cb, m

-----------------------------------------------------------------------------
(* Type correctness *)

LEMMA UserServed ==
  ASSUME FsTypeOK, AppTypeOK, Served,
         didSelectRow \/ sendFakeMessage \/ channelButtonTapped
  PROVE  Served'
  <1>1. UNCHANGED <<listeners, mainQueue>>
    BY DEF didSelectRow, sendFakeMessage, channelButtonTapped
  <1>2. CASE didSelectRow
    <2>0. PICK channel \in channelsList :
            /\ conversations' = Append(conversations, channel)
            /\ workerQueue' = Append(workerQueue,
                  getAllMessages(channel, Len(conversations) + 1))
      BY <1>2 DEF didSelectRow
    <2>1. PICK n, t :
            /\ n = Len(conversations) + 1
            /\ t = getAllMessages(channel, n)
            /\ conversations' = Append(conversations, channel)
            /\ workerQueue' = Append(workerQueue, t)
      BY <2>0
    <2>2. /\ DOMAIN conversations' = DOMAIN conversations \cup {n}
          /\ \A s \in DOMAIN conversations : conversations'[s] = conversations[s]
          /\ conversations'[n] = channel
          /\ n \in Nat /\ channel \in Channel
      BY <2>1, AppendElements DEF AppTypeOK
    <2>3. Grown
      BY <1>2, <2>2 DEF Grown, didSelectRow
    <2>4. t \in Task
      BY <2>1, <2>2, RegistrationType
    <2>5. Serves(t.cb, t.query)'
      BY <2>1, <2>2 DEF Serves, getAllMessages, ListenTask
    <2>6. ServedTasks'
      BY <2>1, <2>3, <2>4, <2>5, AppendTaskServed
    <2> QED
      BY <1>1, <2>3, <2>6, GrownServes
         DEF Served, ServedListeners, ServedSnapshots
  <1>3. CASE sendFakeMessage
    <2>1. PICK n, s, channel, a, b :
            /\ n = Len(sends) + 1 /\ s = top /\ channel = conversations[s]
            /\ a = createMessage(n) /\ b = getAllMessages(channel, s)
            /\ workerQueue' = workerQueue \o <<a, b>>
      BY <1>3 DEF sendFakeMessage
    <2>2. /\ DOMAIN sends' = DOMAIN sends \cup {n} /\ n \in Nat
          /\ conversations' = conversations
      BY <1>3, <2>1 DEF sendFakeMessage, AppTypeOK
    <2>3. s \in DOMAIN conversations /\ s \in Nat /\ channel \in Channel
      BY <1>3, <2>1 DEF sendFakeMessage, AppTypeOK
    <2>4. Grown
      BY <2>2 DEF Grown
    <2>5. a \in Task /\ b \in Task
      BY <2>1, <2>2, <2>3, RegistrationType
    <2>6. Serves(a.cb, a.query)' /\ Serves(b.cb, b.query)'
      BY <2>1, <2>2, <2>3 DEF Serves, createMessage, getAllMessages, ListenTask
    <2>7. \A i \in DOMAIN workerQueue' :
            \/ i \in DOMAIN workerQueue /\ workerQueue'[i] = workerQueue[i]
            \/ workerQueue'[i] \in {a, b}
      BY <2>1, <2>5 DEF FsTypeOK
    <2>8. ServedTasks'
      BY <2>4, <2>6, <2>7, GrownServes DEF Served, ServedTasks
    <2> QED
      BY <1>1, <2>4, <2>8, GrownServes
         DEF Served, ServedListeners, ServedSnapshots
  <1>4. CASE channelButtonTapped
    <2>1. PICK c \in Channels :
            workerQueue' = Append(workerQueue, WriteTask(ChannelDoc(c, 0)))
      BY <1>4 DEF channelButtonTapped
    <2> DEFINE t == WriteTask(ChannelDoc(c, 0))
    <2>2. t \in Task /\ t.op = "write"
      BY MadeDocType, TaskType DEF WriteTask
    <2>3. Grown
      BY <1>4 DEF channelButtonTapped, Grown
    <2>4. ServedTasks'
      <3> HIDE DEF t
      <3> QED
        BY <2>1, <2>2, <2>3, AppendTaskServed DEF t
    <2> QED
      BY <1>1, <2>3, <2>4, GrownServes
         DEF Served, ServedListeners, ServedSnapshots
  <1> QED
    BY <1>2, <1>3, <1>4

\* Every result is of a pending write, which the server has carried out.
Carried == \A i \in DOMAIN results : i \in DOMAIN pending /\ IsIn(pending[i], server)

\* The inductive invariant: the types, that every closure is registered with
\* the query it was written for, and that results are of their writes.
ServedInv == FsTypeOK /\ AppTypeOK /\ Served
Inv == FsTypeOK /\ AppTypeOK /\ Served /\ Carried

LEMMA InitInv == Init => Inv
  <1> SUFFICES ASSUME Init PROVE Inv
    OBVIOUS
  <1>1. FsTypeOK /\ AppTypeOK
    BY InitType DEF TypeOK, AppTypeOK
  <1>2. ServedListeners /\ ServedSnapshots
    BY DEF Init, NoListeners, ServedListeners, ServedSnapshots
  <1>3. ServedTasks
    BY DEF Init, ServedTasks, getAllChannels, ListenTask, Serves
  <1>4. Carried
    BY DEF Init, Carried
  <1> QED
    BY <1>1, <1>2, <1>3, <1>4 DEF Inv, Served

LEMMA NextServed ==
  ASSUME ServedInv, [Next]_vars
  PROVE  ServedInv'
  <1> USE DEF ServedInv
  <1>1. CASE didSelectRow
    BY <1>1, didSelectRowType, UserServed
  <1>2. CASE goBack
    BY <1>2 DEF goBack, fsvars, FsTypeOK, AppTypeOK, Served, ServedListeners,
                ServedTasks, ServedSnapshots, IsServed, Serves
  <1>3. CASE sendFakeMessage
    BY <1>3, sendFakeMessageType, UserServed
  <1>4. CASE channelButtonTapped
    BY <1>4, channelButtonTappedType, UserServed
  <1>5. CASE DeliverEvent
    BY <1>5, DeliverEventInv
  <1>6. CASE Worker
    <2>1. FsTypeOK'
      BY <1>6, RunListenTaskType, RunWriteTaskType DEF Worker
    <2>2. AppTypeOK'
      BY <1>6 DEF Worker, appvars, AppTypeOK
    <2> QED
      BY <1>6, <2>1, <2>2, WorkerServed
  <1>7. CASE Network
    <2>1. UNCHANGED appvars
      BY <1>7 DEF Network
    <2>2. AppTypeOK'
      BY <2>1 DEF appvars, AppTypeOK
    <2>3. CASE ServerCommit
      <3>1. Served'
        BY <2>1, <2>3 DEF ServerCommit, appvars, Served, ServedListeners,
                ServedTasks, ServedSnapshots, IsServed, Serves
      <3> QED
        BY <2>2, <2>3, <3>1, ServerCommitType
    <2>4. CASE HandleSuccessfulWrite
      BY <2>1, <2>2, <2>4, HandleWriteType, NetworkServed DEF appvars, Queries
    <2>5. ASSUME NEW q \in Queries, ApplyRemoteEvent(q) \/ HandleOffline(q)
          PROVE  ServedInv'
      BY <2>1, <2>2, <2>5, WatchType, NetworkServed DEF appvars
    <2> QED
      BY <1>7, <2>3, <2>4, <2>5 DEF Network
  <1>8. CASE Refusal
    <2>1. /\ UNCHANGED <<channelsList, conversations, messagesList, top, sends,
                         copies>>
          /\ spent' \in [Kinds -> Nat]
      BY <1>8, SpendType DEF Refusal, Kinds
    <2>2. AppTypeOK'
      BY <2>1 DEF AppTypeOK
    <2>3. CASE HandleRejectedWrite
      BY <2>1, <2>2, <2>3, HandleWriteType, NetworkServed DEF Queries
    <2>4. ASSUME NEW q \in Queries, HandleRejectedListen(q)
          PROVE  ServedInv'
      BY <2>1, <2>2, <2>4, RejectedListenType, RejectedListenServed
    <2>5. CASE LoseResults
      <3>1. Served'
        BY <2>1, <2>5 DEF LoseResults, Served, ServedListeners, ServedTasks,
                ServedSnapshots, IsServed, Serves
      <3> QED
        BY <2>2, <2>5, <3>1, LoseResultsType
    <2> QED
      BY <1>8, <2>3, <2>4, <2>5 DEF Refusal
  <1>9. CASE Crash
    <2>1. ServedListeners' /\ ServedSnapshots'
      BY <1>9 DEF Crash, NoListeners, ServedListeners, ServedSnapshots
    <2>2. ServedTasks'
      BY <1>9 DEF Crash, ServedTasks, getAllChannels, ListenTask, Serves
    <2> QED
      BY <1>9, <2>1, <2>2, CrashType DEF Served
  <1>10. CASE OtherClient
    <2>1. Served'
      BY <1>10 DEF OtherClient, Served, ServedListeners, ServedTasks,
                   ServedSnapshots, IsServed, Serves
    <2> QED
      BY <1>10, <2>1, OtherClientType
  <1>11. CASE UNCHANGED vars
    BY <1>11 DEF vars, fsvars, appvars, FsTypeOK, AppTypeOK, Served,
                 ServedListeners, ServedTasks, ServedSnapshots, IsServed, Serves
  <1> QED
    BY <1>1, <1>2, <1>3, <1>4, <1>5, <1>6, <1>7, <1>8, <1>9, <1>10, <1>11
       DEF Next

\* No document leaves the server, though its fields may change.
LEMMA PathsStay ==
  ASSUME FsTypeOK, [Next]_vars, NEW d, IsIn(d, server)
  PROVE  IsIn(d, server')
  <1>1. CASE UNCHANGED server
    BY <1>1 DEF IsIn, Keys
  <1>2. CASE ServerCommit
    BY <1>2, CommitFacts, WithFacts DEF IsIn
  <1>3. CASE OtherClient
    <2>0. PICK e \in server : d.coll = e.coll /\ d.id = e.id
      BY DEF IsIn, Keys
    <2>1. \E f \in server' : d.coll = f.coll /\ d.id = f.id
      <3>1. CASE e \in server'
        BY <2>0, <3>1
      <3>2. CASE e \notin server'
        <4>1. PICK v : /\ ChannelDoc(e.id, v) \in server'
                       /\ e.coll = Root
          BY <1>3, <3>2 DEF OtherClient, OthersAddChannel, OthersUpdateChannel,
                            OthersPost
        <4> QED
          BY <2>0, <4>1 DEF ChannelDoc
      <3> QED
        BY <3>1, <3>2
    <2> QED
      BY <2>1 DEF IsIn, Keys
  <1> QED
    BY <1>1, <1>2, <1>3
       DEF Next, vars, fsvars, didSelectRow, goBack, sendFakeMessage,
           channelButtonTapped, DeliverEvent, Worker, RunListenTask,
           RunWriteTask, Network, Refusal, HandleSuccessfulWrite, LoseResults,
           HandleRejectedWrite, ApplyRemoteEvent, HandleOffline,
           HandleRejectedListen, Crash

LEMMA CarriedNext ==
  ASSUME FsTypeOK, Carried, [Next]_vars
  PROVE  Carried'
  <1>0. /\ results \in Seq({"newer", "older"}) /\ pending \in Seq(Doc)
        /\ DOMAIN results = 1..Len(results) /\ DOMAIN pending = 1..Len(pending)
        /\ Len(results) \in Nat /\ Len(pending) \in Nat
    BY DEF FsTypeOK
  <1>1. \A i \in DOMAIN results : i \in DOMAIN pending /\ IsIn(pending[i], server')
    BY PathsStay DEF Carried
  <1>2. CASE results' = <<>>
    BY <1>2 DEF Carried
  <1>3. CASE DOMAIN results' = DOMAIN results /\ UNCHANGED pending
    BY <1>1, <1>3 DEF Carried
  <1>4. CASE ServerCommit
    <2> DEFINE n == Len(results) + 1
    <2>1. /\ n \in DOMAIN pending /\ UNCHANGED pending
          /\ IsIn(pending[n], server')
      BY <1>4, CommitFacts, WithFacts DEF IsIn
    <2>2. DOMAIN results' = DOMAIN results \cup {n}
      BY <1>0, <1>4, CommitFacts
    <2> QED
      BY <1>1, <2>1, <2>2 DEF Carried
  <1>5. CASE RunWriteTask
    <2>1. Head(workerQueue).doc \in Doc /\ UNCHANGED results
      BY <1>5, WorkerQueueType DEF RunWriteTask
    <2>2. \A i \in DOMAIN pending : i \in DOMAIN pending' /\ pending'[i] = pending[i]
      BY <1>0, <1>5, <2>1, AppendElements DEF RunWriteTask
    <2> QED
      BY <1>1, <2>1, <2>2 DEF Carried
  <1>6. CASE HandleSuccessfulWrite
    <2>1. /\ pending # <<>> /\ pending' = Tail(pending)
          /\ results # <<>> /\ results' = Tail(results)
      BY <1>6 DEF HandleSuccessfulWrite
    <2>2. \A i \in DOMAIN results' : i \in Nat /\ i + 1 \in DOMAIN results
      BY <1>0, <2>1
    <2>3. \A i \in Nat : i + 1 \in DOMAIN pending /\ i # 0 =>
                           i \in DOMAIN pending' /\ pending'[i] = pending[i + 1]
      BY <1>0, <2>1
    <2>4. \A i \in DOMAIN results' : i # 0
      BY <1>0, <2>1
    <2> QED
      BY <1>1, <2>2, <2>3, <2>4 DEF Carried
  <1> QED
    BY <1>2, <1>3, <1>4, <1>5, <1>6
       DEF Next, vars, fsvars, didSelectRow, goBack, sendFakeMessage,
           channelButtonTapped, DeliverEvent, Worker, RunListenTask, Network,
           Refusal, LoseResults, HandleRejectedWrite, ApplyRemoteEvent,
           HandleOffline, HandleRejectedListen, Crash, OtherClient

LEMMA NextInv ==
  ASSUME Inv, [Next]_vars
  PROVE  Inv'
  BY NextServed, CarriedNext DEF Inv, ServedInv

LEMMA Invariance == Spec => []Inv
  <1>1. Inv /\ [Next]_vars => Inv'
    BY NextInv
  <1> QED
    BY InitInv, <1>1, PTL DEF Spec

\* The state always has the types the code gives it, and what the code leaves
\* implicit: queues are sequences of what they are meant to carry, a screen's
\* rows and its channel exist together.
THEOREM TypeCorrect == Spec => []TypeOK
  <1>1. Inv => TypeOK
    BY DEF Inv, TypeOK, AppTypeOK
  <1> QED
    BY Invariance, <1>1, PTL

-----------------------------------------------------------------------------
(***************************************************************************)
(* PART 2.  Delivery: a message is only ever in the channel its Send was   *)
(* tapped in.                                                              *)
(***************************************************************************)

\* d, if it is a message of this device, is where it belongs.
InPlace(d) ==
  (d.coll # Root /\ d.id[1] # 0) =>
    /\ d.id[1] \in DOMAIN sends
    /\ d.coll = sends[d.id[1]].channel.identifier

LEMMA InPlaceMeansNoCrossDelivery ==
  NoCrossDelivery <=> \A d \in Everywhere : InPlace(d)
  BY DEF NoCrossDelivery, Own, Messages, InPlace

\* Sends are added and never changed.
SendsKept == /\ DOMAIN sends \subseteq DOMAIN sends'
             /\ \A m \in DOMAIN sends : sends'[m] = sends[m]

\* A step is harmless if the documents it adds are in place.
LEMMA AddedInPlace ==
  ASSUME NoCrossDelivery, SendsKept,
         \A d \in Everywhere' : d \in Everywhere \/ InPlace(d)'
  PROVE  NoCrossDelivery'
  <1>1. \A d \in Everywhere : InPlace(d)
    BY InPlaceMeansNoCrossDelivery
  <1>2. \A d : InPlace(d) => InPlace(d)'
    BY DEF SendsKept, InPlace
  <1>3. \A d \in Everywhere' : InPlace(d)'
    BY <1>1, <1>2
  <1> QED
    BY <1>3 DEF NoCrossDelivery, Own, Messages, InPlace

-----------------------------------------------------------------------------
(* Where the documents of a step come from *)

\* Writes of this device that are on their way, or were refused.
Outgoing == Elements(pending) \cup rejected \cup QueuedWrites

LEMMA AppendedTask ==
  ASSUME FsTypeOK, NEW t \in Task, workerQueue' = Append(workerQueue, t)
  PROVE  \A d \in QueuedWrites' :
           d \in QueuedWrites \/ (t.op = "write" /\ d = t.doc)
  <1>1. Elements(workerQueue') = Elements(workerQueue) \cup {t}
    BY AppendElements DEF FsTypeOK
  <1> QED
    BY <1>1 DEF QueuedWrites

LEMMA TakenTask ==
  ASSUME FsTypeOK, workerQueue # <<>>, workerQueue' = Tail(workerQueue)
  PROVE  /\ QueuedWrites' \subseteq QueuedWrites
         /\ Head(workerQueue).op = "write"
              => Head(workerQueue).doc \in QueuedWrites
  <1>1. /\ Head(workerQueue) \in Elements(workerQueue)
        /\ Elements(workerQueue') \subseteq Elements(workerQueue)
    BY TailElements DEF FsTypeOK
  <1> QED
    BY <1>1 DEF QueuedWrites

LEMMA HeadIsPending ==
  ASSUME FsTypeOK, pending # <<>>
  PROVE  /\ Head(pending) \in Elements(pending)
         /\ Elements(Tail(pending)) \subseteq Elements(pending)
  BY TailElements DEF FsTypeOK

\* What the user does writes no message: a Send only registers listeners.
LEMMA UserStep ==
  ASSUME Inv, didSelectRow \/ sendFakeMessage \/ channelButtonTapped
  PROVE  /\ UNCHANGED <<server, cache, pending, rejected, mainQueue>>
         /\ SendsKept
         /\ \A d \in QueuedWrites' : d \in QueuedWrites \/ d.coll = Root
  <1>0. FsTypeOK /\ AppTypeOK
    BY DEF Inv
  <1>1. UNCHANGED <<server, cache, pending, rejected, mainQueue>>
    BY DEF didSelectRow, sendFakeMessage, channelButtonTapped
  <1>2. CASE didSelectRow
    <2>1. PICK channel \in channelsList :
            workerQueue' = Append(workerQueue,
              getAllMessages(channel, Len(conversations) + 1))
      BY <1>2 DEF didSelectRow
    <2>2. PICK t : t = getAllMessages(channel, Len(conversations) + 1)
      OBVIOUS
    <2>3. t \in Task /\ t.op = "listen"
      BY <1>0, <2>2, RegistrationType DEF AppTypeOK, getAllMessages, ListenTask
    <2>4. QueuedWrites' \subseteq QueuedWrites
      BY <1>0, <2>1, <2>2, <2>3, AppendedTask
    <2> QED
      BY <1>1, <1>2, <2>4 DEF didSelectRow, SendsKept
  <1>3. CASE sendFakeMessage
    <2>1. PICK a, b : /\ a = createMessage(Len(sends) + 1)
                      /\ b = getAllMessages(conversations[top], top)
                      /\ workerQueue' = workerQueue \o <<a, b>>
      BY <1>3 DEF sendFakeMessage
    <2>2. /\ a.op = "listen" /\ b.op = "listen"
          /\ a \in Task /\ b \in Task
      <3>1. /\ top \in DOMAIN conversations /\ top \in Nat
            /\ conversations[top] \in Channel /\ Len(sends) + 1 \in Nat
        BY <1>0, <1>3 DEF sendFakeMessage, AppTypeOK
      <3>2. a \in Task /\ b \in Task
        BY <2>1, <3>1, RegistrationType
      <3> QED
        BY <2>1, <3>2 DEF createMessage, getAllMessages, ListenTask
    <2>3. \A t \in Elements(workerQueue') : t \in Elements(workerQueue) \cup {a, b}
      <3>1. workerQueue \in Seq(Task) /\ <<a, b>> \in Seq(Task)
        BY <1>0, <2>2 DEF FsTypeOK
      <3>2. \A i \in DOMAIN workerQueue' :
              \/ i \in DOMAIN workerQueue /\ workerQueue'[i] = workerQueue[i]
              \/ workerQueue'[i] \in {a, b}
        BY <2>1, <2>2, <3>1
      <3> QED
        BY <3>2 DEF Elements
    <2>4. QueuedWrites' \subseteq QueuedWrites
      BY <2>2, <2>3 DEF QueuedWrites
    <2>5. SendsKept
      BY <1>0, <1>3 DEF sendFakeMessage, SendsKept, AppTypeOK
    <2> QED
      BY <1>1, <2>4, <2>5
  <1>4. CASE channelButtonTapped
    <2>1. PICK c, t : /\ c \in Channels /\ t = WriteTask(ChannelDoc(c, 0))
                      /\ workerQueue' = Append(workerQueue, t)
      BY <1>4 DEF channelButtonTapped
    <2>2. t \in Task /\ t.doc.coll = Root
      BY <2>1, MadeDocType, TaskType DEF WriteTask, ChannelDoc
    <2>3. \A d \in QueuedWrites' : d \in QueuedWrites \/ d.coll = Root
      BY <1>0, <2>1, <2>2, AppendedTask
    <2> QED
      BY <1>1, <1>4, <2>3 DEF channelButtonTapped, SendsKept
  <1> QED
    BY <1>2, <1>3, <1>4

\* The library moves writes, it makes none.
LEMMA LibraryStep ==
  ASSUME Inv, Worker \/ Network \/ Refusal
  PROVE  /\ UNCHANGED sends
         /\ Outgoing' \subseteq Outgoing
         /\ server' \subseteq server \cup Elements(pending)
         /\ cache' \subseteq cache \cup server \cup Elements(pending)
  <1>0. FsTypeOK
    BY DEF Inv
  <1>1. UNCHANGED sends
    BY DEF Worker, Network, Refusal, appvars
  <1>2. CASE RunListenTask
    <2>1. QueuedWrites' \subseteq QueuedWrites
      BY <1>0, <1>2, TakenTask DEF RunListenTask
    <2> QED
      BY <1>1, <1>2, <2>1 DEF RunListenTask, Outgoing, Elements
  <1>3. CASE RunWriteTask
    <2>1. /\ QueuedWrites' \subseteq QueuedWrites
          /\ Head(workerQueue).doc \in QueuedWrites
      BY <1>0, <1>3, TakenTask DEF RunWriteTask
    <2>2. Head(workerQueue).doc \in Doc
      BY <1>0, <1>3, WorkerQueueType DEF RunWriteTask
    <2>3. Elements(pending') = Elements(pending) \cup {Head(workerQueue).doc}
      BY <1>0, <1>3, <2>2, AppendElements DEF RunWriteTask, FsTypeOK
    <2> QED
      BY <1>1, <1>3, <2>1, <2>3 DEF RunWriteTask, Outgoing
  <1>4. CASE ServerCommit
    <2>1. \A d \in server' : d \in server \cup Elements(pending)
      BY <1>0, <1>4, CommitFacts, WithFacts
    <2> QED
      BY <1>1, <1>4, <2>1 DEF ServerCommit, Outgoing, Elements, QueuedWrites
  <1>5. CASE HandleSuccessfulWrite
    BY <1>0, <1>1, <1>5, HeadIsPending, WithFacts
       DEF HandleSuccessfulWrite, Outgoing, QueuedWrites
  <1>6. CASE HandleRejectedWrite
    BY <1>0, <1>1, <1>6, HeadIsPending
       DEF HandleRejectedWrite, Outgoing, QueuedWrites
  <1>7. ASSUME NEW q \in Queries,
               ApplyRemoteEvent(q) \/ HandleOffline(q) \/ HandleRejectedListen(q)
        PROVE  /\ Outgoing' \subseteq Outgoing
               /\ server' = server /\ cache' \subseteq cache \cup server
    BY <1>7 DEF ApplyRemoteEvent, HandleOffline, HandleRejectedListen,
                Outgoing, QueuedWrites, Elements
  <1>8. CASE LoseResults
    BY <1>1, <1>8 DEF LoseResults, Outgoing, QueuedWrites, Elements
  <1> QED
    BY <1>1, <1>2, <1>3, <1>4, <1>5, <1>6, <1>7, <1>8
       DEF Worker, Network, Refusal

\* A delivery writes at most a message of a Send, for a channel equal to the
\* one the Send captured, and with a document in the snapshot delivered.
LEMMA DeliveryStep ==
  ASSUME Inv, DeliverEvent
  PROVE  /\ UNCHANGED <<server, cache, pending, rejected, sends>>
         /\ \A d \in QueuedWrites' :
              \/ d \in QueuedWrites
              \/ \E m \in DOMAIN sends, k \in Nat :
                   /\ d = MessageDoc(sends[m].channel.identifier, m, k, 0)
                   /\ \E e \in Head(mainQueue).docs : e.coll = Root /\ e.id = d.coll
  <1>0. FsTypeOK /\ AppTypeOK /\ Served
    BY DEF Inv
  <1>1. UNCHANGED <<server, cache, pending, rejected, sends>>
    BY DEF DeliverEvent
  <1> DEFINE Listed(c) == \E e \in Head(mainQueue).docs : e.coll = Root /\ e.id = c
             Written(d) == \E m \in DOMAIN sends, k \in Nat :
                   /\ d = MessageDoc(sends[m].channel.identifier, m, k, 0)
                   /\ Listed(d.coll)
  <1>2. SUFFICES \A d \in QueuedWrites' : d \in QueuedWrites \/ Written(d)
    BY <1>1
  <1>3. CASE UNCHANGED workerQueue
    BY <1>3 DEF QueuedWrites, Elements
  <1>4. ASSUME NEW i \in DOMAIN Head(mainQueue).to, IsNext(i), TakeEvent(i),
               Head(mainQueue).to[i].kind = "send",
               OnChannelsForSend(Head(mainQueue).docs, Head(mainQueue).to[i].arg)
        PROVE  \A d \in QueuedWrites' : d \in QueuedWrites \/ Written(d)
    <2>0. PICK m : m = Head(mainQueue).to[i].arg
      OBVIOUS
    <2>1. /\ m \in DOMAIN sends /\ m \in DOMAIN copies
          /\ \A d \in Head(mainQueue).docs : d.coll = Root
      <3>1. Grown /\ MainOK
        BY <1>0, <1>1 DEF DeliverEvent, Grown, FsTypeOK, MainOK
      <3>2. IsServed(Head(mainQueue))
        BY <1>0, <1>4, <3>1, TakeServed DEF Served
      <3>3. PICK q \in Queries : /\ Serves(Head(mainQueue).to[i], q)
                                 /\ \A d \in Head(mainQueue).docs : d.coll = q
        BY <1>4, <3>2 DEF IsServed
      <3> QED
        BY <1>0, <1>4, <2>0, <3>3 DEF Serves, AppTypeOK
    <2>2. CASE UNCHANGED workerQueue
      BY <1>3, <2>2
    <2>3. ASSUME NEW d \in Head(mainQueue).docs,
                 channelFromSnapshot(d) = sends[m].channel,
                 workerQueue' = Append(workerQueue,
                   WriteTask(MessageDoc(d.id, m, copies[m] + 1, 0)))
          PROVE  \A e \in QueuedWrites' : e \in QueuedWrites \/ Written(e)
      <3>1. d.id = sends[m].channel.identifier /\ d.id \in Channels
        BY <1>0, <2>1, <2>3, MatchIsTheChannel
      <3>2. PICK k, e, t : /\ k = copies[m] + 1
                           /\ e = MessageDoc(d.id, m, k, 0)
                           /\ t = WriteTask(e)
        OBVIOUS
      <3>3. m \in Nat /\ k \in Nat
        BY <1>0, <2>1, <3>2 DEF AppTypeOK
      <3>4. t \in Task /\ t.doc = e
        BY <3>1, <3>2, <3>3, MadeDocType, TaskType DEF WriteTask
      <3>5. Written(e)
        <4>1. Listed(e.coll)
          BY <2>1, <2>3, <3>2 DEF MessageDoc
        <4> HIDE DEF Listed
        <4> QED
          BY <2>1, <3>1, <3>2, <3>3, <4>1
      <3> HIDE DEF Written
      <3> QED
        BY <1>0, <2>3, <3>2, <3>4, <3>5, AppendedTask
    <2> QED
      BY <1>4, <2>0, <2>2, <2>3 DEF OnChannelsForSend, Matches
  <1> QED
    BY <1>3, <1>4 DEF DeliverEvent, OnChannels, OnMessages

\* What other clients write is of no Send, and what a crash loses was not
\* written yet.
LEMMA OthersStep ==
  ASSUME Inv, Crash \/ OtherClient \/ goBack \/ UNCHANGED vars
  PROVE  /\ UNCHANGED <<cache, pending, rejected, sends>>
         /\ QueuedWrites' \subseteq QueuedWrites
         /\ \A d \in server' : d \in server \/ d.coll = Root \/ d.id[1] = 0
         /\ \A d \in server : d \in server' \/ d.coll = Root
  <1>1. CASE Crash
    <2>1. QueuedWrites' = {}
      BY <1>1 DEF Crash, QueuedWrites, Elements, getAllChannels, ListenTask
    <2> QED
      BY <1>1, <2>1 DEF Crash
  <1>2. CASE OtherClient
    BY <1>2 DEF OtherClient, OthersAddChannel, OthersUpdateChannel, OthersPost,
                ChannelDoc, MessageDoc, QueuedWrites, Elements
  <1>3. CASE goBack \/ UNCHANGED vars
    BY <1>3 DEF goBack, vars, fsvars, appvars, Elements, QueuedWrites
  <1> QED
    BY <1>1, <1>2, <1>3

-----------------------------------------------------------------------------
(* The theorem *)

\* A message is only ever, anywhere, in the collection of the channel it was
\* sent to (FirebaseService.createMessage, whose listener looks the channel up).
THEOREM NoCrossDeliveryHolds == Spec => []NoCrossDelivery
  <1>1. Init => NoCrossDelivery
    BY DEF Init, NoCrossDelivery, Own, Messages, Everywhere, Elements,
           QueuedWrites, getAllChannels, ListenTask, ChannelDoc
  <1>2. Inv /\ NoCrossDelivery /\ [Next]_vars => NoCrossDelivery'
    <2> SUFFICES ASSUME Inv, NoCrossDelivery, [Next]_vars
                 PROVE  NoCrossDelivery'
      OBVIOUS
    <2>0. Everywhere = server \cup cache \cup Outgoing
      BY DEF Everywhere, Outgoing
    <2>1. CASE didSelectRow \/ sendFakeMessage \/ channelButtonTapped
      BY <2>1, UserStep, AddedInPlace DEF Everywhere, Elements, InPlace
    <2>2. CASE Worker \/ Network \/ Refusal
      <3>1. Everywhere' \subseteq Everywhere
        BY <2>0, <2>2, LibraryStep DEF Everywhere, Outgoing
      <3> QED
        BY <2>2, <3>1, LibraryStep, AddedInPlace DEF SendsKept
    <2>3. CASE DeliverEvent
      <3>1. ASSUME NEW m \in DOMAIN sends, NEW k \in Nat
            PROVE  InPlace(MessageDoc(sends[m].channel.identifier, m, k, 0))
        BY DEF InPlace, MessageDoc
      <3>2. \A d \in Everywhere' : d \in Everywhere \/ InPlace(d)
        BY <2>3, <3>1, DeliveryStep DEF Everywhere, Elements
      <3>3. \A d : InPlace(d) => InPlace(d)'
        BY <2>3, DeliveryStep DEF InPlace
      <3> QED
        BY <2>3, <3>2, <3>3, DeliveryStep, AddedInPlace DEF SendsKept
    <2>4. CASE Crash \/ OtherClient \/ goBack \/ UNCHANGED vars
      <3>1. \A d \in Everywhere' : d \in Everywhere \/ InPlace(d)'
        BY <2>4, OthersStep DEF Everywhere, Elements, InPlace
      <3> QED
        BY <2>4, <3>1, OthersStep, AddedInPlace DEF SendsKept
    <2> QED
      BY <2>1, <2>2, <2>3, <2>4 DEF Next
  <1> QED
    BY Invariance, <1>1, <1>2, PTL DEF Spec

-----------------------------------------------------------------------------
(***************************************************************************)
(* PART 3.  Screens and channels: what a conversation screen shows belongs *)
(* to its channel and is on the server, on its way there, or refused; and  *)
(* no message of this device is on the server without its channel.         *)
(***************************************************************************)

Known == server \cup Elements(pending) \cup rejected

\* Messages of this device look the same wherever they are, and it writes
\* none in another's name.
Genuine == /\ \A d \in Own(server) : d.ver = 0
           /\ \A d \in Messages(Outgoing) : d.id[1] # 0 /\ d.ver = 0

\* Whatever a screen shows, or may come to show, is known.
CacheKnown == Messages(cache) \subseteq server
QueueKnown ==
  \A k \in DOMAIN mainQueue : Messages(mainQueue[k].docs) \subseteq Known
RowsKnown ==
  \A s \in DOMAIN messagesList : \A d \in messagesList[s] :
    d.coll = conversations[s].identifier /\ d \in Known

-----------------------------------------------------------------------------
(* Messages of this device *)

\* What this device may write.
MadeHere(d) == d.coll # Root => d.id[1] # 0 /\ d.ver = 0

LEMMA GenuineStep ==
  ASSUME Genuine,
         \A d \in Outgoing' : d \in Outgoing \/ MadeHere(d),
         \A d \in server' : d \in server \cup Outgoing
                            \/ d.coll = Root \/ d.id[1] = 0
  PROVE  Genuine'
  <1>1. \A d \in Messages(Outgoing') : d.id[1] # 0 /\ d.ver = 0
    BY DEF Genuine, Messages, MadeHere
  <1>2. \A d \in Own(server') : d.ver = 0
    BY DEF Genuine, Messages, Own
  <1> QED
    BY <1>1, <1>2 DEF Genuine, Messages, Own

LEMMA GenuineNext ==
  ASSUME Inv, Genuine, [Next]_vars
  PROVE  Genuine'
  <1>1. CASE didSelectRow \/ sendFakeMessage \/ channelButtonTapped
    BY <1>1, UserStep, GenuineStep DEF Outgoing, Elements, MadeHere
  <1>2. CASE Worker \/ Network \/ Refusal
    BY <1>2, LibraryStep, GenuineStep DEF Outgoing
  <1>3. CASE DeliverEvent
    <2>1. ASSUME NEW m \in DOMAIN sends, NEW k \in Nat
          PROVE  MadeHere(MessageDoc(sends[m].channel.identifier, m, k, 0))
      BY DEF MadeHere, MessageDoc, Inv, AppTypeOK
    <2>2. \A d \in Outgoing' : d \in Outgoing \/ MadeHere(d)
      BY <1>3, <2>1, DeliveryStep DEF Outgoing, Elements
    <2> QED
      BY <1>3, <2>2, DeliveryStep, GenuineStep
  <1>4. CASE Crash \/ OtherClient \/ goBack \/ UNCHANGED vars
    BY <1>4, OthersStep, GenuineStep DEF Outgoing, Elements
  <1> QED
    BY <1>1, <1>2, <1>3, <1>4 DEF Next

\* The write whose result is read has been carried out.
LEMMA HeadIsCarried ==
  ASSUME Inv, pending # <<>>, results # <<>>
  PROVE  IsIn(Head(pending), server)
  <1>1. results \in Seq({"newer", "older"}) /\ pending \in Seq(Doc)
    BY DEF Inv, FsTypeOK
  <1>2. 1 \in DOMAIN results /\ Head(pending) = pending[1]
    BY <1>1
  <1> QED
    BY <1>2 DEF Inv, Carried

\* A message set again is the one that was there.
LEMMA CommitKeepsMessages ==
  ASSUME Inv, Genuine, ServerCommit
  PROVE  Messages(server) \subseteq server'
  <1> SUFFICES ASSUME NEW d \in Messages(server) PROVE d \in server'
    OBVIOUS
  <1>1. PICK w \in Elements(pending) : w \in Doc /\ server' = With(w, server)
    BY CommitFacts DEF Inv
  <1>2. CASE d.coll = w.coll /\ d.id = w.id
    <2>1. d.coll # Root /\ w.coll # Root /\ d \in Doc
      BY <1>2 DEF Messages, Inv, FsTypeOK
    <2>2. w.id[1] # 0 /\ w.ver = 0
      BY <1>1, <2>1 DEF Genuine, Messages, Outgoing
    <2>3. d.ver = 0
      BY <1>2, <2>2 DEF Genuine, Own
    <2>4. d = w
      BY <1>1, <1>2, <2>1, <2>2, <2>3, RootAssumption DEF Doc
    <2> QED
      BY <1>1, <2>4, WithFacts
  <1> QED
    BY <1>1, <1>2, WithFacts DEF Messages

\* An acknowledged message is on the server as it was sent.
LEMMA AcknowledgedIsThere ==
  ASSUME Inv, Genuine, pending # <<>>, results # <<>>, Head(pending).coll # Root
  PROVE  Head(pending) \in server
  <1> DEFINE h == Head(pending)
  <1>0. IsIn(h, server)
    BY HeadIsCarried
  <1>1. h \in Elements(pending) /\ h \in Doc
    BY TailElements DEF Inv, FsTypeOK
  <1>2. PICK e \in server : e.coll = h.coll /\ e.id = h.id
    BY <1>0 DEF IsIn, Keys
  <1>3. e \in Doc
    BY DEF Inv, FsTypeOK
  <1>4. h.id[1] # 0 /\ h.ver = 0
    BY <1>1 DEF Genuine, Messages, Outgoing
  <1>5. e.ver = 0
    BY <1>2, <1>4 DEF Genuine, Own, Messages
  <1> HIDE DEF h
  <1>6. e = h
    BY <1>1, <1>2, <1>3, <1>4, <1>5, RootAssumption DEF Doc
  <1> QED
    BY <1>2, <1>6 DEF h

-----------------------------------------------------------------------------
(* What is known stays known *)

LEMMA HeadIsSettled ==
  ASSUME FsTypeOK, pending # <<>>, pending' = Tail(pending)
  PROVE  Elements(pending) = Elements(pending') \cup {Head(pending)}
  BY TailElements DEF FsTypeOK

LEMMA KnownKept ==
  ASSUME Inv, Genuine, [Next]_vars
  PROVE  Messages(Known) \subseteq Known'
  <1>0. FsTypeOK
    BY DEF Inv
  <1>1. CASE didSelectRow \/ sendFakeMessage \/ channelButtonTapped
    BY <1>1, UserStep DEF Known, Messages, Elements
  <1>2. CASE DeliverEvent
    BY <1>2, DeliveryStep DEF Known, Messages, Elements
  <1>3. CASE Crash \/ OtherClient \/ goBack \/ UNCHANGED vars
    BY <1>3, OthersStep DEF Known, Messages, Elements
  <1>4. CASE RunListenTask
    BY <1>4 DEF RunListenTask, Known, Messages, Elements
  <1>5. CASE RunWriteTask
    <2>1. Head(workerQueue).doc \in Doc
      BY <1>0, <1>5, WorkerQueueType DEF RunWriteTask
    <2>2. Elements(pending) \subseteq Elements(pending')
      BY <1>0, <1>5, <2>1, AppendElements DEF RunWriteTask, FsTypeOK
    <2> QED
      BY <1>5, <2>2 DEF RunWriteTask, Known, Messages
  <1>6. CASE ServerCommit \/ LoseResults
    <2>1. UNCHANGED <<pending, rejected>> /\ Messages(server) \subseteq server'
      BY <1>6, CommitKeepsMessages DEF ServerCommit, LoseResults, Messages
    <2> QED
      BY <2>1 DEF Known, Messages, Elements
  <1>7. CASE HandleSuccessfulWrite
    BY <1>0, <1>7, HeadIsSettled, AcknowledgedIsThere
       DEF HandleSuccessfulWrite, Known, Messages
  <1>8. CASE HandleRejectedWrite
    BY <1>0, <1>8, HeadIsSettled DEF HandleRejectedWrite, Known, Messages
  <1>9. ASSUME NEW q \in Queries,
               ApplyRemoteEvent(q) \/ HandleOffline(q) \/ HandleRejectedListen(q)
        PROVE  Messages(Known) \subseteq Known'
    BY <1>9 DEF ApplyRemoteEvent, HandleOffline, HandleRejectedListen, Known,
                Messages, Elements
  <1> QED
    BY <1>1, <1>2, <1>3, <1>4, <1>5, <1>6, <1>7, <1>8, <1>9
       DEF Next, Worker, Network, Refusal

LEMMA CacheKnownNext ==
  ASSUME Inv, Genuine, CacheKnown, [Next]_vars
  PROVE  CacheKnown'
  <1>1. CASE didSelectRow \/ sendFakeMessage \/ channelButtonTapped
    BY <1>1, UserStep DEF CacheKnown, Messages
  <1>2. CASE DeliverEvent
    BY <1>2, DeliveryStep DEF CacheKnown, Messages
  <1>3. CASE Crash \/ OtherClient \/ goBack \/ UNCHANGED vars
    BY <1>3, OthersStep DEF CacheKnown, Messages
  <1>4. CASE Worker \/ LoseResults \/ HandleRejectedWrite
    BY <1>4 DEF Worker, RunListenTask, RunWriteTask, LoseResults,
                HandleRejectedWrite, CacheKnown, Messages
  <1>7. CASE ServerCommit
    BY <1>7, CommitKeepsMessages DEF ServerCommit, CacheKnown, Messages
  <1>5. CASE HandleSuccessfulWrite
    BY <1>5, AcknowledgedIsThere, WithFacts DEF HandleSuccessfulWrite, CacheKnown, Messages
  <1>6. ASSUME NEW q \in Queries,
               ApplyRemoteEvent(q) \/ HandleOffline(q) \/ HandleRejectedListen(q)
        PROVE  CacheKnown'
    BY <1>6 DEF ApplyRemoteEvent, HandleOffline, HandleRejectedListen,
                CacheKnown, Messages
  <1> QED
    BY <1>1, <1>2, <1>3, <1>4, <1>5, <1>6, <1>7 DEF Next, Network, Refusal

-----------------------------------------------------------------------------
(* Snapshots *)

\* The snapshots after a step: those before it, and new ones of known
\* documents.
NoNewsUnknown ==
  \A k \in DOMAIN mainQueue' :
    \/ \E j \in DOMAIN mainQueue : mainQueue'[k].docs = mainQueue[j].docs
    \/ Messages(mainQueue'[k].docs) \subseteq Known'

LEMMA PostedIsNew ==
  ASSUME FsTypeOK, NEW b, mainQueue' = Append(mainQueue, b),
         Messages(b.docs) \subseteq Known'
  PROVE  NoNewsUnknown
  <1>1. /\ DOMAIN mainQueue' = DOMAIN mainQueue \cup {Len(mainQueue) + 1}
        /\ \A k \in DOMAIN mainQueue : mainQueue'[k] = mainQueue[k]
        /\ mainQueue'[Len(mainQueue) + 1] = b
    BY AppendIsSeq DEF FsTypeOK
  <1> QED
    BY <1>1 DEF NoNewsUnknown

LEMMA EmittedIsNew ==
  ASSUME FsTypeOK, CacheKnown', NEW q, NEW ready, EmitNewSnapshots(q, ready)
  PROVE  NoNewsUnknown
  <1>1. CASE UNCHANGED mainQueue
    BY <1>1 DEF NoNewsUnknown
  <1>2. ASSUME NEW b, mainQueue' = Append(mainQueue, b),
               b.docs = LocalDocuments(q, cache', pending')
        PROVE  NoNewsUnknown
    <2>1. Messages(b.docs) \subseteq Known'
      BY <1>2 DEF LocalDocuments, CacheKnown, Messages, Known
    <2> QED
      BY <1>2, <2>1, PostedIsNew
  <1> QED
    BY <1>1, <1>2 DEF EmitNewSnapshots, Snapshot

LEMMA TakenIsFromBefore ==
  ASSUME FsTypeOK, NEW i, IsNext(i), TakeEvent(i)
  PROVE  /\ \A k \in DOMAIN mainQueue' :
              \E j \in DOMAIN mainQueue : mainQueue'[k].docs = mainQueue[j].docs
         /\ 1 \in DOMAIN mainQueue /\ Head(mainQueue) = mainQueue[1]
  <1> DEFINE b == Head(mainQueue)
             left == DOMAIN b.to \ {i}
             c == Snapshot(b.docs, b.error, [j \in left |-> b.to[j]], b.at)
  <1>1. /\ mainQueue # <<>> /\ b = mainQueue[1] /\ 1 \in DOMAIN mainQueue
        /\ mainQueue \in Seq(Elements(mainQueue))
    BY TailIsSeq DEF FsTypeOK, IsNext
  <1>2. CASE left = {}
    <2>1. mainQueue' = Tail(mainQueue)
      BY <1>2 DEF TakeEvent
    <2>2. \A k \in DOMAIN mainQueue' :
            k + 1 \in DOMAIN mainQueue /\ mainQueue'[k] = mainQueue[k + 1]
      BY <1>1, <2>1, TailIsSeq
    <2> QED
      BY <1>1, <2>2
  <1>3. CASE left # {}
    <2>1. mainQueue' = [mainQueue EXCEPT ![1] = c]
      BY <1>3 DEF TakeEvent
    <2>2. c.docs = mainQueue[1].docs
      BY <1>1 DEF Snapshot
    <2> HIDE DEF c
    <2>3. \A k \in DOMAIN mainQueue' :
            k \in DOMAIN mainQueue
            /\ (mainQueue'[k] = mainQueue[k] \/ mainQueue'[k].docs = mainQueue[1].docs)
      BY <1>1, <2>1, <2>2
    <2> QED
      BY <1>1, <2>3
  <1> QED
    BY <1>1, <1>2, <1>3

LEMMA TakenIsOld ==
  ASSUME FsTypeOK, NEW i, IsNext(i), TakeEvent(i)
  PROVE  /\ NoNewsUnknown
         /\ 1 \in DOMAIN mainQueue /\ Head(mainQueue) = mainQueue[1]
  BY TakenIsFromBefore DEF NoNewsUnknown

LEMMA QueueKnownNext ==
  ASSUME Inv, Genuine, CacheKnown, QueueKnown, [Next]_vars
  PROVE  QueueKnown'
  <1>0. FsTypeOK /\ CacheKnown'
    BY CacheKnownNext DEF Inv
  <1>1. SUFFICES NoNewsUnknown
    <2>1. ASSUME NEW j \in DOMAIN mainQueue
          PROVE  Messages(mainQueue[j].docs) \subseteq Known'
      BY KnownKept DEF QueueKnown, Messages
    <2>2. \A k \in DOMAIN mainQueue' : Messages(mainQueue'[k].docs) \subseteq Known'
      BY <1>1, <2>1 DEF NoNewsUnknown, Messages
    <2> QED
      BY <2>2 DEF QueueKnown, Messages
  <1>2. CASE UNCHANGED mainQueue
    BY <1>2 DEF NoNewsUnknown
  <1>3. CASE didSelectRow \/ sendFakeMessage \/ channelButtonTapped
    BY <1>2, <1>3, UserStep
  <1>4. CASE DeliverEvent
    BY <1>0, <1>4, TakenIsOld DEF DeliverEvent
  <1>5. CASE Crash
    BY <1>5 DEF Crash, NoNewsUnknown
  <1>6. CASE OtherClient \/ goBack \/ UNCHANGED vars \/ ServerCommit
             \/ LoseResults
    BY <1>2, <1>6 DEF OtherClient, goBack, vars, fsvars, ServerCommit, LoseResults
  <1>7. CASE RunListenTask
    <2>1. CASE UNCHANGED mainQueue
      BY <1>2, <2>1
    <2>2. ASSUME NEW b, NEW q, mainQueue' = Append(mainQueue, b), b.docs = View(q)
          PROVE  NoNewsUnknown
      <3>1. UNCHANGED <<server, cache, pending, rejected>>
        BY <1>7 DEF RunListenTask
      <3>2. Messages(b.docs) \subseteq Known'
        BY <2>2, <3>1 DEF View, LocalDocuments, CacheKnown, Messages, Known, Elements
      <3> QED
        BY <1>0, <2>2, <3>2, PostedIsNew
    <2> QED
      BY <1>7, <2>1, <2>2 DEF RunListenTask, AddQueryListener, Snapshot
  <1>8. CASE RunWriteTask \/ HandleSuccessfulWrite \/ HandleRejectedWrite
    BY <1>0, <1>8, EmittedIsNew
       DEF RunWriteTask, HandleSuccessfulWrite, HandleRejectedWrite
  <1>9. ASSUME NEW q \in Queries,
               ApplyRemoteEvent(q) \/ HandleOffline(q) \/ HandleRejectedListen(q)
        PROVE  NoNewsUnknown
    <2>1. CASE ApplyRemoteEvent(q) \/ HandleOffline(q)
      BY <1>0, <2>1, EmittedIsNew DEF ApplyRemoteEvent, HandleOffline
    <2>2. CASE HandleRejectedListen(q)
      <3>1. PICK b : mainQueue' = Append(mainQueue, b) /\ b.docs = {}
        BY <2>2 DEF HandleRejectedListen, Snapshot
      <3> QED
        BY <1>0, <3>1, PostedIsNew DEF Messages
    <2> QED
      BY <1>9, <2>1, <2>2
  <1> QED
    BY <1>3, <1>4, <1>5, <1>6, <1>7, <1>8, <1>9
       DEF Next, Worker, Network, Refusal

-----------------------------------------------------------------------------
(* Rows *)

LEMMA RowsKnownNext ==
  ASSUME Inv, Genuine, QueueKnown, RowsKnown, [Next]_vars
  PROVE  RowsKnown'
  <1>0. FsTypeOK /\ AppTypeOK /\ Served
    BY DEF Inv
  <1>1. ASSUME NEW s \in DOMAIN messagesList, NEW d \in messagesList[s]
        PROVE  d.coll = conversations[s].identifier /\ d \in Known'
    <2>1. conversations[s] \in Channel
      BY <1>0 DEF AppTypeOK
    <2>2. d.coll # Root
      BY <1>1, <2>1, RootAssumption DEF RowsKnown, Channel
    <2> QED
      BY <1>1, <2>2, KnownKept DEF RowsKnown, Messages
  <1>2. CASE UNCHANGED <<messagesList, conversations>>
    BY <1>1, <1>2 DEF RowsKnown
  <1>3. CASE didSelectRow
    <2>1. PICK channel \in Channel :
            /\ conversations' = Append(conversations, channel)
            /\ messagesList' = Append(messagesList, {})
      BY <1>0, <1>3 DEF didSelectRow, AppTypeOK
    <2>2. /\ DOMAIN messagesList' = DOMAIN messagesList \cup {Len(messagesList) + 1}
          /\ messagesList'[Len(messagesList) + 1] = {}
          /\ \A s \in DOMAIN messagesList : messagesList'[s] = messagesList[s]
      BY <1>0, <2>1, AppendElements DEF AppTypeOK
    <2>3. \A s \in DOMAIN messagesList : conversations'[s] = conversations[s]
      BY <1>0, <2>1 DEF AppTypeOK
    <2> QED
      BY <1>1, <2>2, <2>3 DEF RowsKnown
  <1>4. CASE Crash
    BY <1>4 DEF Crash, RowsKnown
  <1>5. CASE DeliverEvent
    <2>1. PICK i \in DOMAIN Head(mainQueue).to :
            /\ IsNext(i) /\ TakeEvent(i)
            /\ \/ UNCHANGED messagesList
               \/ /\ Head(mainQueue).to[i].kind = "messages"
                  /\ OnMessages(Head(mainQueue).docs, Head(mainQueue).to[i].arg)
            /\ UNCHANGED conversations
      BY <1>5 DEF DeliverEvent, OnChannels, OnChannelsForSend
    <2>2. PICK s, rows : /\ s = Head(mainQueue).to[i].arg
                         /\ rows = {d \in Head(mainQueue).docs : d.ver # Malformed}
      OBVIOUS
    <2>3. ASSUME Head(mainQueue).to[i].kind = "messages",
                 messagesList' = [messagesList EXCEPT ![s] = rows]
          PROVE  RowsKnown'
      <3>1. Grown /\ MainOK
        BY <1>0, <1>5 DEF DeliverEvent, Grown, FsTypeOK, MainOK
      <3>2. IsServed(Head(mainQueue))
        BY <1>0, <2>1, <3>1, TakeServed DEF Served
      <3>3. PICK q \in Queries : /\ Serves(Head(mainQueue).to[i], q)
                                 /\ \A d \in Head(mainQueue).docs : d.coll = q
        BY <2>1, <3>2 DEF IsServed
      <3>4. s \in DOMAIN conversations /\ q = conversations[s].identifier
        BY <2>2, <2>3, <3>3 DEF Serves
      <3>5. q # Root
        <4>1. conversations[s] \in Channel
          BY <1>0, <3>4 DEF AppTypeOK
        <4> QED
          BY <3>4, <4>1, RootAssumption DEF Channel
      <3>6. Messages(Head(mainQueue).docs) \subseteq Known
        BY <1>0, <2>1, TakenIsOld DEF QueueKnown
      <3>7. \A d \in rows : d.coll = q /\ d \in Known'
        BY <2>2, <3>3, <3>5, <3>6, KnownKept DEF Messages
      <3>8. \A t \in DOMAIN messagesList' :
              /\ t \in DOMAIN messagesList
              /\ messagesList'[t] = IF t = s THEN rows ELSE messagesList[t]
        BY <2>3
      <3> QED
        BY <1>1, <2>1, <3>4, <3>7, <3>8 DEF RowsKnown
    <2> QED
      BY <1>2, <2>1, <2>2, <2>3 DEF OnMessages
  <1>6. CASE goBack \/ sendFakeMessage \/ channelButtonTapped \/ Worker
             \/ Network \/ Refusal \/ OtherClient \/ UNCHANGED vars
    BY <1>2, <1>6 DEF goBack, sendFakeMessage, channelButtonTapped, Worker,
                      Network, Refusal, OtherClient, vars, appvars
  <1> QED
    BY <1>3, <1>4, <1>5, <1>6 DEF Next

-----------------------------------------------------------------------------
(* The theorem *)

ScreenInv == Genuine /\ CacheKnown /\ QueueKnown /\ RowsKnown

LEMMA InitScreenInv == Init => ScreenInv
  <1> SUFFICES ASSUME Init PROVE ScreenInv
    OBVIOUS
  <1>1. /\ \A d \in server : d.coll = Root
        /\ cache \subseteq server
        /\ Outgoing = {}
    BY DEF Init, ChannelDoc, Outgoing, Elements, QueuedWrites, getAllChannels,
           ListenTask
  <1>2. Genuine /\ CacheKnown
    BY <1>1 DEF Genuine, CacheKnown, Own, Messages
  <1>3. QueueKnown /\ RowsKnown
    BY DEF Init, QueueKnown, RowsKnown
  <1> QED
    BY <1>2, <1>3 DEF ScreenInv

\* Every row of a conversation screen is of the screen's channel, and known
\* (ConversationViewController.addAllMessages, whose closure outlives the
\* screen's time in front, fills the rows of its own screen).
THEOREM ScreensShowTheirChannelHolds == Spec => []ScreensShowTheirChannel
  <1>1. Inv /\ ScreenInv /\ [Next]_vars => ScreenInv'
    BY GenuineNext, CacheKnownNext, QueueKnownNext, RowsKnownNext DEF ScreenInv
  <1>2. Inv /\ ScreenInv => ScreensShowTheirChannel
    <2> SUFFICES ASSUME Inv, ScreenInv PROVE ScreensShowTheirChannel
      OBVIOUS
    <2>1. DOMAIN conversations = DOMAIN messagesList
      BY DEF Inv, AppTypeOK
    <2> QED
      BY <2>1 DEF ScreenInv, RowsKnown, Known, ScreensShowTheirChannel
  <1> QED
    BY Invariance, InitScreenInv, <1>1, <1>2, PTL DEF Spec

-----------------------------------------------------------------------------
(* Every message has its channel *)

HasChannel(docs, c) == \E e \in docs : e.coll = Root /\ e.id = c

\* What the server will not change its mind about.
Settled == server \cup rejected

ServerHoused == \A d \in Own(server) : HasChannel(Settled, d.coll)

\* A waiting message is behind its channel, if that is still waiting.
WaitsBehind(i) == \E j \in 1..(i - 1) : /\ pending[j].coll = Root
                                       /\ pending[j].id = pending[i].coll
PendingHoused ==
  \A i \in DOMAIN pending :
    pending[i].coll # Root => HasChannel(Settled, pending[i].coll) \/ WaitsBehind(i)

TasksHoused == \A d \in Messages(QueuedWrites) : HasChannel(Known, d.coll)

\* The channels the app hears of are known ones.
CacheHoused == \A d \in cache : d.coll = Root => HasChannel(Known, d.id)
NewsHoused == \A k \in DOMAIN mainQueue : \A d \in mainQueue[k].docs :
                d.coll = Root => HasChannel(Known, d.id)

HouseInv == ServerHoused /\ PendingHoused /\ TasksHoused /\ CacheHoused /\ NewsHoused

-----------------------------------------------------------------------------
(* Channels stay known *)

\* Other clients change the fields of a channel and remove none.
LEMMA ServerKeepsChannels ==
  ASSUME Inv, [Next]_vars, NEW c, HasChannel(server, c)
  PROVE  HasChannel(server', c)
  <1>1. CASE UNCHANGED server
    BY <1>1 DEF HasChannel
  <1>2. CASE OthersAddChannel \/ OthersPost
    BY <1>2 DEF OthersAddChannel, OthersPost, HasChannel
  <1>3. CASE OthersUpdateChannel
    <2>1. PICK d \in server : /\ d.coll = Root
                             /\ \E v : server' = (server \ {d}) \cup {ChannelDoc(d.id, v)}
      BY <1>3 DEF OthersUpdateChannel
    <2>2. \A v : ChannelDoc(d.id, v).coll = Root /\ ChannelDoc(d.id, v).id = d.id
      BY DEF ChannelDoc
    <2> QED
      BY <2>1, <2>2 DEF HasChannel
  <1>4. CASE ServerCommit
    <2>1. PICK e \in server : e.coll = Root /\ e.id = c
      BY DEF HasChannel
    <2> QED
      BY <1>4, <2>1, CommitFacts, WithFacts DEF HasChannel, Inv
  <1> QED
    BY <1>1, <1>2, <1>3, <1>4
       DEF Next, OtherClient, vars, fsvars, didSelectRow, goBack, sendFakeMessage,
           channelButtonTapped, DeliverEvent, Worker, RunListenTask,
           RunWriteTask, Network, Refusal, LoseResults, HandleSuccessfulWrite,
           HandleRejectedWrite, ApplyRemoteEvent, HandleOffline,
           HandleRejectedListen, Crash

LEMMA SettledKept ==
  ASSUME Inv, [Next]_vars, NEW c, HasChannel(Settled, c)
  PROVE  HasChannel(Settled', c)
  <1>1. rejected \subseteq rejected'
    <2>1. CASE didSelectRow \/ sendFakeMessage \/ channelButtonTapped
      BY <2>1, UserStep
    <2>2. CASE DeliverEvent
      BY <2>2, DeliveryStep
    <2>3. CASE Crash \/ OtherClient \/ goBack \/ UNCHANGED vars
      BY <2>3, OthersStep
    <2>4. CASE Worker \/ Network \/ Refusal
      BY <2>4 DEF Worker, RunListenTask, RunWriteTask, Network, Refusal, LoseResults,
                  ServerCommit, HandleSuccessfulWrite, HandleRejectedWrite,
                  ApplyRemoteEvent, HandleOffline, HandleRejectedListen
    <2> QED
      BY <2>1, <2>2, <2>3, <2>4 DEF Next
  <1> QED
    BY <1>1, ServerKeepsChannels DEF Settled, HasChannel

\* How the mutation queue may change in a step.
PendingChange ==
  \/ UNCHANGED pending
  \/ RunWriteTask
  \/ /\ HandleSuccessfulWrite \/ HandleRejectedWrite
     /\ Elements(pending) = Elements(pending') \cup {Head(pending)}
     /\ Head(pending).coll = Root => HasChannel(Settled', Head(pending).id)

LEMMA PendingChanges ==
  ASSUME Inv, [Next]_vars
  PROVE  PendingChange
  <1>0. FsTypeOK
    BY DEF Inv
  <1>1. CASE HandleSuccessfulWrite
    <2>1. UNCHANGED <<server, rejected>>
      BY <1>1 DEF HandleSuccessfulWrite
    <2>2. Head(pending).coll = Root => HasChannel(Settled', Head(pending).id)
      BY <1>1, <2>1, HeadIsCarried
         DEF HandleSuccessfulWrite, IsIn, Keys, HasChannel, Settled
    <2> QED
      BY <1>0, <1>1, <2>2, HeadIsSettled DEF HandleSuccessfulWrite, PendingChange
  <1>2. CASE HandleRejectedWrite
    BY <1>0, <1>2, HeadIsSettled
       DEF HandleRejectedWrite, PendingChange, HasChannel, Settled
  <1> QED
    BY <1>1, <1>2
       DEF PendingChange, Next, vars, fsvars, didSelectRow, goBack,
           sendFakeMessage, channelButtonTapped, DeliverEvent, Worker,
           RunListenTask, Network, Refusal, LoseResults, ServerCommit, ApplyRemoteEvent,
           HandleOffline, HandleRejectedListen, Crash, OtherClient

LEMMA ChannelStaysKnown ==
  ASSUME Inv, [Next]_vars, NEW c, HasChannel(Known, c)
  PROVE  HasChannel(Known', c)
  <1>1. CASE HasChannel(Settled, c)
    BY <1>1, SettledKept DEF HasChannel, Settled, Known
  <1>2. CASE HasChannel(Elements(pending), c)
    <2>0. FsTypeOK
      BY DEF Inv
    <2>1. CASE UNCHANGED pending
      BY <1>2, <2>1 DEF HasChannel, Known, Elements
    <2>2. CASE RunWriteTask
      <3>1. Head(workerQueue).doc \in Doc
        BY <2>0, <2>2, WorkerQueueType DEF RunWriteTask
      <3>2. Elements(pending) \subseteq Elements(pending')
        BY <2>0, <2>2, <3>1, AppendElements DEF RunWriteTask, FsTypeOK
      <3> QED
        BY <1>2, <3>2 DEF HasChannel, Known
    <2>3. ASSUME Elements(pending) = Elements(pending') \cup {Head(pending)},
                 Head(pending).coll = Root => HasChannel(Settled', Head(pending).id)
          PROVE  HasChannel(Known', c)
      BY <1>2, <2>3 DEF HasChannel, Known, Settled
    <2> QED
      BY <2>1, <2>2, <2>3, PendingChanges DEF PendingChange
  <1> QED
    BY <1>1, <1>2 DEF HasChannel, Settled, Known

-----------------------------------------------------------------------------
(* The parts of the invariant, one step on *)

LEMMA ServerHousedNext ==
  ASSUME Inv, ServerHoused, PendingHoused, [Next]_vars
  PROVE  ServerHoused'
  <1>0. FsTypeOK
    BY DEF Inv
  <1>1. ASSUME NEW d \in Own(server) PROVE HasChannel(Settled', d.coll)
    BY SettledKept DEF ServerHoused
  <1>2. CASE \A d \in server' : d \in server \/ d.coll = Root \/ d.id[1] = 0
    BY <1>1, <1>2 DEF ServerHoused, Own, Messages
  <1>3. CASE ServerCommit
    <2>1. PICK i \in DOMAIN pending :
            /\ \A j \in 1..(i - 1) : IsIn(pending[j], server)
            /\ server' = With(pending[i], server)
      <3>1. \A j \in 1..((Len(results) + 1) - 1) : j \in DOMAIN results
        BY <1>0 DEF FsTypeOK
      <3> QED
        BY <1>0, <1>3, <3>1, CommitFacts DEF Inv, Carried
    <2>2. ASSUME pending[i].coll # Root
          PROVE  HasChannel(Settled, pending[i].coll)
      <3>2. CASE WaitsBehind(i)
        <4>1. PICK j \in 1..(i - 1) : /\ pending[j].coll = Root
                                     /\ pending[j].id = pending[i].coll
          BY <3>2 DEF WaitsBehind
        <4> QED
          BY <2>1, <4>1 DEF IsIn, Keys, HasChannel, Settled
      <3> QED
        BY <2>2, <3>2 DEF PendingHoused
    <2>3. pending[i].coll # Root => HasChannel(Settled', pending[i].coll)
      BY <2>2, SettledKept
    <2> QED
      BY <1>1, <2>1, <2>3, WithFacts DEF ServerHoused, Own, Messages
  <1>4. CASE Crash \/ OtherClient \/ goBack \/ UNCHANGED vars
    BY <1>2, <1>4, OthersStep
  <1>5. CASE didSelectRow \/ sendFakeMessage \/ channelButtonTapped
    BY <1>2, <1>5, UserStep
  <1>6. CASE DeliverEvent
    BY <1>2, <1>6, DeliveryStep
  <1> QED
    BY <1>2, <1>3, <1>4, <1>5, <1>6
       DEF Next, Worker, RunListenTask, RunWriteTask, Network, Refusal,
           HandleSuccessfulWrite, HandleRejectedWrite, ApplyRemoteEvent,
           HandleOffline, HandleRejectedListen, LoseResults

LEMMA PendingHousedNext ==
  ASSUME Inv, PendingHoused, TasksHoused, [Next]_vars
  PROVE  PendingHoused'
  <1>0. FsTypeOK /\ pending \in Seq(Doc) /\ DOMAIN pending = 1..Len(pending)
        /\ Len(pending) \in Nat
    BY DEF Inv, FsTypeOK
  <1>1. ASSUME NEW i \in DOMAIN pending, pending[i].coll # Root
        PROVE  HasChannel(Settled', pending[i].coll) \/ WaitsBehind(i)
    BY <1>1, SettledKept DEF PendingHoused
  <1>2. CASE UNCHANGED pending
    BY <1>1, <1>2 DEF PendingHoused, WaitsBehind
  <1>3. CASE RunWriteTask
    <2>0. PICK h, n : h = Head(workerQueue).doc /\ n = Len(pending) + 1
      OBVIOUS
    <2>1. h \in Doc /\ h \in QueuedWrites
      BY <1>0, <1>3, <2>0, WorkerQueueType, TakenTask DEF RunWriteTask
    <2>2. /\ DOMAIN pending' = DOMAIN pending \cup {n}
          /\ pending'[n] = h
          /\ \A i \in DOMAIN pending : pending'[i] = pending[i]
      BY <1>0, <1>3, <2>0, <2>1, AppendElements DEF RunWriteTask
    <2>3. ASSUME h.coll # Root
          PROVE  HasChannel(Settled', h.coll) \/ WaitsBehind(n)'
      <3>1. HasChannel(Known, h.coll)
        BY <2>1, <2>3 DEF TasksHoused, Messages
      <3>2. CASE HasChannel(Settled, h.coll)
        BY <3>2, SettledKept
      <3>3. CASE HasChannel(Elements(pending), h.coll)
        <4>1. PICK j \in 1..Len(pending) :
                pending[j].coll = Root /\ pending[j].id = h.coll
          BY <1>0, <3>3 DEF HasChannel, Elements
        <4>2. j \in 1..(n - 1) /\ j \in DOMAIN pending
          BY <1>0, <2>0
        <4>3. /\ pending'[j].coll = Root /\ pending'[j].id = h.coll
              /\ pending'[n].coll = h.coll
          BY <2>2, <4>1, <4>2
        <4> QED
          BY <4>2, <4>3 DEF WaitsBehind
      <3> QED
        BY <3>1, <3>2, <3>3 DEF HasChannel, Known, Settled
    <2>4. ASSUME NEW i \in DOMAIN pending, WaitsBehind(i) PROVE WaitsBehind(i)'
      BY <1>0, <2>2, <2>4 DEF WaitsBehind
    <2>5. ASSUME NEW i \in DOMAIN pending', pending'[i].coll # Root
          PROVE  HasChannel(Settled', pending'[i].coll) \/ WaitsBehind(i)'
      <3>1. CASE i = n
        BY <2>2, <2>3, <2>5, <3>1
      <3>2. CASE i # n
        BY <1>1, <2>2, <2>4, <2>5, <3>2
      <3> QED
        BY <3>1, <3>2
    <2> QED
      BY <2>5 DEF PendingHoused
  <1>4. ASSUME HandleSuccessfulWrite \/ HandleRejectedWrite,
               Head(pending).coll = Root => HasChannel(Settled', Head(pending).id)
        PROVE  PendingHoused'
    <2>1. /\ pending # <<>> /\ pending' = Tail(pending)
          /\ pending \in Seq(Elements(pending))
      <3>1. pending # <<>> /\ pending' = Tail(pending)
        BY <1>4 DEF HandleSuccessfulWrite, HandleRejectedWrite
      <3>2. pending \in Seq(Elements(pending))
        BY <1>0 DEF Elements
      <3> QED
        BY <3>1, <3>2
    <2>2. /\ Head(pending) = pending[1]
          /\ DOMAIN pending' = 1..(Len(pending) - 1)
          /\ \A i \in DOMAIN pending' :
               i + 1 \in DOMAIN pending /\ pending'[i] = pending[i + 1]
      BY <2>1, TailIsSeq
    <2>3. ASSUME NEW i \in DOMAIN pending', pending'[i].coll # Root
          PROVE  HasChannel(Settled', pending'[i].coll) \/ WaitsBehind(i)'
      <3>1. CASE HasChannel(Settled', pending[i + 1].coll)
        BY <2>2, <3>1
      <3>2. CASE WaitsBehind(i + 1)
        <4>1. PICK j \in 1..i : /\ pending[j].coll = Root
                               /\ pending[j].id = pending[i + 1].coll
          BY <1>0, <2>2, <3>2 DEF WaitsBehind
        <4>2. CASE j = 1
          BY <1>4, <2>2, <4>1, <4>2
        <4>3. CASE j # 1
          <5>1. /\ j - 1 \in 1..(i - 1) /\ j - 1 \in DOMAIN pending'
                /\ (j - 1) + 1 = j
            BY <1>0, <2>2, <4>3
          <5>2. pending'[j - 1] = pending[j]
            BY <2>2, <5>1
          <5> QED
            BY <2>2, <4>1, <5>1, <5>2 DEF WaitsBehind
        <4> QED
          BY <4>2, <4>3
      <3> QED
        BY <1>1, <2>2, <2>3, <3>1, <3>2
    <2> QED
      BY <2>3 DEF PendingHoused
  <1> QED
    BY <1>2, <1>3, <1>4, PendingChanges DEF PendingChange

LEMMA TasksHousedNext ==
  ASSUME Inv, TasksHoused, NewsHoused, [Next]_vars
  PROVE  TasksHoused'
  <1>0. FsTypeOK
    BY DEF Inv
  <1>1. ASSUME NEW d \in Messages(QueuedWrites) PROVE HasChannel(Known', d.coll)
    BY ChannelStaysKnown DEF TasksHoused
  <1>2. CASE \A d \in QueuedWrites' : d \in QueuedWrites \/ d.coll = Root
    BY <1>1, <1>2 DEF TasksHoused, Messages
  <1>3. CASE didSelectRow \/ sendFakeMessage \/ channelButtonTapped
    BY <1>2, <1>3, UserStep
  <1>4. CASE Crash \/ OtherClient \/ goBack \/ UNCHANGED vars
    BY <1>2, <1>4, OthersStep
  <1>5. CASE RunListenTask \/ RunWriteTask
    BY <1>0, <1>2, <1>5, TakenTask DEF RunListenTask, RunWriteTask
  <1>6. CASE Network \/ Refusal
    <2>1. UNCHANGED workerQueue
      BY <1>6 DEF Network, Refusal, LoseResults, ServerCommit, HandleSuccessfulWrite,
                  HandleRejectedWrite, ApplyRemoteEvent, HandleOffline,
                  HandleRejectedListen
    <2> QED
      BY <1>2, <2>1 DEF QueuedWrites, Elements
  <1>7. CASE DeliverEvent
    <2>1. 1 \in DOMAIN mainQueue /\ Head(mainQueue) = mainQueue[1]
      BY <1>0, <1>7, TakenIsOld DEF DeliverEvent
    <2>2. ASSUME NEW d \in QueuedWrites', d \notin QueuedWrites
          PROVE  HasChannel(Known', d.coll)
      <3>1. PICK e \in Head(mainQueue).docs : e.coll = Root /\ e.id = d.coll
        BY <1>7, <2>2, DeliveryStep
      <3>2. HasChannel(Known, d.coll)
        BY <2>1, <3>1 DEF NewsHoused
      <3> QED
        BY <3>2, ChannelStaysKnown
    <2> QED
      BY <1>1, <2>2 DEF TasksHoused, Messages
  <1> QED
    BY <1>3, <1>4, <1>5, <1>6, <1>7 DEF Next, Worker

LEMMA CacheHousedNext ==
  ASSUME Inv, CacheHoused, [Next]_vars
  PROVE  CacheHoused'
  <1>1. ASSUME NEW d \in cache \cup server \cup Elements(pending), d.coll = Root
        PROVE  HasChannel(Known', d.id)
    <2>1. HasChannel(Known, d.id)
      BY <1>1 DEF CacheHoused, HasChannel, Known
    <2> QED
      BY <2>1, ChannelStaysKnown
  <1>2. cache' \subseteq cache \cup server \cup Elements(pending)
    BY UserStep, LibraryStep, DeliveryStep, OthersStep DEF Next
  <1> QED
    BY <1>1, <1>2 DEF CacheHoused

\* What the local store may show of the channels.
LEMMA StoreHoused ==
  ASSUME CacheHoused, NEW q, NEW d \in View(q), d.coll = Root
  PROVE  HasChannel(Known, d.id)
  BY DEF View, LocalDocuments, CacheHoused, HasChannel, Known

LEMMA NewsHousedNext ==
  ASSUME Inv, CacheHoused, NewsHoused, [Next]_vars
  PROVE  NewsHoused'
  <1>0. FsTypeOK /\ CacheHoused'
    BY CacheHousedNext DEF Inv
  <1> DEFINE New(b) == \A d \in b.docs : d.coll = Root => HasChannel(Known', d.id)
  <1>1. ASSUME NEW j \in DOMAIN mainQueue PROVE New(mainQueue[j])
    BY ChannelStaysKnown DEF NewsHoused
  <1>2. ASSUME NEW b, mainQueue' = Append(mainQueue, b), New(b)
        PROVE  NewsHoused'
    <2>1. /\ DOMAIN mainQueue' = DOMAIN mainQueue \cup {Len(mainQueue) + 1}
          /\ \A k \in DOMAIN mainQueue : mainQueue'[k] = mainQueue[k]
          /\ mainQueue'[Len(mainQueue) + 1] = b
      BY <1>0, <1>2, AppendIsSeq DEF FsTypeOK
    <2> QED
      BY <1>1, <1>2, <2>1 DEF NewsHoused
  <1>3. CASE UNCHANGED mainQueue
    BY <1>1, <1>3 DEF NewsHoused
  <1>4. CASE didSelectRow \/ sendFakeMessage \/ channelButtonTapped
    BY <1>3, <1>4, UserStep
  <1>5. CASE DeliverEvent
    <2>1. \A k \in DOMAIN mainQueue' :
            \E j \in DOMAIN mainQueue : mainQueue'[k].docs = mainQueue[j].docs
      BY <1>0, <1>5, TakenIsFromBefore DEF DeliverEvent
    <2> QED
      BY <1>1, <2>1 DEF NewsHoused
  <1>6. CASE Crash
    BY <1>6 DEF Crash, NewsHoused
  <1>7. CASE OtherClient \/ goBack \/ UNCHANGED vars \/ ServerCommit
             \/ LoseResults
    BY <1>3, <1>7 DEF OtherClient, goBack, vars, fsvars, ServerCommit, LoseResults
  <1>8. CASE RunListenTask
    <2>1. ASSUME NEW b, NEW q, mainQueue' = Append(mainQueue, b), b.docs = View(q)
          PROVE  NewsHoused'
      <3>1. New(b)
        BY <2>1, StoreHoused, ChannelStaysKnown
      <3> QED
        BY <1>2, <2>1, <3>1
    <2> QED
      BY <1>3, <1>8, <2>1 DEF RunListenTask, AddQueryListener, Snapshot
  <1>9. ASSUME NEW q, NEW ready, EmitNewSnapshots(q, ready)
        PROVE  NewsHoused'
    <2>1. ASSUME NEW b, mainQueue' = Append(mainQueue, b),
                 b.docs = LocalDocuments(q, cache', pending')
          PROVE  NewsHoused'
      <3>1. New(b)
        BY <1>0, <2>1 DEF LocalDocuments, CacheHoused, HasChannel, Known
      <3> QED
        BY <1>2, <2>1, <3>1
    <2> QED
      BY <1>3, <1>9, <2>1 DEF EmitNewSnapshots, Snapshot
  <1>10. CASE RunWriteTask \/ HandleSuccessfulWrite \/ HandleRejectedWrite
    BY <1>9, <1>10 DEF RunWriteTask, HandleSuccessfulWrite, HandleRejectedWrite
  <1>11. ASSUME NEW q \in Queries,
                ApplyRemoteEvent(q) \/ HandleOffline(q) \/ HandleRejectedListen(q)
         PROVE  NewsHoused'
    <2>1. CASE ApplyRemoteEvent(q) \/ HandleOffline(q)
      BY <1>9, <2>1 DEF ApplyRemoteEvent, HandleOffline
    <2>2. CASE HandleRejectedListen(q)
      BY <1>2, <2>2 DEF HandleRejectedListen, Snapshot
    <2> QED
      BY <1>11, <2>1, <2>2
  <1> QED
    BY <1>4, <1>5, <1>6, <1>7, <1>8, <1>10, <1>11
       DEF Next, Worker, Network, Refusal

-----------------------------------------------------------------------------
(* The theorem *)

LEMMA InitHouseInv == Init => HouseInv
  <1> SUFFICES ASSUME Init PROVE HouseInv
    OBVIOUS
  <1>1. /\ \A d \in server : d.coll = Root
        /\ cache \subseteq server
        /\ pending = <<>> /\ mainQueue = <<>> /\ QueuedWrites = {}
    BY DEF Init, ChannelDoc, Elements, QueuedWrites, getAllChannels, ListenTask
  <1> QED
    BY <1>1 DEF HouseInv, ServerHoused, PendingHoused, TasksHoused, CacheHoused,
                NewsHoused, Own, Messages, HasChannel, Known

\* A message of this device is never on the server without its channel, whose
\* document was written first: both queues keep the order of the writes
\* (RemoteStore::FillWritePipeline, LocalStore's mutation queue), and a message
\* is written only for a channel a snapshot has shown (createMessage).
THEOREM NoOrphansHolds == Spec => []NoOrphans
  <1>1. Inv /\ HouseInv /\ [Next]_vars => HouseInv'
    BY ServerHousedNext, PendingHousedNext, TasksHousedNext, CacheHousedNext,
       NewsHousedNext DEF HouseInv
  <1>2. HouseInv => NoOrphans
    BY DEF HouseInv, ServerHoused, HasChannel, Settled, NoOrphans
  <1> QED
    BY Invariance, InitHouseInv, <1>1, <1>2, PTL DEF Spec

-----------------------------------------------------------------------------
(***************************************************************************)
(* PART 4.  One path per write: over both queues, the local store and the  *)
(* server no two writes of this device are of one document.                *)
(***************************************************************************)

(* What a step does to the store, and to the worker queue *)

LEMMA StoreCases ==
  ASSUME [Next]_vars
  PROVE  \/ UNCHANGED <<server, cache, pending, rejected>>
         \/ RunWriteTask
         \/ ServerCommit
         \/ HandleSuccessfulWrite
         \/ HandleRejectedWrite
         \/ \E q \in Queries : ApplyRemoteEvent(q)
         \/ OtherClient
  BY DEF Next, vars, fsvars, didSelectRow, goBack, sendFakeMessage,
         channelButtonTapped, DeliverEvent, Worker, RunListenTask, Network,
         Refusal, LoseResults, HandleOffline, HandleRejectedListen, Crash

\* A delivery that writes calls the closure of a Send with a snapshot of the
\* channels, and writes its next copy.
SendCb(m) == [kind |-> "send", arg |-> m]
Writes(i, m, d) ==
  /\ IsNext(i) /\ TakeEvent(i)
  /\ ~Head(mainQueue).error /\ Head(mainQueue).to[i] = SendCb(m)
  /\ channelFromSnapshot(d) = sends[m].channel
  /\ d.id = sends[m].channel.identifier /\ d.id \in Channels
  /\ \A e \in Head(mainQueue).docs : e.coll = Root
  /\ copies' = [copies EXCEPT ![m] = @ + 1]
  /\ workerQueue' = Append(workerQueue,
                      WriteTask(MessageDoc(d.id, m, copies[m] + 1, 0)))

LEMMA SendWrites ==
  ASSUME Inv, DeliverEvent, <<workerQueue, copies>>' # <<workerQueue, copies>>
  PROVE  \E i \in DOMAIN Head(mainQueue).to, m \in DOMAIN sends,
            d \in Head(mainQueue).docs : Writes(i, m, d)
  <1>0. FsTypeOK /\ AppTypeOK /\ Served /\ Grown /\ MainOK
    BY DEF Inv, DeliverEvent, Grown, FsTypeOK, MainOK
  <1>1. PICK i \in DOMAIN Head(mainQueue).to :
          /\ IsNext(i) /\ TakeEvent(i) /\ ~Head(mainQueue).error
          /\ Head(mainQueue).to[i].kind = "send"
          /\ OnChannelsForSend(Head(mainQueue).docs, Head(mainQueue).to[i].arg)
    BY DEF DeliverEvent, OnChannels, OnMessages
  <1>2. PICK m : m = Head(mainQueue).to[i].arg
    OBVIOUS
  <1>3. Head(mainQueue).to[i] = SendCb(m)
    BY <1>0, <1>1, <1>2, TakeEventType DEF Callback, SendCb
  <1>4. m \in DOMAIN sends /\ \A e \in Head(mainQueue).docs : e.coll = Root
    <2>1. IsServed(Head(mainQueue))
      BY <1>0, <1>1, TakeServed DEF Served
    <2>2. PICK q \in Queries : /\ Serves(Head(mainQueue).to[i], q)
                               /\ \A e \in Head(mainQueue).docs : e.coll = q
      BY <1>1, <2>1 DEF IsServed
    <2> QED
      BY <1>1, <1>2, <2>2 DEF Serves
  <1>5. PICK d \in Matches(Head(mainQueue).docs, m) :
          /\ copies' = [copies EXCEPT ![m] = @ + 1]
          /\ workerQueue' = Append(workerQueue,
                              WriteTask(MessageDoc(d.id, m, copies[m] + 1, 0)))
    BY <1>1, <1>2 DEF OnChannelsForSend
  <1>6. /\ d \in Head(mainQueue).docs
        /\ channelFromSnapshot(d) = sends[m].channel
    BY <1>5 DEF Matches
  <1>7. d.id = sends[m].channel.identifier /\ d.id \in Channels
    BY <1>0, <1>4, <1>6, MatchIsTheChannel
  <1> QED
    BY <1>1, <1>3, <1>4, <1>5, <1>6, <1>7 DEF Writes

\* The worker queue: the tasks that are appended register or write.
Registers(t) == t \in Task /\ t.op = "listen"

LEMMA TaskCases ==
  ASSUME Inv, [Next]_vars
  PROVE  \/ UNCHANGED workerQueue
         \/ workerQueue # <<>> /\ workerQueue' = Tail(workerQueue) /\ Worker
         \/ workerQueue' = <<getAllChannels>> /\ Crash
         \/ \E t : /\ Registers(t) /\ t.cb.kind = "messages"
                   /\ workerQueue' = Append(workerQueue, t)
         \/ \E t, u : /\ Registers(t) /\ t = createMessage(Len(sends) + 1)
                      /\ Registers(u) /\ u.cb.kind = "messages"
                      /\ workerQueue' = Append(Append(workerQueue, t), u)
                      /\ sendFakeMessage
         \/ \E d \in Doc : /\ workerQueue' = Append(workerQueue, WriteTask(d))
                           /\ channelButtonTapped \/ DeliverEvent
  <1>0. FsTypeOK /\ AppTypeOK /\ workerQueue \in Seq(Task)
    BY DEF Inv, FsTypeOK
  <1>1. CASE didSelectRow
    <2>1. PICK channel \in channelsList : \E t :
            /\ t = getAllMessages(channel, Len(conversations) + 1)
            /\ workerQueue' = Append(workerQueue, t)
      BY <1>1 DEF didSelectRow
    <2>2. LET t == getAllMessages(channel, Len(conversations) + 1)
          IN  Registers(t) /\ t.cb.kind = "messages"
      <3>1. getAllMessages(channel, Len(conversations) + 1) \in Task
        BY <1>0, RegistrationType DEF AppTypeOK
      <3> QED
        BY <3>1 DEF Registers, getAllMessages, ListenTask
    <2> QED
      BY <2>1, <2>2
  <1>2. CASE sendFakeMessage
    <2>1. PICK t, u : /\ t = createMessage(Len(sends) + 1)
                      /\ u = getAllMessages(conversations[top], top)
                      /\ workerQueue' = workerQueue \o <<t, u>>
      BY <1>2 DEF sendFakeMessage
    <2>2. /\ top \in DOMAIN conversations /\ top \in Nat
          /\ conversations[top] \in Channel /\ Len(sends) + 1 \in Nat
      BY <1>0, <1>2 DEF sendFakeMessage, AppTypeOK
    <2>3. t \in Task /\ u \in Task
      BY <2>1, <2>2, RegistrationType
    <2>4. t.op = "listen" /\ u.op = "listen" /\ u.cb.kind = "messages"
      BY <2>1 DEF createMessage, getAllMessages, ListenTask
    <2>5. workerQueue \o <<t, u>> = Append(Append(workerQueue, t), u)
      BY <1>0, <2>3
    <2> QED
      BY <1>2, <2>1, <2>3, <2>4, <2>5 DEF Registers
  <1>3. CASE channelButtonTapped
    BY <1>3, MadeDocType DEF channelButtonTapped
  <1>4. CASE DeliverEvent
    <2>1. CASE UNCHANGED workerQueue
      BY <2>1
    <2>2. CASE workerQueue' # workerQueue
      <3>1. PICK m \in DOMAIN sends : \E d \in Head(mainQueue).docs :
              /\ d.id \in Channels
              /\ workerQueue' = Append(workerQueue,
                                  WriteTask(MessageDoc(d.id, m, copies[m] + 1, 0)))
        BY <1>4, <2>2, SendWrites DEF Writes
      <3>2. m \in Nat /\ copies[m] + 1 \in Nat
        BY <1>0 DEF AppTypeOK
      <3> QED
        BY <1>4, <3>1, <3>2, MadeDocType
    <2> QED
      BY <2>1, <2>2
  <1>5. CASE Crash
    BY <1>5 DEF Crash
  <1> QED
    BY <1>1, <1>2, <1>3, <1>4, <1>5
       DEF Next, vars, fsvars, goBack, Worker, RunListenTask, RunWriteTask,
           Network, Refusal, ServerCommit, HandleSuccessfulWrite,
           HandleRejectedWrite, ApplyRemoteEvent, HandleOffline,
           HandleRejectedListen, LoseResults, OtherClient

-----------------------------------------------------------------------------
(* No document is written twice *)

SameKey(d, e) == d.coll = e.coll /\ d.id = e.id

LEMMA InMeansSameKey ==
  \A d, S : IsIn(d, S) <=> \E e \in S : SameKey(d, e)
  BY DEF IsIn, Keys, SameKey

\* Every write has a path of its own, over both queues, and a queued one is of
\* a document that nobody has seen yet.
IsWrite(i) == workerQueue[i].op = "write"
PendingApart ==
  \A i, j \in DOMAIN pending : SameKey(pending[i], pending[j]) => i = j
QueuedApart ==
  \A i, j \in DOMAIN workerQueue :
    IsWrite(i) /\ IsWrite(j) /\ SameKey(workerQueue[i].doc, workerQueue[j].doc)
      => i = j
QueuedUnseen == \A d \in QueuedWrites : ~IsIn(d, Known \cup cache)
PendingNotRefused == \A d \in Elements(pending) : ~IsIn(d, rejected)

\* The copies of a Send are numbered as they are written.
Numbered == \A d \in Own(Everywhere) :
              d.id[1] \in DOMAIN copies /\ d.id[2] <= copies[d.id[1]]

Apart == PendingApart /\ QueuedApart /\ QueuedUnseen /\ PendingNotRefused

-----------------------------------------------------------------------------
(* Documents made in a step *)

Novel(d) == ~IsIn(d, Known \cup cache \cup QueuedWrites)

LEMMA NumberedNext ==
  ASSUME Inv, Numbered, [Next]_vars
  PROVE  Numbered'
  <1>0. /\ FsTypeOK /\ AppTypeOK /\ copies \in Seq(Nat)
        /\ DOMAIN copies = DOMAIN sends
    BY DEF Inv, AppTypeOK
  <1>1. ASSUME NEW d \in Own(Everywhere)
        PROVE  d.id[2] \in Nat /\ d.id[1] \in Nat
    <2>1. d \in Doc
      <3>1. QueuedWrites \subseteq Doc
        BY <1>0 DEF FsTypeOK, QueuedWrites, Elements, Task
      <3> QED
        BY <1>0, <3>1 DEF Own, Messages, Everywhere, FsTypeOK, Elements
    <2> QED
      BY <2>1, DocType DEF Own, Messages
  <1>2. SUFFICES /\ \A m \in DOMAIN copies : /\ m \in DOMAIN copies'
                                            /\ copies[m] <= copies'[m]
                                            /\ copies'[m] \in Nat
                 /\ \A d \in Own(Everywhere') :
                      \/ d \in Own(Everywhere)
                      \/ d.id[1] \in DOMAIN copies /\ d.id[2] = copies'[d.id[1]]
    BY <1>0, <1>1, <1>2 DEF Numbered
  <1>3. CASE UNCHANGED copies
              /\ \A d \in Everywhere' : d \in Everywhere \/ d.coll = Root \/ d.id[1] = 0
    BY <1>0, <1>3 DEF Own, Messages
  <1>4. CASE didSelectRow \/ channelButtonTapped
    BY <1>3, <1>4, UserStep DEF Everywhere, didSelectRow, channelButtonTapped, Elements
  <1>5. CASE sendFakeMessage
    <2>1. copies' = Append(copies, 0)
      BY <1>5 DEF sendFakeMessage
    <2>2. \A m \in DOMAIN copies : m \in DOMAIN copies' /\ copies'[m] = copies[m]
      BY <1>0, <2>1
    <2>3. \A d \in Everywhere' : d \in Everywhere \/ d.coll = Root
      BY <1>5, UserStep DEF Everywhere, Elements
    <2> QED
      BY <1>0, <2>2, <2>3 DEF Own, Messages
  <1>6. CASE Worker \/ Network \/ Refusal
    <2>1. Everywhere' \subseteq Everywhere
      BY <1>6, LibraryStep DEF Everywhere, Outgoing
    <2>2. UNCHANGED copies
      BY <1>6 DEF Worker, Network, Refusal, appvars
    <2> QED
      BY <1>3, <2>1, <2>2
  <1>7. CASE Crash \/ OtherClient \/ goBack \/ UNCHANGED vars
    <2>1. UNCHANGED copies
      BY <1>7 DEF Crash, OtherClient, goBack, vars, appvars
    <2> QED
      BY <1>3, <1>7, <2>1, OthersStep DEF Everywhere, Elements
  <1>8. CASE DeliverEvent
    <2>1. UNCHANGED <<server, cache, pending, rejected, sends>>
      BY <1>8 DEF DeliverEvent
    <2>2. CASE UNCHANGED <<workerQueue, copies>>
      BY <1>3, <2>1, <2>2 DEF Everywhere, Elements, QueuedWrites
    <2>3. CASE <<workerQueue, copies>>' # <<workerQueue, copies>>
      <3>1. PICK i \in DOMAIN Head(mainQueue).to, m \in DOMAIN sends,
                 d \in Head(mainQueue).docs : Writes(i, m, d)
        BY <1>8, <2>3, SendWrites
      <3>2. PICK e : e = MessageDoc(d.id, m, copies[m] + 1, 0)
        OBVIOUS
      <3>3. /\ copies[m] \in Nat /\ m \in Nat /\ m \in DOMAIN copies
            /\ copies' = [copies EXCEPT ![m] = copies[m] + 1]
            /\ workerQueue' = Append(workerQueue, WriteTask(e))
        BY <1>0, <3>1, <3>2 DEF Writes, AppTypeOK
      <3>4. e.id = <<m, copies[m] + 1>>
        BY <3>2 DEF MessageDoc
      <3>5. WriteTask(e) \in Task /\ WriteTask(e).doc = e
        BY <1>0, <3>1, <3>2, <3>3, MadeDocType, TaskType DEF Writes, WriteTask
      <3>6. \A x \in QueuedWrites' : x \in QueuedWrites \/ x = e
        BY <1>0, <3>3, <3>5, AppendedTask
      <3>7. \A x \in Everywhere' : x \in Everywhere \/ x = e
        BY <2>1, <3>6 DEF Everywhere, Elements
      <3>8. e.id[1] = m /\ e.id[2] = copies'[m]
        BY <1>0, <3>3, <3>4
      <3>9. \A n \in DOMAIN copies : n \in DOMAIN copies' /\ copies[n] <= copies'[n] /\ copies'[n] \in Nat
        BY <1>0, <3>3
      <3> QED
        BY <3>3, <3>7, <3>8, <3>9 DEF Own, Messages
    <2> QED
      BY <2>2, <2>3
  <1> QED
    BY <1>4, <1>5, <1>6, <1>7, <1>8 DEF Next

\* What is appended to the worker queue to be written is new.
LEMMA AppendedIsNovel ==
  ASSUME Inv, Genuine, Numbered, CacheHoused, NEW d \in Doc,
         workerQueue' = Append(workerQueue, WriteTask(d)),
         channelButtonTapped \/ DeliverEvent
  PROVE  Novel(d) /\ UNCHANGED <<server, cache, pending, rejected>>
  <1>0. FsTypeOK /\ AppTypeOK /\ workerQueue \in Seq(Task)
    BY DEF Inv, FsTypeOK
  <1>1. UNCHANGED <<server, cache, pending, rejected>>
    BY DEF channelButtonTapped, DeliverEvent
  <1>2. \A e : workerQueue' = Append(workerQueue, WriteTask(e)) => e = d
    <2> SUFFICES ASSUME NEW e, workerQueue' = Append(workerQueue, WriteTask(e))
                 PROVE  e = d
      OBVIOUS
    <2>1. WriteTask(e) = WriteTask(d)
      <3> DEFINE n == Len(workerQueue) + 1
                 t == WriteTask(e)
                 u == WriteTask(d)
      <3> HIDE DEF t, u
      <3>1. Append(workerQueue, t)[n] = t /\ Append(workerQueue, u)[n] = u
        BY <1>0
      <3> QED
        BY <3>1 DEF t, u
    <2> QED
      BY <2>1 DEF WriteTask
  <1>3. CASE channelButtonTapped
    <2>1. PICK c \in Channels : IsFreshChannel(c) /\ d = ChannelDoc(c, 0)
      BY <1>2, <1>3 DEF channelButtonTapped
    <2>2. d.coll = Root /\ d.id = c /\ ~HasChannel(Known, c)
      BY <2>1, InMeansSameKey
         DEF IsFreshChannel, ChannelDoc, HasChannel, Known, SameKey
    <2>3. \A e \in cache : ~SameKey(d, e)
      BY <2>2 DEF CacheHoused, SameKey
    <2>4. \A e \in QueuedWrites : ~SameKey(d, e)
      BY <2>1, <2>2 DEF IsFreshChannel, QueuedWrites, Elements, SameKey
    <2> QED
      BY <1>1, <2>2, <2>3, <2>4, InMeansSameKey DEF Novel, HasChannel, SameKey
  <1>4. CASE DeliverEvent
    <2>1. PICK i \in DOMAIN Head(mainQueue).to, m \in DOMAIN sends,
               e \in Head(mainQueue).docs : Writes(i, m, e)
      <3>1. workerQueue' # workerQueue
        BY <1>0
      <3> QED
        BY <1>4, <3>1, SendWrites
    <2>2. d = MessageDoc(e.id, m, copies[m] + 1, 0)
      BY <1>2, <2>1 DEF Writes
    <2>3. m \in Nat \ {0} /\ copies[m] \in Nat /\ e.id \in Channels
      BY <1>0, <2>1 DEF Writes, AppTypeOK
    <2>4. d.coll # Root /\ d.id[1] = m /\ d.id[2] = copies[m] + 1
      BY <2>2, <2>3, RootAssumption DEF MessageDoc
    <2>5. ASSUME NEW f \in Everywhere PROVE ~SameKey(d, f)
      <3>1. CASE f \in Own(Everywhere)
        BY <2>3, <2>4, <3>1 DEF Numbered, SameKey
      <3>2. CASE f \notin Own(Everywhere)
        BY <2>3, <2>4, <2>5, <3>2 DEF Own, Messages, SameKey
      <3> QED
        BY <3>1, <3>2
    <2> QED
      BY <1>1, <2>5, InMeansSameKey DEF Novel, Known, Everywhere
  <1> QED
    BY <1>3, <1>4

-----------------------------------------------------------------------------
(* The invariant, one step on *)

LEMMA QueuedNext ==
  ASSUME Inv, Genuine, Numbered, CacheHoused, QueuedApart, [Next]_vars
  PROVE  QueuedApart'
  <1>0. FsTypeOK /\ workerQueue \in Seq(Task)
    BY DEF Inv, FsTypeOK
  <1>1. CASE UNCHANGED workerQueue
    BY <1>1 DEF QueuedApart, IsWrite
  <1>2. CASE workerQueue # <<>> /\ workerQueue' = Tail(workerQueue)
    <2>1. \A i \in DOMAIN workerQueue' :
            i + 1 \in DOMAIN workerQueue /\ workerQueue'[i] = workerQueue[i + 1]
      BY <1>0, <1>2
    <2>2. DOMAIN workerQueue' \subseteq Nat
      BY <1>0, <1>2
    <2> QED
      BY <2>1, <2>2 DEF QueuedApart, IsWrite
  <1>3. CASE workerQueue' = <<getAllChannels>>
    BY <1>3 DEF QueuedApart
  <1>4. ASSUME NEW t, Registers(t), workerQueue' = Append(workerQueue, t)
        PROVE  QueuedApart'
    <2>1. /\ DOMAIN workerQueue' = DOMAIN workerQueue \cup {Len(workerQueue) + 1}
          /\ \A i \in DOMAIN workerQueue : workerQueue'[i] = workerQueue[i]
          /\ workerQueue'[Len(workerQueue) + 1] = t
      BY <1>0, <1>4, AppendElements DEF Registers
    <2> QED
      BY <1>4, <2>1 DEF QueuedApart, IsWrite, Registers
  <1>5. ASSUME NEW t, NEW u, Registers(t), Registers(u),
               workerQueue' = Append(Append(workerQueue, t), u)
        PROVE  QueuedApart'
    <2>0. PICK w : w = Append(workerQueue, t)
      OBVIOUS
    <2>1. /\ DOMAIN w = DOMAIN workerQueue \cup {Len(workerQueue) + 1}
          /\ \A i \in DOMAIN workerQueue : w[i] = workerQueue[i]
          /\ w[Len(workerQueue) + 1] = t /\ w \in Seq(Task)
      BY <1>0, <1>5, <2>0, AppendElements DEF Registers
    <2>2. /\ DOMAIN workerQueue' = DOMAIN w \cup {Len(w) + 1}
          /\ \A i \in DOMAIN w : workerQueue'[i] = w[i]
          /\ workerQueue'[Len(w) + 1] = u
      BY <1>5, <2>0, <2>1, AppendElements DEF Registers
    <2> QED
      BY <1>5, <2>1, <2>2 DEF QueuedApart, IsWrite, Registers
  <1>6. ASSUME NEW d \in Doc, workerQueue' = Append(workerQueue, WriteTask(d)),
               channelButtonTapped \/ DeliverEvent
        PROVE  QueuedApart'
    <2>1. Novel(d)
      BY <1>6, AppendedIsNovel
    <2>2. \A i \in DOMAIN workerQueue : IsWrite(i) => ~SameKey(d, workerQueue[i].doc)
      BY <2>1, InMeansSameKey DEF Novel, QueuedWrites, Elements, IsWrite
    <2>3. /\ WriteTask(d) \in Task /\ WriteTask(d).doc = d
      BY TaskType DEF WriteTask
    <2>4. /\ DOMAIN workerQueue' = DOMAIN workerQueue \cup {Len(workerQueue) + 1}
          /\ \A i \in DOMAIN workerQueue : workerQueue'[i] = workerQueue[i]
          /\ workerQueue'[Len(workerQueue) + 1].doc = d
      BY <1>0, <1>6, <2>3, AppendElements
    <2> QED
      BY <2>2, <2>4 DEF QueuedApart, IsWrite, SameKey
  <1> QED
    BY <1>1, <1>2, <1>3, <1>4, <1>5, <1>6, TaskCases

LEMMA SameKeyIn ==
  ASSUME NEW d, NEW e, SameKey(d, e), NEW S
  PROVE  IsIn(d, S) <=> IsIn(e, S)
  BY DEF SameKey, IsIn

\* The task a write runs from is of no other write.
LEMMA TakenIsApart ==
  ASSUME FsTypeOK, QueuedApart, workerQueue # <<>>, Head(workerQueue).op = "write",
         workerQueue' = Tail(workerQueue)
  PROVE  \A d \in QueuedWrites' : d \in QueuedWrites /\ ~SameKey(Head(workerQueue).doc, d)
  <1>0. workerQueue \in Seq(Task)
    BY DEF FsTypeOK
  <1>1. \A i \in DOMAIN workerQueue' :
          i \in Nat /\ i + 1 \in DOMAIN workerQueue /\ workerQueue'[i] = workerQueue[i + 1] /\ i # 0
    BY <1>0
  <1>2. 1 \in DOMAIN workerQueue /\ Head(workerQueue) = workerQueue[1]
    BY <1>0
  <1>3. ASSUME NEW i \in DOMAIN workerQueue', workerQueue'[i].op = "write"
        PROVE  ~SameKey(Head(workerQueue).doc, workerQueue'[i].doc)
    <2>1. i + 1 # 1
      BY <1>1
    <2> QED
      BY <1>1, <1>2, <1>3, <2>1 DEF QueuedApart, IsWrite
  <1>4. QueuedWrites' \subseteq QueuedWrites
    BY TakenTask
  <1> QED
    BY <1>3, <1>4 DEF QueuedWrites, Elements

LEMMA PendingNext ==
  ASSUME Inv, PendingApart, QueuedUnseen, [Next]_vars
  PROVE  PendingApart'
  <1>0. FsTypeOK /\ pending \in Seq(Doc)
    BY DEF Inv, FsTypeOK
  <1>1. CASE UNCHANGED pending
    BY <1>1 DEF PendingApart
  <1>2. CASE RunWriteTask
    <2>0. PICK d, n : d = Head(workerQueue).doc /\ n = Len(pending) + 1
      OBVIOUS
    <2>1. d \in Doc /\ d \in QueuedWrites
      BY <1>0, <1>2, <2>0, WorkerQueueType, TakenTask DEF RunWriteTask
    <2>2. \A i \in DOMAIN pending : ~SameKey(d, pending[i])
      BY <2>1, InMeansSameKey DEF QueuedUnseen, Known, Elements
    <2>3. /\ DOMAIN pending' = DOMAIN pending \cup {n}
          /\ pending'[n] = d
          /\ \A i \in DOMAIN pending : pending'[i] = pending[i]
      BY <1>0, <1>2, <2>0, <2>1, AppendElements DEF RunWriteTask
    <2> QED
      BY <2>2, <2>3 DEF PendingApart, SameKey
  <1>3. CASE HandleSuccessfulWrite \/ HandleRejectedWrite
    <2>1. pending # <<>> /\ pending' = Tail(pending)
      BY <1>3 DEF HandleSuccessfulWrite, HandleRejectedWrite
    <2>2. \A i \in DOMAIN pending' :
            i \in Nat /\ i + 1 \in DOMAIN pending /\ pending'[i] = pending[i + 1]
      BY <1>0, <2>1
    <2> QED
      BY <2>2 DEF PendingApart
  <1> QED
    BY <1>1, <1>2, <1>3, StoreCases DEF ServerCommit, ApplyRemoteEvent, OtherClient

\* The head of the mutation queue is of no other pending write.
LEMMA HeadIsApart ==
  ASSUME FsTypeOK, PendingApart, pending # <<>>
  PROVE  /\ Elements(pending) = Elements(Tail(pending)) \cup {Head(pending)}
         /\ \A d \in Elements(Tail(pending)) : ~SameKey(Head(pending), d)
  <1>0. pending \in Seq(Doc)
    BY DEF FsTypeOK
  <1>1. \A i \in DOMAIN Tail(pending) :
          /\ i \in Nat /\ i + 1 # 1
          /\ i + 1 \in DOMAIN pending /\ Tail(pending)[i] = pending[i + 1]
    BY <1>0
  <1>2. 1 \in DOMAIN pending /\ Head(pending) = pending[1]
    BY <1>0
  <1>3. \A d \in Elements(Tail(pending)) : ~SameKey(Head(pending), d)
    <2> SUFFICES ASSUME NEW i \in DOMAIN Tail(pending),
                        SameKey(Head(pending), Tail(pending)[i])
                 PROVE  FALSE
      BY DEF Elements
    <2>1. i + 1 = 1
      BY <1>1, <1>2 DEF PendingApart
    <2> QED
      BY <1>1, <2>1
  <1> QED
    BY <1>0, <1>3, TailElements

\* Other clients write no document that waits to be written here.
LEMMA OthersElsewhere ==
  ASSUME Inv, Genuine, QueuedUnseen, PendingNotRefused, OtherClient
  PROVE  /\ \A d \in QueuedWrites : ~IsIn(d, server')
         /\ \A e \in server' : \/ \E f \in server : SameKey(f, e)
                               \/ e.coll = Root /\ IsFreshChannel(e.id)
                               \/ e.coll # Root /\ e.id[1] = 0
  <1>0. FsTypeOK /\ AppTypeOK
    BY DEF Inv
  <1> DEFINE Named(e) == \/ \E f \in server : SameKey(f, e)
                         \/ e.coll = Root /\ IsFreshChannel(e.id)
                         \/ e.coll # Root /\ e.id[1] = 0
  <1>1. ASSUME OthersAddChannel PROVE \A e \in server' : Named(e)
    BY <1>1 DEF OthersAddChannel, ChannelDoc, SameKey
  <1>2. ASSUME OthersUpdateChannel PROVE \A e \in server' : Named(e)
    <2>1. PICK d \in server : /\ d.coll = Root
                             /\ \E v : server' = (server \ {d}) \cup {ChannelDoc(d.id, v)}
      BY <1>2 DEF OthersUpdateChannel
    <2>2. \A v : SameKey(d, ChannelDoc(d.id, v))
      BY <2>1 DEF ChannelDoc, SameKey
    <2>3. \A e \in server' : \E f \in server : SameKey(f, e)
      BY <2>1, <2>2 DEF SameKey
    <2> QED
      BY <2>3
  <1>3. ASSUME OthersPost PROVE \A e \in server' : Named(e)
    <2>1. PICK d \in server : /\ d.coll = Root
             /\ \E v : server' = server \cup {MessageDoc(d.id, 0, spent["post"] + 1, v)}
      BY <1>3 DEF OthersPost
    <2>2. d.id \in Channels
      BY <1>0, <2>1, DocType DEF FsTypeOK
    <2>3. \A v : LET e == MessageDoc(d.id, 0, spent["post"] + 1, v)
                 IN  e.coll # Root /\ e.id[1] = 0
      BY <2>2, RootAssumption DEF MessageDoc
    <2> QED
      BY <2>1, <2>3 DEF SameKey
  <1>4. \A e \in server' : Named(e)
    BY <1>1, <1>2, <1>3 DEF OtherClient
  <1>5. ASSUME NEW d \in QueuedWrites, NEW e \in server', SameKey(d, e) PROVE FALSE
    <2>1. CASE \E f \in server : SameKey(f, e)
      BY <1>5, <2>1, InMeansSameKey DEF QueuedUnseen, Known, SameKey
    <2>2. CASE e.coll = Root /\ IsFreshChannel(e.id)
      BY <1>5, <2>2 DEF IsFreshChannel, QueuedWrites, Elements, SameKey
    <2>3. CASE e.coll # Root /\ e.id[1] = 0
      BY <1>5, <2>3 DEF Genuine, Messages, Outgoing, SameKey
    <2> QED
      BY <1>4, <2>1, <2>2, <2>3
  <1> QED
    BY <1>4, <1>5, InMeansSameKey

LEMMA QueuedCases ==
  ASSUME Inv, Genuine, Numbered, CacheHoused, [Next]_vars
  PROVE  \A d \in QueuedWrites' :
           \/ d \in QueuedWrites
           \/ Novel(d) /\ UNCHANGED <<server, cache, pending, rejected>>
  <1>0. FsTypeOK /\ workerQueue \in Seq(Task)
    BY DEF Inv, FsTypeOK
  <1>1. CASE UNCHANGED workerQueue
    BY <1>1 DEF QueuedWrites, Elements
  <1>2. CASE workerQueue # <<>> /\ workerQueue' = Tail(workerQueue)
    BY <1>0, <1>2, TakenTask
  <1>3. CASE workerQueue' = <<getAllChannels>>
    BY <1>3 DEF QueuedWrites, Elements, getAllChannels, ListenTask
  <1>4. ASSUME NEW t, Registers(t), workerQueue' = Append(workerQueue, t)
        PROVE  QueuedWrites' \subseteq QueuedWrites
    BY <1>0, <1>4, AppendedTask DEF Registers
  <1>5. ASSUME NEW t, NEW u, Registers(t), Registers(u),
               workerQueue' = Append(Append(workerQueue, t), u)
        PROVE  QueuedWrites' \subseteq QueuedWrites
    <2>0. PICK w : w = Append(workerQueue, t)
      OBVIOUS
    <2>1. w \in Seq(Task) /\ Elements(w) = Elements(workerQueue) \cup {t}
      BY <1>0, <1>5, <2>0, AppendElements DEF Registers
    <2>2. workerQueue' = Append(w, u) /\ u \in Task
      BY <1>5, <2>0 DEF Registers
    <2>3. Elements(Append(w, u)) = Elements(w) \cup {u}
      BY <2>1, <2>2, AppendElements
    <2> QED
      BY <1>5, <2>1, <2>2, <2>3 DEF QueuedWrites, Registers
  <1>6. ASSUME NEW d \in Doc, workerQueue' = Append(workerQueue, WriteTask(d)),
               channelButtonTapped \/ DeliverEvent
        PROVE  \A e \in QueuedWrites' :
                 \/ e \in QueuedWrites
                 \/ Novel(e) /\ UNCHANGED <<server, cache, pending, rejected>>
    <2>1. Novel(d) /\ UNCHANGED <<server, cache, pending, rejected>>
      BY <1>6, AppendedIsNovel
    <2>2. WriteTask(d) \in Task /\ WriteTask(d).doc = d
      BY TaskType DEF WriteTask
    <2>3. \A e \in QueuedWrites' : e \in QueuedWrites \/ e = d
      BY <1>0, <1>6, <2>2, AppendedTask
    <2> QED
      BY <2>1, <2>3
  <1> QED
    BY <1>1, <1>2, <1>3, <1>4, <1>5, <1>6, TaskCases

LEMMA UnseenNext ==
  ASSUME Inv, Genuine, Numbered, CacheHoused, Apart, [Next]_vars
  PROVE  QueuedUnseen'
  <1>0. /\ FsTypeOK
        /\ PendingApart /\ QueuedApart /\ QueuedUnseen /\ PendingNotRefused
    BY DEF Inv, Apart
  <1> DEFINE Seen == Known \cup cache
  <1>1. CASE UNCHANGED <<server, cache, pending, rejected>>
    <2>1. Seen' = Seen
      BY <1>1 DEF Known, Elements
    <2>2. \A d \in QueuedWrites' : ~IsIn(d, Seen)
      BY <1>0, QueuedCases, InMeansSameKey DEF QueuedUnseen, Novel
    <2> QED
      BY <2>1, <2>2 DEF QueuedUnseen
  <1>2. CASE RunWriteTask
    <2>0. PICK h : h = Head(workerQueue).doc
      OBVIOUS
    <2>1. h \in Doc
      BY <1>0, <1>2, <2>0, WorkerQueueType DEF RunWriteTask
    <2>2. Elements(pending') = Elements(pending) \cup {h}
      BY <1>0, <1>2, <2>0, <2>1, AppendElements DEF RunWriteTask, FsTypeOK
    <2>3. Seen' = Seen \cup {h}
      BY <1>2, <2>2 DEF RunWriteTask, Known
    <2>4. \A d \in QueuedWrites' : d \in QueuedWrites /\ ~SameKey(h, d)
      BY <1>0, <1>2, <2>0, TakenIsApart DEF RunWriteTask
    <2> QED
      BY <1>0, <2>3, <2>4, InMeansSameKey DEF QueuedUnseen, SameKey
  <1>3. CASE /\ UNCHANGED workerQueue
             /\ \A d \in Seen' : \E e \in Seen : SameKey(e, d)
    <2>1. QueuedWrites' = QueuedWrites
      BY <1>3 DEF QueuedWrites, Elements
    <2> QED
      BY <1>0, <1>3, <2>1, InMeansSameKey DEF QueuedUnseen, SameKey
  <1>4. CASE ServerCommit
    <2>1. Seen' \subseteq Seen
      <3>1. /\ server' \subseteq server \cup Elements(pending)
            /\ UNCHANGED <<cache, pending, rejected>>
        BY <1>0, <1>4, CommitFacts, WithFacts
      <3> QED
        BY <3>1 DEF Known, Elements
    <2> QED
      BY <1>3, <1>4, <2>1 DEF ServerCommit, SameKey
  <1>5. CASE HandleSuccessfulWrite \/ HandleRejectedWrite
    <2>1. Seen' \subseteq Seen
      BY <1>0, <1>5, HeadIsPending, WithFacts
         DEF HandleSuccessfulWrite, HandleRejectedWrite, Known
    <2> QED
      BY <1>3, <1>5, <2>1 DEF HandleSuccessfulWrite, HandleRejectedWrite, SameKey
  <1>6. ASSUME NEW q \in Queries, ApplyRemoteEvent(q)
        PROVE  QueuedUnseen'
    <2>1. Seen' \subseteq Seen
      BY <1>6 DEF ApplyRemoteEvent, Known, Elements
    <2> QED
      BY <1>3, <1>6, <2>1 DEF ApplyRemoteEvent, SameKey
  <1>7. CASE OtherClient
    <2>1. QueuedWrites' = QueuedWrites /\ UNCHANGED <<cache, pending, rejected>>
      BY <1>7 DEF OtherClient, QueuedWrites, Elements
    <2>2. \A d \in QueuedWrites : ~IsIn(d, server')
      BY <1>0, <1>7, OthersElsewhere
    <2> QED
      BY <1>0, <2>1, <2>2, InMeansSameKey DEF QueuedUnseen, Known, Elements
  <1> QED
    BY <1>1, <1>2, <1>4, <1>5, <1>6, <1>7, StoreCases

LEMMA NotRefusedNext ==
  ASSUME Inv, Apart, [Next]_vars
  PROVE  PendingNotRefused'
  <1>0. /\ FsTypeOK
        /\ PendingApart /\ QueuedApart /\ QueuedUnseen /\ PendingNotRefused
    BY DEF Inv, Apart
  <1>1. CASE UNCHANGED <<pending, rejected>>
    BY <1>0, <1>1 DEF PendingNotRefused, Elements
  <1>2. CASE RunWriteTask
    <2>0. PICK h : h = Head(workerQueue).doc
      OBVIOUS
    <2>1. h \in Doc /\ h \in QueuedWrites
      BY <1>0, <1>2, <2>0, WorkerQueueType, TakenTask DEF RunWriteTask
    <2>2. Elements(pending') = Elements(pending) \cup {h}
      BY <1>0, <1>2, <2>0, <2>1, AppendElements DEF RunWriteTask, FsTypeOK
    <2>3. ~IsIn(h, rejected)
      BY <1>0, <2>1, InMeansSameKey DEF QueuedUnseen, Known
    <2> QED
      BY <1>0, <1>2, <2>2, <2>3 DEF RunWriteTask, PendingNotRefused
  <1>3. CASE HandleSuccessfulWrite \/ HandleRejectedWrite
    <2>1. pending # <<>> /\ pending' = Tail(pending)
          /\ rejected' \subseteq rejected \cup {Head(pending)}
      BY <1>3 DEF HandleSuccessfulWrite, HandleRejectedWrite
    <2> QED
      BY <1>0, <2>1, HeadIsApart, InMeansSameKey DEF PendingNotRefused, SameKey
  <1> QED
    BY <1>1, <1>2, <1>3, StoreCases DEF ServerCommit, ApplyRemoteEvent, OtherClient

LEMMA ApartNext ==
  ASSUME Inv, Genuine, Numbered, CacheHoused, Apart, [Next]_vars
  PROVE  Apart'
  BY PendingNext, QueuedNext, UnseenNext, NotRefusedNext DEF Apart

\* All of it, with what it rests on.
WriteInv == ScreenInv /\ HouseInv /\ Numbered /\ Apart

LEMMA WriteNext ==
  ASSUME Inv, WriteInv, [Next]_vars
  PROVE  WriteInv'
  <1>1. ScreenInv'
    BY GenuineNext, CacheKnownNext, QueueKnownNext, RowsKnownNext DEF ScreenInv, WriteInv
  <1>2. HouseInv'
    BY ServerHousedNext, PendingHousedNext, TasksHousedNext, CacheHousedNext,
       NewsHousedNext DEF HouseInv, WriteInv
  <1>3. Numbered' /\ Apart'
    BY NumberedNext, ApartNext DEF WriteInv, ScreenInv, HouseInv
  <1> QED
    BY <1>1, <1>2, <1>3 DEF WriteInv

LEMMA WriteInvariance == Spec => []WriteInv
  <1>1. Init => WriteInv
    <2> SUFFICES ASSUME Init PROVE WriteInv
      OBVIOUS
    <2>1. /\ \A d \in server : d.coll = Root
          /\ cache \subseteq server
          /\ pending = <<>> /\ QueuedWrites = {} /\ rejected = {}
          /\ workerQueue = <<getAllChannels>>
      BY DEF Init, ChannelDoc, Elements, QueuedWrites, getAllChannels, ListenTask
    <2>2. Numbered
      BY <2>1 DEF Numbered, Own, Messages, Everywhere, Elements
    <2>3. Apart
      BY <2>1 DEF Apart, PendingApart, QueuedApart, QueuedUnseen,
                  PendingNotRefused, Elements
    <2> QED
      BY <2>2, <2>3, InitScreenInv, InitHouseInv DEF WriteInv
  <1>2. Inv /\ WriteInv /\ [Next]_vars => WriteInv'
    BY WriteNext
  <1> QED
    BY Invariance, <1>1, <1>2, PTL DEF Spec

-----------------------------------------------------------------------------
(***************************************************************************)
(* PART 5.  The message board: Chat implements MessageBoard.  A step that  *)
(* runs a write, commits or settles one, and what other clients do, is a   *)
(* step of the board; every other step leaves it as it is.                 *)
(***************************************************************************)

(* The board *)

Posts(docs) == {PostOf(d) : d \in Messages(docs)}

\* Two messages make one post only if they are at one path.
LEMMA PostsArePaths ==
  ASSUME NEW docs \in SUBSET Doc, NEW d \in Doc, d.coll # Root
  PROVE  PostOf(d) \in Posts(docs) <=> IsIn(d, docs)
  <1>1. \A e \in Doc : e.coll # Root =>
          (PostOf(e) = PostOf(d) <=> SameKey(d, e))
    <2> SUFFICES ASSUME NEW e \in Doc, e.coll # Root
                 PROVE  PostOf(e) = PostOf(d) <=> SameKey(d, e)
      OBVIOUS
    <2>1. /\ d.id = <<d.id[1], d.id[2]>>
          /\ e.id = <<e.id[1], e.id[2]>>
      BY DocType
    <2>2. PostOf(e) = PostOf(d) <=> /\ e.coll = d.coll
                                   /\ e.id[1] = d.id[1] /\ e.id[2] = d.id[2]
      BY DEF PostOf
    <2> QED
      BY <2>1, <2>2 DEF SameKey
  <1>2. PostOf(d) \in Posts(docs) <=> \E e \in Messages(docs) : PostOf(e) = PostOf(d)
    BY DEF Posts
  <1>3. IsIn(d, docs) <=> \E e \in docs : SameKey(d, e)
    BY InMeansSameKey
  <1> QED
    BY <1>1, <1>2, <1>3 DEF Messages, SameKey

LEMMA PostsOf ==
  /\ \A docs, d : d.coll = Root => Posts(docs \cup {d}) = Posts(docs)
  /\ \A docs, d : d.coll # Root => Posts(docs \cup {d}) = Posts(docs) \cup {PostOf(d)}
  BY DEF Posts, Messages

\* The board's three variables, as Chat has them.
Said == [m \in DOMAIN sends |-> sends[m].channel.identifier]
Outbox == Posts(Elements(pending))
OnBoard == Posts(server)

LEMMA BoardStutters ==
  ASSUME UNCHANGED <<Said, Outbox, OnBoard>>
  PROVE  [Board!Next]_(Board!vars)
  BY DEF Board!vars, Said, Outbox, OnBoard, Posts

LEMMA SayIsSay ==
  ASSUME Inv, sendFakeMessage
  PROVE  Board!Say
  <1>0. AppTypeOK
    BY DEF Inv
  <1>1. PICK s : /\ s = [channel |-> conversations[top], since |-> rootChanges,
                         launch |-> spent["crash"]]
                 /\ sends' = Append(sends, s)
    BY DEF sendFakeMessage
  <1>2. conversations[top].identifier \in Channels
    <2>1. conversations[top] \in Channel
      BY <1>0 DEF sendFakeMessage, AppTypeOK
    <2> QED
      BY <2>1 DEF Channel
  <1>3. Said' = Append(Said, conversations[top].identifier)
    BY <1>0, <1>1 DEF AppTypeOK, Said
  <1>4. UNCHANGED <<Outbox, OnBoard>>
    BY DEF sendFakeMessage, Outbox, OnBoard, Posts, Elements
  <1> QED
    BY <1>2, <1>3, <1>4 DEF Board!Say, Said, Outbox, OnBoard, Posts

LEMMA WriteIsAccept ==
  ASSUME Inv, WriteInv, NoCrossDelivery, RunWriteTask, UNCHANGED sends
  PROVE  [Board!Next]_(Board!vars)
  <1>0. FsTypeOK /\ QueuedUnseen
    BY DEF Inv, WriteInv, Apart
  <1>1. PICK h : h = Head(workerQueue).doc
    OBVIOUS
  <1>2. h \in Doc /\ h \in QueuedWrites
    BY <1>0, <1>1, WorkerQueueType, TakenTask DEF RunWriteTask
  <1>3. Elements(pending') = Elements(pending) \cup {h}
    BY <1>0, <1>1, <1>2, AppendElements DEF RunWriteTask, FsTypeOK
  <1>4. UNCHANGED <<Said, OnBoard>>
    BY DEF RunWriteTask, Said, OnBoard, Posts
  <1>5. CASE h.coll = Root
    BY <1>3, <1>4, <1>5, PostsOf, BoardStutters DEF Outbox
  <1>6. CASE h.coll # Root
    <2>1. PICK p : p = PostOf(h)
      OBVIOUS
    <2>2. Outbox' = Outbox \cup {p}
      BY <1>3, <1>6, <2>1, PostsOf DEF Outbox
    <2>3. p \notin Outbox \cup OnBoard
      <3>1. ~IsIn(h, Elements(pending)) /\ ~IsIn(h, server)
        BY <1>0, <1>2, InMeansSameKey DEF QueuedUnseen, Known
      <3>2. Elements(pending) \subseteq Doc /\ server \subseteq Doc
        BY <1>0 DEF FsTypeOK, Elements
      <3> QED
        BY <1>2, <1>6, <2>1, <3>1, <3>2, PostsArePaths DEF Outbox, OnBoard
    <2>4. PICK m \in DOMAIN sends : /\ m = h.id[1]
                                   /\ h.coll = sends[m].channel.identifier
      <3>1. h.id[1] # 0
        BY <1>2, <1>6 DEF WriteInv, ScreenInv, Genuine, Messages, Outgoing
      <3> QED
        BY <1>2, <1>6, <3>1 DEF NoCrossDelivery, Own, Messages, Everywhere
    <2>5. p.message = m /\ p.copy \in Nat /\ p.channel = Said[m] /\ m \in DOMAIN Said
      BY <1>2, <1>6, <2>1, <2>4, DocType DEF PostOf, Said
    <2>6. Board!IsOf(p, m)
      BY <2>5 DEF Board!IsOf, Said
    <2>7. Board!Accept
      BY <1>4, <2>2, <2>3, <2>5, <2>6
         DEF Board!Accept, Said, Outbox, OnBoard, Posts
    <2> QED
      BY <2>7 DEF Board!Next
  <1> QED
    BY <1>5, <1>6

LEMMA CommitIsPublish ==
  ASSUME Inv, ServerCommit, UNCHANGED sends
  PROVE  [Board!Next]_(Board!vars)
  <1>0. FsTypeOK
    BY DEF Inv
  <1>1. PICK d \in Elements(pending) : d \in Doc /\ server' = With(d, server)
    BY <1>0, CommitFacts
  <1>2. /\ \A e \in server' : e = d \/ e \in server
        /\ \A e \in server : e \in server' \/ SameKey(d, e)
        /\ d \in server'
    BY <1>1, WithFacts DEF SameKey
  <1>4. UNCHANGED <<Said, Outbox>>
    BY DEF ServerCommit, Said, Outbox, Posts, Elements
  <1>5. CASE d.coll = Root
    <2>1. Messages(server') = Messages(server)
      BY <1>2, <1>5 DEF Messages, SameKey
    <2> QED
      BY <1>4, <2>1, BoardStutters DEF OnBoard, Posts
  <1>6. CASE d.coll # Root
    <2>0. \A e : SameKey(d, e) => PostOf(e) = PostOf(d)
      BY DEF SameKey, PostOf
    <2>1. OnBoard' = OnBoard \cup {PostOf(d)}
      BY <1>2, <1>6, <2>0 DEF OnBoard, Posts, Messages
    <2>2. PostOf(d) \in Outbox
      BY <1>1, <1>6 DEF Outbox, Posts, Messages
    <2>3. CASE PostOf(d) \in OnBoard
      BY <1>4, <2>1, <2>3, BoardStutters
    <2>4. CASE PostOf(d) \notin OnBoard
      <3>1. Board!Publish
        BY <1>4, <2>1, <2>2, <2>4
           DEF Board!Publish, Said, Outbox, OnBoard, Posts
      <3> QED
        BY <3>1 DEF Board!Next
    <2> QED
      BY <2>3, <2>4
  <1> QED
    BY <1>5, <1>6

LEMMA AnswerIsSettling ==
  ASSUME Inv, WriteInv, HandleSuccessfulWrite \/ HandleRejectedWrite,
         UNCHANGED sends
  PROVE  [Board!Next]_(Board!vars)
  <1>0. FsTypeOK /\ PendingApart
    BY DEF Inv, WriteInv, Apart
  <1>1. /\ pending # <<>> /\ pending' = Tail(pending) /\ UNCHANGED server
    BY DEF HandleSuccessfulWrite, HandleRejectedWrite
  <1>2. PICK h : h = Head(pending)
    OBVIOUS
  <1>3. /\ h \in Doc /\ Elements(pending) \subseteq Doc
        /\ Elements(pending') \subseteq Doc
    BY <1>0, <1>1, <1>2, PendingType DEF FsTypeOK, Elements
  <1>4. /\ Elements(pending) = Elements(pending') \cup {h}
        /\ ~IsIn(h, Elements(pending'))
    BY <1>0, <1>1, <1>2, HeadIsApart, InMeansSameKey
  <1>5. UNCHANGED <<Said, OnBoard>>
    BY <1>1 DEF Said, OnBoard, Posts
  <1>6. CASE h.coll = Root
    BY <1>4, <1>5, <1>6, PostsOf, BoardStutters DEF Outbox
  <1>7. CASE h.coll # Root
    <2>1. Outbox = Outbox' \cup {PostOf(h)}
      BY <1>4, <1>7, PostsOf DEF Outbox
    <2>2. PostOf(h) \notin Outbox'
      BY <1>3, <1>4, <1>7, PostsArePaths DEF Outbox
    <2>3. Outbox' = Outbox \ {PostOf(h)} /\ PostOf(h) \in Outbox
      BY <2>1, <2>2
    <2>4. Board!Settle \/ Board!Refuse
      BY <1>5, <2>3 DEF Board!Settle, Board!Refuse, Said, Outbox, OnBoard, Posts
    <2> QED
      BY <2>4 DEF Board!Next
  <1> QED
    BY <1>6, <1>7

LEMMA OthersArePublishing ==
  ASSUME Inv, OtherClient
  PROVE  [Board!Next]_(Board!vars)
  <1>0. FsTypeOK
    BY DEF Inv
  <1>1. UNCHANGED <<Said, Outbox>>
    BY DEF OtherClient, Said, Outbox, Posts, Elements
  <1>2. CASE OthersAddChannel \/ OthersUpdateChannel
    <2>1. Messages(server') = Messages(server)
      BY <1>2 DEF OthersAddChannel, OthersUpdateChannel, Messages, ChannelDoc
    <2> QED
      BY <1>1, <2>1, BoardStutters DEF OnBoard, Posts
  <1>3. CASE OthersPost
    <2>1. PICK d \in server : /\ d.coll = Root
             /\ \E v : server' = server \cup {MessageDoc(d.id, 0, spent["post"] + 1, v)}
      BY <1>3 DEF OthersPost
    <2>2. PICK v, e : /\ e = MessageDoc(d.id, 0, spent["post"] + 1, v)
                      /\ server' = server \cup {e}
      BY <2>1
    <2>3. d.id \in Channels
      BY <1>0, <2>1, DocType DEF FsTypeOK
    <2>4. e.coll = d.id /\ e.coll # Root /\ e.id[1] = 0
      BY <2>2, <2>3, RootAssumption DEF MessageDoc
    <2>5. OnBoard' = OnBoard \cup {PostOf(e)}
      BY <2>2, <2>4, PostsOf DEF OnBoard
    <2>6. CASE PostOf(e) \in OnBoard
      BY <1>1, <2>5, <2>6, BoardStutters
    <2>7. CASE PostOf(e) \notin OnBoard
      <3>1. PostOf(e).channel \in Channels /\ PostOf(e).message = 0
        BY <2>3, <2>4 DEF PostOf
      <3>2. Board!OthersPublish
        BY <1>1, <2>5, <2>7, <3>1
           DEF Board!OthersPublish, Said, Outbox, OnBoard, Posts
      <3> QED
        BY <3>2 DEF Board!Next
    <2> QED
      BY <2>6, <2>7
  <1> QED
    BY <1>2, <1>3 DEF OtherClient

\* Chat implements MessageBoard: two queues, a cache, a server that may refuse,
\* crashes and other clients together never take a message off the board,
\* forget an accepted one or show one nobody said.
THEOREM BoardSpecHolds == Spec => BoardSpec
  <1>1. Init => Board!Init
    <2> SUFFICES ASSUME Init PROVE Board!Init
      OBVIOUS
    <2>1. Messages(server) = {} /\ Elements(pending) = {} /\ sends = <<>>
      BY DEF Init, Messages, ChannelDoc, Elements
    <2>2. [m \in DOMAIN sends |-> sends[m].channel.identifier] = <<>>
      BY <2>1
    <2> QED
      BY <2>1, <2>2 DEF Board!Init, Messages
  <1>2. Inv /\ WriteInv /\ NoCrossDelivery /\ [Next]_vars => [Board!Next]_(Board!vars)
    <2> SUFFICES ASSUME Inv, WriteInv, NoCrossDelivery, [Next]_vars
                 PROVE  [Board!Next]_(Board!vars)
      OBVIOUS
    <2>1. CASE sendFakeMessage
      BY <2>1, SayIsSay DEF Board!Next
    <2>2. CASE ~sendFakeMessage
      <3>1. UNCHANGED sends
        BY <2>2 DEF Next, vars, appvars, didSelectRow, goBack,
                    channelButtonTapped, DeliverEvent, Worker, Network,
                    Refusal, Crash, OtherClient
      <3>2. CASE UNCHANGED <<server, pending>>
        BY <3>1, <3>2, BoardStutters DEF Said, Outbox, OnBoard, Posts, Elements
      <3> QED
        BY <3>1, <3>2, StoreCases, WriteIsAccept, CommitIsPublish,
           AnswerIsSettling, OthersArePublishing DEF ApplyRemoteEvent
    <2> QED
      BY <2>1, <2>2
  <1> QED
    BY Invariance, WriteInvariance, NoCrossDeliveryHolds, <1>1, <1>2, PTL
       DEF Spec, BoardSpec, Board!Spec
=============================================================================
