--------------------------- MODULE ChatProperties ---------------------------
(***************************************************************************)
(* What makes Chatik's messaging path correct, stated over Chat.           *)
(***************************************************************************)
EXTENDS Chat

\* Message documents, and those this device sent, among docs.
Messages(docs) == {d \in docs : d.coll # Root}
Own(docs) == {d \in Messages(docs) : d.id[1] # 0}

QueuedWrites == {t.doc : t \in {u \in Elements(workerQueue) : u.op = "write"}}
Everywhere == server \cup cache \cup Elements(pending) \cup rejected
              \cup QueuedWrites

CopiesIn(docs, m) == {d \in Own(docs) : d.id[1] = m}

-----------------------------------------------------------------------------
(* Safety *)

\* A message is only ever written to the channel its Send was tapped in,
\* although the write happens in a later callback that has to look the
\* channel up again in a fresh list (FirebaseService.createMessage).
NoCrossDelivery ==
  \A d \in Own(Everywhere) :
    /\ d.id[1] \in DOMAIN sends
    /\ d.coll = sends[d.id[1]].channel.identifier

\* The listener a Send registers is never removed and writes each time it is
\* called; still, a Send makes at most one copy plus one for every change of
\* the channels since the tap.  Acknowledgements that change no field and
\* the listeners of other Sends must not call it again.
CopiesBounded ==
  \A m \in DOMAIN sends :
    copies[m] <= 1 + (rootChanges - sends[m].since)

\* Two Sends to one channel in one launch are written, and reach the server,
\* in the order of the taps, across both queues and two listeners.  Not so if
\* the channel's creation is refused after it was committed: the channel is
\* lost and found again, perhaps only by the second listener.
SendsKeepOrder ==
  \A m, n \in DOMAIN sends :
    (/\ m < n
     /\ sends[m].channel = sends[n].channel
     /\ sends[m].launch = sends[n].launch
     /\ ChannelDoc(sends[m].channel.identifier, 0) \notin rejected)
    => /\ copies[n] > 0 => copies[m] > 0
       /\ CopiesIn(server, n) # {} => CopiesIn(server \cup rejected, m) # {}

\* A message of this device is on the server only under a channel that is
\* there too, or whose creation the server refused: the channel's document
\* was written first and both queues keep the order.
NoOrphans ==
  \A d \in Own(server) :
    \E e \in server \cup rejected : e.coll = Root /\ e.id = d.coll

\* A conversation screen shows messages of its own channel only, each of them
\* on the server, waiting in the mutation queue, or refused a moment ago.
ScreensShowTheirChannel ==
  \A i \in DOMAIN conversations :
    \A d \in messagesList[i] :
      /\ d.coll = conversations[i].identifier
      /\ d \in server \cup Elements(pending) \cup rejected

-----------------------------------------------------------------------------
(* What a step may never do *)

\* A message once shown stays on its screen unless the server refused it,
\* although every Send adds one more listener that replaces the whole list
\* (ConversationViewController.addAllMessages).
MessagesNeverDisappear ==
  [][\A i \in DOMAIN messagesList \cap DOMAIN messagesList' :
       messagesList[i] \ messagesList'[i]
         \subseteq rejected]_vars

\* What the local store gives the app, its own writes on top of the cache,
\* never goes back to older fields of a channel, over crashes too, and while
\* the app runs nor does the list: not when a creation is acknowledged after
\* the watch stream has brought an update, not when snapshots of the one and
\* the other cross, and not when a lost result makes the server set the
\* channel's first fields again, over an update by others.  A channel leaves
\* the list only if its creation was rejected or its fields became unreadable.
DirectoryNeverGoesBack ==
  [][/\ \A d \in View(Root) :
          d.ver # Malformed =>
            \/ \E e \in View(Root)' :
                 e.id = d.id /\ (e.ver = Malformed \/ e.ver >= d.ver)
            \/ ChannelDoc(d.id, 0) \in rejected'
     /\ spent'["crash"] = spent["crash"] =>
          \A a \in channelsList :
            \/ \E b \in channelsList' :
                 b.identifier = a.identifier /\ b.ver >= a.ver
            \/ ChannelDoc(a.identifier, 0) \in rejected
            \/ ChannelDoc(a.identifier, Malformed) \in server]_vars

-----------------------------------------------------------------------------
(* Liveness *)

Posted(m) == CopiesIn(server, m) # {}

Listening(kind, arg) ==
  \E q \in Queries : \E i \in DOMAIN listeners[q] :
    listeners[q][i].cb = [kind |-> kind, arg |-> arg]

\* What may keep message m from ever being posted: the process died after
\* the tap, the server refused the message or the channel's creation, or the
\* channel changed after the screen took its copy of it.
Excused(m) ==
  \/ sends[m].launch # spent["crash"]
  \/ CopiesIn(rejected, m) # {}
  \/ ChannelDoc(sends[m].channel.identifier, 0) \in rejected
  \/ \E d \in server : /\ d.coll = Root
                       /\ d.id = sends[m].channel.identifier
                       /\ channelFromSnapshot(d) # sends[m].channel

\* Every Send is posted, unless one of those four things happens.  That its
\* query is refused, and its listener dropped, is none of them: by then it was
\* told what the local store had.
SendsArePosted ==
  \A m \in UNION {1..b["send"] : b \in Budgets} :
    (Len(sends) >= m) ~> (Len(sends) >= m /\ (Posted(m) \/ Excused(m)))

\* The documents this device may come to write.
Writable ==
  LET m == UNION {1..b["send"] : b \in Budgets}
      k == UNION {1..(1 + b["create"] + b["touch"] + b["break"]) : b \in Budgets}
  IN  {ChannelDoc(c, 0) : c \in Channels}
      \cup {MessageDoc(c, i, j, 0) : c \in Channels, i \in m, j \in k}

\* Whatever the local store took is on the server in the end or was rejected,
\* over crashes, calls that end before their results are read, and with them
\* a first write that has been committed and is sent again.
StoredWritesArrive ==
  \A d \in Writable :
    d \in Elements(pending) ~> IsIn(d, server) \/ d \in rejected

Converged ==
  /\ pending = <<>> /\ workerQueue = <<>> /\ mainQueue = <<>>
  /\ Listening("channels", 0) =>
       channelsList = {channelFromSnapshot(d) :
                         d \in {e \in server : e.coll = Root}} \ {NoChannel}
  /\ \A s \in DOMAIN conversations :
       Listening("messages", s) =>
         messagesList[s] =
           {d \in server : /\ d.coll = conversations[s].identifier
                           /\ d.ver # Malformed}

\* Once nobody acts any more, nothing stays queued and every screen that
\* still has a listener comes to show what the server has.
ScreensConverge == <>[]Converged

-----------------------------------------------------------------------------
(* The promise this implements *)

PostOf(d) == [channel |-> d.coll, message |-> d.id[1], copy |-> d.id[2]]

Board == INSTANCE MessageBoard WITH
  said   <- [m \in DOMAIN sends |-> sends[m].channel.identifier],
  outbox <- {PostOf(d) : d \in Messages(Elements(pending))},
  board  <- {PostOf(d) : d \in Messages(server)}

\* Every behaviour of Chat is one of the message board.
BoardSpec == Board!Spec
=============================================================================
