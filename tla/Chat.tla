-------------------------------- MODULE Chat --------------------------------
(***************************************************************************)
(* Chatik's messaging path: the two screens that use it                    *)
(* (ConversationListViewController, ConversationViewController) and the    *)
(* service they share (FirebaseServiceImp), on top of FirestoreClient.     *)
(* Everything the app does runs on the main thread, one handler or one     *)
(* delivered snapshot at a time.                                           *)
(***************************************************************************)
EXTENDS FirestoreClient

CONSTANTS NoChannel,   \* what channelFromSnapshot returns for a malformed doc
          Budgets      \* bounds: a behaviour takes each bounded action no
                       \* more often than one of these allows

\* The bounded actions: what users, other clients and failures do.
Kinds == {"open", "send", "create", "touch", "break", "post",
          "reject", "refuse", "lose", "crash"}

ASSUME BudgetAssumption == Budgets \subseteq [Kinds -> Nat]

\* A Channel value of the app: identifier, and ver for all other fields.
Channel == [identifier : Channels, ver : Nat]

ASSUME NoChannelAssumption == NoChannel \notin Channel

VARIABLES
  channelsList,   \* rows of the list screen, as a set (a fixed sort orders it)
  conversations,  \* the channel of every conversation screen opened since
                  \* launch, popped ones too
  messagesList,   \* messagesList[s]: the rows of screen s, as a set
  top,            \* the conversation screen in front, 0: the list screen
  sends,          \* every tap on Send: its channel, and (history) rootChanges
                  \* and the number of crashes then
  copies,         \* copies[m]: how often message m was written so far
  spent           \* spent[k]: how often the bounded action k was taken

appvars == <<channelsList, conversations, messagesList, top, sends, copies,
             spent>>
vars == <<fsvars, appvars>>

Affords(b, s) == \A k \in Kinds : s[k] <= b[k]

Spend(k) == /\ spent' = [spent EXCEPT ![k] = @ + 1]
            /\ \E b \in Budgets : Affords(b, spent')

\* Mutant: no field is required.
channelFromAnything(d) == [identifier |-> d.id, ver |-> d.ver]

channelFromSnapshot(d) ==
  IF d.ver = Malformed THEN NoChannel
                       ELSE [identifier |-> d.id, ver |-> d.ver]

ChannelDoc(c, v) == [coll |-> Root, id |-> c, ver |-> v]

\* Mutant: the id is made from the message instead of drawn anew.
MessageDocSameId(c, m, k, v) == [coll |-> c, id |-> <<m, 1>>, ver |-> v]

\* Message m's copy number k, in the collection of channel c.  Message 0 is
\* anything another client wrote.
MessageDoc(c, m, k, v) == [coll |-> c, id |-> <<m, k>>, ver |-> v]

-----------------------------------------------------------------------------
(* Registrations *)

getAllChannels == ListenTask(Root, [kind |-> "channels", arg |-> 0])
getAllMessages(channel, screen) ==
  ListenTask(channel.identifier, [kind |-> "messages", arg |-> screen])
createMessage(m) == ListenTask(Root, [kind |-> "send", arg |-> m])

NoListeners == [q \in Queries |-> <<>>]

\* A process starts with viewDidLoad of the list screen; the local store is
\* what the last one left on disk.
Init ==
  /\ server \in {{ChannelDoc(c, 0) : c \in C} : C \in SUBSET Channels}
  /\ cache \in SUBSET server
  /\ pending = <<>>
  /\ results = <<>>
  /\ listeners = NoListeners
  /\ workerQueue = <<getAllChannels>>
  /\ mainQueue = <<>>
  /\ channelsList = {}
  /\ conversations = <<>>
  /\ messagesList = <<>>
  /\ top = 0
  /\ sends = <<>>
  /\ copies = <<>>
  /\ spent = [k \in Kinds |-> 0]
  /\ rejected = {}
  /\ rootChanges = 0

-----------------------------------------------------------------------------
(* What the user does *)

\* A row is tapped: a screen for that channel is pushed and loads.
didSelectRow ==
  /\ top = 0
  /\ Spend("open")
  /\ top' = Len(conversations) + 1
  /\ \E channel \in channelsList :
       /\ conversations' = Append(conversations, channel)
       /\ workerQueue' = Append(workerQueue, getAllMessages(channel, top'))
  /\ messagesList' = Append(messagesList, {})
  /\ UNCHANGED <<server, cache, pending, results, listeners, mainQueue,
                 rejected, rootChanges, channelsList, sends, copies>>

\* The screen leaves the stack, its listeners and what they hold do not.
goBack ==
  /\ top # 0
  /\ top' = 0
  /\ UNCHANGED <<fsvars, channelsList, conversations, messagesList, sends,
                 copies, spent>>

\* Send: a listener on "channels" that is to write the message, and, from
\* the completion called right after registering it, one more on messages.
sendFakeMessage ==
  /\ top # 0
  /\ Spend("send")
  /\ sends' = Append(sends, [channel |-> conversations[top],
                             since |-> rootChanges,
                             launch |-> spent["crash"]])
  /\ copies' = Append(copies, 0)
  /\ workerQueue' = workerQueue \o <<createMessage(Len(sends) + 1),
                                     getAllMessages(conversations[top], top)>>
  /\ UNCHANGED <<server, cache, pending, results, listeners, mainQueue,
                 rejected, rootChanges, channelsList, conversations, messagesList, top>>

\* An auto id is never one that was used before.
IsFreshChannel(c) ==
  /\ ~IsIn(ChannelDoc(c, 0), server \cup Elements(pending) \cup rejected)
  /\ \A i \in DOMAIN workerQueue :
       workerQueue[i].op = "write" => workerQueue[i].doc.id # c

\* The Create button of the alert on the list screen.
channelButtonTapped ==
  /\ top = 0
  /\ Spend("create")
  /\ \E c \in Channels :
       /\ IsFreshChannel(c)
       /\ workerQueue' = Append(workerQueue, WriteTask(ChannelDoc(c, 0)))
  /\ UNCHANGED <<server, cache, pending, results, listeners, mainQueue,
                 rejected, rootChanges, channelsList, conversations, messagesList, top,
                 sends, copies>>

-----------------------------------------------------------------------------
(* Snapshots the app hears of *)

OnChannels(docs) ==
  /\ channelsList' = {channelFromSnapshot(d) : d \in docs} \ {NoChannel}
  /\ UNCHANGED <<workerQueue, messagesList, copies>>

\* Mutant: a message without one of its fields gets a row.
OnMessagesUnparsed(docs, screen) ==
  /\ messagesList' = [messagesList EXCEPT ![screen] = docs]
  /\ UNCHANGED <<workerQueue, channelsList, copies>>

OnMessages(docs, screen) ==
  /\ messagesList' = [messagesList EXCEPT ![screen] =
                        {d \in docs : d.ver # Malformed}]
  /\ UNCHANGED <<workerQueue, channelsList, copies>>

\* Mutant: two channels with equal fields are taken for one.
MatchesByFields(docs, m) == {d \in docs : d.ver = sends[m].channel.ver}

\* The documents a Send's listener takes for its channel: equal in every field
\* to the copy the screen holds.  Ids are unique within a snapshot, so there
\* is at most one.
Matches(docs, m) == {d \in docs : channelFromSnapshot(d) = sends[m].channel}

\* The listener of a Send: writes the message, every time it is called,
\* where it finds the channel the Send was for.
OnChannelsForSend(docs, m) ==
  /\ \/ Matches(docs, m) = {} /\ UNCHANGED <<copies, workerQueue>>
     \/ \E d \in Matches(docs, m) :
          /\ copies' = [copies EXCEPT ![m] = @ + 1]
          /\ workerQueue' = Append(workerQueue,
               WriteTask(MessageDoc(d.id, m, copies[m] + 1, 0)))
  /\ UNCHANGED <<channelsList, messagesList>>

\* On an error every one of the three closures returns at once.
DeliverEvent ==
  \E i \in DOMAIN (IF mainQueue = <<>> THEN <<>> ELSE Head(mainQueue).to) :
    LET snap == Head(mainQueue)
        cb   == snap.to[i]
    IN  /\ IsNext(i)
        /\ TakeEvent(i)
        /\ \/ /\ snap.error
              /\ UNCHANGED <<workerQueue, channelsList, messagesList, copies>>
           \/ /\ ~snap.error /\ cb.kind = "channels"
              /\ OnChannels(snap.docs)
           \/ /\ ~snap.error /\ cb.kind = "messages"
              /\ OnMessages(snap.docs, cb.arg)
           \/ /\ ~snap.error /\ cb.kind = "send"
              /\ OnChannelsForSend(snap.docs, cb.arg)
        /\ UNCHANGED <<server, cache, pending, results, listeners, rejected,
                       rootChanges, conversations, top, sends, spent>>

-----------------------------------------------------------------------------
(* The network, failures, other clients *)

Network ==
  \/ ServerCommit /\ UNCHANGED appvars
  \/ HandleSuccessfulWrite /\ UNCHANGED appvars
  \/ \E q \in Queries : ApplyRemoteEvent(q) /\ UNCHANGED appvars
  \/ \E q \in Queries : HandleOffline(q) /\ UNCHANGED appvars

Refusal ==
  /\ \/ HandleRejectedWrite /\ Spend("reject")
     \/ \E q \in Queries : HandleRejectedListen(q) /\ Spend("refuse")
     \/ LoseResults /\ Spend("lose")
  /\ UNCHANGED <<channelsList, conversations, messagesList, top, sends, copies>>

\* Mutant: the mutation queue lives in memory only.
CrashForgetting ==
  /\ Spend("crash")
  /\ listeners' = NoListeners
  /\ workerQueue' = <<getAllChannels>>
  /\ mainQueue' = <<>>
  /\ channelsList' = {}
  /\ conversations' = <<>>
  /\ messagesList' = <<>>
  /\ top' = 0
  /\ results' = <<>>
  /\ pending' = <<>>
  /\ UNCHANGED <<server, cache, rejected, rootChanges, sends, copies>>

\* The process dies and is launched again.  The local store is on disk.
Crash ==
  /\ Spend("crash")
  /\ listeners' = NoListeners
  /\ workerQueue' = <<getAllChannels>>
  /\ mainQueue' = <<>>
  /\ channelsList' = {}
  /\ conversations' = <<>>
  /\ messagesList' = <<>>
  /\ top' = 0
  /\ results' = <<>>
  /\ UNCHANGED <<server, cache, pending, rejected, rootChanges, sends, copies>>

\* Another client adds a channel,
OthersAddChannel ==
  /\ Spend("create")
  /\ \E c \in Channels : /\ IsFreshChannel(c)
                         /\ server' = server \cup {ChannelDoc(c, 0)}

\* updates one (lastMessage, lastActivity) or leaves out a field of it,
OthersUpdateChannel ==
  \E d \in server :
    /\ d.coll = Root
    /\ d.ver # Malformed
    /\ \/ /\ Spend("touch")
          /\ server' = (server \ {d}) \cup {ChannelDoc(d.id, d.ver + 1)}
       \/ /\ Spend("break")
          /\ server' = (server \ {d}) \cup {ChannelDoc(d.id, Malformed)}

\* posts a message, which may lack a field.
OthersPost ==
  /\ Spend("post")
  /\ \E d \in server, v \in {0, Malformed} :
       /\ d.coll = Root
       /\ server' = server \cup {MessageDoc(d.id, 0, spent["post"] + 1, v)}

OtherClient ==
  /\ OthersAddChannel \/ OthersUpdateChannel \/ OthersPost
  /\ UNCHANGED <<cache, pending, results, listeners, workerQueue, mainQueue,
                 rejected, rootChanges, channelsList, conversations,
                 messagesList, top, sends, copies>>

Worker == (RunListenTask \/ RunWriteTask) /\ UNCHANGED appvars

Next == \/ didSelectRow \/ goBack \/ sendFakeMessage \/ channelButtonTapped
        \/ DeliverEvent
        \/ Worker
        \/ Network \/ Refusal \/ Crash \/ OtherClient

Spec == Init /\ [][Next]_vars

\* The two queues are always served, and a network that comes back now and
\* then lets the streams make progress.  Nothing obliges users, other
\* clients or failures to act.
Fairness ==
  /\ WF_vars(Worker)
  /\ WF_vars(DeliverEvent)
  /\ WF_vars(ServerCommit /\ UNCHANGED appvars)
  /\ WF_vars(HandleSuccessfulWrite /\ UNCHANGED appvars)
  /\ \A q \in Queries : WF_vars(ApplyRemoteEvent(q) /\ UNCHANGED appvars)

FairSpec == Spec /\ Fairness

TypeOK ==
  /\ FsTypeOK
  /\ channelsList \subseteq Channel
  /\ conversations \in Seq(Channel)
  /\ messagesList \in Seq(SUBSET Doc)
  /\ Len(messagesList) = Len(conversations)
  /\ top \in 0..Len(conversations)
  /\ sends \in Seq([channel : Channel, since : Nat, launch : Nat])
  /\ copies \in Seq(Nat)
  /\ Len(copies) = Len(sends)
  /\ spent \in [Kinds -> Nat]
=============================================================================
