# Chatik in TLA+

Chatik is an iOS chat client: a list of channels, a screen per conversation, a
profile and a choice of themes. Channels and messages live in Cloud Firestore;
the app has no server code of its own. These modules model what the app's own
code (`src/Chatik/Chatik`, about 1500 lines of Swift) and the part of the
vendored Firestore client it rests on (`src/Chatik/Pods/FirebaseFirestore`) do
when they run together. The client is also modelled closer to its code, one part
at a time: how writes and watches travel over streams that break, how two threads
share one gRPC call, and how the queue everything runs on is shut down.

The app has neither tests nor documentation beyond its name, so the properties
are what a reader of the code would want to hold; those of the client are also
what its assertions and comments say.

## The system

| Component | Code | State it keeps | Operations |
|---|---|---|---|
| Firebase service | `Services/FirebaseService.swift` | none of its own; one instance per process | `createMessage`, `getAllMessages`, `getAllChannels`, `addDocument`, `channelFromSnapshot` |
| Conversation list | `ConversationListViewController.swift` | `channelsList` | load, select a row, Create |
| Conversation screen | `ConversationViewController.swift` | `channel` (a copy), `messagesList` | load, Send |
| Firestore client core | `Pods/FirebaseFirestore/Firestore/core/src` | queries and their listeners, views, document cache, mutation queue, write pipeline | listen, write, acknowledge, reject, apply remote events, online state |
| Write stream | `remote/remote_store.cc`, `write_stream.cc`, `stream.cc` there | the pipeline, the connection and its timers | fill, shake hands, read a result, blame an error, restart, network switch |
| Watch stream | `remote/remote_store.cc`, `remote_event.cc`, `online_state_tracker.cc`, `stream.cc`, parts of `local_store.cc` and `sync_engine.cc` | targets, what came since the last snapshot, resume tokens, online state | watch, unwatch, each kind of message, snapshot, reset, resume |
| One gRPC call | `remote/grpc_stream.cc`, `grpc_completion.cc`, `datastore.cc` | its completions and its buffer of writes | write, read, finish, notice the end |
| Worker queue and shutdown | `util/async_queue.cc`, `executor_libdispatch.mm`, `task.cc`, `core/firestore_client.cc`, `api/firestore.cc` | tasks and their reference counts, two locks, the queue's mode | enqueue, delay, cancel, restrict, dispose |
| Profile screen | `ProfileViewController.swift` | two text buffers, fields, buttons, spinner | edit, cancel, type, two ways to save, pick an image |
| Save executors | `Services/Managers.swift` | `AsyncOperation.state` | GCD save, operation save, start, cancel |
| Profile file | `Services/MainFileManager.swift` | `userProfile.json` | save, load |
| Core Data service | `Services/CoreData/CoreDataService.swift` | a persistent container | fetch, save (no caller) |
| Themes | `ThemesViewController.swift`, `Buttons/ThemeCell.swift` | the selected theme | select, go back |

How the messaging parts interact:

* A handler on the **main thread** calls the service, which calls the library,
  which only *enqueues*: a registration or a write is a task on the library's
  **worker queue**.
* The **worker** runs these tasks and the network's answers one at a time. Each
  changes the local store and then recomputes the views; listeners whose view
  changed get a snapshot, posted on the **main queue**.
* The **main queue** delivers snapshots to the app's closures, one at a time,
  between other handlers. The closure a Send registered *writes* when it is
  delivered, which enqueues on the worker queue again.
* Below that, the worker fills the **write pipeline** and sends it over one stream,
  and watches the queries over another. Either stream is one **gRPC call** at a time;
  a second thread polls gRPC's completion queue and puts what it finds on the worker
  queue, and the worker sometimes *waits* for that thread.
* The worker queue is libdispatch's; **any thread** may enqueue, delay, cancel and
  dispose, under two locks.
* The local store is on disk, everything else dies with the process.

What makes this hard: the write of a message happens two queues after the tap,
in a callback that looks the channel up again in whatever list it is given; that
callback stays registered for the life of the process; every Send adds a second
listener that replaces the whole list of rows; writes are pipelined, retried and
acknowledged while the watch stream independently reports the same documents;
the process can die anywhere.

What makes each component correct:

* **Service and conversation screen**: messages go to the channel of the screen,
  once per call of the closure and no more often than channels change, in the
  order of the taps, and are posted in the end unless something excuses it; rows
  belong to the screen's channel and do not come and go.
* **Conversation list**: shows what the server has, never older fields again.
* **Firestore client**: what the local store took arrives or is rejected, in order, and
  listeners hear every change of their query once and in order.
* **Profile screen and its executors**: what is saved is what the fields showed;
  a save is asked for once, takes effect once and is reported afterwards, failed or
  not; the file never falls back to what was saved before; the form is always in one
  of its modes, and a late completion does not reach a later screen.
* **AsyncOperation**: the queue hears of the end after the save and hears of it at
  last, unless somebody cancels; cancelled in time, nothing is saved.
* **Write stream**: writes reach the server in order, each at least once before it is
  reported, none afterwards; each result is reported for its write; nothing that can be
  sent is held back.
* **Watch stream**: what a listener is told to be up to date is what the server had; the
  point it resumes from is one the server would agree with; it catches up by itself.
* **One gRPC call**: nothing is used after it is freed, one write and one read at a time,
  one end, and the worker is never stuck.
* **Worker queue**: tasks run in order and are alive while anybody may touch them;
  disposing ends, and is final.

## Modules

```
FirestoreClient         the library and the database, as the app sees them
  Chat                  the two screens and the service: Init, Next, Spec, FairSpec, TypeOK
    ChatProperties      the properties; INSTANCE MessageBoard as the abstract specification
      MCChat            scenarios and symmetry for TLC
      ChatProofs        TypeCorrect, NoCrossDeliveryHolds, ScreensShowTheirChannelHolds,
                        NoOrphansHolds, BoardSpecHolds
        ListenerProofs  CopiesBoundedHolds, DirectoryNeverGoesBackHolds,
                        MessagesNeverDisappearHolds, SendsKeepOrderHolds
MessageBoard            what is said, accepted for posting and posted

ProfileSave             the profile screen, the save threads and the file
  ProfileProperties     the properties; INSTANCE SaveRegister as the abstract specification
    MCProfile           scenarios for TLC
    ProfileProofs       the safety properties and ImplementsRegister
SaveRegister            saves that take effect as a whole, once, and are acknowledged

AsyncOperation          one save as an Operation, in its queue; properties included
  OperationProofs       CompletionAfterSaveHolds, EarlyCancelSavesNothingHolds

Stream                  one connection: states, timers, credentials; operators on a record
  WritePipeline         the write half of RemoteStore over a Stream, and the server
    WriteProperties     the properties; INSTANCE WriteLedger as the abstract specification
      WriteProofs       assertions, progress, LedgerHolds
  WatchTarget           the watch half, over a Stream, an OnlineStateTracker, a TargetState
    WatchProperties     the properties
      MCWatch           what the query matches, version after version
      WatchProofs       TypeCorrect, AssertionsHoldAlways, AcksAreDueAlways,
                        ResumePointHolds, UpToDateHolds
WriteLedger             writes that are committed in order and reported truly
OnlineStateTracker      Unknown, Online, Offline; operators on a record
TargetState             what the aggregator keeps between two snapshots; same

GrpcStream              one call between the worker and the polling thread
  GrpcProperties        the properties
    GrpcProofs          the safety properties

TaskQueue               the worker queue, its tasks and their disposal
  TaskQueueProperties   the properties
    TaskQueueProofs     AliveWhileTouchedHolds, InOrderHolds, DisposeIsFinalHolds
```

The messaging modules and the profile modules share no state, as in the code.
`ProfileSave` treats both ways to save alike, as one background step followed by one
completion; that an `OperationSaver` nobody cancels behaves so is what
`AsyncOperation` shows. Definitions whose comment starts with "Mutant" are faulty
variants of the definition after them. No specification uses them; they are there to
confirm that each property notices the fault.

The client is modelled at two levels that share no module. `FirestoreClient` is what
the app needs: a write is committed and reported, and a query brought up to date, in
single steps. `WritePipeline` and `WatchTarget` are the same parts of the code with
everything between those steps, for one queue of writes and one query. That the coarse
steps are justified by the fine ones is an argument and not a checked refinement:
`WriteLedger`, which `WritePipeline` is proved to implement, has the moves of
`RunWriteTask`, `ServerCommit`, `HandleSuccessfulWrite` and `HandleRejectedWrite`, with
commits that are repeated and rejections of what was committed in both; and
`UpToDate` and `CatchesUp` say of a snapshot what `ApplyRemoteEvent` takes for granted.
In the same way `Stream`'s opening, writing and closing are atomic in the streams and are
taken apart in `GrpcStream`, and all of them are tasks of the queue in `TaskQueue`.

### FirestoreClient

A document is `[coll, id, ver]`. `ver` stands for its fields: a number that grows
with each update, or `Malformed` if one of the fields the app needs is missing.
The ids of messages are pairs (message, copy), so that copies made by a listener
called twice are told apart, as the random ids of `addDocument` do. A query is a
collection, as all of Chatik's are.

| Variable | Code |
|---|---|
| `server` | the database |
| `cache` | the remote document cache (`local_store.cc`), on disk |
| `pending` | the mutation queue, on disk; one batch per write |
| `results` | the results under way on the present call of the write stream, each "older" if the watch stream has brought the document since its commit |
| `listeners[q]` | `EventManager::queries_[q].listeners`, each with `raised_initial_event_` |
| `workerQueue` | `worker_queue_`, the tasks Chatik's calls put there |
| `mainQueue` | the user executor (`AsyncEventListener::OnEvent`) |
| `rejected`, `rootChanges` | history: writes refused; changes of the view of "channels" |

Tasks and answers are actions of the worker: `RunListenTask`
(`EventManager::AddQueryListener`, `SyncEngine::Listen`), `RunWriteTask`
(`SyncEngine::WriteMutations`), `HandleSuccessfulWrite`, `HandleRejectedWrite`,
`ApplyRemoteEvent`, `HandleOffline`, `HandleRejectedListen` (the `SyncEngine`
methods of these names, or the part of `HandleOnlineStateChange` that raises
first snapshots). Every one ends in `EmitNewSnapshots`, as in the code.
`ServerCommit` is the server working on the pipelined writes in order, `LoseResults` the end
of a call whose results have not been read.

Abstractions, and why they are safe for the properties:

* The sync state of a view and the online state only decide whether an *empty
  first* snapshot is raised (`ShouldRaiseInitialEvent`), because Chatik listens
  without metadata changes; both are a nondeterministic `ready`.
* A snapshot for several listeners is one entry of `mainQueue` with the listeners
  still to be called; the code posts one closure per listener, back to back.
* `ApplyRemoteEvent` brings a whole collection up to the server's present state.
  Watch streams may deliver older consistent states first; they are the states of
  the earlier `ApplyRemoteEvent` steps, since `server` changes one document at a
  time.
* A write whose answer was lost is sent again, and carried out again: the handshake sends no
  stream token by which the server could recognise it (`write_stream.cc:81`). So after
  `LoseResults` or a `Crash`, `ServerCommit` starts over with the first pending write and sets
  the document once more, which takes back what another client has changed in it since.
  `HandleSuccessfulWrite` puts the document in the cache if the commit is newer than what is
  there (`local_store.cc:219`); versions are kept only as far as that comparison needs them, in
  `results`. `HandleRejectedWrite` takes the first pending write whatever has become of it, as
  the code does (`remote_store.cc:515`); which error of which write it was is in
  `WritePipeline`.
* No deletes and no limits: Chatik has none, so limbo resolution never starts.

### Chat

| Variable | Code |
|---|---|
| `channelsList` | `ConversationListViewController.channelsList`, as a set |
| `conversations` | the `channel` of every conversation screen since launch; popped screens stay, since their closures hold them |
| `messagesList[s]` | `ConversationViewController.messagesList` of screen `s`, as a set |
| `top` | the screen in front, 0 for the list |
| `sends` | every tap on Send, with the channel its closure captured |
| `copies[m]` | how often the closure of `m` wrote |
| `spent` | how often each bounded action was taken |

Actions are the handlers: `didSelectRow` (with the pushed screen's `viewDidLoad`),
`goBack`, `sendFakeMessage`, `channelButtonTapped`, and `DeliverEvent`, which runs
the closure of `getAllChannels`, `getAllMessages` or `createMessage`. `Crash`
forgets everything but the disk and runs the first `viewDidLoad` again.
`OtherClient` adds or updates channels, breaks a document or posts. Channels are
compared as the code's `==` does, by all fields.

### MessageBoard

Channels in which things are said; an outbox of accepted copies; a board on which
copies appear and stay. `ChatProperties` maps the taps, the mutation queue and the
database to it.

### ProfileSave and SaveRegister

| Variable | Code |
|---|---|
| `screen` | the profile screen in front, 0 for none; each `profileButtonTapped` instantiates a new one |
| `text`, `buffer` | the text fields; `userNameBuffer` and `userInfoBuffer` |
| `hidden`, `enabled`, `fieldsEnabled` | `isHidden` of the five buttons, `isEnabled` of the save buttons and of the fields |
| `spinning` | the activity indicator is animating |
| `defaultImage` | `defaultProfileImageView.image`; `profileImageView.image` is never set |
| `saves` | every save since launch: its screen, what it writes, whether it is queued, written or failed, and whether its completion ran |
| `file` | the save whose profile is in `userProfile.json`, 0 for what was there at launch |
| `strokes` | history: keystrokes |

Each handler is an action of its name; `textField` is the delegate call of a
keystroke, for any new text, the present one included. `Background` is
`saveUserProfile` on whichever thread comes next: it replaces the file as a whole or
fails without a trace. `Completion` is the closure on the main thread. A dismissed
screen lives on in the closures of its saves but is out of sight, so its state is not
kept: a completion changes the form only if its screen is the one in front.

`SaveRegister` is a register to which many saves may be addressed at once.
`ProfileProperties` maps the saves, those settled, those reported and `file` to it.

### AsyncOperation

`state` and `isCancelled` of each operation, how far the queue's thread is with
`start`, whether `saveUserProfile` has returned, and whether the queue has taken the
operation for finished, upon which it runs the `completionBlock`. The queue is
Foundation's: it picks what `isReady` and looks at `isFinished` when `state` changes;
for an operation that says so before the queue has started it, either reaction is
allowed. `cancel` may come at any point although nothing in the app calls it: the two
safety properties are about the class as others may come to use it. `start`
puts the state back to `executing` after `main` has set `finished`: the model keeps
this, and `OperationsComplete` shows that the completion is not lost by it. What does
not hold is that a finished operation stays finished.

### Stream and WritePipeline

`Stream` has a record for what both streams inherit: `state_`, the timers that are
scheduled, the credentials that are still to come (those asked for before the present
`close_count_` are stale), and whether a `HARD_ASSERT` has failed.

| Variable | Code |
|---|---|
| `made` | the number of the last batch |
| `mutations` | the mutation queue of the local store, on disk |
| `network` | `is_network_enabled_` |
| `stream`, `handshake` | the write stream; `handshake_complete_` |
| `pipeline` | `write_pipeline_` |
| `call` | what is on the wire: handshake, requests, responses, the call's status |
| `committed` | what the server has carried out |
| `acked`, `rejected` | what was reported to the user |

An action is one task of the worker with everything it calls: `WriteMutations`; the
stream's timers and credentials; `OnHandshakeComplete` (`OnWriteStreamHandshakeComplete`)
and `OnMutationResult` (`OnWriteStreamMutationResult`); `ReadFails`, `WriteFails` and
`OnGarbledResponse`, which end in `OnStreamFinish` with `OnWriteStreamClose` and
`HandleWriteError`; `EnableNetwork`, `DisableNetwork`, `RestartNetwork` (connectivity or
credentials changed); `Crash`. Batches are numbered as they are made, and every container
of them is filled in that order and emptied from the front, so a set of numbers stands for
it. Of the server it is assumed that a call that has ended commits nothing more. It
carries out what it reads and refuses the batches in `Refused`, whenever they come.

`WriteLedger` says what this adds up to; its `queue` is `mutations`.

### OnlineStateTracker, TargetState and WatchTarget

| Variable | Code |
|---|---|
| `network`, `stream` | as above, of the watch stream |
| `online` | `online_state_tracker_`, with its timer |
| `listening`, `token` | is the target in `listen_targets_`, and its resume token there |
| `state` | its `TargetState`: `outstanding_responses_` ("acks"), `current_`, `has_pending_changes_`, `resume_token_`, `document_changes_` |
| `mismatch`, `updates` | `pending_target_resets_`, `pending_document_updates_` |
| `view` | the `View` of `SyncEngine`: `synced_documents_`, `current_` |
| `data` | the resume token in `LocalStore`'s memory (`target_data_by_target_`) |
| `cache` | on disk: the target's keys and token, the documents, the last snapshot's version |
| `requests`, `responses` | what is under way on the call, in order |
| `server`, `latest` | what the server sends to this call; its version of the data |

There is one query, and its answer at version v is `Contents[v]`; a resume token is the
version it was given at; a document that went and came back is sent again. Each kind of
message is an action (`OnTargetAdded`, `OnTargetRemoved`, `OnTargetCurrent`,
`OnTargetReset`, `OnDocumentFound`, `OnDocumentGone`, `OnExistenceFilter`,
`OnTargetError`, `OnSnapshot`), and so is each entry by user, timer and network. The
server sends what changed since the token, or an existence filter because it no longer
knows which documents are gone, or starts over.

Assumed of the server: it answers every watch and unwatch, in order; a filter comes after
the documents of its snapshot. Left out: local writes and versions of single documents (a
document is in the query or not, and only the server knows that one was replaced); several
targets, which share nothing but the call; limbo resolution in detail (`LimboResolves` is
one step, and its own target is none of this one's; it comes after the target's first
token, since RemoteStore watches a target that was found to differ again before SyncEngine
asks). When a call fails, its unread responses are lost.

### GrpcStream

| Variable | Code |
|---|---|
| `stream` | does the `GrpcStream` exist |
| `worker` | what the worker's present task waits for: the last write (`WriteAndFinish`), `FinishGrpcCall` after a failure or in `Shutdown`, or the rest of `Shutdown` |
| `completions` | `completions_` |
| `finished` | `is_grpc_call_finished_` |
| `active`, `buffered` | `has_active_write_` and the queue of `buffered_writer_` |
| `op` | each `GrpcCompletion`: kind, with gRPC or off its queue or on the worker queue, its result, its callback set or cancelled |
| `queue` | the callbacks on the worker queue |
| `call` | the call at gRPC |

A task of the worker is one step as far as it does not wait. The polling thread has two:
`ComesOff` (the promise is fulfilled, so that a waiting worker may go on) and `IsEnqueued`
(the callback is put on the queue); that the worker may free the stream between them is
the point of the model. gRPC returns a read when there is a message or the call is over, a
write at any time, the end when the call is over. The server or the network ends a call;
only the worker cancels one.

### TaskQueue

| Variable | Code |
|---|---|
| `mode`, `mutex` | `AsyncQueue::mode_` and who holds `AsyncQueue::mutex_` |
| `firestore` | who holds `Firestore::mutex_` |
| `tasks`, `disposed` | `ExecutorLibdispatch::tasks_` (the timers among them are `schedule_`), `disposed_` |
| `task` | each `Task`: what it runs, `state_`, `ref_count_`, `executor_` |
| `queue`, `delayed`, `executing` | libdispatch: to be run, to be run later, running |
| `thread` | where each thread is, the task it is at, and those it still has to cancel |
| `signalled` | `signal_disposing` of `FirestoreClient::Dispose` |
| `terminated` | `remote_store_` is reset (`TerminateInternal`) |
| `returned` | history: `AsyncQueue::Dispose` has returned |

A step is what a thread does under `Executor::mutex_` or `Task::mutex_`, which nothing
blocks under; the two locks held over several steps are variables. `Insert` and `HandOver`
are the halves of `Execute` and `Schedule`, on either side of the executor's unlock;
`Cancel`, `Await`, `Release` those of `Task::Cancel` and its callers; `Dispose`, `Proceed`,
`Close`, `Swap`, `Clear` go from `Firestore::Dispose` to the last task; `Execute`, `Signal`,
`End`, `Finish` are `Task::ExecuteAndRelease` and what the task runs. A task may start and
cancel timers, its own too; `TerminateInternal` cancels them all.

## Properties

A property is checked by one run and, where "Proofs" says so, proved.

| Property | Says |
|---|---|
| `NoCrossDelivery` | a copy of a message is only ever, anywhere, in the collection of the channel of its Send |
| `CopiesBounded` | a Send makes at most one copy plus one per change of the channels since the tap |
| `SendsKeepOrder` | Sends to one channel are written, and reach the server, in the order of the taps, unless the channel's creation is refused |
| `NoOrphans` | a message of this device on the server has its channel there, unless the channel was refused |
| `ScreensShowTheirChannel` | rows belong to the screen's channel and are on the server, pending or just refused |
| `MessagesNeverDisappear` | a row leaves a screen only if the server refused it |
| `DirectoryNeverGoesBack` | neither what the local store shows nor the list goes back to older fields of a channel, although the server and the cache may |
| `BoardSpec` | every behaviour is one of `MessageBoard` |
| `SendsArePosted` | every Send is posted unless the process died, the message or its channel was refused, or the channel changed after the screen copied it |
| `StoredWritesArrive` | what the local store took reaches the server or is rejected, over crashes and lost results |
| `ScreensConverge` | in the end every queue is empty and every screen that still listens shows what the server has |
| `SavedAsTyped` | a save writes what both fields showed at the tap |
| `NoDoubleSave` | a screen asks for at most one save between two keystrokes |
| `SavesStick` | a written save is overwritten only by one under way at its tap, or a later one |
| `SpinnerHonest` | the indicator spins only while a save of the screen is not reported |
| `OneMode` | the form offers Edit, or Cancel and the rest, never a mixture |
| `SavesComplete` | every save is reported, a failed one too |
| `RegisterSpec` | every behaviour is one of `SaveRegister` |
| `CompletionAfterSave` | the queue takes an operation for finished after its save, or it was cancelled |
| `EarlyCancelSavesNothing` | cancelled before `start` looks, an operation never saves (proved only) |
| `OperationsComplete` | an operation nobody cancels is saved and taken for finished |
| `AssertionsHold` (writes) | no `HARD_ASSERT` of the write stream fails, whatever timers, credentials, results and stops meet |
| `WritesAreUnderWay` | until an assertion fails the client holds nothing back: queued writes have a stream on its way, and the whole pipeline is on the wire after the handshake |
| `LedgerSpec` | every behaviour is one of `WriteLedger` |
| `WritesAreReported` | every write is reported, unless the network stays disabled |
| `RejectedIsNotCommitted` | a write reported as failed was not carried out: violated, see "Disagreements" |
| `UpToDate` | a listener told to be up to date sees what the server had at the last snapshot |
| `ResumePoint` | the keys on disk are those the server takes the client to have at the token on disk |
| `CatchesUp` | a listener with the network on sees what the server has, and is told so |
| `AcksAreDue` | the client waits for just those answers that are still to come |
| `AssertionsHold` (watch) | no assertion of the stream, the online tracker or the view fails |
| `NoUseAfterFree` | what gRPC uses exists; a callback finds its stream and itself |
| `FinishedOnce` | the call is finished once |
| `OneAtATime` | one read and one write are with gRPC |
| `BufferIsEmptied` | a buffered message has a write before it that will fetch it |
| `WorkerIsFreed` | the worker never waits for ever |
| `EndIsNoticed` | a call that is over is noticed and released |
| `AliveWhileTouched` | a task is alive just as long as somebody may touch it |
| `InOrder` | tasks run in the order in which they were accepted |
| `DisposeIsFinal` | after `Dispose` the client is terminated and no task runs or will run |
| `DisposeReturns` | `Dispose` returns; violated with a queued `ClearPersistence`, see "Disagreements" |

`SendsArePosted` names the ways a message is lost without a word to the user; TLC needs each
of its four excuses. That the server refuses the query, which drops the Send's listener for
good, is none: at its registration the listener was told what the local store had, and a channel
that did not fit then never will. A screen whose listener is gone stays as it is;
`ScreensConverge` leaves it out.

`NoOrphans` and `SendsKeepOrder` exempt a channel whose creation is refused, for which the code
does nothing. For the order of two Sends TLC shows why: the creation is committed and then
rejected, so that the channel leaves the local store; the second Send's listener is not yet
registered when the server refuses the query, the first one's is, and is dropped; then the watch
stream brings the channel, and only the second is called. Without the refused query the order
is kept in the same instance.

`DirectoryNeverGoesBack` is about what the app is shown. A repeated commit does take the server
back to the channel's first fields, and the cache follows when the watch stream brings them.
But a commit can be repeated only while its write is pending, and a pending write covers the
cache: the app sees the first fields until the write is acknowledged, and then those fields or
what came after them.

## Runs

`CHECK_DEADLOCK` is off everywhere because an app nobody uses any more rests. Users,
other clients and failures are bounded; the steps of the program itself are not, except
where a queue needs numbers to name its entries.

In the runs of `Chat` and `ProfileSave`, a *budget* per kind of action bounds users, other
clients and failures, and `Budgets` is a set of such budgets, one for each scenario; `Init`
chooses one. So one run holds scenarios that would be too large together.

| Run | Instance | Shows |
|---|---|---|
| `sends` | 2 channels; 2 screens and 2 Sends, or 1 screen, 2 Sends and lost results, or 1 Send over an update and a new channel on either side | where, how often and in which order messages are written, and that rows stay: `NoCrossDelivery`, `SendsKeepOrder`, `CopiesBounded`, `MessagesNeverDisappear` |
| `failures` | 2 channels; a channel made and a message sent to it, with a refused write and lost results, or with a crash; 2 screens, a message and a refused write; a channel made, 1 or 2 updates, a broken document, lost results, a refused query, and a crash or a refused write | `TypeOK`, `NoOrphans`, `ScreensShowTheirChannel`, `DirectoryNeverGoesBack`, `BoardSpec` |
| `posts` | 1 channel; 1 screen, 1 Send with a new channel, an update and lost results, or a new channel and a refused write with lost results or a crash, or a post by another client and a refused query; or 2 Sends | `SendsArePosted`, `StoredWritesArrive`, `ScreensConverge` |
| `profile` | 2 texts; 1 screen with 3 saves, or 2 screens with 2 saves and a picked image | everything about the profile screen, `RegisterSpec` and `SavesComplete` included |
| `operations` | 2 operations, cancelled at any point or not | `CompletionAfterSave`, `OperationsComplete` |
| `writes` | 5 writes through a pipeline of 2, the third refused; 4 faults of any kind | `AssertionsHold`, `WritesAreUnderWay`, `LedgerSpec`, `WritesAreReported` |
| `listener` | 2 documents over 5 versions; 3 faults, of them 1 rejected listen; a server 1 version behind | `UpToDate`, `ResumePoint`, `CatchesUp` |
| `answers` | 1 change; the user stops twice, 1 fault or rejection, a server 1 version behind | `AcksAreDue`, `AssertionsHold` |
| `threads` | 5 completions, 2 messages in either direction, either side ends the call at any time | the six properties of `GrpcProperties` |
| `queue` | 2 threads, 4 tasks, all of them timers or plain except the last, which may be Dispose's | `AliveWhileTouched`, `DisposeIsFinal`, `InOrder`, `DisposeReturns` |
| `overtaken` | 4 writes, pipeline of 4, no fault but the refusal of the third | `RejectedIsNotCommitted` fails |
| `clearing` | 2 threads, 3 tasks, requests for `ClearPersistence` | `DisposeReturns` fails |

Why these are enough to be interesting:

* *Messaging.* Two channels are the least for a message to reach the wrong one; two Sends
  the least for an order and for two write closures on one query; one change after the tap
  the least for a closure to be called again and for the captured channel to be stale; the
  crash comes at every point of the path of a channel and of a message behind it, and so does
  the loss of a result, after which one commit is repeated. `posts` has one channel, the
  one that is made in it or was there before: what its properties say is about one channel's
  path to its end, and the other two runs have two.
* *Profile.* Three saves are the least for one to be under way while another is overwritten
  by a third, two screens the least for a completion to meet a form that is not its own; a
  keystroke may repeat the present text, so two texts give every answer of the comparison in
  `textField`.
* *Operations* do not interact; the run covers every order of one operation's steps and
  cancellations.
* *Writes.* A pipeline of two under five writes is full, is refilled after results and after
  a refusal, and has batches waiting outside; `kMaxPendingWrites` is 10 in the code and
  nothing depends on its value, and the proofs are for any. Four faults let a lost response,
  a failed reconnect and a network switch or crash follow each other.
* *Listener.* Over five versions of two documents, one comes while another stays, goes, comes
  back and goes again, so that a resumed client may miss a deletion, an addition or both;
  three faults reach a resume from a token that was reset. The server may start a watch one
  version behind the client's last snapshot, though not behind the token, so that its snapshot
  is passed over.
* *Answers.* Two stops are the least for watch, unwatch, watch, unwatch of one target to be
  under way together.
* *Threads.* Five completions are a read and a write with gRPC and one of each on the worker
  queue, and the end; two writes are the least for one to be buffered, two messages the least
  for a read to be issued in a callback.
* *Queue.* Two threads are the least for enqueueing to race disposal, or disposal disposal;
  four tasks are two that run, a timer and Dispose's.

What they leave out is, besides more of the same, two crashes in one scenario of the app, more
than two operations of a kind on a call, and the cases named under "Disagreements".

The runs `sends` and `failures` take channels to be symmetric, which they are: no definition
names one. The runs with liveness do not use symmetry.

## Fairness

`FairSpec` adds weak fairness for the worker's tasks and for delivery on the main
queue, which both are serial queues that run whatever is put there; and for
`ServerCommit`, `HandleSuccessfulWrite` and `ApplyRemoteEvent`, which says that the
network comes back: the write stream restarts while the pipeline is not empty and
the watch stream while there are targets (`remote_store.cc`). Users, other clients,
refusals and crashes are never obliged to act, nor is `HandleOffline`.

For `ProfileSave` fairness is that of the background threads and of the main queue; for
`AsyncOperation` that the queue runs what is ready and its thread goes on. Nobody is
obliged to cancel.

`WritePipeline`: the backoff timer elapses, credentials arrive, responses are read, the
server shakes hands and carries out or refuses what it gets, and a call that ended fails its
next read. `WatchTarget`: the same, and the server sends what it owes to a target and answers
about a document in limbo. Both need no fairness for the idle, health and online timers, nor
for anything that goes wrong.

`GrpcStream`: the worker and the polling thread go on, and gRPC gives back what it can: a read
only when there is a message or the call is over, so that a quiet call makes nobody progress.
A wait of the worker is fair because what it waits for was cancelled or has ended first
(`Shutdown` cancels; a failed operation means the call has ended).

`TaskQueue`: every thread that is inside a call goes on, libdispatch runs what it was given,
timers elapse and operations return. Nobody is obliged to call the client.

## Proofs

All theorems hold for any values of the constants: any set of channels, texts and
operations, threads and tasks, any budgets and bounds, and with them any number of screens,
Sends, saves, writes, crashes and other clients.

### Messaging

* `TypeCorrect` (`ChatProofs`): `Spec => []TypeOK`. The types alone are not inductive:
  the closure a snapshot is delivered to indexes `sends` or `messagesList` with what it
  captured, and a document of the wrong collection would give a channel or a row of the
  wrong type. The invariant `Inv` adds `Served`: every closure in a task, with a listener
  or in a snapshot belongs to the query it is registered with and names a screen or a
  Send that exists, and a snapshot holds documents of that query only. There is one lemma
  per action, with the library's lemmas stated over its own variables.
* `NoCrossDeliveryHolds` (`ChatProofs`). Only `OnChannelsForSend` makes a message of
  this device, and there equality of the channel looked up with the captured one implies
  equality of their identifiers; every other action only moves documents. It needs `Inv`
  to know that the closure's message is one of `sends`.
* `ScreensShowTheirChannelHolds` (`ChatProofs`). A row comes from a snapshot, which was
  taken from the cache and the queue when the worker ran, so the invariant has to follow
  documents all the way: the messages in the cache (`CacheKnown`), in the snapshots on
  their way (`QueueKnown`) and on the screens (`RowsKnown`) are on the server, pending or
  refused. They stay so because a pending write leaves the queue only for the server or as
  refused, and because a message of this device has one version only (`Genuine`), so that
  the document found on the server under its id is the very one that was pending.
* `NoOrphansHolds` (`ChatProofs`). That a message is behind its channel is a fact about
  the order in the mutation queue, so the invariant `HouseInv` has to say where each message
  finds its channel: one on the server, on the server or among the refused (`ServerHoused`);
  one in the mutation queue, there or before it in the queue (`PendingHoused`); one in a task
  of the worker, there or anywhere in the queue (`TasksHoused`). A message is written because
  a snapshot showed its channel, so those in snapshots and in the cache must be known as well
  (`NewsHoused`, `CacheHoused`). The server takes a write only after all before it, and the
  head leaves the queue only for the server or as refused.
* `BoardSpecHolds` (`ChatProofs`): `Chat` implements `MessageBoard`. The step that runs a
  write is `Accept`; a first commit is `Publish`, a repeated one no step; an
  acknowledgement is `Settle`, and so is the rejection of a committed write, that of
  another is `Refuse`; what others do is the board's environment, and every other step
  leaves the board as it is. The mapping forgets on which of two queues a write is, so the
  proof needs that no write is there twice: `WriteInv` says that the copies of a Send are
  numbered as they are written (`Numbered`), that no two writes in either queue are of one
  document (`QueuedApart`, `PendingApart`), that none in a task has been seen anywhere
  (`QueuedUnseen`), and that none pending was refused (`PendingNotRefused`).
* `CopiesBoundedHolds` (`ListenerProofs`). A Send's listener is never removed and writes each
  time it is called. `InLine` says that closures of Sends stand in the order of the taps in
  the tasks, among the listeners, behind one another and in each snapshot (`TasksInLine`,
  `ListenersInLine`, `TasksBehind`, `CallsInLine`); `Owed` counts: each copy and each call on
  its way after the first is paid for by a change since the tap (`Paid`, `CallsPaid`), the
  versions of the calls under way to one closure grow strictly (`CallsRise`), and nobody is
  called before registration (`NotYet`).
* `DirectoryNeverGoesBackHolds` (`ListenerProofs`). The list is set from snapshots that
  were taken earlier, and the store is changed by acknowledgements as well as by watch
  snapshots. `DirectoryInv` orders them. By `Versions` the server has one version of a
  channel (`ServerHasOne`), and so or older has the cache, unless the channel's creation
  is pending and so may be committed again, or was refused (`CacheBehind`); a commit that
  is older than what the cache has is so on the server (`OlderBehind`); and a write of a
  channel that waits has the first fields (`MadeFirst`). The snapshots on their way to the
  list follow each other (`ListInOrder`), and the store follows them (`ListBehindStore`);
  both follow the rows (`RowsBehindList`, `RowsBehindStore`). A channel that cannot be
  read is so on the server, and no write of it waits (`BrokenThere`), which is why a row
  may vanish for it.
* `MessagesNeverDisappearHolds` (`ListenerProofs`). A screen replaces its rows by each
  snapshot. `GrowInv`: of two snapshots on their way to one screen the later holds what the
  earlier holds (`SnapshotsGrow`), the store what each of them holds (`StoreGrows`), and each
  of them the rows (`RowsGrow`), but for refused messages; and rows can be read
  (`RowsReadable`).
* `SendsKeepOrderHolds` (`ListenerProofs`). Of two Sends to one channel in one launch the
  first is called first: their closures are of one query, the first was registered first,
  and each snapshot calls both in that order. `SendInv`: only Sends of this launch can be
  called (`Alive`). A captured channel is still shown as it was, or newer, or was refused
  (`CapturedBehind`), and never as it was once more, since the cache has one version of it
  (`OneVersion`). As long as the channel's creation is not refused (`Kept`): whoever's
  channel is shown as captured has written, or a call that will is on its way
  (`AllInformed`), and the first is so before the second (`FirstHeard`); what has written
  is found somewhere (`AllWritten`), and the copies keep their order in both queues and on
  the server (`WriteOrder`). A refused query silences listeners for good; it does no harm,
  as they were told at their registration what the store had, and a channel that did not
  fit then never will.

### Profile

`ProfileProofs` has one inductive invariant for all of it. Beyond the properties
themselves it says that the buffers mirror the fields (`Mirror`), that screens are
numbered as they are opened (`Known`), that an enabled save button implies a keystroke
since the screen's last save (`Fresh`), and that what was settled at a tap stays settled
(`Past`). From it follow `ProfileTypeCorrect`, `SavedAsTypedHolds`, `NoDoubleSaveHolds`,
`SavesStickHolds`, `SpinnerHonestHolds`, `OneModeHolds` and the refinement
`ImplementsRegister`: a tap is `Ask`, `Background` is `Settle`, `Completion` is `Ack`, and
everything else a stuttering step.

`OperationProofs` proves `CompletionAfterSaveHolds` and `EarlyCancelSavesNothingHolds`. The
invariant `Progress` ties the position of the queue's thread to what has been saved, and
says that an early cancellation is never followed by `main`.

### Writes

`WriteProofs` has one invariant for three theorems. `QueueOK`: the pipeline is a front
part of the local queue. `StreamOK`: timers and credentials belong to the state the stream
is in. `CallOK`: the responses under way are those of the pipeline's first batches, which
are committed, and with the requests they make up the pipeline; that is what makes "the
first result is the front batch's" right over lost responses and reconnects. `NeedOK`: the
stream runs while it is needed, until an assertion fails, and may become idle only with an
empty pipeline. `HeadOK`: the pipeline is not empty while something is queued. From it
follow

* `UnderWayAlways`: `WritesAreUnderWay`, for any status a call ends with; a failed assertion
  ends the process, and the property ends with it;
* `AssertionsHoldAlways`: `AssertionsHold`, for servers that never end a call with OK
  (`"ok" \notin Statuses`; see "Disagreements"); this is the only theorem that assumes it;
* `LedgerHolds`: `WritePipeline` implements `WriteLedger`, for any status too. A commit is
  `Commit` since the server works through the pipeline in order; a result acknowledges the
  front batch, which is committed and the first of the queue.

### gRPC calls

`GrpcProofs`: beyond the types, whatever is with gRPC or has its callback is among the
stream's completions and the stream exists (`OwnedOK`); one read and one write (`OneOK`);
a live write is there while the buffer is not empty (`WriterOK`); a worker that waits for
completions has cancelled all callbacks (`WaitOK`). It gives `NothingIsUsedAfterFree`,
`OneAtATimeAlways`, `BufferIsEmptiedAlways`, `FinishedOnceAlways` and `TypeHolds`, for any
number of completions, messages and writes.

### Worker queue

`TaskQueueProofs`: a task has two possible owners. One is the executor's table, or whoever
took the task from there to cancel it; the other is libdispatch. The invariant says that
either side has a task at most once (`TableOK`, `LibOK`), that the reference count is the
number of sides that have it, and 0 means freed (`RefsOK`), that a task which is created
but not yet handed over is in the table with the queue's lock held (`HandOK`), that nobody
empties the table of a queue that is not disposed (`PlacesOK`), and that what is queued is
in order (`OrderOK`). `HandOK` is what the order of the locks in `AsyncQueue` buys: nobody
can take the task from the table before libdispatch has its reference. It gives
`AliveWhileTouchedHolds` and `InOrderHolds`, for any number of threads and tasks, in all
modes, `ClearPersistence` included.

`DisposeIsFinalHolds` says that when Dispose has returned, no task runs or is to come. Its
invariant `FinalInv` adds the history of a disposal to the above. The lock of `Firestore`
keeps other disposals out, and the queue's mode keeps new tasks out. What Dispose waited for
has signalled, was in the executor's table and is over; and the shutdown task ends only with
no timer left in the schedule. So what the table does not hold at the end is over.

### The watch stream

`WatchProofs` proves, for any finite set of documents, any contents, any number of stops,
faults and rejections and any lag of the server:

* `TypeCorrect`;
* `AssertionsHoldAlways`. `ConnectionOK`: credentials and timers belong to the states that
  wait for them, the idle timer runs only while nothing is listened to, and a call that is
  over leaves nothing of its requests, responses and target states. `TrackerOK`: the tracker
  waits only for a first attempt that is under way. `ChangesOK`: a view that is listened to
  has the keys that are on disk, and the changes collected for the target fit those: a
  document is recorded as added just if the target has not got it, which is what
  `View::ApplyTargetChange` asserts;
* `AcksAreDueAlways`: each request and each answer counts once (`AcksOK`), and until the
  first rejection no error is among the responses;
* `ResumePointHolds` and `UpToDateHolds`, as long as nobody stops listening and no listen is
  rejected (`Steady`). Both limits are the code's. Stopping and listening again around a count
  that does not match breaks `UpToDate`, and a rejection makes the client miscount answers (see
  "Disagreements"); Chatik never stops listening, and of rejections `listener` checks one.
  Network changes, lost calls, crashes, stale servers, counts and resets are all in the theorems.

The last two need an invariant about messages that nobody has read yet, `LiveOK`. A message
counts if no answer is due behind it (`Live`), which by `AcksOK` is when the client takes it in.
`Has(s, E, d, j)` says whether a document d is there after the first j messages, if those in E
were before: the last message that counts and says anything of it says that it was found, or
none says anything and it was there. With that, `LiveOK` says:

* `Store` and `Following`: the keys on disk are what the query matched at the token on disk,
  and at the one in memory; and no version between a token and the last snapshot has lost any of
  them, which is why a token that is all that changed need not be written, and why a snapshot
  that is older than the last may be passed over.
* `Snapshots`: unless a count that will not match comes before, the changes collected so
  far and the messages up to a snapshot bring the target to what the query matched at its
  version, and a document of which they say nothing was there at every version since the
  token. `Pairs` says the same from one snapshot to a later one. The server's own notion
  of what it has sent is treated as one more snapshot at the end, so that what it sends
  next has something to start from.
* `Filters`: a count comes with a version, to a client that has that version's documents and its
  own old ones, with its snapshot next. So it matches just if none was lost: the counts are equal
  just if the sets are (`CountFinds`).
* `Collected`: what is to be added was found. After a count that did not match, everything
  is to be removed at the next snapshot, which is next, and newer than the last; so it is
  not passed over.
* `Fresh`, `Waiting`: while answers are due nothing is collected, only a target that was started
  over waits for more than one, and a server that is about to start has the client's token.

### Assumptions, and what is only model-checked

The assumptions are those on the constants: `Root` is no channel, `Malformed` no number,
`NoChannel` no channel value, `Empty` a text, `MayCancel` a set of operations, `Budgets` a set
of functions to numbers; bounds are numbers, `kMaxPendingWrites` not 0, `Statuses` are among
the three there are; `Queue` is not one of the `Threads` and none of these is "free", and
`Requests` are among the two kinds; `Docs` is finite and `Contents` a sequence of sets of them.
Of fairness the theorems use nothing. Beyond these, `AssertionsHoldAlways` of the writes assumes
that no call ends with the status OK (`"ok" \notin Statuses`), which nothing in the repository
promises; `ResumePointHolds`, `UpToDateHolds` and `AcksAreDueAlways` state their conditions in
their statements. What the models assume of the server is part of their definitions: it works
through a call's writes in order, an ended call commits nothing more, and it answers every
watch and unwatch in order.

Every safety property that a passing run checks is proved, `UpToDate` and `ResumePoint` as long
as `Steady` holds; after a rejected listen these two are only model-checked. Out of the
prover's reach are the liveness properties
`SendsArePosted`, `StoredWritesArrive`, `ScreensConverge`, `SavesComplete`, `OperationsComplete`,
`WritesAreReported`, `CatchesUp`, `WorkerIsFreed`, `EndIsNoticed` and `DisposeReturns`.

## Disagreements

Two runs show the code to disagree with what its comments say.

* `overtaken`. `remote_store.cc:513` says of a permanent error "the request itself was the
  problem so it's not going to succeed if we resend it", and the code rejects
  `write_pipeline_.front()`. The server has carried out writes 1 and 2 and refuses 3; before
  their results are read, the client writes 4 on the call, which fails at once;
  `GrpcStream::OnOperationFailed` gives up the reads, so that the front is 1. It is reported
  as failed although it was carried out, and 3 is sent again.
* `clearing`. `core/firestore_client.cc:249` says that Dispose may race `ClearPersistence`.
  But `Firestore::Dispose` holds `Firestore::mutex_` (`api/firestore.cc:85`) while it waits for
  its own task, and the task of `ClearPersistence` ahead of it in the queue takes the same
  lock (`api/firestore.cc:188`): both wait for ever. Chatik calls neither.

The following were met while modelling and are outside the bounds of the runs, since the
documents quoted say nothing against them or since they need a server that need not exist.

* A call that the server ends with OK while writes are under way fails the assertion that the
  stream "was stopped gracefully while still needed" (`remote_store.cc:456`); `WritePipeline`
  has it with "ok" among `Statuses`.
* If the user stops and listens again between an existence filter that does not match and the
  next snapshot, that snapshot passes over the target, since answers are still to come, and
  starts it over without a token; the answer to the new watch then clears the removals that
  the filter had recorded (`remote_event.cc:159`), and documents that are gone stay. TLC finds
  it in `listener` with `MaxStops` 1. Chatik never stops listening.
* A rejected listen erases the target's state with its outstanding responses
  (`remote_event.cc:361`), and the count may then go below zero (`remote_event.h:208`);
  `AcksAreDue` therefore excludes rejections. If the query is listened to again and rejected
  again around a target that is started over, messages of an older watch are taken for those
  of the new one: TLC finds `ResumePoint` violated in `listener` with `MaxErrors` 2.
* When listening ends on a stream that is not open, the online state becomes Unknown without
  a timer that would decide it (`remote_store.cc:187`, `online_state_tracker.cc:47`).
* `grpc_stream.cc:235` says of the buffer that nothing is taken from it after Finish;
  `WriteAndFinish` of a finished call still enqueues (`grpc_stream.cc:148`), which is harmless.
* A timer that cancels itself while it runs leaves `tasks_` (`executor_libdispatch.mm:220`),
  so that disposal does not wait for it; `DisposeIsFinal` holds because `TerminateInternal`
  runs on the same queue before.

## Not modelled

* Row order (`sort` by date) and the text of names, messages and dates.
* Drawing: cells, bars, alerts. Themes: one synchronous handler per tap, which sets colours;
  nothing it does outlives the tap or meets another actor. Core Data: nothing calls the
  service, so no state of the program reaches it.
* Of the profile screen, the choice between camera and gallery and the keyboard focus;
  of its executors and its file, loading, which nothing calls.
* A crash during a save: the file is replaced as a whole, and the next launch does not
  read it.
* Within the Firestore client: limits, orders, transactions, bundles, several mutations per
  batch, garbage collection, the local store's tables and their index, the serializer, and
  limbo resolution beyond its effect. Of the worker queue: `ExecuteBlocking` and what forces or
  skips timers, which only tests use, the executor of the user's callbacks, and `ExecutorStd`,
  which this platform does not build.
* A conversation screen without a channel (`channelsList[safe:]` returning nil): the
  list and its table change together on the main thread, so the index of a tapped row
  is in range.
* Everything else under `Pods`: BoringSSL, gRPC, abseil, leveldb, nanopb, the Firebase core
  and the client's generated root certificates. By lines it is nearly all of the repository
  (some 660,000 of them, against 1500 of the app), it is third-party code below what the app's
  behaviour depends on, and its effect is the nondeterminism of the models above it: calls
  end, answers are late or lost, the disk keeps what was committed.

## What is left

1. The coarse steps of `FirestoreClient` as a checked refinement by `WritePipeline` and
   `WatchTarget`.
