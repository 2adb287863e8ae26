------------------------------ MODULE TaskQueue ------------------------------
(***************************************************************************)
(* The worker queue of the Firestore client and how it is shut down:       *)
(* AsyncQueue (util/async_queue.cc) on ExecutorLibdispatch                 *)
(* (util/executor_libdispatch.mm), whose tasks (util/task.cc) count their  *)
(* references, and FirestoreClient::Dispose under Firestore's lock.        *)
(*                                                                         *)
(* libdispatch runs one task of the queue at a time, on the thread Queue.  *)
(* A step is what a thread does under Executor::mutex_ or Task::mutex_:    *)
(* nothing blocks there.  AsyncQueue::mutex_ and Firestore::mutex_ are     *)
(* held over several steps and are variables.                              *)
(***************************************************************************)
EXTENDS Naturals, Sequences

CONSTANTS
  Threads,    \* those that call the client
  Queue,      \* the thread that runs the tasks
  Requests,   \* the kinds of task they ask for
  MaxTasks    \* bound: tasks created, the last of them kept for Dispose

ASSUME ThreadsAssumption == Queue \notin Threads /\ "free" \notin Threads \cup {Queue}
ASSUME RequestsAssumption == Requests \subseteq {"plain", "clear"}
ASSUME TasksAssumption == MaxTasks \in Nat

Tasks == 1..MaxTasks
All == Threads \cup {Queue}

\* What a task runs: a plain operation or a delayed one, ClearPersistence, or
\* TerminateInternal, for TerminateAsync or for Dispose.
Kinds == {"plain", "timer", "clear", "terminate", "dispose"}

VARIABLES
  mode,        \* AsyncQueue::mode_
  mutex,       \* who holds AsyncQueue::mutex_
  firestore,   \* who holds Firestore::mutex_
  tasks,       \* tasks_; the timers among them are schedule_
  disposed,    \* disposed_
  task,        \* the tasks: kind, state_, ref_count_, executor_
  created,     \* how many there are
  queue,       \* what libdispatch will run
  delayed,     \* what it will run later
  executing,   \* what it runs, 0 for nothing
  thread,      \* where a thread is, the task it is at, and those left to it
  signalled,   \* the tasks that set signal_disposing
  terminated,  \* is remote_store_ reset
  returned     \* history: has AsyncQueue::Dispose returned

vars == <<mode, mutex, firestore, tasks, disposed, task, created, queue,
          delayed, executing, thread, signalled, terminated, returned>>

NoTask == [kind |-> "plain", state |-> "none", refs |-> 0, executor |-> "null"]

Init ==
  /\ mode = "running" /\ mutex = "free" /\ firestore = "free"
  /\ tasks = {} /\ disposed = "no"
  /\ task = [t \in Tasks |-> NoTask] /\ created = 0
  /\ queue = <<>> /\ delayed = {} /\ executing = 0
  /\ thread = [p \in All |-> [at |-> "free", task |-> 0, left |-> {}]]
  /\ signalled = {} /\ terminated = "no" /\ returned = "no"

At(p) == thread[p].at
Goes(p, place) == thread' = [thread EXCEPT ![p].at = place]
GoesTo(p, place, t) ==
  thread' = [thread EXCEPT ![p].at = place, ![p].task = t]

\* Task::Release deletes the task with its last reference.
Released(r) == [r EXCEPT !.refs = @ - 1,
                         !.state = IF r.refs = 1 THEN "freed" ELSE @]

TasksOnly == UNCHANGED <<mode, mutex, firestore, disposed, created, queue,
                         delayed, signalled, terminated, returned>>

-----------------------------------------------------------------------------
(* Enqueueing: AsyncQueue::mutex_ is held until libdispatch has the task *)

Accepts(kind) ==
  IF kind \in {"plain", "timer"} THEN mode = "running" ELSE mode # "disposed"

WithinBounds(kind) ==
  created < IF kind = "dispose" THEN MaxTasks ELSE MaxTasks - 1

\* Mutant: the lock is given back before libdispatch has the task.
HolderNobody(p) == "free"

Holder(p) == p

\* Executor::Execute and Schedule, up to the unlock.
Insert(p, kind) ==
  LET t == created + 1
  IN /\ mutex = "free" /\ Accepts(kind) /\ disposed = "no"
     /\ WithinBounds(kind)
     /\ mutex' = Holder(p) /\ created' = t
     /\ task' = [task EXCEPT ![t] = [kind |-> kind, state |-> "initial",
                                     refs |-> 1, executor |-> "set"]]
     /\ tasks' = tasks \cup {t}
     /\ GoesTo(p, "handing", t)
     /\ UNCHANGED <<mode, firestore, disposed, queue, delayed, executing,
                    signalled, terminated, returned>>

\* Where a thread goes on once libdispatch has its task.
After(kind) == CASE kind = "timer" -> "operating"
                 [] kind = "dispose" -> "waiting"
                 [] OTHER -> "free"

\* libdispatch gets a reference of its own.
HandOver(p) ==
  LET t == thread[p].task
  IN /\ At(p) = "handing"
     /\ task' = [task EXCEPT ![t].refs = @ + 1]
     /\ IF task[t].kind = "timer"
        THEN delayed' = delayed \cup {t} /\ UNCHANGED queue
        ELSE queue' = Append(queue, t) /\ UNCHANGED delayed
     /\ mutex' = "free"
     /\ Goes(p, After(task[t].kind))
     /\ UNCHANGED <<mode, firestore, tasks, disposed, created, executing,
                    signalled, terminated, returned>>

Enqueue(p) == At(p) = "free" /\ \E kind \in Requests : Insert(p, kind)

\* AsyncQueue::EnterRestrictedMode
Restrict(p, next) ==
  /\ mutex = "free"
  /\ mode' = IF mode = "disposed" THEN mode ELSE "restricted"
  /\ Goes(p, next)
  /\ UNCHANGED <<mutex, firestore, tasks, disposed, task, created, queue,
                 delayed, executing, signalled, terminated, returned>>

\* EnqueueEvenWhileRestricted finds the queue disposed.
Refused(p, next) ==
  /\ mutex = "free" /\ mode = "disposed"
  /\ Goes(p, next)
  /\ UNCHANGED <<mode, mutex, firestore, tasks, disposed, task, created, queue,
                 delayed, executing, signalled, terminated, returned>>

TerminateAsync(p) ==
  \/ At(p) = "free" /\ Restrict(p, "terminating")
  \/ At(p) = "terminating" /\ (Insert(p, "terminate") \/ Refused(p, "free"))

-----------------------------------------------------------------------------
(* Cancelling *)

\* Mutant: a task waits for itself, too.
AwaitsAnyone(p, t) == TRUE

\* Task::Cancel waits for a running task, unless it is called by that task.
Awaits(p, t) == p # Queue

\* Task::Cancel: from now on the task makes no callback to the executor.
Cancel(p) ==
  LET t == thread[p].task
      cancelled == [task[t] EXCEPT !.executor = "null"]
  IN /\ At(p) = "cancelling"
     /\ CASE task[t].state = "initial" ->
               /\ task' = [task EXCEPT ![t] = [cancelled EXCEPT !.state = "cancelled"]]
               /\ Goes(p, "releasing")
          [] task[t].state = "running" ->
               /\ task' = [task EXCEPT ![t] = cancelled]
               /\ Goes(p, IF Awaits(p, t) THEN "awaiting" ELSE "releasing")
          [] OTHER -> UNCHANGED task /\ Goes(p, "releasing")
     /\ TasksOnly /\ UNCHANGED <<tasks, executing>>

Await(p) ==
  /\ At(p) = "awaiting"
  /\ task[thread[p].task].state \in {"cancelled", "done"}
  /\ Goes(p, "releasing")
  /\ TasksOnly /\ UNCHANGED <<tasks, task, executing>>

\* The canceller took the task from the executor, and its reference with it.
Release(p) ==
  /\ At(p) = "releasing"
  /\ task' = [task EXCEPT ![thread[p].task] = Released(@)]
  /\ Goes(p, IF p = Queue THEN "operating" ELSE "clearing")
  /\ TasksOnly /\ UNCHANGED <<tasks, executing>>

-----------------------------------------------------------------------------
(* Disposing *)

\* Firestore::Dispose and FirestoreClient::Dispose
Dispose(p) ==
  \/ /\ At(p) = "free" /\ firestore = "free"
     /\ firestore' = p
     /\ Goes(p, "disposing")
     /\ UNCHANGED <<mode, mutex, tasks, disposed, task, created, queue, delayed,
                    executing, signalled, terminated, returned>>
  \/ At(p) = "disposing" /\ Restrict(p, "enqueueing")
  \/ At(p) = "enqueueing" /\ (Insert(p, "dispose") \/ Refused(p, "closing"))

\* The future of signal_disposing
Proceed(p) ==
  /\ At(p) = "waiting" /\ thread[p].task \in signalled
  /\ Goes(p, "closing")
  /\ TasksOnly /\ UNCHANGED <<tasks, task, executing>>

\* AsyncQueue::Dispose
Close(p) ==
  /\ At(p) = "closing" /\ mutex = "free"
  /\ mode' = "disposed"
  /\ Goes(p, "swapping")
  /\ UNCHANGED <<mutex, firestore, tasks, disposed, task, created, queue,
                 delayed, executing, signalled, terminated, returned>>

\* ExecutorLibdispatch::Dispose takes all tasks, then cancels each.
Swap(p) ==
  /\ At(p) = "swapping"
  /\ disposed' = "yes" /\ tasks' = {}
  /\ thread' = [thread EXCEPT ![p].at = "clearing", ![p].left = tasks]
  /\ UNCHANGED <<mode, mutex, firestore, task, created, queue, delayed,
                 executing, signalled, terminated, returned>>

Clear(p) ==
  /\ At(p) = "clearing"
  /\ IF thread[p].left = {}
     THEN /\ Goes(p, "free")
          /\ firestore' = "free" /\ returned' = "yes"
     ELSE /\ \E t \in thread[p].left :
               thread' = [thread EXCEPT ![p].at = "cancelling", ![p].task = t,
                                        ![p].left = @ \ {t}]
          /\ UNCHANGED <<firestore, returned>>
  /\ UNCHANGED <<mode, mutex, tasks, disposed, task, created, queue, delayed,
                 executing, signalled, terminated>>

-----------------------------------------------------------------------------
(* The queue's thread: Task::ExecuteAndRelease *)

TimerElapses ==
  \E t \in delayed :
    /\ delayed' = delayed \ {t} /\ queue' = Append(queue, t)
    /\ UNCHANGED <<mode, mutex, firestore, tasks, disposed, task, created,
                   executing, thread, signalled, terminated, returned>>

Execute ==
  /\ At(Queue) = "free" /\ queue # <<>>
  /\ queue' = Tail(queue) /\ executing' = Head(queue)
  /\ IF task[Head(queue)].state = "initial"
     THEN /\ task' = [task EXCEPT ![Head(queue)].state = "running"]
          /\ Goes(Queue, "operating")
     ELSE Goes(Queue, "finishing") /\ UNCHANGED task
  /\ UNCHANGED <<mode, mutex, firestore, tasks, disposed, created, delayed,
                 signalled, terminated, returned>>

Kind == task[executing].kind

\* AsyncQueue::EnqueueAfterDelay, by an operation that starts a timer
Schedule == At(Queue) = "operating" /\ Kind \in {"plain", "timer"}
              /\ Insert(Queue, "timer")

\* ExecutorLibdispatch::Cancel of a timer still in schedule_, perhaps the one
\* that is running
CancelTimer ==
  /\ At(Queue) = "operating"
  /\ \E t \in tasks :
       /\ task[t].kind = "timer"
       /\ tasks' = tasks \ {t}
       /\ GoesTo(Queue, "cancelling", t)
  /\ TasksOnly /\ UNCHANGED <<task, executing>>

\* The first thing Dispose's task does
Signal ==
  /\ At(Queue) = "operating" /\ Kind = "dispose"
  /\ signalled' = signalled \cup {executing}
  /\ UNCHANGED <<mode, mutex, firestore, tasks, disposed, task, created, queue,
                 delayed, executing, thread, terminated, returned>>

\* Mutant: TerminateInternal leaves the timers alone.
MayEndWithTimers ==
  CASE Kind = "clear" -> firestore = "free"
    [] Kind = "dispose" -> executing \in signalled
    [] OTHER -> TRUE

\* ClearPersistence takes Firestore's lock.  TerminateInternal has signalled if
\* it is Dispose's, and has cancelled all timers.
MayEnd ==
  CASE Kind = "clear" -> firestore = "free"
    [] Kind \in {"terminate", "dispose"} ->
         /\ Kind = "dispose" => executing \in signalled
         /\ \A t \in tasks : task[t].kind # "timer"
    [] OTHER -> TRUE

\* The operation returns, the task is done, and tells the executor unless it
\* was cancelled; ExecutorLibdispatch::OnCompletion releases it if it is still
\* in tasks_.
End ==
  /\ At(Queue) = "operating" /\ MayEnd
  /\ terminated' = IF Kind \in {"terminate", "dispose"} THEN "yes" ELSE terminated
  /\ LET done == [task[executing] EXCEPT !.state = "done"]
     IN IF done.executor = "set" /\ executing \in tasks
        THEN /\ task' = [task EXCEPT ![executing] = Released(done)]
             /\ tasks' = tasks \ {executing}
        ELSE task' = [task EXCEPT ![executing] = done] /\ UNCHANGED tasks
  /\ Goes(Queue, "finishing")
  /\ UNCHANGED <<mode, mutex, firestore, disposed, created, queue, delayed,
                 executing, signalled, returned>>

\* libdispatch's reference goes last.
Finish ==
  /\ At(Queue) = "finishing"
  /\ task' = [task EXCEPT ![executing] = Released(@)]
  /\ executing' = 0
  /\ Goes(Queue, "free")
  /\ TasksOnly /\ UNCHANGED tasks

-----------------------------------------------------------------------------

Step(p) == HandOver(p) \/ Cancel(p) \/ Await(p) \/ Release(p)

Disposal(p) == Dispose(p) \/ Proceed(p) \/ Close(p) \/ Swap(p) \/ Clear(p)

Operation == Execute \/ Signal \/ End \/ Finish
               \/ (CancelTimer /\ Kind \in {"terminate", "dispose"})

Next ==
  \/ \E p \in Threads : Enqueue(p) \/ TerminateAsync(p) \/ Disposal(p)
  \/ \E p \in All : Step(p)
  \/ TimerElapses \/ Schedule \/ CancelTimer \/ Operation

Spec == Init /\ [][Next]_vars

\* Every thread goes on, libdispatch runs what it was given and timers elapse;
\* nobody is obliged to call the client.
FairSpec ==
  /\ Spec
  /\ \A p \in Threads : WF_vars(At(p) # "free" /\ Disposal(p))
  /\ \A p \in All : WF_vars(Step(p))
  /\ WF_vars(TimerElapses) /\ WF_vars(Operation)
=============================================================================
