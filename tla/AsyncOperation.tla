--------------------------- MODULE AsyncOperation ---------------------------
(***************************************************************************)
(* AsyncOperation and OperationSaver (Services/Managers.swift), each in an *)
(* OperationQueue of its own, which is Foundation's.  The queue learns of  *)
(* the operation through key-value observing of its state; start runs on   *)
(* a thread of the queue, cancel may be called from any other.             *)
(***************************************************************************)
EXTENDS Naturals

CONSTANTS Operations,
          MayCancel   \* the operations someone may cancel

ASSUME MayCancelAssumption == MayCancel \subseteq Operations

States == {"ready", "executing", "finished"}

VARIABLES
  state,        \* state, which isReady, isExecuting and isFinished are about
  isCancelled,
  thread,       \* how far the queue's thread is with the operation
  saved,        \* saveUserProfile has returned
  finished,     \* the queue took the operation for finished; its
                \* completionBlock runs, once
  early         \* history: cancelled before start looked

vars == <<state, isCancelled, thread, saved, finished, early>>

Threads == {"none", "starting", "main", "saved", "back", "done"}

Init ==
  /\ state = [o \in Operations |-> "ready"]
  /\ isCancelled = [o \in Operations |-> FALSE]
  /\ thread = [o \in Operations |-> "none"]
  /\ saved = [o \in Operations |-> FALSE]
  /\ finished = [o \in Operations |-> FALSE]
  /\ early = [o \in Operations |-> FALSE]

At(o, p)     == thread[o] = p
GoTo(o, p)   == thread' = [thread EXCEPT ![o] = p]
SetState(o, s) == state' = [state EXCEPT ![o] = s]

\* The queue hears of isFinished.  An operation it has not started yet it may
\* or may not take off.
NotifyFinished(o) ==
  \/ finished' = [finished EXCEPT ![o] = TRUE]
  \/ At(o, "none") /\ UNCHANGED finished

\* The queue picks a ready operation (isReady asks for the state, too).
QueuePicks(o) ==
  /\ At(o, "none") /\ state[o] = "ready" /\ ~finished[o]
  /\ GoTo(o, "starting")
  /\ UNCHANGED <<state, isCancelled, saved, finished, early>>

start(o) ==
  /\ At(o, "starting")
  /\ \/ /\ isCancelled[o]
        /\ SetState(o, "finished") /\ NotifyFinished(o)
        /\ GoTo(o, "done")
     \/ /\ ~isCancelled[o]
        /\ GoTo(o, "main")
        /\ UNCHANGED <<state, finished>>
  /\ UNCHANGED <<isCancelled, saved, early>>

\* main: the save,
mainSaves(o) ==
  /\ At(o, "main")
  /\ saved' = [saved EXCEPT ![o] = TRUE]
  /\ GoTo(o, "saved")
  /\ UNCHANGED <<state, isCancelled, finished, early>>

\* Mutants: finished is set ahead of the save; not at all.
mainFinishesFirst(o) ==
  /\ At(o, "main") \/ At(o, "saved")
  /\ SetState(o, "finished") /\ NotifyFinished(o)
  /\ IF At(o, "saved") THEN GoTo(o, "back") ELSE UNCHANGED thread
  /\ UNCHANGED <<isCancelled, saved, early>>

mainForgets(o) ==
  /\ At(o, "saved")
  /\ GoTo(o, "back")
  /\ UNCHANGED <<state, isCancelled, saved, finished, early>>

\* and its last statement,
mainFinishes(o) ==
  /\ At(o, "saved")
  /\ SetState(o, "finished") /\ NotifyFinished(o)
  /\ GoTo(o, "back")
  /\ UNCHANGED <<isCancelled, saved, early>>

\* after which start, which called it, sets the state once more.
startReturns(o) ==
  /\ At(o, "back")
  /\ SetState(o, "executing")
  /\ GoTo(o, "done")
  /\ UNCHANGED <<isCancelled, saved, finished, early>>

\* Nobody in the app calls cancel yet; it may come at any time, and again.
cancel(o) ==
  /\ o \in MayCancel
  /\ isCancelled' = [isCancelled EXCEPT ![o] = TRUE]
  /\ SetState(o, "finished") /\ NotifyFinished(o)
  /\ early' = [early EXCEPT ![o] = @ \/ At(o, "none") \/ At(o, "starting")]
  /\ UNCHANGED <<thread, saved>>

Thread(o) == start(o) \/ mainSaves(o) \/ mainFinishes(o) \/ startReturns(o)

Next == \E o \in Operations : QueuePicks(o) \/ Thread(o) \/ cancel(o)

Spec == Init /\ [][Next]_vars

\* The queue runs what is ready, on a thread that makes progress.
FairSpec ==
  Spec /\ \A o \in Operations : WF_vars(QueuePicks(o)) /\ WF_vars(Thread(o))

TypeOK ==
  /\ state \in [Operations -> States]
  /\ isCancelled \in [Operations -> BOOLEAN]
  /\ thread \in [Operations -> Threads]
  /\ saved \in [Operations -> BOOLEAN]
  /\ finished \in [Operations -> BOOLEAN]
  /\ early \in [Operations -> BOOLEAN]

-----------------------------------------------------------------------------
(* What ProfileSave relies on *)

\* The completion of a save runs after the profile was written, unless the
\* operation was cancelled: the queue is told of the end by main's last
\* statement only.
CompletionAfterSave ==
  \A o \in Operations : finished[o] => saved[o] \/ isCancelled[o]

\* An operation cancelled before start looks never saves, also when the queue
\* had already chosen to start it.
EarlyCancelSavesNothing ==
  \A o \in Operations : early[o] => ~saved[o]

\* An operation that nobody cancels is saved and its completion runs, although
\* start sets the state back to executing after main has finished it.
OperationsComplete ==
  \A o \in Operations : <>((saved[o] /\ finished[o]) \/ isCancelled[o])
=============================================================================
