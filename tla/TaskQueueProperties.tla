------------------------ MODULE TaskQueueProperties ------------------------
(* What TaskQueue must do, and small instances of it for TLC.                *)
EXTENDS TaskQueue

\* Somebody may still touch the task.
Touchable(t) ==
  \/ t \in tasks \cup delayed \cup {executing} \/ \E i \in DOMAIN queue : queue[i] = t
  \/ \E p \in All :
       \/ t \in thread[p].left
       \/ /\ At(p) \in {"handing", "cancelling", "awaiting", "releasing"}
          /\ t = thread[p].task

\* Whoever may still touch a task finds it alive, and only then it is alive:
\* in particular the thread that hands a new task to libdispatch, before
\* libdispatch has a reference, and one that cancels a task under way.
AliveWhileTouched ==
  \A t \in 1..created : (task[t].state # "freed") <=> Touchable(t)

\* Once Dispose has returned, the client is terminated and no task runs or will
\* run: each was executed before, or not at all.
DisposeIsFinal ==
  returned = "yes" =>
    /\ terminated = "yes" /\ mode = "disposed" /\ tasks = {}
    /\ \A t \in 1..created : task[t].state \in {"cancelled", "done", "freed"}

\* Tasks that are not delayed run in the order in which they were accepted.
InOrder ==
  \A i, j \in DOMAIN queue :
    i < j /\ task[queue[i]].kind # "timer" /\ task[queue[j]].kind # "timer"
      => queue[i] < queue[j]

\* Dispose returns, whatever is queued, running or calling at the time.
DisposeReturns ==
  \A p \in Threads : (At(p) = "disposing") ~> (At(p) = "free")
=============================================================================
