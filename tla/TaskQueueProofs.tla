-------------------------- MODULE TaskQueueProofs --------------------------
(***************************************************************************)
(* However callers, the queue's thread and a disposal interleave, a task   *)
(* is alive just as long as somebody may touch it, tasks keep their order, *)
(* and Dispose is final; for any number of threads and tasks.              *)
(*                                                                         *)
(* A task has two owners: the table, which is tasks_ or whoever took the   *)
(* task from there to cancel it, and libdispatch.  The inductive           *)
(* invariant: each side has a task at most once (TableOK, LibOK), the      *)
(* count says how many sides have it (RefsOK), and a task between          *)
(* creation and dispatch is in tasks_, with the lock held (HandOK).        *)
(***************************************************************************)
EXTENDS TaskQueueProperties, TLAPS

Holding == {"cancelling", "awaiting", "releasing"}

\* p took the task from tasks_.
Holds(th, p, t) ==
  t \in th[p].left \/ (th[p].at \in Holding /\ th[p].task = t)

InTable(ts, th, t) == t \in ts \/ \E p \in All : Holds(th, p, t)

InLib(q, d, e, t) == t \in d \/ t = e \/ \E i \in DOMAIN q : q[i] = t

Places ==
  Holding \cup {"free", "handing", "operating", "finishing", "terminating",
                "disposing", "enqueueing", "waiting", "closing", "swapping",
                "clearing"}

Records == [kind : Kinds, refs : Nat, executor : {"null", "set"},
            state : {"none", "initial", "running", "cancelled", "done",
              "freed"}]

StateOK ==
  /\ task \in [Tasks -> Records]
  /\ created \in Nat /\ created <= MaxTasks
  /\ thread \in [All -> [at : Places, task : Nat, left : SUBSET Nat]]
  /\ queue \in Seq(Nat) /\ executing \in Nat

\* The table has a task once, and only a thread that disposes of the client
\* has several.
TableOK(ts, th, n) ==
  /\ \A t : InTable(ts, th, t) => t \in 1..n
  /\ \A p \in All, t \in ts : ~Holds(th, p, t)
  /\ \A p, q \in All, t \in 1..n : Holds(th, p, t) /\ Holds(th, q, t) => p = q
  /\ \A p \in All :
       /\ th[p].at \in Holding => th[p].task \notin th[p].left
       /\ th[p].left # {} => p # Queue /\ th[p].at \in Holding \cup {"clearing"}

\* libdispatch has a task once: to run later, to run, or running.
LibOK(q, d, e, n) ==
  /\ \A t : InLib(q, d, e, t) => t \in 0..n
  /\ 0 \notin d /\ \A i \in DOMAIN q : q[i] # 0 /\ q[i] # e /\ q[i] \notin d
  /\ e \notin d
  /\ \A i, j \in DOMAIN q : q[i] = q[j] => i = j

\* The references of a record, in the table or not and with libdispatch or not
Counted(r, inTable, inLib) ==
  /\ inTable /\ inLib => r.refs = 2
  /\ inTable /\ ~inLib => r.refs = 1
  /\ ~inTable /\ inLib => r.refs = 1
  /\ ~inTable /\ ~inLib => r.refs = 0
  /\ r.state = "freed" <=> r.refs = 0

RefsOK(k, ts, th, q, d, e, n) ==
  \A t \in 1..n : Counted(k[t], InTable(ts, th, t), InLib(q, d, e, t))

\* A task that libdispatch is about to get
HandOK(k, ts, th, q, d, e, n, m, mx) ==
  \A p \in All :
    th[p].at = "handing" =>
      /\ mx = p /\ m # "disposed"
      /\ th[p].task = n /\ n \in ts /\ ~InLib(q, d, e, n)
      /\ k[n].kind = "timer" <=> p = Queue

PlacesOK(th, e, m) ==
  /\ \A p \in All : th[p].at = "swapping" => m = "disposed"
  /\ th[Queue].at = "free" <=> e = 0

\* Only timers are delayed, the others keep their order.
OrderOK(k, q, d) ==
  /\ \A t \in d : k[t].kind = "timer"
  /\ \A i, j \in DOMAIN q :
       i < j /\ k[q[i]].kind # "timer" /\ k[q[j]].kind # "timer" => q[i] < q[j]

IInv ==
  /\ StateOK
  /\ TableOK(tasks, thread, created)
  /\ LibOK(queue, delayed, executing, created)
  /\ RefsOK(task, tasks, thread, queue, delayed, executing, created)
  /\ HandOK(task, tasks, thread, queue, delayed, executing, created, mode,
       mutex)
  /\ PlacesOK(thread, executing, mode)
  /\ OrderOK(task, queue, delayed)

LEMMA InitHolds == Init => IInv
<1> SUFFICES ASSUME Init PROVE IInv
  OBVIOUS
<1> USE TasksAssumption, ThreadsAssumption
<1>1. StateOK
  <2>1. NoTask \in Records
    BY DEF Records, NoTask, Kinds
  <2>2. [at |-> "free", task |-> 0, left |-> {}]
          \in [at : Places, task : Nat, left : SUBSET Nat]
    BY DEF Places
  <2> QED BY <2>1, <2>2 DEF Init, StateOK
<1>2. \A t : \A p \in All : ~Holds(thread, p, t)
  BY DEF Init, Holds, Holding
<1>3. \A t : ~InTable(tasks, thread, t)
  BY <1>2 DEF Init, InTable
<1>4. TableOK(tasks, thread, created)
  BY <1>2, <1>3 DEF Init, TableOK, Holding
<1>5. LibOK(queue, delayed, executing, created)
  BY DEF Init, LibOK, InLib
<1>6. /\ RefsOK(task, tasks, thread, queue, delayed, executing, created)
      /\ OrderOK(task, queue, delayed)
  BY DEF Init, RefsOK, OrderOK
<1>7. /\ HandOK(task, tasks, thread, queue, delayed, executing, created, mode,
           mutex)
      /\ PlacesOK(thread, executing, mode)
  BY DEF Init, HandOK, PlacesOK, All
<1> QED BY <1>1, <1>4, <1>5, <1>6, <1>7 DEF IInv

-----------------------------------------------------------------------------
(* Steps that leave the tasks alone *)

LEMMA NobodyHands ==
  ASSUME IInv, mutex = "free", NEW p \in All
  PROVE  At(p) # "handing"
BY ThreadsAssumption DEF IInv, HandOK, At, All

\* Only a thread between two tasks moves on.
LEMMA QuietMove ==
  ASSUME IInv, NEW p \in All, NEW at \in Places, Goes(p, at),
         At(p) \notin Holding, at \notin Holding, thread[p].left = {},
         UNCHANGED <<task, tasks, created, queue, delayed, executing>>
  PROVE  /\ StateOK'
         /\ TableOK(tasks', thread', created')
         /\ LibOK(queue', delayed', executing', created')
         /\ RefsOK(task', tasks', thread', queue', delayed', executing',
              created')
         /\ OrderOK(task', queue', delayed')
         /\ \A q \in All \ {p} : thread'[q] = thread[q]
         /\ At(p)' = at
<1>1. /\ \A q \in All \ {p} : thread'[q] = thread[q]
      /\ thread'[p].at = at /\ thread'[p].left = {}
      /\ thread' \in [All -> [at : Places, task : Nat, left : SUBSET Nat]]
  BY DEF IInv, StateOK, Goes
<1>2. \A q \in All : \A t : Holds(thread', q, t) <=> Holds(thread, q, t)
  BY <1>1 DEF Holds, At
<1>3. \A t : InTable(tasks', thread', t) <=> InTable(tasks, thread, t)
  BY <1>2 DEF InTable
<1>4. TableOK(tasks', thread', created')
  BY <1>1, <1>2, <1>3 DEF IInv, TableOK
<1>5. RefsOK(task', tasks', thread', queue', delayed', executing', created')
  BY <1>3 DEF IInv, RefsOK, Counted
<1>6. StateOK'
  BY <1>1 DEF IInv, StateOK
<1> QED BY <1>1, <1>4, <1>5, <1>6 DEF IInv, At

\* ... with the lock free, whatever becomes of the mode.
LEMMA FreeMove ==
  ASSUME IInv, NEW p \in Threads, NEW at \in Places, Goes(p, at),
         At(p) \notin Holding, thread[p].left = {}, mutex = "free",
         at \notin Holding \cup {"handing"},
         at = "swapping" \/ mode = "disposed" => mode' = "disposed",
         UNCHANGED <<task, tasks, created, queue, delayed, executing>>
  PROVE  IInv'
<1>1. p \in All /\ p # Queue
  BY ThreadsAssumption DEF All
<1>2. \A q \in All : At(q)' # "handing"
  BY <1>1, QuietMove, NobodyHands DEF At
<1>3. HandOK(task', tasks', thread', queue', delayed', executing', created',
        mode', mutex')
  BY <1>2 DEF HandOK, At
<1>4. PlacesOK(thread', executing', mode')
  BY <1>1, QuietMove DEF IInv, PlacesOK, At, All
<1> QED BY <1>1, <1>3, <1>4, QuietMove DEF IInv

\* ... with the mode and the lock as they are.
LEMMA SameMove ==
  ASSUME IInv, NEW p \in Threads, NEW at \in Places, Goes(p, at),
         At(p) \notin Holding, thread[p].left = {},
         at \notin Holding \cup {"handing", "swapping"},
         UNCHANGED <<mode, mutex, task, tasks, created, queue, delayed,
           executing>>
  PROVE  IInv'
<1>1. p \in All /\ p # Queue
  BY ThreadsAssumption DEF All
<1>2. /\ At(p)' = at
      /\ \A q \in All \ {p} : thread'[q] = thread[q]
  BY <1>1, QuietMove
<1>3. HandOK(task', tasks', thread', queue', delayed', executing', created',
        mode', mutex')
  BY <1>2 DEF IInv, HandOK, At
<1>4. PlacesOK(thread', executing', mode')
  BY <1>1, <1>2 DEF IInv, PlacesOK, At, All
<1> QED BY <1>1, <1>3, <1>4, QuietMove DEF IInv

\* What the places say of what a thread has
LEMMA HasNothing ==
  ASSUME IInv, NEW p \in All, At(p) \notin Holding \cup {"clearing"}
  PROVE  thread[p].left = {}
BY DEF IInv, TableOK, At

LEMMA RestrictKeeps ==
  ASSUME IInv, NEW p \in Threads, NEW at \in {"terminating", "enqueueing"},
         At(p) \in {"free", "disposing"}, Restrict(p, at)
  PROVE  IInv'
<1>1. thread[p].left = {} /\ At(p) \notin Holding
  BY HasNothing DEF Holding, All
<1> QED BY <1>1, FreeMove DEF Restrict, Places, Holding

LEMMA RefusedKeeps ==
  ASSUME IInv, NEW p \in Threads, NEW at \in {"free", "closing"},
         At(p) \in {"terminating", "enqueueing"}, Refused(p, at)
  PROVE  IInv'
<1>1. thread[p].left = {} /\ At(p) \notin Holding
  BY HasNothing DEF Holding, All
<1> QED BY <1>1, FreeMove DEF Refused, Places, Holding

LEMMA ProceedKeeps ==
  ASSUME IInv, NEW p \in Threads, Proceed(p)
  PROVE  IInv'
<1>1. thread[p].left = {} /\ At(p) \notin Holding
  BY HasNothing DEF Proceed, Holding, All
<1> QED BY <1>1, SameMove DEF Proceed, TasksOnly, Places, Holding

LEMMA CloseKeeps ==
  ASSUME IInv, NEW p \in Threads, Close(p)
  PROVE  IInv'
<1>1. thread[p].left = {} /\ At(p) \notin Holding
  BY HasNothing DEF Close, Holding, All
<1> QED BY <1>1, FreeMove DEF Close, Places, Holding

-----------------------------------------------------------------------------
(* A new task, from its creation to libdispatch *)

LEMMA InsertKeeps ==
  ASSUME IInv, NEW p \in All, NEW kind \in Kinds, kind = "timer" <=> p = Queue,
         At(p) \notin Holding \cup {"clearing"},
         p = Queue => At(p) # "free", Insert(p, kind)
  PROVE  IInv'
<1> DEFINE t == created + 1
           new == [kind |-> kind, state |-> "initial", refs |-> 1,
                   executor |-> "set"]
<1>1. t \in Tasks /\ created' = t /\ t \in Nat /\ t \notin 0..created
  BY TasksAssumption DEF Insert, WithinBounds, Tasks, IInv, StateOK
<1>2. task' = [task EXCEPT ![t] = new] /\ tasks' = tasks \cup {t}
  BY DEF Insert
<1>3. thread' = [thread EXCEPT ![p].at = "handing", ![p].task = t]
  BY DEF Insert, GoesTo
<1>4. /\ \A q \in All \ {p} : thread'[q] = thread[q]
      /\ thread'[p].at = "handing" /\ thread'[p].left = {}
      /\ thread'[p].task = t
      /\ thread' \in [All -> [at : Places, task : Nat, left : SUBSET Nat]]
  <2>1. thread[p].left = {}
    BY HasNothing
  <2> HIDE DEF t
  <2> QED BY <1>1, <1>3, <2>1 DEF IInv, StateOK, Places
<1>5. /\ task' \in [Tasks -> Records]
      /\ task'[t] = new /\ \A u \in 1..created : task'[u] = task[u]
  <2>1. new \in Records
    BY DEF Records
  <2> HIDE DEF new
  <2> QED BY <1>1, <1>2, <2>1 DEF IInv, StateOK, Tasks
<1> HIDE DEF t, new
<1>6. ~InTable(tasks, thread, t) /\ ~InLib(queue, delayed, executing, t)
  BY <1>1 DEF IInv, TableOK, LibOK
<1>7. \A q \in All : \A u : Holds(thread', q, u) <=> Holds(thread, q, u)
  <2>1. \A u : ~Holds(thread, p, u)
    BY HasNothing DEF Holds, At
  <2> QED BY <1>4, <2>1 DEF Holds, Holding
<1>8. \A u : InTable(tasks', thread', u) <=> InTable(tasks, thread, u) \/ u = t
  BY <1>2, <1>7 DEF InTable
<1>9. TableOK(tasks', thread', created')
  <2>1. \A u : InTable(tasks', thread', u) => u \in 1..created'
    BY <1>1, <1>8 DEF IInv, TableOK, StateOK, t
  <2>2. \A q \in All, u \in tasks' : ~Holds(thread', q, u)
    BY <1>2, <1>6, <1>7 DEF IInv, TableOK, InTable
  <2>3. \A q, r \in All, u \in 1..created' :
          Holds(thread', q, u) /\ Holds(thread', r, u) => q = r
    BY <1>7 DEF IInv, TableOK, InTable
  <2> QED BY <1>4, <2>1, <2>2, <2>3 DEF IInv, TableOK, Holding
<1>10. LibOK(queue', delayed', executing', created')
  <2>1. UNCHANGED <<queue, delayed, executing>>
    BY DEF Insert
  <2> QED BY <1>1, <2>1 DEF IInv, LibOK, StateOK, InLib, t
<1>11. RefsOK(task', tasks', thread', queue', delayed', executing', created')
  <2>1. UNCHANGED <<queue, delayed, executing>>
    BY DEF Insert
  <2>2. \A u \in 1..created' : u \in 1..created \/ u = t
    BY <1>1 DEF IInv, StateOK, t
  <2>3. t \notin 1..created
    BY <1>1 DEF IInv, StateOK
  <2> QED BY <1>5, <1>6, <1>8, <2>1, <2>2, <2>3 DEF IInv, RefsOK, Counted, new
<1>12. HandOK(task', tasks', thread', queue', delayed', executing', created',
         mode', mutex')
  <2>1. /\ mutex = "free" /\ mode # "disposed" /\ mode' = mode /\ mutex' = p
        /\ UNCHANGED <<queue, delayed, executing>>
    BY DEF Insert, Accepts, Holder
  <2>2. \A q \in All \ {p} : thread'[q].at # "handing"
    BY <1>4, <2>1, NobodyHands DEF At
  <2>3. task'[t].kind = kind
    BY <1>5 DEF new
  <2> QED BY <1>1, <1>2, <1>4, <1>6, <2>1, <2>2, <2>3 DEF HandOK
<1>13. PlacesOK(thread', executing', mode')
  BY <1>4 DEF IInv, PlacesOK, Insert, At, All
<1>14. OrderOK(task', queue', delayed')
  <2>1. delayed \subseteq 1..created /\ \A i \in DOMAIN queue : queue[i] \in 1..created
    BY DEF IInv, LibOK, InLib, StateOK
  <2>2. queue' = queue /\ delayed' = delayed
    BY DEF Insert
  <2> QED BY <1>5, <2>1, <2>2 DEF IInv, OrderOK
<1>15. StateOK'
  BY <1>1, <1>4, <1>5 DEF IInv, StateOK, Insert, Tasks
<1> QED BY <1>9, <1>10, <1>11, <1>12, <1>13, <1>14, <1>15 DEF IInv

\* One task changes hands, the others keep theirs.
LEMMA RefsOfOne ==
  ASSUME NEW k, NEW ts, NEW th, NEW q, NEW d, NEW e, NEW n, NEW t,
         NEW k2, NEW ts2, NEW th2, NEW q2, NEW d2, NEW e2,
         RefsOK(k, ts, th, q, d, e, n),
         \A u \in 1..n \ {t} :
           /\ k2[u] = k[u]
           /\ InTable(ts2, th2, u) <=> InTable(ts, th, u)
           /\ InLib(q2, d2, e2, u) <=> InLib(q, d, e, u),
         Counted(k2[t], InTable(ts2, th2, t), InLib(q2, d2, e2, t))
  PROVE  RefsOK(k2, ts2, th2, q2, d2, e2, n)
<1> SUFFICES ASSUME NEW u \in 1..n
             PROVE  Counted(k2[u], InTable(ts2, th2, u), InLib(q2, d2, e2, u))
  BY DEF RefsOK
<1>1. CASE u = t
  BY <1>1
<1>2. CASE u # t
  BY <1>2 DEF RefsOK, Counted
<1> QED BY <1>1, <1>2

LEMMA HandOverKeeps ==
  ASSUME IInv, NEW p \in All, HandOver(p)
  PROVE  IInv'
<1> DEFINE t == thread[p].task
           at == After(task[t].kind)
<1>1. /\ t = created /\ t \in tasks /\ ~InLib(queue, delayed, executing, t)
      /\ mutex = p /\ (task[t].kind = "timer" <=> p = Queue)
      /\ t \in 1..created /\ t \in Tasks
  BY DEF HandOver, At, IInv, HandOK, TableOK, InTable, Tasks, StateOK
<1>2. /\ at \in {"free", "operating", "waiting"}
      /\ p = Queue => at # "free"
      /\ thread' = [thread EXCEPT ![p].at = at]
  BY <1>1 DEF HandOver, After, Goes
<1> HIDE DEF at
<1>3. /\ \A q \in All \ {p} : thread'[q] = thread[q]
      /\ thread'[p].at = at /\ thread'[p].left = {}
      /\ thread' \in [All -> [at : Places, task : Nat, left : SUBSET Nat]]
  <2>1. thread[p].left = {}
    BY HasNothing DEF HandOver, Holding
  <2> QED BY <1>2, <2>1 DEF IInv, StateOK, Places
<1>4. /\ task' \in [Tasks -> Records]
      /\ task'[t] = [task[t] EXCEPT !.refs = @ + 1]
      /\ \A u \in Tasks \ {t} : task'[u] = task[u]
  <2> DEFINE more == [task[t] EXCEPT !.refs = @ + 1]
  <2>1. task[t] \in Records
    BY <1>1 DEF IInv, StateOK
  <2>2. more \in Records
    BY <2>1 DEF Records
  <2>3. task' = [task EXCEPT ![t] = more]
    BY DEF HandOver
  <2> HIDE DEF more
  <2>4. task' \in [Tasks -> Records] /\ task'[t] = more
    BY <1>1, <2>2, <2>3 DEF IInv, StateOK
  <2>5. \A u \in Tasks \ {t} : task'[u] = task[u]
    BY <2>3 DEF IInv, StateOK
  <2> QED BY <2>4, <2>5 DEF more
<1>5. \A q \in All : \A u : Holds(thread', q, u) <=> Holds(thread, q, u)
  BY <1>2, <1>3 DEF Holds, HandOver, At, Holding
<1>6. \A u : InTable(tasks', thread', u) <=> InTable(tasks, thread, u)
  BY <1>5 DEF InTable, HandOver
<1>7. /\ \A u : InLib(queue', delayed', executing', u)
                  <=> InLib(queue, delayed, executing, u) \/ u = t
      /\ queue' \in Seq(Nat)
      /\ LibOK(queue', delayed', executing', created')
      /\ OrderOK(task', queue', delayed')
  <2>1. executing' = executing /\ created' = created /\ t \in Nat
    BY <1>1 DEF HandOver, IInv, StateOK
  <2>2. \A u \in Tasks : task'[u].kind = task[u].kind
    BY <1>1, <1>4 DEF IInv, StateOK, Records
  <2>3. delayed \subseteq Tasks
        /\ \A i \in DOMAIN queue : queue[i] \in Tasks /\ queue[i] <= t
    BY <1>1, TasksAssumption DEF IInv, LibOK, InLib, StateOK, Tasks
  <2>4. CASE task[t].kind = "timer"
    <3>1. queue' = queue /\ delayed' = delayed \cup {t}
      BY <2>4 DEF HandOver
    <3>2. \A u : InLib(queue', delayed', executing', u)
                  <=> InLib(queue, delayed, executing, u) \/ u = t
      BY <2>1, <3>1 DEF InLib
    <3>3. LibOK(queue', delayed', executing', created')
      BY <1>1, <2>1, <3>1, <3>2 DEF IInv, LibOK, InLib, StateOK
    <3>4. OrderOK(task', queue', delayed')
      <4>1. t \in Tasks
        BY <1>1
      <4> HIDE DEF t
      <4> QED BY <2>2, <2>3, <2>4, <3>1, <4>1 DEF IInv, OrderOK
    <3> QED BY <3>1, <3>2, <3>3, <3>4 DEF IInv, StateOK
  <2>5. CASE task[t].kind # "timer"
    <3>1. queue' = Append(queue, t) /\ delayed' = delayed
      BY <2>5 DEF HandOver
    <3>2. /\ DOMAIN queue' = DOMAIN queue \cup {Len(queue) + 1}
          /\ DOMAIN queue = 1..Len(queue) /\ Len(queue) \in Nat
          /\ queue'[Len(queue) + 1] = t
          /\ \A i \in DOMAIN queue : queue'[i] = queue[i]
          /\ queue' \in Seq(Nat)
      BY <2>1, <3>1 DEF IInv, StateOK
    <3>3. \A u : InLib(queue', delayed', executing', u)
                  <=> InLib(queue, delayed, executing, u) \/ u = t
      BY <2>1, <3>1, <3>2 DEF InLib
    <3>4. LibOK(queue', delayed', executing', created')
      BY <1>1, <2>1, <3>1, <3>2, <3>3 DEF IInv, LibOK, InLib, StateOK
    <3>5. OrderOK(task', queue', delayed')
      <4>1. \A i \in DOMAIN queue : queue[i] \in Tasks /\ queue[i] < t
        <5>1. \A i \in DOMAIN queue : queue[i] # t
          BY <1>1 DEF InLib
        <5> HIDE DEF t
        <5> QED BY <2>1, <2>3, <5>1, TasksAssumption DEF Tasks
      <4>2. t \in Tasks /\ delayed \subseteq Tasks
        BY <1>1, <2>3
      <4> HIDE DEF t
      <4>3. \A u \in delayed' : task'[u].kind = "timer"
        BY <2>2, <3>1, <4>2 DEF IInv, OrderOK
      <4> QED BY <2>2, <3>2, <4>1, <4>2, <4>3 DEF IInv, OrderOK
    <3> QED BY <3>2, <3>3, <3>4, <3>5
  <2> QED BY <2>4, <2>5
<1>8. TableOK(tasks', thread', created')
  BY <1>3, <1>5, <1>6 DEF IInv, TableOK, HandOver
<1>9. RefsOK(task', tasks', thread', queue', delayed', executing', created')
  <2>1. InTable(tasks, thread,
          t) /\ created' = created /\ 1..created \subseteq Tasks
    BY <1>1, TasksAssumption DEF InTable, HandOver, Tasks, IInv, StateOK
  <2>2. task'[t].refs = 2 /\ task'[t].state # "freed"
    BY <1>1, <1>4, <2>1 DEF IInv, RefsOK, Counted, StateOK, Records
  <2>3. Counted(task'[t], InTable(tasks', thread', t),
                InLib(queue', delayed', executing', t))
    BY <1>6, <1>7, <2>1, <2>2 DEF Counted
  <2>4. \A u \in 1..created \ {t} : task'[u] = task[u]
    BY <1>4, <2>1
  <2> QED BY <1>6, <1>7, <2>1, <2>3, <2>4, RefsOfOne DEF IInv
<1>10. HandOK(task', tasks', thread', queue', delayed', executing', created',
         mode', mutex')
  BY <1>1, <1>2, <1>3 DEF IInv, HandOK
<1>11. PlacesOK(thread', executing', mode')
  BY <1>2, <1>3 DEF IInv, PlacesOK, HandOver, At, All
<1> QED BY <1>3, <1>4, <1>7, <1>8, <1>9, <1>10, <1>11 DEF IInv, StateOK,
      HandOver

-----------------------------------------------------------------------------
(* Cancelling *)

\* Two states of the tasks that differ in nothing the invariant looks at.
Alike(k, k2, n) ==
  \A u \in 1..n : /\ k2[u].refs = k[u].refs /\ k2[u].kind = k[u].kind
                  /\ k2[u].state = "freed" <=> k[u].state = "freed"

LEMMA AlikeKeeps ==
  ASSUME NEW k, NEW k2, NEW ts, NEW th, NEW q, NEW d, NEW e, NEW n \in Nat,
         NEW m, NEW mx, Alike(k, k2, n),
         \A t : InTable(ts, th, t) => t \in 1..n, LibOK(q, d, e, n),
         RefsOK(k, ts, th, q, d, e, n), OrderOK(k, q, d),
         HandOK(k, ts, th, q, d, e, n, m, mx)
  PROVE  /\ RefsOK(k2, ts, th, q, d, e, n) /\ OrderOK(k2, q, d)
         /\ HandOK(k2, ts, th, q, d, e, n, m, mx)
<1>1. d \subseteq 1..n /\ \A i \in DOMAIN q : q[i] \in 1..n
  BY DEF LibOK, InLib
<1>2. n \in ts => n \in 1..n
  BY DEF InTable
<1>3. RefsOK(k2, ts, th, q, d, e, n)
  BY DEF RefsOK, Counted, Alike
<1>4. OrderOK(k2, q, d)
  BY <1>1 DEF OrderOK, Alike
<1>5. HandOK(k2, ts, th, q, d, e, n, m, mx)
  BY <1>2 DEF HandOK, Alike
<1> QED BY <1>3, <1>4, <1>5

\* Whoever cancels a task keeps it until it is released.
LEMMA HoldingMove ==
  ASSUME IInv, NEW p \in All, NEW at \in Holding, At(p) \in Holding, Goes(p,
    at),
         task' \in [Tasks -> Records], Alike(task, task', created),
         UNCHANGED <<mode, mutex, tasks, created, queue, delayed, executing>>
  PROVE  IInv'
<1>1. /\ \A q \in All \ {p} : thread'[q] = thread[q]
      /\ thread'[p].at = at /\ thread'[p].left = thread[p].left
      /\ thread'[p].task = thread[p].task
      /\ thread' \in [All -> [at : Places, task : Nat, left : SUBSET Nat]]
  BY DEF IInv, StateOK, Goes, Places
<1>2. \A q \in All : \A t : Holds(thread', q, t) <=> Holds(thread, q, t)
  BY <1>1 DEF Holds, At
<1>3. \A t : InTable(tasks', thread', t) <=> InTable(tasks, thread, t)
  BY <1>2 DEF InTable
<1>4. TableOK(tasks', thread', created')
  BY <1>1, <1>2, <1>3 DEF IInv, TableOK, At
<1>5. RefsOK(task, tasks', thread', queue, delayed, executing, created)
  BY <1>3 DEF IInv, RefsOK, Counted
<1>6. HandOK(task, tasks', thread', queue, delayed, executing, created, mode,
        mutex)
  BY <1>1 DEF IInv, HandOK, Holding
<1>7. /\ RefsOK(task', tasks', thread', queue, delayed, executing, created)
      /\ OrderOK(task', queue, delayed)
      /\ HandOK(task', tasks', thread', queue, delayed, executing, created,
           mode, mutex)
  BY <1>4, <1>5, <1>6, AlikeKeeps DEF IInv, StateOK, TableOK
<1>8. PlacesOK(thread', executing', mode')
  BY <1>1 DEF IInv, PlacesOK, Holding, At, All
<1> QED BY <1>1, <1>4, <1>7, <1>8 DEF IInv, StateOK

LEMMA CancelKeeps ==
  ASSUME IInv, NEW p \in All, Cancel(p)
  PROVE  IInv'
<1> DEFINE t == thread[p].task
           gone == [task[t] EXCEPT !.executor = "null"]
<1>1. At(p) = "cancelling" /\ t \in 1..created /\ t \in Tasks
  BY TasksAssumption
     DEF Cancel, IInv, TableOK, InTable, Holds, Holding, At, Tasks, StateOK
<1>2. task[t] \in Records
  BY <1>1 DEF IInv, StateOK
<1>3. UNCHANGED <<mode, mutex, tasks, created, queue, delayed, executing>>
  BY DEF Cancel, TasksOnly
<1>4. PICK at \in {"releasing", "awaiting"} : Goes(p, at)
  BY DEF Cancel
<1>5. PICK r \in Records :
        /\ r.refs = task[t].refs /\ r.kind = task[t].kind
        /\ r.state = "freed" <=> task[t].state = "freed"
        /\ task' = [task EXCEPT ![t] = r]
  <2>1. CASE task[t].state = "initial"
    <3>1. /\ [gone EXCEPT !.state = "cancelled"] \in Records
          /\ [gone EXCEPT !.state = "cancelled"].refs = task[t].refs
          /\ [gone EXCEPT !.state = "cancelled"].kind = task[t].kind
          /\ [gone EXCEPT !.state = "cancelled"].state = "cancelled"
      BY <1>2 DEF Records
    <3>2. task' = [task EXCEPT ![t] = [gone EXCEPT !.state = "cancelled"]]
      BY <2>1 DEF Cancel
    <3> QED BY <2>1, <3>1, <3>2
  <2>2. CASE task[t].state = "running"
    <3>1. /\ gone \in Records /\ gone.refs = task[t].refs
          /\ gone.kind = task[t].kind /\ gone.state = task[t].state
      BY <1>2 DEF Records
    <3>2. task' = [task EXCEPT ![t] = gone]
      BY <2>2 DEF Cancel
    <3> QED BY <3>1, <3>2
  <2>3. CASE task[t].state \notin {"initial", "running"}
    <3>1. task' = task
      BY <2>3 DEF Cancel
    <3>2. task' = [task EXCEPT ![t] = task[t]]
      BY <3>1 DEF IInv, StateOK
    <3> QED BY <1>2, <3>2
  <2> QED BY <2>1, <2>2, <2>3
<1> HIDE DEF t
<1>6. task' \in [Tasks -> Records] /\ Alike(task, task', created)
  BY <1>1, <1>5 DEF IInv, StateOK, Alike
<1> QED BY <1>1, <1>3, <1>4, <1>6, HoldingMove DEF Holding

LEMMA AwaitKeeps ==
  ASSUME IInv, NEW p \in All, Await(p)
  PROVE  IInv'
<1>1. Alike(task, task', created) /\ task' \in [Tasks -> Records]
  BY DEF Await, Alike, IInv, StateOK
<1> QED BY <1>1, HoldingMove DEF Await, TasksOnly, Holding

\* A task that one of its owners releases
LEMMA ReleasedCounts ==
  ASSUME NEW r \in Records, NEW a, NEW b, NEW c, NEW d,
         Counted(r, a, b), (a /\ ~c) <=> ~(b /\ ~d),
         c => a, d => b
  PROVE  Released(r) \in Records /\ Released(r).kind = r.kind
         /\ Counted(Released(r), c, d)
<1>1. r.refs \in {1, 2}
  BY DEF Counted
<1>2. /\ Released(r) \in Records /\ Released(r).kind = r.kind
      /\ Released(r).refs = r.refs - 1
      /\ Released(r).state = IF r.refs = 1 THEN "freed" ELSE r.state
  <2> DEFINE last == IF r.refs = 1 THEN "freed" ELSE r.state
  <2>1. /\ r.refs - 1 \in Nat /\ r.kind \in Kinds /\ r.executor \in {"null",
             "set"}
        /\ last \in {"none", "initial", "running", "cancelled", "done", "freed"}
    BY <1>1 DEF Records
  <2>2. Released(r) = [r EXCEPT !.refs = r.refs - 1, !.state = last]
    BY DEF Released
  <2> HIDE DEF last
  <2>3. /\ Released(r) \in Records /\ Released(r).kind = r.kind
        /\ Released(r).refs = r.refs - 1 /\ Released(r).state = last
    BY <2>1, <2>2 DEF Records
  <2> QED BY <2>3 DEF last
<1> QED BY <1>1, <1>2 DEF Counted

\* The canceller's side is given up.
LEMMA ReleaseKeeps ==
  ASSUME IInv, NEW p \in All, Release(p)
  PROVE  IInv'
<1> DEFINE t == thread[p].task
           at == IF p = Queue THEN "operating" ELSE "clearing"
<1>1. /\ At(p) = "releasing" /\ Holds(thread, p, t) /\ t \in 1..created
      /\ t \notin tasks /\ t \notin thread[p].left /\ t \in Tasks
  BY TasksAssumption
     DEF Release, IInv, TableOK, InTable, Holds, Holding, At, Tasks, StateOK
<1>2. UNCHANGED <<mode, mutex, tasks, created, queue, delayed, executing>>
  BY DEF Release, TasksOnly
<1>3. /\ task' = [task EXCEPT ![t] = Released(task[t])]
      /\ thread' = [thread EXCEPT ![p].at = at]
  BY DEF Release, Goes
<1> HIDE DEF t, at
<1>4. /\ \A q \in All \ {p} : thread'[q] = thread[q]
      /\ thread'[p].at = at /\ thread'[p].left = thread[p].left
      /\ thread' \in [All -> [at : Places, task : Nat, left : SUBSET Nat]]
  BY <1>3 DEF IInv, StateOK, Places, at
<1>5. \A q \in All : \A u :
        Holds(thread', q, u) <=> Holds(thread, q, u) /\ (q = p => u # t)
  <2>1. ASSUME NEW u PROVE Holds(thread', p, u) <=> Holds(thread, p, u) /\ u # t
    BY <1>1, <1>4 DEF Holds, Holding, At, at, t
  <2>2. ASSUME NEW q \in All \ {p}, NEW u
        PROVE Holds(thread', q, u) <=> Holds(thread, q, u)
    BY <1>4 DEF Holds
  <2> QED BY <2>1, <2>2
<1>6. /\ ~InTable(tasks', thread', t) /\ InTable(tasks, thread, t)
      /\ \A u : u # t => (InTable(tasks', thread', u) <=> InTable(tasks,
                  thread, u))
  BY <1>1, <1>2, <1>5 DEF InTable, IInv, TableOK
<1>7. TableOK(tasks', thread', created')
  <2>1. \A u : InTable(tasks', thread', u) => u \in 1..created'
    BY <1>2, <1>6 DEF IInv, TableOK
  <2>2. \A q \in All :
          /\ thread'[q].at \in Holding => thread'[q].task \notin thread'[q].left
          /\ thread'[q].left # {} =>
               q # Queue /\ thread'[q].at \in Holding \cup {"clearing"}
    BY <1>4 DEF IInv, TableOK, at, Holding
  <2>3. \A q \in All, u \in tasks' : ~Holds(thread', q, u)
    BY <1>2, <1>5 DEF IInv, TableOK
  <2>4. \A q, r \in All, u \in 1..created' :
          Holds(thread', q, u) /\ Holds(thread', r, u) => q = r
    BY <1>2, <1>5 DEF IInv, TableOK
  <2> QED BY <2>1, <2>2, <2>3, <2>4 DEF TableOK
<1>8. /\ Released(task[t]) \in Records /\ Released(task[t]).kind = task[t].kind
      /\ Counted(Released(task[t]), InTable(tasks', thread', t),
                 InLib(queue', delayed', executing', t))
  <2>1. Counted(task[t], TRUE, InLib(queue, delayed, executing, t))
    BY <1>1, <1>6 DEF IInv, RefsOK, Counted
  <2>2. task[t] \in Records
    BY <1>1 DEF IInv, StateOK
  <2>3. /\ Released(task[t]) \in Records /\ Released(task[t]).kind = task[t].kind
        /\ Counted(Released(task[t]), FALSE, InLib(queue, delayed, executing,
             t))
    BY <2>1, <2>2, ReleasedCounts
  <2> QED BY <1>2, <1>6, <2>3 DEF Counted
<1>9. /\ task' \in [Tasks -> Records] /\ task'[t] = Released(task[t])
      /\ \A u \in 1..created : u # t => task'[u] = task[u]
      /\ \A u \in 1..created : task'[u].kind = task[u].kind
  BY <1>1, <1>3, <1>8, TasksAssumption DEF IInv, StateOK, Tasks
<1>10. RefsOK(task', tasks', thread', queue', delayed', executing', created')
  BY <1>2, <1>6, <1>8, <1>9, RefsOfOne DEF IInv
<1>11. OrderOK(task', queue', delayed')
  <2>1. delayed \subseteq 1..created /\ \A i \in DOMAIN queue : queue[i] \in 1..created
    BY DEF IInv, LibOK, InLib, StateOK
  <2> QED BY <1>2, <1>9, <2>1 DEF IInv, OrderOK
<1>12. HandOK(task', tasks', thread', queue', delayed', executing', created',
         mode', mutex')
  <2>1. \A q \in All : thread'[q].at = "handing" =>
                         thread'[q] = thread[q] /\ created \in 1..created
    BY <1>4 DEF at, IInv, HandOK, TableOK, InTable
  <2> QED BY <1>2, <1>9, <2>1 DEF IInv, HandOK
<1>13. PlacesOK(thread', executing', mode')
  BY <1>1, <1>2, <1>4 DEF IInv, PlacesOK, At, All, at
<1> QED BY <1>2, <1>4, <1>7, <1>9, <1>10, <1>11, <1>12, <1>13 DEF IInv, StateOK

-----------------------------------------------------------------------------
(* Disposing *)

\* All that tasks_ has goes to the thread that disposes of it.
LEMMA SwapKeeps ==
  ASSUME IInv, NEW p \in Threads, Swap(p)
  PROVE  IInv'
<1>1. /\ p \in All /\ p # Queue /\ At(p) = "swapping" /\ mode = "disposed"
      /\ thread[p].left = {}
  BY ThreadsAssumption, HasNothing DEF All, Swap, IInv, PlacesOK, At, Holding
<1>2. /\ tasks' = {}
      /\ thread' = [thread EXCEPT ![p].at = "clearing", ![p].left = tasks]
      /\ UNCHANGED <<mode, mutex, task, created, queue, delayed, executing>>
  BY DEF Swap
<1>3. tasks \subseteq Nat
  BY DEF IInv, TableOK, InTable, StateOK
<1>4. /\ \A q \in All \ {p} : thread'[q] = thread[q]
      /\ thread'[p].at = "clearing" /\ thread'[p].left = tasks
      /\ thread' \in [All -> [at : Places, task : Nat, left : SUBSET Nat]]
  BY <1>1, <1>2, <1>3 DEF IInv, StateOK, Places
<1>5. /\ \A q \in All \ {p} : \A u : Holds(thread', q, u) <=> Holds(thread, q,
                                u)
      /\ \A u : Holds(thread', p, u) <=> u \in tasks
      /\ \A u : ~Holds(thread, p, u)
  BY <1>1, <1>4 DEF Holds, Holding, At
<1>6. \A u : InTable(tasks', thread', u) <=> InTable(tasks, thread, u)
  BY <1>1, <1>2, <1>5 DEF InTable
<1>7. TableOK(tasks', thread', created')
  <2>1. \A q, r \in All, u \in 1..created :
          Holds(thread', q, u) /\ Holds(thread', r, u) => q = r
    BY <1>5 DEF IInv, TableOK
  <2>2. \A q \in All :
          /\ thread'[q].at \in Holding => thread'[q].task \notin thread'[q].left
          /\ thread'[q].left # {} =>
               q # Queue /\ thread'[q].at \in Holding \cup {"clearing"}
    BY <1>1, <1>4 DEF IInv, TableOK, Holding
  <2> QED BY <1>2, <1>6, <2>1, <2>2 DEF IInv, TableOK
<1>8. RefsOK(task', tasks', thread', queue', delayed', executing', created')
  BY <1>2, <1>6 DEF IInv, RefsOK, Counted
<1>9. HandOK(task', tasks', thread', queue', delayed', executing', created',
        mode', mutex')
  BY <1>1, <1>4 DEF IInv, HandOK
<1>10. PlacesOK(thread', executing', mode')
  BY <1>1, <1>2, <1>4 DEF IInv, PlacesOK, All
<1> QED BY <1>2, <1>4, <1>7, <1>8, <1>9, <1>10 DEF IInv, StateOK

LEMMA ClearKeeps ==
  ASSUME IInv, NEW p \in Threads, Clear(p)
  PROVE  IInv'
<1>1. p \in All /\ p # Queue /\ At(p) = "clearing"
  BY ThreadsAssumption DEF All, Clear
<1>2. UNCHANGED <<mode, mutex, tasks, task, created, queue, delayed, executing>>
  BY DEF Clear
<1>3. CASE thread[p].left = {}
  BY <1>1, <1>2, <1>3, SameMove DEF Clear, Holding, Places
<1>4. CASE thread[p].left # {}
  <2>1. PICK t \in thread[p].left :
          thread' = [thread EXCEPT ![p].at = "cancelling", ![p].task = t,
                                   ![p].left = @ \ {t}]
    BY <1>4 DEF Clear
  <2>2. t \in Nat
    BY <1>1, <2>1 DEF IInv, StateOK
  <2>3. /\ \A q \in All \ {p} : thread'[q] = thread[q]
        /\ thread'[p].at = "cancelling" /\ thread'[p].task = t
        /\ thread'[p].left = thread[p].left \ {t}
        /\ thread' \in [All -> [at : Places, task : Nat, left : SUBSET Nat]]
    BY <1>1, <2>1, <2>2 DEF IInv, StateOK, Places, Holding
  <2>4. \A q \in All : \A u : Holds(thread', q, u) <=> Holds(thread, q, u)
    BY <1>1, <2>3 DEF Holds, Holding, At
  <2>5. \A u : InTable(tasks', thread', u) <=> InTable(tasks, thread, u)
    BY <1>2, <2>4 DEF InTable
  <2>6. TableOK(tasks', thread', created')
    BY <1>1, <1>2, <2>3, <2>4, <2>5 DEF IInv, TableOK, Holding
  <2>7. RefsOK(task', tasks', thread', queue', delayed', executing', created')
    BY <1>2, <2>5 DEF IInv, RefsOK, Counted
  <2>8. HandOK(task', tasks', thread', queue', delayed', executing', created',
          mode', mutex')
    BY <1>2, <2>3 DEF IInv, HandOK
  <2>9. PlacesOK(thread', executing', mode')
    BY <1>1, <1>2, <2>3 DEF IInv, PlacesOK, All
  <2> QED BY <1>2, <2>3, <2>6, <2>7, <2>8, <2>9 DEF IInv, StateOK
<1> QED BY <1>3, <1>4

\* Firestore::Dispose takes its lock.
LEMMA DisposeKeeps ==
  ASSUME IInv, NEW p \in Threads, Dispose(p)
  PROVE  IInv'
<1>1. p \in All /\ p # Queue
  BY ThreadsAssumption DEF All
<1>2. CASE At(p) = "free"
  <2>1. thread[p].left = {}
    BY <1>1, <1>2, HasNothing DEF Holding
  <2>2. /\ Goes(p, "disposing")
        /\ UNCHANGED <<mode, mutex, tasks, task, created, queue, delayed,
             executing>>
    BY <1>2 DEF Dispose
  <2> QED BY <1>2, <2>1, <2>2, SameMove DEF Holding, Places
<1>3. CASE At(p) = "disposing"
  BY <1>3, RestrictKeeps DEF Dispose
<1>4. CASE At(p) = "enqueueing"
  BY <1>1, <1>4, InsertKeeps, RefusedKeeps DEF Dispose, Holding, Kinds
<1> QED BY <1>2, <1>3, <1>4 DEF Dispose

-----------------------------------------------------------------------------
(* The queue's thread *)

LEMMA EnqueueKeeps ==
  ASSUME IInv, NEW p \in Threads, Enqueue(p) \/ TerminateAsync(p)
  PROVE  IInv'
<1>1. p \in All /\ p # Queue
  BY ThreadsAssumption DEF All
<1>2. CASE Enqueue(p)
  <2>1. PICK kind \in Requests : At(p) = "free" /\ Insert(p, kind)
    BY <1>2 DEF Enqueue
  <2>2. kind \in Kinds /\ kind # "timer"
    BY RequestsAssumption DEF Kinds
  <2> QED BY <1>1, <2>1, <2>2, InsertKeeps DEF Holding
<1>3. CASE TerminateAsync(p)
  <2>1. CASE At(p) = "free"
    BY <1>3, <2>1, RestrictKeeps DEF TerminateAsync
  <2>2. CASE At(p) = "terminating"
    BY <1>1, <1>3, <2>2, InsertKeeps, RefusedKeeps
       DEF TerminateAsync, Holding, Kinds
  <2> QED BY <1>3, <2>1, <2>2 DEF TerminateAsync
<1> QED BY <1>2, <1>3

LEMMA ScheduleKeeps ==
  ASSUME IInv, Schedule
  PROVE  IInv'
BY InsertKeeps DEF Schedule, Holding, Kinds, All

LEMMA SignalKeeps ==
  ASSUME IInv, Signal
  PROVE  IInv'
BY DEF IInv, Signal, StateOK

\* A timer that elapses stays with libdispatch.
LEMMA TimerElapsesKeeps ==
  ASSUME IInv, TimerElapses
  PROVE  IInv'
<1>1. PICK t \in delayed : delayed' = delayed \ {t} /\ queue' = Append(queue, t)
  BY DEF TimerElapses
<1>2. UNCHANGED <<mode, mutex, tasks, task, created, executing, thread>>
  BY DEF TimerElapses
<1>3. t \in 1..created /\ t \in Nat /\ t \in Tasks /\ t # 0
  BY TasksAssumption DEF IInv, LibOK, InLib, StateOK, Tasks
<1>4. /\ DOMAIN queue' = DOMAIN queue \cup {Len(queue) + 1}
      /\ DOMAIN queue = 1..Len(queue) /\ Len(queue) \in Nat
      /\ queue'[Len(queue) + 1] = t
      /\ \A i \in DOMAIN queue : queue'[i] = queue[i]
      /\ queue' \in Seq(Nat)
  BY <1>1, <1>3 DEF IInv, StateOK
<1>5. \A u : InLib(queue', delayed', executing', u)
               <=> InLib(queue, delayed, executing, u)
  BY <1>1, <1>2, <1>4 DEF InLib
<1>6. LibOK(queue', delayed', executing', created')
  <2>1. \A i \in DOMAIN queue : queue[i] # t /\ queue[i] # 0
    BY DEF IInv, LibOK
  <2>2. executing # t
    BY DEF IInv, LibOK
  <2>3. \A u : InLib(queue', delayed', executing', u) => u \in 0..created'
    BY <1>2, <1>5 DEF IInv, LibOK
  <2>4. /\ 0 \notin delayed' /\ executing' \notin delayed'
        /\ t \notin delayed'
        /\ \A i \in DOMAIN queue : /\ queue[i] # 0 /\ queue[i] # executing'
                                   /\ queue[i] \notin delayed'
    BY <1>1, <1>2 DEF IInv, LibOK
  <2>5. \A i \in DOMAIN queue' : queue'[i] # 0 /\ queue'[i] # executing'
                                 /\ queue'[i] \notin delayed'
    BY <1>2, <1>3, <1>4, <2>2, <2>4
  <2>6. \A i, j \in DOMAIN queue : queue[i] = queue[j] => i = j
    BY DEF IInv, LibOK
  <2>7. \A i, j \in DOMAIN queue' : queue'[i] = queue'[j] => i = j
    BY <1>4, <2>1, <2>6
  <2> QED BY <2>3, <2>4, <2>5, <2>7 DEF LibOK
<1>7. RefsOK(task', tasks', thread', queue', delayed', executing', created')
  BY <1>2, <1>5 DEF IInv, RefsOK, Counted
<1>8. HandOK(task', tasks', thread', queue', delayed', executing', created',
        mode', mutex')
  BY <1>2, <1>5 DEF IInv, HandOK
<1>9. task[t].kind = "timer"
  BY DEF IInv, OrderOK
<1>10. OrderOK(task', queue', delayed')
  BY <1>1, <1>2, <1>4, <1>9 DEF IInv, OrderOK
<1> QED BY <1>2, <1>4, <1>6, <1>7, <1>8, <1>10 DEF IInv, StateOK, TableOK,
      PlacesOK

\* A task that libdispatch starts
LEMMA ExecuteKeeps ==
  ASSUME IInv, Execute
  PROVE  IInv'
<1> DEFINE t == Head(queue)
<1>1. /\ At(Queue) = "free" /\ executing = 0 /\ queue # <<>>
      /\ queue' = Tail(queue) /\ executing' = t
      /\ UNCHANGED <<mode, mutex, tasks, created, delayed>>
  BY DEF Execute, IInv, PlacesOK, At
<1>2. /\ Len(queue) \in Nat /\ Len(queue) > 0 /\ DOMAIN queue = 1..Len(queue)
      /\ t = queue[1] /\ 1 \in DOMAIN queue
      /\ DOMAIN queue' = 1..(Len(queue) - 1)
      /\ \A i \in DOMAIN queue' : queue'[i] = queue[i + 1] /\ i + 1 \in DOMAIN queue
      /\ queue' \in Seq(Nat)
  BY <1>1 DEF IInv, StateOK
<1>3. t \in 1..created /\ t \in Tasks /\ t # 0 /\ t \in Nat
  <2> HIDE DEF t
  <2>1. InLib(queue, delayed, executing, t)
    BY <1>2 DEF InLib
  <2>2. t \in 0..created /\ t # 0
    BY <1>2, <2>1 DEF IInv, LibOK
  <2> QED BY <2>2, TasksAssumption DEF IInv, StateOK, Tasks
<1> HIDE DEF t
<1>4. PICK r \in Records :
        /\ r.refs = task[t].refs /\ r.kind = task[t].kind
        /\ r.state = "freed" <=> task[t].state = "freed"
        /\ task' = [task EXCEPT ![t] = r]
  <2>0. task[t] \in Records
    BY <1>3 DEF IInv, StateOK
  <2>1. CASE task[t].state = "initial"
    <3> DEFINE run == [task[t] EXCEPT !.state = "running"]
    <3>1. /\ run \in Records /\ run.refs = task[t].refs
          /\ run.kind = task[t].kind /\ run.state = "running"
      BY <2>0 DEF Records
    <3>2. task' = [task EXCEPT ![t] = run]
      BY <2>1 DEF Execute, t
    <3> QED BY <2>1, <3>1, <3>2
  <2>2. CASE task[t].state # "initial"
    <3>1. task' = task
      BY <2>2 DEF Execute, t
    <3>2. task' = [task EXCEPT ![t] = task[t]]
      BY <3>1 DEF IInv, StateOK
    <3> QED BY <2>0, <3>2
  <2> QED BY <2>1, <2>2
<1>5. task' \in [Tasks -> Records] /\ Alike(task, task', created)
  BY <1>3, <1>4 DEF IInv, StateOK, Alike
<1>6. PICK at \in {"operating", "finishing"} : Goes(Queue, at)
  BY DEF Execute
<1>7. thread[Queue].left = {} /\ Queue \in All
  BY <1>1, HasNothing DEF Holding, All
<1>8. /\ \A q \in All \ {Queue} : thread'[q] = thread[q]
      /\ thread'[Queue].at = at /\ thread'[Queue].left = {}
      /\ thread' \in [All -> [at : Places, task : Nat, left : SUBSET Nat]]
  BY <1>6, <1>7 DEF IInv, StateOK, Goes, Places
<1>9. \A q \in All : \A u : Holds(thread', q, u) <=> Holds(thread, q, u)
  BY <1>1, <1>7, <1>8 DEF Holds, Holding, At
<1>10. \A u : InTable(tasks', thread', u) <=> InTable(tasks, thread, u)
  BY <1>1, <1>9 DEF InTable
<1>11. TableOK(tasks', thread', created')
  BY <1>1, <1>8, <1>9, <1>10 DEF IInv, TableOK, Holding
<1>12. \A u : u # 0 => (InLib(queue', delayed', executing', u)
                          <=> InLib(queue, delayed, executing, u))
  <2>1. ASSUME NEW u, NEW i \in DOMAIN queue, queue[i] = u
        PROVE  u = t \/ \E j \in DOMAIN queue' : queue'[j] = u
    <3>1. CASE i = 1
      BY <1>2, <2>1, <3>1
    <3>2. CASE i # 1
      <4>1. i - 1 \in DOMAIN queue' /\ queue'[i - 1] = queue[i]
        BY <1>2, <2>1, <3>2
      <4> QED BY <2>1, <4>1
    <3> QED BY <3>1, <3>2
  <2> QED BY <1>1, <1>2, <2>1 DEF InLib
<1>13. LibOK(queue', delayed', executing', created')
  <2>1. \A u : InLib(queue', delayed', executing', u) => u \in 0..created'
    BY <1>1, <1>12 DEF IInv, LibOK, StateOK
  <2>2. /\ 0 \notin delayed' /\ executing' \notin delayed'
        /\ \A i \in DOMAIN queue' : queue'[i] # 0 /\ queue'[i] \notin delayed'
    BY <1>1, <1>2 DEF IInv, LibOK
  <2>3. \A i, j \in DOMAIN queue' : queue'[i] = queue'[j] => i = j
    BY <1>2 DEF IInv, LibOK
  <2>4. \A i \in DOMAIN queue' : queue'[i] # t
    BY <1>2 DEF IInv, LibOK
  <2> QED BY <1>1, <2>1, <2>2, <2>3, <2>4 DEF LibOK
<1>14. /\ RefsOK(task, tasks', thread', queue', delayed', executing', created')
       /\ HandOK(task, tasks', thread', queue', delayed', executing',
            created', mode', mutex')
  <2>1. RefsOK(task, tasks', thread', queue', delayed', executing', created')
    BY <1>1, <1>10, <1>12 DEF IInv, RefsOK, Counted, StateOK
  <2>2. \A q \in All : thread'[q].at = "handing" => thread'[q] = thread[q]
    BY <1>8
  <2>3. created \in tasks => created # 0
    BY DEF IInv, TableOK, InTable, StateOK
  <2> QED BY <1>1, <1>12, <2>1, <2>2, <2>3 DEF IInv, HandOK
<1>15. OrderOK(task, queue', delayed')
  BY <1>1, <1>2 DEF IInv, OrderOK
<1>16. /\ RefsOK(task', tasks', thread', queue', delayed', executing', created')
       /\ OrderOK(task', queue', delayed')
       /\ HandOK(task', tasks', thread', queue', delayed', executing',
            created', mode', mutex')
  BY <1>1, <1>5, <1>11, <1>13, <1>14, <1>15, AlikeKeeps DEF IInv, StateOK,
    TableOK
<1>17. PlacesOK(thread', executing', mode')
  BY <1>1, <1>3, <1>8 DEF IInv, PlacesOK, All
<1> QED BY <1>1, <1>2, <1>3, <1>5, <1>8, <1>11, <1>13, <1>16, <1>17 DEF IInv,
      StateOK

\* A timer that is cancelled by an operation, perhaps its own
LEMMA CancelTimerKeeps ==
  ASSUME IInv, CancelTimer
  PROVE  IInv'
<1>1. PICK t \in tasks : /\ task[t].kind = "timer" /\ tasks' = tasks \ {t}
                         /\ GoesTo(Queue, "cancelling", t)
  BY DEF CancelTimer
<1>2. /\ At(Queue) = "operating"
      /\ UNCHANGED <<mode, mutex, task, created, queue, delayed, executing>>
  BY DEF CancelTimer, TasksOnly
<1>3. thread[Queue].left = {} /\ Queue \in All
  BY <1>2, HasNothing DEF Holding, All
<1>4. t \in 1..created /\ t \in Nat
  BY DEF IInv, TableOK, InTable, StateOK
<1>5. /\ \A q \in All \ {Queue} : thread'[q] = thread[q]
      /\ thread'[Queue].at = "cancelling" /\ thread'[Queue].left = {}
      /\ thread'[Queue].task = t
      /\ thread' \in [All -> [at : Places, task : Nat, left : SUBSET Nat]]
  BY <1>1, <1>3, <1>4 DEF IInv, StateOK, GoesTo, Places, Holding
<1>6. /\ \A q \in All \ {Queue} : \A u : Holds(thread', q,
                                    u) <=> Holds(thread, q, u)
      /\ \A u : Holds(thread', Queue, u) <=> u = t
      /\ \A u : ~Holds(thread, Queue, u)
  BY <1>2, <1>3, <1>5 DEF Holds, Holding, At
<1>7. \A u : InTable(tasks', thread', u) <=> InTable(tasks, thread, u)
  BY <1>1, <1>3, <1>6 DEF InTable
<1>8. TableOK(tasks', thread', created')
  <2>1. \A q \in All, u \in tasks' : ~Holds(thread', q, u)
    BY <1>1, <1>6 DEF IInv, TableOK
  <2>2. \A q, r \in All, u \in 1..created' :
          Holds(thread', q, u) /\ Holds(thread', r, u) => q = r
    BY <1>2, <1>6 DEF IInv, TableOK
  <2> QED BY <1>2, <1>5, <1>7, <2>1, <2>2 DEF IInv, TableOK
<1>9. RefsOK(task', tasks', thread', queue', delayed', executing', created')
  BY <1>2, <1>7 DEF IInv, RefsOK, Counted
<1>10. HandOK(task', tasks', thread', queue', delayed', executing', created',
         mode', mutex')
  <2>1. \A q \in All : thread'[q].at = "handing" =>
          q # Queue /\ thread'[q] = thread[q] /\ thread[q].at = "handing"
    BY <1>5
  <2> QED BY <1>1, <1>2, <2>1 DEF IInv, HandOK
<1>11. PlacesOK(thread', executing', mode')
  BY <1>2, <1>3, <1>5 DEF IInv, PlacesOK, At, All
<1> QED BY <1>2, <1>5, <1>8, <1>9, <1>10, <1>11 DEF IInv, StateOK

\* What is running is a task that libdispatch has.
LEMMA Executing ==
  ASSUME IInv, At(Queue) # "free"
  PROVE  /\ executing \in 1..created /\ executing \in Tasks /\ executing # 0
         /\ task[executing] \in Records /\ 1..created \subseteq Tasks
         /\ InLib(queue, delayed, executing, executing)
         /\ \A p \in All : At(p) = "handing" => created # executing
<1>1. InLib(queue, delayed, executing, executing) /\ executing # 0
  BY DEF IInv, PlacesOK, InLib, At
<1>2. executing \in 0..created /\ created \in Nat /\ created <= MaxTasks
  BY <1>1 DEF IInv, LibOK, StateOK
<1>3. executing \in 1..created /\ executing \in Tasks /\ 1..created \subseteq Tasks
  BY <1>1, <1>2, TasksAssumption DEF Tasks
<1> QED BY <1>1, <1>3 DEF IInv, StateOK, HandOK, At

\* The operation is over; the executor gives up its side.
LEMMA EndKeeps ==
  ASSUME IInv, End
  PROVE  IInv'
<1> DEFINE t == executing
           done == [task[t] EXCEPT !.state = "done"]
<1>1. /\ At(Queue) = "operating" /\ Queue \in All
      /\ UNCHANGED <<mode, mutex, created, queue, delayed, executing>>
      /\ Goes(Queue, "finishing")
  BY DEF End, All
<1>2. /\ t \in 1..created /\ t \in Tasks /\ t # 0 /\ task[t] \in Records
      /\ 1..created \subseteq Tasks
      /\ InLib(queue, delayed, executing, t)
      /\ \A p \in All : At(p) = "handing" => created # t
  BY <1>1, Executing
<1>3. thread[Queue].left = {}
  BY <1>1, HasNothing DEF Holding
<1>4. /\ \A q \in All \ {Queue} : thread'[q] = thread[q]
      /\ thread'[Queue].at = "finishing" /\ thread'[Queue].left = {}
      /\ thread' \in [All -> [at : Places, task : Nat, left : SUBSET Nat]]
  BY <1>1, <1>3 DEF IInv, StateOK, Goes, Places
<1>5. \A q \in All : \A u : Holds(thread', q, u) <=> Holds(thread, q, u)
  BY <1>1, <1>3, <1>4 DEF Holds, Holding, At
<1>6. /\ done \in Records /\ done.refs = task[t].refs /\ done.kind = task[t].kind
      /\ done.state = "done"
  BY <1>2 DEF Records
<1>7. task[t].state # "freed" /\ task[t].refs # 0
  BY <1>2 DEF IInv, RefsOK, Counted
<1>8. Counted(done, InTable(tasks, thread, t), TRUE)
  BY <1>2, <1>6, <1>7 DEF IInv, RefsOK, Counted
<1> HIDE DEF done
<1>9. PICK r \in Records :
        /\ task' = [task EXCEPT ![t] = r] /\ r.kind = task[t].kind
        /\ Counted(r, InTable(tasks', thread', t), TRUE)
        /\ \A u : u # t => (u \in tasks' <=> u \in tasks)
        /\ tasks' \subseteq tasks
  <2>1. CASE done.executor = "set" /\ t \in tasks
    <3>1. task' = [task EXCEPT ![t] = Released(done)] /\ tasks' = tasks \ {t}
      BY <2>1 DEF End, done
    <3>2. InTable(tasks, thread, t) /\ ~InTable(tasks', thread', t)
      BY <1>5, <2>1, <3>1 DEF InTable, IInv, TableOK
    <3>3. Counted(done, TRUE, TRUE)
      BY <1>8, <3>2 DEF Counted
    <3>4. /\ Released(done) \in Records /\ Released(done).kind = done.kind
          /\ Counted(Released(done), FALSE, TRUE)
      BY <1>6, <3>3, ReleasedCounts
    <3>5. Counted(Released(done), InTable(tasks', thread', t), TRUE)
      BY <3>2, <3>4 DEF Counted
    <3> QED BY <1>6, <3>1, <3>4, <3>5
  <2>2. CASE ~(done.executor = "set" /\ t \in tasks)
    <3>1. task' = [task EXCEPT ![t] = done] /\ tasks' = tasks
      BY <2>2 DEF End, done
    <3>2. InTable(tasks', thread', t) <=> InTable(tasks, thread, t)
      BY <1>5, <3>1 DEF InTable
    <3>3. Counted(done, InTable(tasks', thread', t), TRUE)
      BY <1>8, <3>2 DEF Counted
    <3> QED BY <1>6, <3>1, <3>3
  <2> QED BY <2>1, <2>2
<1>10. \A u : u # t => (InTable(tasks', thread', u) <=> InTable(tasks, thread,
                u))
  BY <1>5, <1>9 DEF InTable
<1>11. TableOK(tasks', thread', created')
  <2>1. \A u : InTable(tasks', thread', u) => u \in 1..created'
    BY <1>1, <1>2, <1>10 DEF IInv, TableOK
  <2>2. \A q \in All, u \in tasks' : ~Holds(thread', q, u)
    BY <1>5, <1>9 DEF IInv, TableOK
  <2>3. \A p, q \in All, u \in 1..created' :
          Holds(thread', p, u) /\ Holds(thread', q, u) => p = q
    BY <1>1, <1>5 DEF IInv, TableOK
  <2> QED BY <1>4, <2>1, <2>2, <2>3 DEF IInv, TableOK, Holding
<1>12. /\ task' \in [Tasks -> Records] /\ task'[t] = r
       /\ \A u \in 1..created : u # t => task'[u] = task[u]
       /\ \A u \in 1..created : task'[u].kind = task[u].kind
  <2> HIDE DEF t
  <2> QED BY <1>2, <1>9 DEF IInv, StateOK
<1>13. RefsOK(task', tasks', thread', queue', delayed', executing', created')
  <2>1. Counted(task'[t], InTable(tasks', thread', t),
                InLib(queue', delayed', executing', t))
    BY <1>1, <1>2, <1>9, <1>12 DEF Counted
  <2> QED BY <1>1, <1>10, <1>12, <2>1, RefsOfOne DEF IInv
<1>14. OrderOK(task', queue', delayed')
  <2>1. delayed \subseteq 1..created /\ \A i \in DOMAIN queue : queue[i] \in 1..created
    BY DEF IInv, LibOK, InLib, StateOK
  <2> QED BY <1>1, <1>12, <2>1 DEF IInv, OrderOK
<1>15. HandOK(task', tasks', thread', queue', delayed', executing', created',
         mode', mutex')
  <2>1. \A q \in All : thread'[q].at = "handing" =>
          /\ thread'[q] = thread[q] /\ thread[q].at = "handing" /\ created # t
    BY <1>2, <1>4 DEF At
  <2>2. created \in tasks => created \in 1..created
    BY DEF IInv, TableOK, InTable
  <2> QED BY <1>1, <1>9, <1>12, <2>1, <2>2 DEF IInv, HandOK
<1>16. PlacesOK(thread', executing', mode')
  BY <1>1, <1>2, <1>4 DEF IInv, PlacesOK, All
<1> QED BY <1>1, <1>4, <1>11, <1>12, <1>13, <1>14, <1>15, <1>16 DEF IInv,
      StateOK

\* libdispatch gives up its side.
LEMMA FinishKeeps ==
  ASSUME IInv, Finish
  PROVE  IInv'
<1> DEFINE t == executing
<1>1. /\ At(Queue) = "finishing" /\ Queue \in All /\ executing' = 0
      /\ UNCHANGED <<mode, mutex, tasks, created, queue, delayed>>
      /\ Goes(Queue, "free") /\ task' = [task EXCEPT ![t] = Released(task[t])]
  BY DEF Finish, TasksOnly, All
<1>2. /\ t \in 1..created /\ t \in Tasks /\ t # 0 /\ task[t] \in Records
      /\ 1..created \subseteq Tasks
      /\ InLib(queue, delayed, executing, t)
      /\ \A p \in All : At(p) = "handing" => created # t
  BY <1>1, Executing
<1>3. thread[Queue].left = {}
  BY <1>1, HasNothing DEF Holding
<1>4. /\ \A q \in All \ {Queue} : thread'[q] = thread[q]
      /\ thread'[Queue].at = "free" /\ thread'[Queue].left = {}
      /\ thread' \in [All -> [at : Places, task : Nat, left : SUBSET Nat]]
  BY <1>1, <1>3 DEF IInv, StateOK, Goes, Places
<1>5. \A q \in All : \A u : Holds(thread', q, u) <=> Holds(thread, q, u)
  BY <1>1, <1>3, <1>4 DEF Holds, Holding, At
<1>6. \A u : InTable(tasks', thread', u) <=> InTable(tasks, thread, u)
  BY <1>1, <1>5 DEF InTable
<1>7. TableOK(tasks', thread', created')
  BY <1>1, <1>4, <1>5, <1>6 DEF IInv, TableOK, Holding
<1>8. /\ ~InLib(queue', delayed', executing', t)
      /\ \A u : u # t /\ u # 0 => (InLib(queue', delayed', executing', u)
                                     <=> InLib(queue, delayed, executing, u))
  BY <1>1, <1>2 DEF InLib, IInv, LibOK
<1>9. LibOK(queue', delayed', executing', created')
  <2>1. \A u : InLib(queue', delayed', executing', u) => u \in 0..created'
    BY <1>1, <1>8 DEF IInv, LibOK, StateOK
  <2> QED BY <1>1, <2>1 DEF IInv, LibOK
<1>10. /\ Released(task[t]) \in Records /\ Released(task[t]).kind = task[t].kind
       /\ Counted(Released(task[t]), InTable(tasks', thread', t),
                  InLib(queue', delayed', executing', t))
  <2>1. Counted(task[t], InTable(tasks, thread, t), TRUE)
    BY <1>2 DEF IInv, RefsOK, Counted
  <2>2. /\ Released(task[t]) \in Records /\ Released(task[t]).kind = task[t].kind
        /\ Counted(Released(task[t]), InTable(tasks, thread, t), FALSE)
    BY <1>2, <2>1, ReleasedCounts
  <2> QED BY <1>6, <1>8, <2>2 DEF Counted
<1>11. /\ task' \in [Tasks -> Records] /\ task'[t] = Released(task[t])
       /\ \A u \in 1..created : u # t => task'[u] = task[u]
       /\ \A u \in 1..created : task'[u].kind = task[u].kind
  <2> HIDE DEF t
  <2> QED BY <1>1, <1>2, <1>10 DEF IInv, StateOK
<1>12. RefsOK(task', tasks', thread', queue', delayed', executing', created')
  <2>1. \A u \in 1..created \ {t} :
          InLib(queue', delayed', executing', u) <=> InLib(queue, delayed,
            executing, u)
    BY <1>8
  <2>2. Counted(task'[t], InTable(tasks', thread', t),
                InLib(queue', delayed', executing', t))
    BY <1>10, <1>11
  <2>3. \A u \in 1..created \ {t} :
          /\ task'[u] = task[u]
          /\ InTable(tasks', thread', u) <=> InTable(tasks, thread, u)
    BY <1>6, <1>11
  <2>4. created' = created /\ RefsOK(task, tasks, thread, queue, delayed,
          executing, created)
    BY <1>1 DEF IInv
  <2> HIDE DEF t
  <2> QED BY <2>1, <2>2, <2>3, <2>4, RefsOfOne
<1>13. OrderOK(task', queue', delayed')
  <2>1. delayed \subseteq 1..created /\ \A i \in DOMAIN queue : queue[i] \in 1..created
    BY DEF IInv, LibOK, InLib, StateOK
  <2> QED BY <1>1, <1>11, <2>1 DEF IInv, OrderOK
<1>14. HandOK(task', tasks', thread', queue', delayed', executing', created',
         mode', mutex')
  <2>1. \A q \in All : thread'[q].at = "handing" =>
          /\ thread'[q] = thread[q] /\ thread[q].at = "handing" /\ created # t
    BY <1>2, <1>4 DEF At
  <2>2. created \in tasks => created \in 1..created /\ created # 0
    BY DEF IInv, TableOK, InTable, StateOK
  <2> QED BY <1>1, <1>8, <1>11, <2>1, <2>2 DEF IInv, HandOK
<1>15. PlacesOK(thread', executing', mode')
  BY <1>1, <1>4 DEF IInv, PlacesOK, All
<1> QED BY <1>1, <1>4, <1>7, <1>9, <1>11, <1>12, <1>13, <1>14, <1>15 DEF IInv,
      StateOK

-----------------------------------------------------------------------------
(* The specification keeps the invariant *)

LEMMA StepKeeps == IInv /\ [Next]_vars => IInv'
<1> SUFFICES ASSUME IInv, [Next]_vars PROVE IInv'
  OBVIOUS
<1>1. ASSUME NEW p \in Threads, Enqueue(p) \/ TerminateAsync(p) \/ Disposal(p)
      PROVE  IInv'
  BY <1>1, EnqueueKeeps, DisposeKeeps, ProceedKeeps, CloseKeeps, SwapKeeps,
     ClearKeeps DEF Disposal
<1>2. ASSUME NEW p \in All, Step(p)
      PROVE  IInv'
  BY <1>2, HandOverKeeps, CancelKeeps, AwaitKeeps, ReleaseKeeps DEF Step
<1>3. CASE TimerElapses \/ Schedule \/ CancelTimer \/ Operation
  BY <1>3, TimerElapsesKeeps, ScheduleKeeps, CancelTimerKeeps, ExecuteKeeps,
     SignalKeeps, EndKeeps, FinishKeeps DEF Operation
<1>4. CASE UNCHANGED vars
  BY <1>4 DEF vars, IInv, StateOK
<1> QED BY <1>1, <1>2, <1>3, <1>4 DEF Next

LEMMA InvariantHolds == Spec => []IInv
BY InitHolds, StepKeeps, PTL DEF Spec

-----------------------------------------------------------------------------

\* Nobody touches a task that was deleted, and none is left over: for any
\* number of callers and tasks (Task::Retain and Release in util/task.cc, and
\* the ownership that ExecutorLibdispatch passes on).
THEOREM AliveWhileTouchedHolds == Spec => []AliveWhileTouched
<1>1. IInv => AliveWhileTouched
  <2> SUFFICES ASSUME IInv, NEW t \in 1..created
               PROVE  (task[t].state # "freed") <=> Touchable(t)
    BY DEF AliveWhileTouched
  <2>1. (task[t].state # "freed")
          <=> InTable(tasks, thread, t) \/ InLib(queue, delayed, executing, t)
    BY DEF IInv, RefsOK, Counted
  <2>2. InTable(tasks, thread, t) \/ InLib(queue, delayed, executing, t)
          => Touchable(t)
    BY DEF InTable, InLib, Holds, Holding, Touchable, At
  <2>3. Touchable(t) => InTable(tasks, thread, t)
                          \/ InLib(queue, delayed, executing, t)
    BY DEF InTable, InLib, Holds, Holding, Touchable, At, IInv, HandOK
  <2> QED BY <2>1, <2>2, <2>3
<1> QED BY <1>1, InvariantHolds, PTL

\* Operations run in the order in which the queue accepted them, timers aside
\* (AsyncQueue::EnqueueRelaxed holds its lock until libdispatch has the task).
THEOREM InOrderHolds == Spec => []InOrder
<1>1. IInv => InOrder
  BY DEF IInv, OrderOK, InOrder
<1> QED BY <1>1, InvariantHolds, PTL

-----------------------------------------------------------------------------
(***************************************************************************)
(* Dispose is final.  When the disposing thread has cancelled all it took  *)
(* from tasks_, everything else is over as well, because what it waited    *)
(* for has signalled, that task was in tasks_ and is over now, and it      *)
(* ended with no timer in schedule_.  The lock keeps other disposals out   *)
(* meanwhile (LockedOK), and the mode new tasks (RestrictedOK).            *)
(***************************************************************************)

Over == {"cancelled", "done", "freed"}
Open(t) == t \in 1..created /\ task[t].state \notin Over

Disposing == Holding \cup {"disposing", "enqueueing", "waiting", "closing",
                           "swapping", "clearing"}

\* One thread at a time disposes of the client.
LockedOK ==
  \A p \in Threads :
    \/ At(p) \in Disposing
    \/ At(p) = "handing" /\ task[thread[p].task].kind = "dispose"
    => firestore = p

\* Nothing but the two shutdowns enters a restricted queue.
RestrictedOK ==
  /\ \A p \in Threads : At(p) \in {"terminating", "enqueueing"} => mode # "running"
  /\ \A t \in 1..created :
       task[t].kind \in {"terminate", "dispose"} => mode # "running"
  /\ terminated = "yes" => mode # "running"

\* A queue is disposed of after the signal of a disposal.
ClosedOK ==
  /\ mode = "disposed" => signalled # {}
  /\ \A p \in Threads : At(p) = "closing" => signalled # {}

SwappedOK ==
  /\ \A p \in Threads : At(p) \in Holding \cup {"clearing"} => disposed = "yes"
  /\ disposed = "yes" => mode = "disposed" /\ tasks = {}

\* A task that has signalled runs, or has terminated the client.
SignalledOK ==
  \A t \in signalled :
    /\ t \in 1..created /\ task[t].kind = "dispose"
    /\ task[t].state \in {"running", "done", "freed"}
    /\ task[t].state # "running" => terminated = "yes"

\* What runs is what the queue's thread executes.
RunningOK ==
  /\ \A t \in 1..created :
       task[t].state # "none" /\ (task[t].state = "running" => t = executing)
  /\ At(Queue) \in Holding \cup {"free", "handing", "operating", "finishing"}
  /\ At(Queue) \in Holding \cup {"handing", "operating"} =>
       task[executing].state = "running"
  /\ At(Queue) = "finishing" => task[executing].state \in Over
  /\ At(Queue) \in Holding => task[thread[Queue].task].kind = "timer"

\* The table has a task until it is over, but for a timer that cancels itself.
OpenOK ==
  /\ \A t : Open(t) /\ ~InTable(tasks, thread, t) =>
              t = executing /\ task[t].kind = "timer"
  /\ \A p \in All : At(p) = "releasing" =>
       \/ task[thread[p].task].state \in Over
       \/ p = Queue /\ thread[p].task = executing

\* After TerminateInternal the timers are those a disposal has yet to cancel.
TimersOK ==
  terminated = "yes" =>
    \A t : Open(t) /\ task[t].kind = "timer" =>
             \E p \in Threads : Holds(thread, p, t)

FinalInv ==
  /\ LockedOK /\ RestrictedOK /\ ClosedOK /\ SwappedOK
  /\ SignalledOK /\ RunningOK /\ OpenOK /\ TimersOK
  /\ DisposeIsFinal

LEMMA InitFinal == Init => FinalInv
<1> SUFFICES ASSUME Init PROVE FinalInv
  OBVIOUS
<1>1. \A p \in All : At(p) = "free"
  BY DEF Init, At
<1>2. 1..created = {} /\ signalled = {} /\ terminated = "no" /\ returned = "no"
      /\ disposed = "no" /\ mode = "running"
  BY DEF Init
<1>3. LockedOK /\ RestrictedOK /\ ClosedOK /\ SwappedOK
  BY <1>1, <1>2 DEF LockedOK, RestrictedOK, ClosedOK, SwappedOK, All, Disposing,
    Holding
<1>4. SignalledOK /\ RunningOK /\ OpenOK /\ TimersOK /\ DisposeIsFinal
  BY <1>1, <1>2 DEF SignalledOK, RunningOK, OpenOK, Open, TimersOK,
    DisposeIsFinal, All, Holding
<1> QED BY <1>3, <1>4 DEF FinalInv

LEMMA Members == /\ Threads \subseteq All /\ Queue \in All /\ Queue \notin Threads
                 /\ "free" \notin All /\ All = Threads \cup {Queue}
BY ThreadsAssumption DEF All

\* Where a thread goes, and what it takes along
LEMMA Going ==
  ASSUME IInv, NEW p \in All, NEW at, Goes(p, at)
  PROVE  /\ \A q \in All \ {p} : thread'[q] = thread[q] /\ At(q)' = At(q)
         /\ thread'[p].at = at /\ At(p)' = at
         /\ thread'[p].task = thread[p].task /\ thread'[p].left = thread[p].left
BY DEF IInv, StateOK, Goes, At

\* The tasks stay what they are, and with whom they are.
SameTasks ==
  /\ \A u \in 1..created : /\ task'[u].kind = task[u].kind
                           /\ task'[u].state = task[u].state
  /\ \A q \in All : \A u : Holds(thread', q, u) <=> Holds(thread, q, u)
  /\ UNCHANGED <<tasks, created, executing>>

LEMMA SameTasksKeep ==
  ASSUME IInv, FinalInv, SameTasks, NEW p \in All,
         UNCHANGED <<signalled, terminated, returned>>,
         mode = "disposed" => mode' = "disposed",
         \A q \in All \ {p} : thread'[q] = thread[q],
         p = Queue =>
           \/ At(p) = "handing" /\ At(p)' = "operating"
           \/ /\ At(p) \in Holding /\ At(p)' = "releasing"
              /\ thread'[p].task = thread[p].task,
         At(p)' = "releasing" =>
           /\ thread'[p].task \in 1..created
           /\ \/ task[thread'[p].task].state \in Over
              \/ p = Queue /\ thread'[p].task = executing
  PROVE  SignalledOK' /\ RunningOK' /\ OpenOK' /\ TimersOK' /\ DisposeIsFinal'
<1>1. SignalledOK'
  BY DEF FinalInv, SignalledOK, SameTasks
<1>2. At(Queue) # "free" => executing \in 1..created /\ executing' = executing
  BY Executing DEF SameTasks
<1>3. At(Queue) \in Holding => thread[Queue].task \in 1..created
  BY Members DEF IInv, TableOK, InTable, Holds, At
<1>4. RunningOK'
  <2>1. \A t \in 1..created' :
          task'[t].state # "none" /\ (task'[t].state = "running" => t = executing')
    BY DEF FinalInv, RunningOK, SameTasks
  <2>2. CASE p = Queue
    BY <1>2, <1>3, <2>1, <2>2 DEF FinalInv, RunningOK, SameTasks, Holding
  <2>3. CASE p # Queue
    <3>1. thread'[Queue] = thread[Queue] /\ At(Queue)' = At(Queue)
      BY <2>3, Members DEF At
    <3> QED BY <1>2, <1>3, <2>1, <3>1 DEF FinalInv, RunningOK, SameTasks, Holding
  <2> QED BY <2>2, <2>3
<1>5. \A t : Open(t)' <=> Open(t)
  BY DEF Open, SameTasks
<1>6. \A t : InTable(tasks', thread', t) <=> InTable(tasks, thread, t)
  BY DEF InTable, SameTasks
<1>7. \A q \in All : At(q) \in Holding => thread[q].task \in 1..created
  BY DEF IInv, TableOK, InTable, Holds, At
<1>8. OpenOK'
  <2>1. \A t : Open(t)' /\ ~InTable(tasks', thread', t) =>
                 t = executing' /\ task'[t].kind = "timer"
    BY <1>5, <1>6 DEF FinalInv, OpenOK, SameTasks, Open
  <2>2. ASSUME NEW q \in All, At(q)' = "releasing"
        PROVE  \/ task'[thread'[q].task].state \in Over
               \/ q = Queue /\ thread'[q].task = executing'
    <3>1. CASE q = p
      BY <2>2, <3>1 DEF SameTasks
    <3>2. CASE q # p
      BY <1>7, <2>2, <3>2 DEF FinalInv, OpenOK, SameTasks, At, Holding
    <3> QED BY <3>1, <3>2
  <2> QED BY <2>1, <2>2 DEF OpenOK
<1>9. TimersOK'
  BY <1>5, Members DEF FinalInv, TimersOK, SameTasks, Open
<1>10. DisposeIsFinal'
  BY DEF FinalInv, DisposeIsFinal, SameTasks
<1> QED BY <1>1, <1>4, <1>8, <1>9, <1>10

-----------------------------------------------------------------------------
(* Threads that move between the tasks *)

LEMMA LockKept ==
  ASSUME IInv, FinalInv, NEW p \in All, firestore' = firestore,
         \A q \in All \ {p} : thread'[q] = thread[q],
         \A u \in 1..created : task'[u].kind = task[u].kind,
         p \in Threads /\ At(p)' \in Disposing => firestore = p,
         p \in Threads /\ At(p)' = "handing"
             /\ task'[thread'[p].task].kind = "dispose" => firestore = p
  PROVE  LockedOK'
<1> SUFFICES ASSUME NEW q \in Threads,
                    \/ At(q)' \in Disposing
                    \/ /\ At(q)' = "handing"
                       /\ task'[thread'[q].task].kind = "dispose"
             PROVE  firestore' = q
  BY DEF LockedOK
<1>1. CASE q = p
  BY <1>1
<1>2. CASE q # p
  <2>1. thread'[q] = thread[q] /\ At(q)' = At(q)
    BY <1>2, Members DEF At
  <2>2. At(q) = "handing" => thread[q].task \in 1..created
    BY Members DEF IInv, HandOK, TableOK, InTable, At
  <2> QED BY <2>1, <2>2 DEF FinalInv, LockedOK
<1> QED BY <1>1, <1>2

\* A thread that is nowhere near a task moves on.
LEMMA QuietFinal ==
  ASSUME IInv, FinalInv, NEW p \in Threads, NEW at \in Places \ Holding,
         Goes(p, at), At(p) \notin Holding,
         mode = "disposed" => mode' = "disposed",
         UNCHANGED <<tasks, disposed, task, created, executing, signalled,
                     terminated, returned>>
  PROVE  /\ SignalledOK' /\ RunningOK' /\ OpenOK' /\ TimersOK'
         /\ DisposeIsFinal'
         /\ \A q \in All \ {p} : thread'[q] = thread[q] /\ At(q)' = At(q)
         /\ At(p)' = at /\ p \in All
<1>1. /\ \A q \in All \ {p} : thread'[q] = thread[q] /\ At(q)' = At(q)
      /\ At(p)' = at /\ thread'[p].at = at /\ thread'[p].left = thread[p].left
      /\ thread'[p].task = thread[p].task /\ p \in All /\ p # Queue
  BY Going, Members
<1>2. SameTasks
  BY <1>1 DEF SameTasks, Holds, At
<1>3. at # "releasing"
  BY DEF Holding
<1> QED BY <1>1, <1>2, <1>3, SameTasksKeep

LEMMA RestrictFinal ==
  ASSUME IInv, FinalInv, NEW p \in Threads,
         \/ At(p) = "free" /\ Restrict(p, "terminating")
         \/ At(p) = "disposing" /\ Restrict(p, "enqueueing")
  PROVE  FinalInv'
<1>1. PICK at \in {"terminating", "enqueueing"} :
        Restrict(p, at) /\ (at = "enqueueing" => At(p) = "disposing")
          /\ At(p) \notin Holding
  BY DEF Holding
<1>2. /\ Goes(p, at) /\ mode' # "running" /\ firestore' = firestore
      /\ mode = "disposed" <=> mode' = "disposed"
      /\ UNCHANGED <<tasks, disposed, task, created, executing, signalled,
                     terminated, returned>>
  BY <1>1 DEF Restrict
<1>3. at \in Places \ Holding
  BY DEF Places, Holding
<1>4. /\ SignalledOK' /\ RunningOK' /\ OpenOK' /\ TimersOK' /\ DisposeIsFinal'
      /\ \A q \in All \ {p} : thread'[q] = thread[q] /\ At(q)' = At(q)
      /\ At(p)' = at /\ p \in All
  BY <1>1, <1>2, <1>3, QuietFinal
<1>5. LockedOK'
  <2>1. at \in Disposing => firestore = p
    BY <1>1, <1>3 DEF FinalInv, LockedOK, Disposing, Holding
  <2> QED BY <1>2, <1>4, <2>1, LockKept
<1>6. RestrictedOK' /\ ClosedOK' /\ SwappedOK'
  BY <1>2, <1>3, <1>4, Members DEF FinalInv, RestrictedOK, ClosedOK, SwappedOK
<1> QED BY <1>4, <1>5, <1>6 DEF FinalInv

LEMMA RefusedFinal ==
  ASSUME IInv, FinalInv, NEW p \in Threads,
         \/ At(p) = "terminating" /\ Refused(p, "free")
         \/ At(p) = "enqueueing" /\ Refused(p, "closing")
  PROVE  FinalInv'
<1>1. PICK at \in {"free", "closing"} :
        Refused(p, at) /\ (at = "closing" => At(p) = "enqueueing")
          /\ At(p) \notin Holding
  BY DEF Holding
<1>2. /\ Goes(p, at) /\ mode' = mode /\ firestore' = firestore
      /\ mode = "disposed"
      /\ UNCHANGED <<tasks, disposed, task, created, executing, signalled,
                     terminated, returned>>
  BY <1>1 DEF Refused
<1>3. at \in Places \ Holding
  BY DEF Places, Holding
<1>4. /\ SignalledOK' /\ RunningOK' /\ OpenOK' /\ TimersOK' /\ DisposeIsFinal'
      /\ \A q \in All \ {p} : thread'[q] = thread[q] /\ At(q)' = At(q)
      /\ At(p)' = at /\ p \in All
  BY <1>1, <1>2, <1>3, QuietFinal
<1>5. LockedOK'
  <2>1. at \in Disposing => firestore = p
    BY <1>1, <1>3 DEF FinalInv, LockedOK, Disposing, Holding
  <2> QED BY <1>2, <1>4, <2>1, LockKept
<1>6. RestrictedOK' /\ ClosedOK' /\ SwappedOK'
  BY <1>2, <1>3, <1>4, Members DEF FinalInv, RestrictedOK, ClosedOK, SwappedOK
<1> QED BY <1>4, <1>5, <1>6 DEF FinalInv

LEMMA ProceedFinal ==
  ASSUME IInv, FinalInv, NEW p \in Threads, Proceed(p)
  PROVE  FinalInv'
<1>1. /\ Goes(p, "closing") /\ mode' = mode /\ firestore' = firestore
      /\ At(p) = "waiting" /\ At(p) \notin Holding /\ signalled # {}
      /\ UNCHANGED <<tasks, disposed, task, created, executing, signalled,
                     terminated, returned>>
  BY DEF Proceed, TasksOnly, Holding
<1>2. "closing" \in Places \ Holding
  BY DEF Places, Holding
<1>3. /\ SignalledOK' /\ RunningOK' /\ OpenOK' /\ TimersOK' /\ DisposeIsFinal'
      /\ \A q \in All \ {p} : thread'[q] = thread[q] /\ At(q)' = At(q)
      /\ At(p)' = "closing" /\ p \in All
  BY <1>1, <1>2, QuietFinal
<1>4. LockedOK'
  <2>1. firestore = p
    BY <1>1 DEF FinalInv, LockedOK, Disposing, Holding
  <2> QED BY <1>1, <1>3, <2>1, LockKept
<1>5. RestrictedOK' /\ ClosedOK' /\ SwappedOK'
  BY <1>1, <1>2, <1>3, Members DEF FinalInv, RestrictedOK, ClosedOK, SwappedOK
<1> QED BY <1>3, <1>4, <1>5 DEF FinalInv

LEMMA CloseFinal ==
  ASSUME IInv, FinalInv, NEW p \in Threads, Close(p)
  PROVE  FinalInv'
<1>1. /\ Goes(p, "swapping") /\ mode' = "disposed" /\ firestore' = firestore
      /\ At(p) = "closing" /\ At(p) \notin Holding
      /\ UNCHANGED <<tasks, disposed, task, created, executing, signalled,
                     terminated, returned>>
  BY DEF Close, Holding
<1>2. "swapping" \in Places \ Holding
  BY DEF Places, Holding
<1>3. /\ SignalledOK' /\ RunningOK' /\ OpenOK' /\ TimersOK' /\ DisposeIsFinal'
      /\ \A q \in All \ {p} : thread'[q] = thread[q] /\ At(q)' = At(q)
      /\ At(p)' = "swapping" /\ p \in All
  BY <1>1, <1>2, QuietFinal
<1>4. LockedOK'
  <2>1. firestore = p
    BY <1>1 DEF FinalInv, LockedOK, Disposing, Holding
  <2> QED BY <1>1, <1>3, <2>1, LockKept
<1>5. RestrictedOK' /\ ClosedOK' /\ SwappedOK'
  BY <1>1, <1>2, <1>3, Members DEF FinalInv, RestrictedOK, ClosedOK, SwappedOK
<1> QED BY <1>3, <1>4, <1>5 DEF FinalInv

\* Firestore::Dispose takes the lock.
LEMMA StartFinal ==
  ASSUME IInv, FinalInv, NEW p \in Threads, At(p) = "free",
         firestore = "free", firestore' = p, Goes(p, "disposing"),
         UNCHANGED <<mode, mutex, tasks, disposed, task, created, queue,
                     delayed, executing, signalled, terminated, returned>>
  PROVE  FinalInv'
<1>1. "disposing" \in Places \ Holding /\ At(p) \notin Holding
  BY DEF Places, Holding
<1>2. /\ SignalledOK' /\ RunningOK' /\ OpenOK' /\ TimersOK' /\ DisposeIsFinal'
      /\ \A q \in All \ {p} : thread'[q] = thread[q] /\ At(q)' = At(q)
      /\ At(p)' = "disposing" /\ p \in All
  BY <1>1, QuietFinal
<1>3. LockedOK'
  BY <1>2, Members DEF FinalInv, LockedOK
<1>4. RestrictedOK' /\ ClosedOK' /\ SwappedOK'
  BY <1>1, <1>2, Members DEF FinalInv, RestrictedOK, ClosedOK, SwappedOK
<1> QED BY <1>2, <1>3, <1>4 DEF FinalInv

\* A new task enters.
LEMMA InsertFinal ==
  ASSUME IInv, FinalInv, NEW p \in All, NEW kind \in Kinds, Insert(p, kind),
         kind = "timer" <=> p = Queue, p = Queue => At(p) = "operating",
         kind = "terminate" => At(p) = "terminating",
         kind = "dispose" => At(p) = "enqueueing",
         At(p) \notin Holding \cup {"clearing"}
  PROVE  FinalInv'
<1> DEFINE t == created + 1
           new == [kind |-> kind, state |-> "initial", refs |-> 1,
                   executor |-> "set"]
<1>1. /\ t \in Tasks /\ created' = t /\ t \in Nat /\ t \notin 1..created
      /\ 1..created' = 1..created \cup {t}
  BY TasksAssumption DEF Insert, WithinBounds, Tasks, IInv, StateOK
<1>2. /\ mode' = mode /\ mode # "disposed" /\ disposed = "no"
      /\ kind = "timer" => mode = "running"
      /\ tasks' = tasks \cup {t} /\ task' = [task EXCEPT ![t] = new]
      /\ thread' = [thread EXCEPT ![p].at = "handing", ![p].task = t]
      /\ UNCHANGED <<firestore, disposed, executing, signalled, terminated,
                     returned>>
  BY DEF Insert, Accepts, GoesTo
<1> HIDE DEF t
<1>3. /\ task'[t].kind = kind /\ task'[t].state = "initial"
      /\ \A u \in 1..created : task'[u] = task[u]
  <2>1. task'[t] = new /\ \A u \in 1..created : task'[u] = task[u]
    BY <1>1, <1>2 DEF IInv, StateOK, Tasks
  <2> QED BY <2>1
<1> HIDE DEF new
<1>4. /\ \A q \in All \ {p} : thread'[q] = thread[q] /\ At(q)' = At(q)
      /\ thread'[p].at = "handing" /\ At(p)' = "handing"
      /\ thread'[p].task = t /\ thread'[p].left = {}
  <2>1. thread[p].left = {}
    BY HasNothing
  <2> QED BY <1>2, <2>1 DEF IInv, StateOK, At
<1>5. \A q \in All : \A u : Holds(thread', q, u) <=> Holds(thread, q, u)
  <2>1. thread[p].left = {}
    BY HasNothing
  <2> QED BY <1>4, <2>1 DEF Holds, Holding, At
<1>6. \A u : InTable(tasks', thread', u) <=> InTable(tasks, thread, u) \/ u = t
  BY <1>2, <1>5 DEF InTable
<1>7. \A q \in All : At(q) \in Holding => thread[q].task \in 1..created
  BY DEF IInv, TableOK, InTable, Holds, At
<1>8. At(Queue) # "free" => executing \in 1..created
  BY Executing
<1>9. LockedOK'
  <2>1. p \in Threads /\ kind = "dispose" => firestore = p
    BY DEF FinalInv, LockedOK, Disposing
  <2> QED BY <1>2, <1>3, <1>4, <2>1, LockKept DEF Disposing, Holding
<1>10. RestrictedOK'
  <2>1. kind \in {"terminate", "dispose"} => mode # "running"
    BY Members DEF FinalInv, RestrictedOK
  <2> QED BY <1>1, <1>2, <1>3, <1>4, <2>1, Members DEF FinalInv, RestrictedOK
<1>11. ClosedOK' /\ SwappedOK'
  BY <1>2, <1>4, Members DEF FinalInv, ClosedOK, SwappedOK, Holding
<1>12. SignalledOK'
  BY <1>1, <1>2, <1>3 DEF FinalInv, SignalledOK
<1>13. RunningOK'
  <2>1. \A u \in 1..created' :
          task'[u].state # "none" /\ (task'[u].state = "running" => u = executing')
    BY <1>1, <1>2, <1>3 DEF FinalInv, RunningOK
  <2>2. \/ At(Queue)' = At(Queue) /\ thread'[Queue] = thread[Queue]
        \/ At(Queue) = "operating" /\ At(Queue)' = "handing"
    BY <1>4, Members
  <2> QED BY <1>2, <1>3, <1>7, <1>8, <2>1, <2>2, Members
          DEF FinalInv, RunningOK, Holding
<1>14. \A u : Open(u)' <=> Open(u) \/ u = t
  BY <1>1, <1>3 DEF Open, Over
<1>15. OpenOK'
  <2>1. \A u : Open(u)' /\ ~InTable(tasks', thread', u) =>
                 u = executing' /\ task'[u].kind = "timer"
    BY <1>2, <1>3, <1>6, <1>14 DEF FinalInv, OpenOK, Open
  <2>2. \A q \in All : At(q)' = "releasing" =>
          /\ At(q) = "releasing" /\ thread'[q] = thread[q]
          /\ thread[q].task \in 1..created
    BY <1>4, <1>7 DEF Holding
  <2> QED BY <1>2, <1>3, <2>1, <2>2 DEF FinalInv, OpenOK
<1>16. TimersOK'
  <2> SUFFICES ASSUME terminated = "yes", NEW u, Open(u)', task'[u].kind = "timer"
               PROVE  \E q \in Threads : Holds(thread', q, u)
    BY <1>2 DEF TimersOK
  <2>1. u # t
    BY <1>2, <1>3 DEF FinalInv, RestrictedOK
  <2>2. Open(u) /\ task[u].kind = "timer"
    BY <1>3, <1>14, <2>1 DEF Open
  <2> QED BY <1>5, <2>2, Members DEF FinalInv, TimersOK
<1>17. DisposeIsFinal'
  BY <1>2 DEF FinalInv, DisposeIsFinal
<1> QED BY <1>9, <1>10, <1>11, <1>12, <1>13, <1>15, <1>16, <1>17 DEF FinalInv

LEMMA HandOverFinal ==
  ASSUME IInv, FinalInv, NEW p \in All, HandOver(p)
  PROVE  FinalInv'
<1> DEFINE t == thread[p].task
           at == After(task[t].kind)
<1>1. /\ At(p) = "handing" /\ t \in 1..created /\ t \in Tasks
      /\ (task[t].kind = "timer" <=> p = Queue)
  BY TasksAssumption DEF HandOver, At, IInv, HandOK, TableOK, InTable, Tasks,
    StateOK
<1>2. /\ at \in {"free", "operating", "waiting"}
      /\ at = "operating" <=> p = Queue
      /\ at = "waiting" <=> task[t].kind = "dispose"
  BY <1>1 DEF After
<1>3. /\ Goes(p, at) /\ task' = [task EXCEPT ![t].refs = @ + 1]
      /\ UNCHANGED <<mode, firestore, tasks, disposed, created, executing,
                     signalled, terminated, returned>>
  BY DEF HandOver
<1> HIDE DEF at
<1>4. /\ \A q \in All \ {p} : thread'[q] = thread[q] /\ At(q)' = At(q)
      /\ thread'[p].at = at /\ At(p)' = at
      /\ thread'[p].task = t /\ thread'[p].left = thread[p].left
  BY <1>3, Going
<1>5. \A u \in 1..created : /\ task'[u].kind = task[u].kind
                            /\ task'[u].state = task[u].state
  <2>1. task \in [Tasks -> Records] /\ 1..created \subseteq Tasks
    BY TasksAssumption DEF IInv, StateOK, Tasks
  <2>2. task' = [task EXCEPT ![t].refs = @ + 1]
    BY <1>3
  <2>3. task[t] \in Records
    BY <1>1, <2>1
  <2>4. /\ [task[t] EXCEPT !.refs = @ + 1].kind = task[t].kind
        /\ [task[t] EXCEPT !.refs = @ + 1].state = task[t].state
    BY <2>3 DEF Records
  <2> HIDE DEF t
  <2> QED BY <1>1, <2>1, <2>2, <2>4
<1>6. SameTasks
  <2>1. \A q \in All : \A u : Holds(thread', q, u) <=> Holds(thread, q, u)
    BY <1>1, <1>2, <1>4 DEF Holds, Holding, At
  <2> QED BY <1>3, <1>5, <2>1 DEF SameTasks
<1>7. SignalledOK' /\ RunningOK' /\ OpenOK' /\ TimersOK' /\ DisposeIsFinal'
  <2>1. p = Queue => At(p) = "handing" /\ At(p)' = "operating"
    BY <1>1, <1>2, <1>4
  <2>2. At(p)' # "releasing"
    BY <1>2, <1>4
  <2> QED BY <1>3, <1>4, <1>6, <2>1, <2>2, SameTasksKeep
<1>8. LockedOK'
  <2>1. p \in Threads /\ At(p)' \in Disposing => firestore = p
    BY <1>1, <1>2, <1>4 DEF FinalInv, LockedOK, Disposing, Holding
  <2> QED BY <1>2, <1>3, <1>4, <1>5, <2>1, LockKept
<1>9. RestrictedOK' /\ ClosedOK' /\ SwappedOK'
  BY <1>2, <1>3, <1>4, <1>5, Members
     DEF FinalInv, RestrictedOK, ClosedOK, SwappedOK, Holding
<1> QED BY <1>7, <1>8, <1>9 DEF FinalInv

-----------------------------------------------------------------------------
(* Threads that cancel tasks *)

\* What a thread that cancels has in its hands
LEMMA InHand ==
  ASSUME IInv, NEW p \in All, At(p) \in Holding
  PROVE  /\ thread[p].task \in 1..created /\ thread[p].task \in Tasks
         /\ task[thread[p].task] \in Records /\ 1..created \subseteq Tasks
BY TasksAssumption DEF IInv, TableOK, InTable, Holds, At, StateOK, Tasks

\* What the parts about shutting down need of a thread that cancels
LEMMA HoldingFinal ==
  ASSUME IInv, FinalInv, NEW p \in All, At(p) \in Holding,
         At(p)' \in Holding \cup IF p = Queue THEN {"operating"} ELSE {"clearing"},
         \A q \in All \ {p} : thread'[q] = thread[q],
         \A u \in 1..created : task'[u].kind = task[u].kind,
         UNCHANGED <<mode, firestore, tasks, disposed, created, executing,
                     signalled, terminated, returned>>
  PROVE  LockedOK' /\ RestrictedOK' /\ ClosedOK' /\ SwappedOK'
<1>1. LockedOK'
  <2>1. p \in Threads => firestore = p
    BY DEF FinalInv, LockedOK, Disposing
  <2>2. p \in Threads => At(p)' # "handing"
    BY Members DEF Holding
  <2> QED BY <2>1, <2>2, LockKept
<1>2. RestrictedOK' /\ ClosedOK'
  BY Members DEF FinalInv, RestrictedOK, ClosedOK, Holding, At
<1>3. SwappedOK'
  BY Members DEF FinalInv, SwappedOK, Holding, At
<1> QED BY <1>1, <1>2, <1>3

LEMMA CancelFinal ==
  ASSUME IInv, FinalInv, NEW p \in All, Cancel(p)
  PROVE  FinalInv'
<1> DEFINE t == thread[p].task
           gone == [task[t] EXCEPT !.executor = "null"]
<1>1. /\ At(p) = "cancelling" /\ t \in 1..created /\ t \in Tasks
      /\ task[t] \in Records /\ 1..created \subseteq Tasks
  BY InHand DEF Cancel, Holding
<1>2. UNCHANGED <<mode, firestore, tasks, disposed, created, executing,
                  signalled, terminated, returned>>
  BY DEF Cancel, TasksOnly
<1>3. PICK at \in {"releasing", "awaiting"} :
        /\ Goes(p, at)
        /\ at = "awaiting" => p # Queue
        /\ at = "releasing" => task[t].state # "running" \/ p = Queue
        /\ task[t].state = "initial" => at = "releasing"
  BY DEF Cancel, Awaits
<1>4. /\ \A q \in All \ {p} : thread'[q] = thread[q] /\ At(q)' = At(q)
      /\ thread'[p].at = at /\ At(p)' = at
      /\ thread'[p].task = t /\ thread'[p].left = thread[p].left
  BY <1>3, Going
<1>5. \A q \in All : \A u : Holds(thread', q, u) <=> Holds(thread, q, u)
  BY <1>1, <1>4 DEF Holds, Holding, At
<1>6. /\ \A u \in 1..created : task'[u].kind = task[u].kind
      /\ \A u \in 1..created : u # t => task'[u] = task[u]
      /\ task'[t].state =
           IF task[t].state = "initial" THEN "cancelled" ELSE task[t].state
  <2>1. PICK r : /\ task' = [task EXCEPT ![t] = r] /\ r.kind = task[t].kind
                 /\ r.state = IF task[t].state = "initial" THEN "cancelled"
                              ELSE task[t].state
    <3>1. CASE task[t].state = "initial"
      <4>1. /\ [gone EXCEPT !.state = "cancelled"].kind = task[t].kind
            /\ [gone EXCEPT !.state = "cancelled"].state = "cancelled"
        BY <1>1 DEF Records
      <4>2. task' = [task EXCEPT ![t] = [gone EXCEPT !.state = "cancelled"]]
        BY <3>1 DEF Cancel
      <4> QED BY <3>1, <4>1, <4>2
    <3>2. CASE task[t].state = "running"
      <4>1. gone.kind = task[t].kind /\ gone.state = task[t].state
        BY <1>1 DEF Records
      <4>2. task' = [task EXCEPT ![t] = gone]
        BY <3>2 DEF Cancel
      <4> QED BY <3>2, <4>1, <4>2
    <3>3. CASE task[t].state \notin {"initial", "running"}
      <4>1. task' = task
        BY <3>3 DEF Cancel
      <4>2. task' = [task EXCEPT ![t] = task[t]]
        BY <4>1 DEF IInv, StateOK
      <4> QED BY <3>3, <4>2
    <3> QED BY <3>1, <3>2, <3>3
  <2> HIDE DEF t
  <2> QED BY <1>1, <2>1 DEF IInv, StateOK
<1>7. LockedOK' /\ RestrictedOK' /\ ClosedOK' /\ SwappedOK'
  BY <1>1, <1>2, <1>4, <1>6, HoldingFinal DEF Holding
<1>8. SignalledOK' /\ RunningOK' /\ OpenOK' /\ TimersOK' /\ DisposeIsFinal'
  <2>1. CASE task[t].state # "initial"
    <3>1. SameTasks
      BY <1>2, <1>5, <1>6, <2>1 DEF SameTasks
    <3>2. p = Queue => At(p) \in Holding /\ At(p)' = "releasing"
                         /\ thread'[p].task = thread[p].task
      BY <1>1, <1>3, <1>4 DEF Holding
    <3>3. At(p)' = "releasing" =>
            /\ thread'[p].task \in 1..created
            /\ \/ task[thread'[p].task].state \in Over
               \/ p = Queue /\ thread'[p].task = executing
      <4>1. task[t].state \in {"running"} \cup Over
        BY <1>1, <2>1 DEF FinalInv, RunningOK, Records, Over
      <4>2. task[t].state = "running" => t = executing
        BY <1>1 DEF FinalInv, RunningOK
      <4> QED BY <1>1, <1>3, <1>4, <4>1, <4>2
    <3> QED BY <1>2, <1>4, <3>1, <3>2, <3>3, SameTasksKeep
  <2>2. CASE task[t].state = "initial"
    <3>1. /\ task'[t].state = "cancelled" /\ at = "releasing"
          /\ t \notin signalled
      BY <1>3, <1>6, <2>2 DEF FinalInv, SignalledOK
    <3> HIDE DEF t
    <3>2. SignalledOK'
      BY <1>2, <1>6, <3>1 DEF FinalInv, SignalledOK
    <3>3. At(Queue) # "free" => executing \in 1..created
      BY Executing
    <3>4. thread'[Queue].task = thread[Queue].task
          /\ (At(Queue)' = At(Queue) \/ {At(Queue)', At(Queue)} \subseteq Holding)
      BY <1>1, <1>4, <3>1, Members DEF Holding, t
    <3>5. At(Queue) \in Holding => thread[Queue].task \in 1..created
      BY InHand, Members
    <3>6. RunningOK'
      <4>1. \A u \in 1..created' :
              /\ task'[u].state # "none"
              /\ task'[u].state = "running" => u = executing'
        BY <1>2, <1>6, <3>1 DEF FinalInv, RunningOK
      <4>2. At(Queue) \in Holding \cup {"handing", "operating", "finishing"} =>
              task'[executing] = task[executing]
        BY <1>6, <2>2, <3>3 DEF FinalInv, RunningOK, Over, Holding
      <4> QED BY <1>2, <1>6, <3>4, <3>5, <4>1, <4>2
              DEF FinalInv, RunningOK, Holding
    <3>7. \A u : Open(u)' => Open(u)
      BY <1>2, <1>6, <3>1 DEF Open, Over
    <3>8. OpenOK'
      <4>1. \A u : Open(u)' /\ ~InTable(tasks', thread', u) =>
                     u = executing' /\ task'[u].kind = "timer"
        BY <1>2, <1>5, <1>6, <3>7 DEF FinalInv, OpenOK, InTable, Open
      <4>2. ASSUME NEW q \in All, At(q)' = "releasing"
            PROVE  \/ task'[thread'[q].task].state \in Over
                   \/ q = Queue /\ thread'[q].task = executing'
        <5>1. CASE q = p
          BY <1>4, <3>1, <5>1 DEF Over, t
        <5>2. CASE q # p
          <6>1. thread'[q] = thread[q] /\ At(q) = "releasing"
                /\ thread[q].task \in 1..created
            BY <1>4, <4>2, <5>2, InHand DEF Holding
          <6>2. task[thread[q].task].state \in Over =>
                  task'[thread[q].task].state \in Over
            BY <1>6, <3>1, <6>1 DEF Over
          <6> QED BY <1>2, <6>1, <6>2 DEF FinalInv, OpenOK
        <5> QED BY <5>1, <5>2
      <4> QED BY <4>1, <4>2 DEF OpenOK
    <3>9. TimersOK'
      BY <1>2, <1>5, <1>6, <3>7, Members DEF FinalInv, TimersOK, Open
    <3>10. DisposeIsFinal'
      BY <1>2, <1>6, <3>1 DEF FinalInv, DisposeIsFinal
    <3> QED BY <3>2, <3>6, <3>8, <3>9, <3>10
  <2> QED BY <2>1, <2>2
<1> QED BY <1>7, <1>8 DEF FinalInv

LEMMA AwaitFinal ==
  ASSUME IInv, FinalInv, NEW p \in All, Await(p)
  PROVE  FinalInv'
<1>1. /\ At(p) = "awaiting" /\ At(p) \in Holding /\ Goes(p, "releasing")
      /\ task[thread[p].task].state \in Over
      /\ UNCHANGED <<mode, firestore, tasks, task, disposed, created, executing,
                     signalled, terminated, returned>>
  BY DEF Await, TasksOnly, Holding, Over
<1>2. /\ \A q \in All \ {p} : thread'[q] = thread[q] /\ At(q)' = At(q)
      /\ thread'[p].at = "releasing" /\ At(p)' = "releasing"
      /\ thread'[p].task = thread[p].task /\ thread'[p].left = thread[p].left
  BY <1>1, Going
<1>3. SameTasks
  <2>1. \A q \in All : \A u : Holds(thread', q, u) <=> Holds(thread, q, u)
    BY <1>1, <1>2 DEF Holds, Holding, At
  <2> QED BY <1>1, <2>1 DEF SameTasks
<1>4. SignalledOK' /\ RunningOK' /\ OpenOK' /\ TimersOK' /\ DisposeIsFinal'
  <2>1. thread'[p].task \in 1..created
    BY <1>1, <1>2, InHand
  <2> QED BY <1>1, <1>2, <1>3, <2>1, SameTasksKeep
<1>5. LockedOK' /\ RestrictedOK' /\ ClosedOK' /\ SwappedOK'
  BY <1>1, <1>2, HoldingFinal DEF Holding
<1> QED BY <1>4, <1>5 DEF FinalInv

LEMMA ReleaseFinal ==
  ASSUME IInv, FinalInv, NEW p \in All, Release(p)
  PROVE  FinalInv'
<1> DEFINE t == thread[p].task
           at == IF p = Queue THEN "operating" ELSE "clearing"
<1>1. /\ At(p) = "releasing" /\ t \in 1..created /\ t \in Tasks
      /\ task[t] \in Records /\ 1..created \subseteq Tasks
      /\ Holds(thread, p, t) /\ t \notin thread[p].left
  <2>1. At(p) = "releasing"
    BY DEF Release
  <2>2. At(p) \in Holding /\ Holds(thread, p, t)
    BY <2>1 DEF Holding, Holds, At
  <2> QED BY <2>1, <2>2, InHand DEF IInv, TableOK, At
<1>2. UNCHANGED <<mode, firestore, tasks, disposed, created, executing,
                  signalled, terminated, returned>>
  BY DEF Release, TasksOnly
<1>3. Goes(p, at) /\ task' = [task EXCEPT ![t] = Released(task[t])]
  BY DEF Release
<1> HIDE DEF at
<1>4. /\ \A q \in All \ {p} : thread'[q] = thread[q] /\ At(q)' = At(q)
      /\ thread'[p].at = at /\ At(p)' = at
      /\ thread'[p].task = t /\ thread'[p].left = thread[p].left
  BY <1>3, Going
<1>5. \/ task[t].state \in Over
      \/ /\ p = Queue /\ t = executing /\ task[t].state = "running"
         /\ task[t].kind = "timer"
  BY <1>1 DEF FinalInv, OpenOK, RunningOK, Holding
<1>6. Counted(task[t], TRUE, InLib(queue, delayed, executing, t))
  BY <1>1 DEF IInv, RefsOK, Counted, InTable
<1>7. /\ Released(task[t]).kind = task[t].kind
      /\ Released(task[t]).state =
           IF task[t].refs = 1 THEN "freed" ELSE task[t].state
      /\ t = executing => task[t].refs = 2
  <2>1. Released(task[t]).kind = task[t].kind
    BY <1>1 DEF Released, Records
  <2>2. Released(task[t]).state =
          IF task[t].refs = 1 THEN "freed" ELSE task[t].state
    BY <1>1 DEF Released, Records
  <2>3. t = executing => task[t].refs = 2
    BY <1>6 DEF Counted, InLib
  <2> QED BY <2>1, <2>2, <2>3
<1>8. /\ \A u \in 1..created : task'[u].kind = task[u].kind
      /\ \A u \in 1..created : u # t => task'[u] = task[u]
      /\ task'[t].state \in {task[t].state, "freed"}
      /\ t = executing => task'[t].state = task[t].state
  <2> HIDE DEF t
  <2>1. task'[t] = Released(task[t]) /\ \A u \in Tasks \ {t} : task'[u] = task[u]
    BY <1>1, <1>3 DEF IInv, StateOK
  <2> QED BY <1>1, <1>7, <2>1
<1>9. \A q \in All : \A u :
        Holds(thread', q, u) <=> Holds(thread, q, u) /\ (q = p => u # t)
  <2>1. ASSUME NEW u PROVE Holds(thread', p, u) <=> Holds(thread, p, u) /\ u # t
    BY <1>1, <1>4 DEF Holds, Holding, At, at
  <2>2. ASSUME NEW q \in All \ {p}, NEW u
        PROVE Holds(thread', q, u) <=> Holds(thread, q, u)
    BY <1>4 DEF Holds
  <2> QED BY <2>1, <2>2
<1>10. LockedOK' /\ RestrictedOK' /\ ClosedOK' /\ SwappedOK'
  BY <1>1, <1>2, <1>4, <1>8, HoldingFinal DEF Holding, at
<1> HIDE DEF t
<1>11. SignalledOK'
  BY <1>2, <1>5, <1>8 DEF FinalInv, SignalledOK, Over
<1>12. RunningOK'
  <2>1. \A u \in 1..created' :
          /\ task'[u].state # "none"
          /\ task'[u].state = "running" => u = executing'
    BY <1>2, <1>8 DEF FinalInv, RunningOK
  <2>2. At(Queue) # "free" =>
          executing \in 1..created /\ task'[executing].state = task[executing].state
    BY <1>8, Executing
  <2>3. CASE p = Queue
    BY <1>1, <1>2, <1>4, <2>1, <2>2, <2>3 DEF FinalInv, RunningOK, Holding, at
  <2>4. CASE p # Queue
    <3>1. thread'[Queue] = thread[Queue] /\ At(Queue)' = At(Queue)
      BY <1>4, <2>4, Members
    <3>2. At(Queue) \in Holding => thread[Queue].task \in 1..created
      BY InHand, Members
    <3> QED BY <1>2, <1>8, <2>1, <2>2, <3>1, <3>2 DEF FinalInv, RunningOK, Holding
  <2> QED BY <2>3, <2>4
<1>13. \A u : Open(u)' => Open(u)
  BY <1>2, <1>8 DEF Open, Over
<1>14. OpenOK'
  <2>1. ASSUME NEW u, Open(u)', ~InTable(tasks', thread', u)
        PROVE  u = executing' /\ task'[u].kind = "timer"
    <3>1. u \in 1..created /\ Open(u)
      BY <1>13, <2>1 DEF Open
    <3>2. CASE u = t
      BY <1>2, <1>5, <1>8, <3>1, <3>2 DEF Open
    <3>3. CASE u # t
      <4>1. ~InTable(tasks, thread, u)
        BY <1>2, <1>9, <2>1, <3>3 DEF InTable
      <4> QED BY <1>2, <1>8, <3>1, <4>1 DEF FinalInv, OpenOK
    <3> QED BY <3>2, <3>3
  <2>2. ASSUME NEW q \in All, At(q)' = "releasing"
        PROVE  \/ task'[thread'[q].task].state \in Over
               \/ q = Queue /\ thread'[q].task = executing'
    <3>1. q # p
      BY <1>4, <2>2 DEF at
    <3>2. thread'[q] = thread[q] /\ At(q) = "releasing"
          /\ thread[q].task \in 1..created
      BY <1>4, <2>2, <3>1, InHand DEF Holding
    <3>3. task[thread[q].task].state \in Over =>
            task'[thread[q].task].state \in Over
      BY <1>8, <3>2 DEF Over
    <3> QED BY <1>2, <3>2, <3>3 DEF FinalInv, OpenOK
  <2> QED BY <2>1, <2>2 DEF OpenOK
<1>15. TimersOK'
  <2> SUFFICES ASSUME terminated = "yes", NEW u, Open(u)', task'[u].kind = "timer"
               PROVE  \E q \in Threads : Holds(thread', q, u)
    BY <1>2 DEF TimersOK
  <2>1. u \in 1..created /\ Open(u) /\ task[u].kind = "timer"
    BY <1>8, <1>13 DEF Open
  <2>2. PICK q \in Threads : Holds(thread, q, u)
    BY <2>1 DEF FinalInv, TimersOK
  <2>3. q = p => u # t
    BY <1>5, <2>1, Members DEF Open
  <2> QED BY <1>9, <2>2, <2>3, Members
<1>16. DisposeIsFinal'
  BY <1>2, <1>8 DEF FinalInv, DisposeIsFinal
<1> QED BY <1>10, <1>11, <1>12, <1>14, <1>15, <1>16 DEF FinalInv

-----------------------------------------------------------------------------
(* The end of a disposal *)

LEMMA SwapFinal ==
  ASSUME IInv, FinalInv, NEW p \in Threads, Swap(p)
  PROVE  FinalInv'
<1>1. /\ p \in All /\ p # Queue /\ At(p) = "swapping" /\ mode = "disposed"
      /\ thread[p].left = {} /\ firestore = p
  BY Members, HasNothing
     DEF Swap, IInv, PlacesOK, At, Holding, FinalInv, LockedOK, Disposing
<1>2. /\ tasks' = {} /\ disposed' = "yes"
      /\ thread' = [thread EXCEPT ![p].at = "clearing", ![p].left = tasks]
      /\ UNCHANGED <<mode, firestore, task, created, executing, signalled,
                     terminated, returned>>
  BY DEF Swap
<1>3. /\ \A q \in All \ {p} : thread'[q] = thread[q] /\ At(q)' = At(q)
      /\ thread'[p].at = "clearing" /\ At(p)' = "clearing"
      /\ thread'[p].left = tasks
      /\ thread'[Queue] = thread[Queue] /\ At(Queue)' = At(Queue)
  BY <1>1, <1>2, Members DEF IInv, StateOK, At
<1>4. /\ \A q \in All : \A u : Holds(thread, q, u) => Holds(thread', q, u)
      /\ \A u : u \in tasks => Holds(thread', p, u)
  BY <1>1, <1>3 DEF Holds, Holding, At
<1>5. \A u : InTable(tasks, thread, u) => InTable(tasks', thread', u)
  BY <1>1, <1>4 DEF InTable
<1>6. LockedOK'
  BY <1>1, <1>2, <1>3, LockKept DEF Disposing, Holding
<1>7. RestrictedOK' /\ ClosedOK' /\ SwappedOK'
  BY <1>1, <1>2, <1>3, Members DEF FinalInv, RestrictedOK, ClosedOK, SwappedOK
<1>8. SignalledOK' /\ RunningOK' /\ DisposeIsFinal'
  BY <1>2, <1>3 DEF FinalInv, SignalledOK, RunningOK, DisposeIsFinal
<1>9. \A u : Open(u)' <=> Open(u)
  BY <1>2 DEF Open
<1>10. OpenOK'
  <2>1. \A q \in All : At(q)' = "releasing" =>
          At(q) = "releasing" /\ thread'[q] = thread[q]
    BY <1>3 DEF At
  <2> QED BY <1>2, <1>5, <1>9, <2>1 DEF FinalInv, OpenOK
<1>11. TimersOK'
  BY <1>2, <1>4, <1>9, Members DEF FinalInv, TimersOK
<1> QED BY <1>6, <1>7, <1>8, <1>10, <1>11 DEF FinalInv

\* The thread that has cancelled all it took finds all else over.
LEMMA AllOver ==
  ASSUME IInv, FinalInv, NEW p \in Threads, At(p) = "clearing",
         thread[p].left = {}
  PROVE  /\ terminated = "yes" /\ mode = "disposed" /\ tasks = {}
         /\ \A t \in 1..created : task[t].state \in Over
<1>1. mode = "disposed" /\ tasks = {}
  BY DEF FinalInv, SwappedOK
<1>2. \A q \in Threads : \A u : ~Holds(thread, q, u)
  <2> SUFFICES ASSUME NEW q \in Threads, NEW u, Holds(thread, q, u)
               PROVE  FALSE
    OBVIOUS
  <2>1. q # p
    BY DEF Holds, At, Holding
  <2>2. thread[q].left # {} \/ At(q) \in Holding
    BY DEF Holds, At
  <2>3. At(q) \in Disposing /\ At(p) \in Disposing
    BY <2>2, Members DEF IInv, TableOK, At, Disposing
  <2> QED BY <2>1, <2>3 DEF FinalInv, LockedOK
<1>3. \A u : Holds(thread, Queue, u) => task[u].kind = "timer"
  BY Members DEF FinalInv, RunningOK, IInv, TableOK, Holds, At
<1>4. \A u : Open(u) => task[u].kind = "timer"
  BY <1>1, <1>2, <1>3, Members DEF FinalInv, OpenOK, InTable
<1>5. terminated = "yes"
  <2>1. PICK s \in signalled : TRUE
    BY <1>1 DEF FinalInv, ClosedOK
  <2>2. ~Open(s)
    BY <1>4, <2>1 DEF FinalInv, SignalledOK
  <2> QED BY <2>1, <2>2 DEF FinalInv, SignalledOK, Open, Over
<1>6. \A u : ~Open(u)
  BY <1>2, <1>4, <1>5 DEF FinalInv, TimersOK
<1> QED BY <1>1, <1>5, <1>6 DEF Open

LEMMA ClearFinal ==
  ASSUME IInv, FinalInv, NEW p \in Threads, Clear(p)
  PROVE  FinalInv'
<1>1. /\ p \in All /\ p # Queue /\ At(p) = "clearing" /\ firestore = p
      /\ UNCHANGED <<mode, tasks, disposed, task, created, executing, signalled,
                     terminated>>
  BY Members DEF Clear, FinalInv, LockedOK, Disposing
<1>2. CASE thread[p].left = {}
  <2>1. Goes(p, "free") /\ firestore' = "free" /\ returned' = "yes"
    BY <1>2 DEF Clear
  <2>2. /\ \A q \in All \ {p} : thread'[q] = thread[q] /\ At(q)' = At(q)
        /\ thread'[p].at = "free" /\ At(p)' = "free"
        /\ thread'[p].left = {} /\ thread'[p].task = thread[p].task
    BY <1>1, <1>2, <2>1, Going
  <2>3. /\ \A q \in All : \A u : Holds(thread', q, u) <=> Holds(thread, q, u)
        /\ \A u : InTable(tasks', thread', u) <=> InTable(tasks, thread, u)
    <3>1. \A q \in All : \A u : Holds(thread', q, u) <=> Holds(thread, q, u)
      BY <1>1, <1>2, <2>2 DEF Holds, Holding, At
    <3> QED BY <1>1, <3>1 DEF InTable
  <2>4. LockedOK'
    <3>1. \A q \in Threads \ {p} :
            ~(\/ At(q) \in Disposing
              \/ At(q) = "handing" /\ task[thread[q].task].kind = "dispose")
      BY <1>1 DEF FinalInv, LockedOK
    <3> QED BY <1>1, <2>2, <3>1, Members DEF LockedOK, Disposing, Holding
  <2>5. RestrictedOK' /\ ClosedOK' /\ SwappedOK'
    BY <1>1, <2>2, Members
       DEF FinalInv, RestrictedOK, ClosedOK, SwappedOK, Holding
  <2>6. SignalledOK' /\ RunningOK'
    BY <1>1, <2>2, Members DEF FinalInv, SignalledOK, RunningOK
  <2>7. \A u : Open(u)' <=> Open(u)
    BY <1>1 DEF Open
  <2>8. OpenOK'
    <3>1. \A q \in All : At(q)' = "releasing" =>
            At(q) = "releasing" /\ thread'[q] = thread[q]
      BY <2>2 DEF At
    <3> QED BY <1>1, <2>3, <2>7, <3>1 DEF FinalInv, OpenOK
  <2>9. TimersOK'
    BY <1>1, <2>3, <2>7, Members DEF FinalInv, TimersOK
  <2>10. DisposeIsFinal'
    BY <1>1, <1>2, AllOver DEF DisposeIsFinal, Over
  <2> QED BY <2>4, <2>5, <2>6, <2>8, <2>9, <2>10 DEF FinalInv
<1>3. CASE thread[p].left # {}
  <2>1. PICK t \in thread[p].left :
          thread' = [thread EXCEPT ![p].at = "cancelling", ![p].task = t,
                                   ![p].left = @ \ {t}]
    BY <1>3 DEF Clear
  <2>2. firestore' = firestore /\ returned' = returned
    BY <1>3 DEF Clear
  <2>3. /\ \A q \in All \ {p} : thread'[q] = thread[q] /\ At(q)' = At(q)
        /\ thread'[p].at = "cancelling" /\ At(p)' = "cancelling"
        /\ thread'[p].task = t /\ thread'[p].left = thread[p].left \ {t}
    BY <1>1, <2>1 DEF IInv, StateOK, At
  <2>4. SameTasks
    <3>1. \A q \in All : \A u : Holds(thread', q, u) <=> Holds(thread, q, u)
      BY <1>1, <2>1, <2>3 DEF Holds, Holding, At
    <3> QED BY <1>1, <3>1 DEF SameTasks
  <2>5. SignalledOK' /\ RunningOK' /\ OpenOK' /\ TimersOK' /\ DisposeIsFinal'
    BY <1>1, <2>2, <2>3, <2>4, SameTasksKeep
  <2>6. LockedOK'
    <3>1. At(p)' # "handing"
      BY <2>3
    <3> QED BY <1>1, <2>2, <2>3, <3>1, LockKept
  <2>7. RestrictedOK' /\ ClosedOK' /\ SwappedOK'
    BY <1>1, <2>3, Members
       DEF FinalInv, RestrictedOK, ClosedOK, SwappedOK, Holding
  <2> QED BY <2>5, <2>6, <2>7 DEF FinalInv
<1> QED BY <1>2, <1>3

-----------------------------------------------------------------------------
(* The queue's thread runs its tasks *)

\* What the parts about shutting down need of the queue's thread
LEMMA QueueFinal ==
  ASSUME IInv, FinalInv, tasks' \subseteq tasks,
         \A q \in All \ {Queue} : thread'[q] = thread[q],
         \A u \in 1..created : task'[u].kind = task[u].kind,
         terminated' = terminated \/ mode # "running",
         signalled \subseteq signalled',
         UNCHANGED <<mode, firestore, disposed, created>>
  PROVE  LockedOK' /\ RestrictedOK' /\ ClosedOK' /\ SwappedOK'
<1>1. \A q \in Threads : At(q)' = At(q)
  BY Members DEF At
<1>2. LockedOK'
  BY Members, LockKept
<1>3. RestrictedOK'
  BY <1>1 DEF FinalInv, RestrictedOK
<1>4. ClosedOK' /\ SwappedOK'
  BY <1>1 DEF FinalInv, ClosedOK, SwappedOK
<1> QED BY <1>2, <1>3, <1>4

LEMMA SignalFinal ==
  ASSUME IInv, FinalInv, Signal
  PROVE  FinalInv'
<1>1. /\ At(Queue) = "operating" /\ task[executing].kind = "dispose"
      /\ signalled' = signalled \cup {executing}
      /\ UNCHANGED <<mode, firestore, tasks, disposed, task, created, executing,
                     thread, terminated, returned>>
  BY DEF Signal, Kind
<1>2. executing \in 1..created /\ task[executing].state = "running"
  BY <1>1, Executing DEF FinalInv, RunningOK
<1>3. LockedOK' /\ RestrictedOK' /\ ClosedOK' /\ SwappedOK'
  BY <1>1, QueueFinal
<1>4. SignalledOK'
  BY <1>1, <1>2 DEF FinalInv, SignalledOK
<1>5. RunningOK' /\ OpenOK' /\ TimersOK' /\ DisposeIsFinal'
  BY <1>1 DEF FinalInv, RunningOK, OpenOK, TimersOK, DisposeIsFinal, Open, At
<1> QED BY <1>3, <1>4, <1>5 DEF FinalInv

LEMMA TimerElapsesFinal ==
  ASSUME IInv, FinalInv, TimerElapses
  PROVE  FinalInv'
<1>1. UNCHANGED <<mode, firestore, tasks, disposed, task, created, executing,
                  thread, signalled, terminated, returned>>
  BY DEF TimerElapses
<1> QED BY <1>1 DEF FinalInv, LockedOK, RestrictedOK, ClosedOK, SwappedOK,
      SignalledOK, RunningOK, OpenOK, TimersOK, DisposeIsFinal, Open, At

LEMMA CancelTimerFinal ==
  ASSUME IInv, FinalInv, CancelTimer
  PROVE  FinalInv'
<1>1. PICK t \in tasks : /\ task[t].kind = "timer" /\ tasks' = tasks \ {t}
                         /\ GoesTo(Queue, "cancelling", t)
  BY DEF CancelTimer
<1>2. /\ At(Queue) = "operating"
      /\ UNCHANGED <<mode, firestore, disposed, task, created, executing,
                     signalled, terminated, returned>>
  BY DEF CancelTimer, TasksOnly
<1>3. thread[Queue].left = {} /\ Queue \in All
  BY <1>2, HasNothing, Members DEF Holding
<1>4. /\ \A q \in All \ {Queue} : thread'[q] = thread[q] /\ At(q)' = At(q)
      /\ thread'[Queue].at = "cancelling" /\ At(Queue)' = "cancelling"
      /\ thread'[Queue].task = t
  BY <1>1, <1>3 DEF IInv, StateOK, GoesTo, At
<1>5. /\ \A q \in Threads : \A u : Holds(thread', q, u) <=> Holds(thread, q, u)
      /\ Holds(thread', Queue, t) /\ \A u : ~Holds(thread, Queue, u)
  BY <1>2, <1>3, <1>4, Members DEF Holds, Holding, At
<1>6. \A u : InTable(tasks, thread, u) => InTable(tasks', thread', u)
  BY <1>1, <1>5, Members DEF InTable
<1>7. LockedOK' /\ RestrictedOK' /\ ClosedOK' /\ SwappedOK'
  BY <1>1, <1>2, <1>4, QueueFinal
<1>8. SignalledOK' /\ DisposeIsFinal'
  BY <1>1, <1>2 DEF FinalInv, SignalledOK, DisposeIsFinal
<1>9. RunningOK'
  BY <1>1, <1>2, <1>4 DEF FinalInv, RunningOK, Holding
<1>10. \A u : Open(u)' <=> Open(u)
  BY <1>2 DEF Open
<1>11. OpenOK'
  <2>1. \A q \in All : At(q)' = "releasing" =>
          At(q) = "releasing" /\ thread'[q] = thread[q]
    BY <1>4 DEF At
  <2> QED BY <1>2, <1>6, <1>10, <2>1 DEF FinalInv, OpenOK
<1>12. TimersOK'
  BY <1>2, <1>5, <1>10 DEF FinalInv, TimersOK
<1> QED BY <1>7, <1>8, <1>9, <1>11, <1>12 DEF FinalInv

LEMMA ExecuteFinal ==
  ASSUME IInv, FinalInv, Execute
  PROVE  FinalInv'
<1> DEFINE h == Head(queue)
<1>1. /\ At(Queue) = "free" /\ queue # <<>> /\ executing' = h
      /\ UNCHANGED <<mode, firestore, tasks, disposed, created, signalled,
                     terminated, returned>>
  BY DEF Execute
<1>2. h \in 1..created /\ h \in Tasks /\ h # 0 /\ 1..created \subseteq Tasks
  <2>1. h = queue[1] /\ 1 \in DOMAIN queue
    BY <1>1 DEF IInv, StateOK
  <2>2. h \in 0..created /\ h # 0
    BY <2>1 DEF IInv, LibOK, InLib
  <2> HIDE DEF h
  <2> QED BY <2>2, TasksAssumption DEF IInv, StateOK, Tasks
<1>3. executing = 0 /\ executing \notin 1..created
  BY <1>1 DEF IInv, PlacesOK, At
<1> HIDE DEF h
<1>4. PICK at \in {"operating", "finishing"} :
        /\ Goes(Queue, at)
        /\ at = "operating" => task[h].state = "initial"
                                 /\ task' = [task EXCEPT ![h].state = "running"]
        /\ at = "finishing" => task[h].state # "initial" /\ task' = task
  BY DEF Execute, h
<1>5. /\ \A q \in All \ {Queue} : thread'[q] = thread[q] /\ At(q)' = At(q)
      /\ thread'[Queue].at = at /\ At(Queue)' = at
      /\ thread'[Queue].task = thread[Queue].task
      /\ thread'[Queue].left = thread[Queue].left
  BY <1>4, Going, Members
<1>6. /\ \A u \in 1..created : task'[u].kind = task[u].kind
      /\ \A u \in 1..created : u # h => task'[u].state = task[u].state
      /\ at = "operating" => task[h].state = "initial" /\ task'[h].state = "running"
      /\ at = "finishing" => task[h].state \in Over /\ task'[h].state = task[h].state
  <2>1. task[h] \in Records
    BY <1>2 DEF IInv, StateOK
  <2>2. CASE at = "operating"
    <3>1. task' = [task EXCEPT ![h].state = "running"] /\ task[h].state = "initial"
      BY <1>4, <2>2
    <3> QED BY <1>2, <2>1, <2>2, <3>1 DEF IInv, StateOK, Records
  <2>3. CASE at = "finishing"
    <3>1. task' = task /\ task[h].state # "initial"
      BY <1>4, <2>3
    <3>2. task[h].state \in Over
      BY <1>2, <1>3, <2>1, <3>1 DEF FinalInv, RunningOK, Records, Over
    <3> QED BY <2>3, <3>1, <3>2
  <2> QED BY <2>2, <2>3
<1>7. \A q \in All : \A u : Holds(thread', q, u) <=> Holds(thread, q, u)
  BY <1>1, <1>5, <1>4 DEF Holds, Holding, At
<1>8. \A u : InTable(tasks', thread', u) <=> InTable(tasks, thread, u)
  BY <1>1, <1>7 DEF InTable
<1>9. LockedOK' /\ RestrictedOK' /\ ClosedOK' /\ SwappedOK'
  BY <1>1, <1>5, <1>6, QueueFinal
<1>10. SignalledOK'
  BY <1>1, <1>4, <1>6 DEF FinalInv, SignalledOK
<1>11. RunningOK'
  BY <1>1, <1>2, <1>3, <1>4, <1>5, <1>6 DEF FinalInv, RunningOK, Holding, Over
<1>12. \A u : Open(u)' <=> Open(u)
  BY <1>1, <1>2, <1>4, <1>6 DEF Open, Over
<1>13. OpenOK'
  <2>1. \A u : Open(u) => InTable(tasks, thread, u)
    BY <1>3 DEF FinalInv, OpenOK, Open
  <2>2. ASSUME NEW q \in All, At(q)' = "releasing"
        PROVE  task'[thread'[q].task].state \in Over
    <3>1. q # Queue /\ At(q) = "releasing" /\ thread'[q] = thread[q]
          /\ thread[q].task \in 1..created
      BY <1>4, <1>5, <2>2, InHand DEF Holding
    <3> QED BY <1>4, <1>6, <3>1 DEF FinalInv, OpenOK, Over
  <2> QED BY <1>8, <1>12, <2>1, <2>2 DEF OpenOK
<1>14. TimersOK'
  BY <1>1, <1>6, <1>7, <1>12, Members DEF FinalInv, TimersOK, Open
<1>15. DisposeIsFinal'
  BY <1>1, <1>4, <1>6 DEF FinalInv, DisposeIsFinal, Over
<1> QED BY <1>9, <1>10, <1>11, <1>13, <1>14, <1>15 DEF FinalInv

LEMMA EndFinal ==
  ASSUME IInv, FinalInv, End
  PROVE  FinalInv'
<1> DEFINE t == executing
           done == [task[t] EXCEPT !.state = "done"]
<1>1. /\ At(Queue) = "operating" /\ Goes(Queue, "finishing") /\ MayEnd
      /\ UNCHANGED <<mode, firestore, disposed, created, executing, signalled,
                     returned>>
      /\ terminated' = IF task[t].kind \in {"terminate", "dispose"} THEN "yes"
                       ELSE terminated
  BY DEF End, Kind
<1>2. /\ t \in 1..created /\ t \in Tasks /\ task[t] \in Records
      /\ 1..created \subseteq Tasks /\ task[t].state = "running"
  BY <1>1, Executing DEF FinalInv, RunningOK
<1>3. /\ \A q \in All \ {Queue} : thread'[q] = thread[q] /\ At(q)' = At(q)
      /\ thread'[Queue].at = "finishing" /\ At(Queue)' = "finishing"
      /\ thread'[Queue].left = {} /\ thread[Queue].left = {}
  BY <1>1, Going, HasNothing, Members DEF Holding
<1>4. PICK r : /\ task' = [task EXCEPT ![t] = r] /\ r.kind = task[t].kind
               /\ r.state \in {"done", "freed"}
               /\ tasks' \subseteq tasks /\ tasks \ tasks' \subseteq {t}
  <2>1. /\ done.kind = task[t].kind /\ done.state = "done"
        /\ Released(done).kind = done.kind
        /\ Released(done).state \in {"done", "freed"}
    <3>1. done \in Records /\ done.kind = task[t].kind /\ done.state = "done"
      BY <1>2 DEF Records
    <3> HIDE DEF done
    <3>2. Released(done).kind = done.kind
      BY <3>1 DEF Released, Records
    <3>3. Released(done).state \in {"done", "freed"}
      BY <3>1 DEF Released, Records
    <3> QED BY <3>1, <3>2, <3>3
  <2>2. CASE done.executor = "set" /\ t \in tasks
    <3>1. task' = [task EXCEPT ![t] = Released(done)] /\ tasks' = tasks \ {t}
      BY <2>2 DEF End, done
    <3> HIDE DEF done
    <3> QED BY <2>1, <3>1
  <2>3. CASE ~(done.executor = "set" /\ t \in tasks)
    <3>1. task' = [task EXCEPT ![t] = done] /\ tasks' = tasks
      BY <2>3 DEF End, done
    <3> HIDE DEF done
    <3> QED BY <2>1, <3>1
  <2> QED BY <2>2, <2>3
<1>5. /\ \A u \in 1..created : task'[u].kind = task[u].kind
      /\ \A u \in 1..created : u # t => task'[u] = task[u]
      /\ task'[t].state \in {"done", "freed"}
  <2> HIDE DEF t
  <2> QED BY <1>2, <1>4 DEF IInv, StateOK
<1> HIDE DEF done
<1>6. \A q \in All : \A u : Holds(thread', q, u) <=> Holds(thread, q, u)
  BY <1>1, <1>3 DEF Holds, Holding, At
<1>7. \A u : ~Holds(thread, Queue, u)
  BY <1>1, <1>3 DEF Holds, Holding, At
<1>8. \A u : u # t /\ InTable(tasks, thread, u) => InTable(tasks', thread', u)
  BY <1>4, <1>6 DEF InTable
<1>9. LockedOK' /\ RestrictedOK' /\ ClosedOK' /\ SwappedOK'
  <2>1. terminated' = terminated \/ mode # "running"
    BY <1>1, <1>2 DEF FinalInv, RestrictedOK
  <2> QED BY <1>1, <1>3, <1>4, <1>5, <2>1, QueueFinal
<1>10. \A u \in 1..created : u # t => task[u].state # "running"
  BY DEF FinalInv, RunningOK
<1>11. SignalledOK'
  BY <1>1, <1>5, <1>10 DEF FinalInv, SignalledOK
<1>12. RunningOK'
  BY <1>1, <1>2, <1>3, <1>5, <1>10 DEF FinalInv, RunningOK, Holding, Over
<1>13. \A u : Open(u)' => Open(u) /\ u # t /\ task'[u] = task[u]
  BY <1>1, <1>5 DEF Open, Over
<1>14. \A u : Open(u) /\ u # t => InTable(tasks, thread, u)
  BY DEF FinalInv, OpenOK
<1>15. OpenOK'
  <2>1. ASSUME NEW q \in All, At(q)' = "releasing"
        PROVE  task'[thread'[q].task].state \in Over
    <3>1. q # Queue /\ At(q) = "releasing" /\ thread'[q] = thread[q]
          /\ thread[q].task \in 1..created
      BY <1>3, <2>1, InHand DEF Holding
    <3> QED BY <1>5, <3>1 DEF FinalInv, OpenOK, Over
  <2> QED BY <1>8, <1>13, <1>14, <2>1 DEF OpenOK
<1>16. TimersOK'
  <2> SUFFICES ASSUME terminated' = "yes", NEW u, Open(u)', task'[u].kind = "timer"
               PROVE  \E q \in Threads : Holds(thread', q, u)
    BY DEF TimersOK
  <2>1. Open(u) /\ u # t /\ task[u].kind = "timer"
    BY <1>13
  <2>2. CASE terminated = "yes"
    BY <1>6, <2>1, <2>2, Members DEF FinalInv, TimersOK
  <2>3. CASE task[t].kind \in {"terminate", "dispose"}
    <3>1. \A v \in tasks : task[v].kind # "timer"
      BY <1>1, <2>3 DEF MayEnd, Kind
    <3>2. PICK q \in All : Holds(thread, q, u)
      BY <1>14, <2>1, <3>1 DEF InTable
    <3> QED BY <1>6, <1>7, <3>2, Members
  <2> QED BY <1>1, <2>2, <2>3
<1>17. DisposeIsFinal'
  BY <1>1, <1>4, <1>5 DEF FinalInv, DisposeIsFinal
<1> QED BY <1>9, <1>11, <1>12, <1>15, <1>16, <1>17 DEF FinalInv

LEMMA FinishFinal ==
  ASSUME IInv, FinalInv, Finish
  PROVE  FinalInv'
<1> DEFINE t == executing
<1>1. /\ At(Queue) = "finishing" /\ executing' = 0 /\ Goes(Queue, "free")
      /\ task' = [task EXCEPT ![t] = Released(task[t])]
      /\ UNCHANGED <<mode, firestore, tasks, disposed, created, signalled,
                     terminated, returned>>
  BY DEF Finish, TasksOnly
<1>2. /\ t \in 1..created /\ t \in Tasks /\ task[t] \in Records
      /\ 1..created \subseteq Tasks /\ task[t].state \in Over
  BY <1>1, Executing DEF FinalInv, RunningOK
<1>3. /\ \A q \in All \ {Queue} : thread'[q] = thread[q] /\ At(q)' = At(q)
      /\ thread'[Queue].at = "free" /\ At(Queue)' = "free"
      /\ thread'[Queue].left = {} /\ thread[Queue].left = {}
  BY <1>1, Going, HasNothing, Members DEF Holding
<1>4. /\ Released(task[t]).kind = task[t].kind
      /\ Released(task[t]).state \in {task[t].state, "freed"}
  <2>1. Released(task[t]).kind = task[t].kind
    BY <1>2 DEF Released, Records
  <2>2. Released(task[t]).state \in {task[t].state, "freed"}
    BY <1>2 DEF Released, Records
  <2> QED BY <2>1, <2>2
<1>5. /\ \A u \in 1..created : task'[u].kind = task[u].kind
      /\ \A u \in 1..created : u # t => task'[u] = task[u]
      /\ task'[t].state \in {task[t].state, "freed"}
  <2>1. task'[t] = Released(task[t]) /\ \A u \in Tasks \ {t} : task'[u] = task[u]
    BY <1>1, <1>2 DEF IInv, StateOK
  <2> QED BY <1>2, <1>4, <2>1
<1> HIDE DEF t
<1>6. \A q \in All : \A u : Holds(thread', q, u) <=> Holds(thread, q, u)
  BY <1>1, <1>3 DEF Holds, Holding, At
<1>7. \A u : InTable(tasks', thread', u) <=> InTable(tasks, thread, u)
  BY <1>1, <1>6 DEF InTable
<1>8. LockedOK' /\ RestrictedOK' /\ ClosedOK' /\ SwappedOK'
  BY <1>1, <1>3, <1>5, QueueFinal
<1>9. SignalledOK'
  BY <1>1, <1>2, <1>5 DEF FinalInv, SignalledOK, Over
<1>10. RunningOK'
  <2>1. \A u \in 1..created : task[u].state # "running"
    BY <1>2 DEF FinalInv, RunningOK, Over, t
  <2> QED BY <1>1, <1>3, <1>5, <2>1 DEF FinalInv, RunningOK, Holding
<1>11. \A u : Open(u)' => Open(u) /\ u # t /\ task'[u] = task[u]
  BY <1>1, <1>2, <1>5 DEF Open, Over
<1>12. \A u : Open(u) /\ u # t => InTable(tasks, thread, u)
  BY DEF FinalInv, OpenOK, t
<1>13. OpenOK'
  <2>1. ASSUME NEW q \in All, At(q)' = "releasing"
        PROVE  task'[thread'[q].task].state \in Over
    <3>1. q # Queue /\ At(q) = "releasing" /\ thread'[q] = thread[q]
          /\ thread[q].task \in 1..created
      BY <1>3, <2>1, InHand DEF Holding
    <3> QED BY <1>5, <3>1 DEF FinalInv, OpenOK, Over
  <2> QED BY <1>7, <1>11, <1>12, <2>1 DEF OpenOK
<1>14. TimersOK'
  BY <1>1, <1>6, <1>11, Members DEF FinalInv, TimersOK
<1>15. DisposeIsFinal'
  BY <1>1, <1>5 DEF FinalInv, DisposeIsFinal
<1> QED BY <1>8, <1>9, <1>10, <1>13, <1>14, <1>15 DEF FinalInv

-----------------------------------------------------------------------------

LEMMA CallersFinal ==
  ASSUME IInv, FinalInv, NEW p \in Threads,
         Enqueue(p) \/ TerminateAsync(p) \/ Disposal(p)
  PROVE  FinalInv'
<1>1. p \in All /\ p # Queue
  BY Members
<1>2. CASE Enqueue(p)
  <2>1. PICK kind \in Requests : At(p) = "free" /\ Insert(p, kind)
    BY <1>2 DEF Enqueue
  <2>2. kind \in Kinds /\ kind \notin {"timer", "terminate", "dispose"}
    BY RequestsAssumption DEF Kinds
  <2>3. At(p) \notin Holding \cup {"clearing"}
    BY <2>1 DEF Holding
  <2> QED BY <1>1, <2>1, <2>2, <2>3, InsertFinal
<1>3. CASE TerminateAsync(p)
  <2>1. CASE At(p) = "terminating" /\ Insert(p, "terminate")
    <3>1. "terminate" \in Kinds /\ At(p) \notin Holding \cup {"clearing"}
      BY <2>1 DEF Holding, Kinds
    <3> QED BY <1>1, <2>1, <3>1, InsertFinal
  <2> QED BY <1>3, <2>1, RestrictFinal, RefusedFinal DEF TerminateAsync
<1>4. CASE Dispose(p)
  <2>1. CASE At(p) = "enqueueing" /\ Insert(p, "dispose")
    <3>1. "dispose" \in Kinds /\ At(p) \notin Holding \cup {"clearing"}
      BY <2>1 DEF Holding, Kinds
    <3> QED BY <1>1, <2>1, <3>1, InsertFinal
  <2>2. CASE At(p) \in {"disposing", "enqueueing"} /\ ~Insert(p, "dispose")
    BY <1>4, <2>2, RestrictFinal, RefusedFinal DEF Dispose
  <2>3. CASE At(p) = "free"
    BY <1>4, <2>3, StartFinal DEF Dispose
  <2> QED BY <1>4, <2>1, <2>2, <2>3, RestrictFinal DEF Dispose
<1> QED BY <1>2, <1>3, <1>4, ProceedFinal, CloseFinal, SwapFinal, ClearFinal
    DEF Disposal

LEMMA StepFinal == IInv /\ FinalInv /\ [Next]_vars => FinalInv'
<1> SUFFICES ASSUME IInv, FinalInv, [Next]_vars PROVE FinalInv'
  OBVIOUS
<1>1. ASSUME NEW p \in Threads, Enqueue(p) \/ TerminateAsync(p) \/ Disposal(p)
      PROVE  FinalInv'
  BY <1>1, CallersFinal
<1>2. ASSUME NEW p \in All, Step(p)
      PROVE  FinalInv'
  BY <1>2, HandOverFinal, CancelFinal, AwaitFinal, ReleaseFinal DEF Step
<1>3. CASE Schedule
  <2>1. /\ At(Queue) = "operating" /\ Insert(Queue, "timer") /\ "timer" \in Kinds
        /\ At(Queue) \notin Holding \cup {"clearing"} /\ Queue \in All
    BY <1>3, Members DEF Schedule, Kinds, Holding
  <2> QED BY <2>1, InsertFinal
<1>4. CASE TimerElapses \/ CancelTimer \/ Operation
  BY <1>4, TimerElapsesFinal, CancelTimerFinal, ExecuteFinal, SignalFinal,
     EndFinal, FinishFinal DEF Operation
<1>5. CASE UNCHANGED vars
  BY <1>5 DEF vars, FinalInv, LockedOK, RestrictedOK, ClosedOK, SwappedOK,
     SignalledOK, RunningOK, OpenOK, TimersOK, DisposeIsFinal, Open, At
<1> QED BY <1>1, <1>2, <1>3, <1>4, <1>5 DEF Next

\* When Dispose returns the client is terminated and no task is under way or
\* to come, whatever other threads call and whatever was queued, running or
\* delayed at the time (FirestoreClient::Dispose, AsyncQueue::Dispose and
\* ExecutorLibdispatch::Dispose).
THEOREM DisposeIsFinalHolds == Spec => []DisposeIsFinal
<1>1. FinalInv => DisposeIsFinal
  BY DEF FinalInv
<1> QED BY <1>1, InitFinal, StepFinal, InvariantHolds, PTL DEF Spec
=============================================================================
