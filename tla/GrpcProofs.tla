----------------------------- MODULE GrpcProofs -----------------------------
(***************************************************************************)
(* However the worker and the polling thread interleave, gRPC never works  *)
(* on a call that is gone, no callback finds its stream gone, and gRPC has *)
(* one read and one write at a time; for any number of messages, writes    *)
(* and completions.                                                        *)
(*                                                                         *)
(* An operation is live while gRPC has it or its callback is set.  The     *)
(* inductive invariant: what is live belongs to the stream that is alive   *)
(* (OwnedOK); no two live reads or writes (OneOK); the buffer waits for a  *)
(* live write (WriterOK); while the worker waits for the polling thread,   *)
(* every callback is cancelled (WaitOK).                                   *)
(***************************************************************************)
EXTENDS GrpcProperties, TLAPS

IsWaitedFor(o, id) == o[id].at # "free" /\ o[id].callback = "set"

IsLive(o, id) == o[id].at = "grpc" \/ IsWaitedFor(o, id)

OwnedOK(o, cs, s) ==
  \A id \in Ids : /\ IsLive(o, id) => s = "alive" /\ id \in cs
                  /\ o[id].at = "free" => o[id].callback = "none"

OneOK(o) ==
  \A id, other \in Ids :
    /\ IsLive(o, id) /\ IsLive(o, other)
    /\ o[id].type = o[other].type /\ o[id].type \in {"Read", "Write"}
    => id = other

WriterOK(o, a, b, f) ==
  /\ b > 0 => a = "yes"
  /\ a = "yes" /\ f = "no" =>
       \E id \in Ids : IsWaitedFor(o, id) /\ o[id].type = "Write"
  /\ \A id \in Ids : IsLive(o, id) /\ o[id].type = "Write" => a = "yes"

WaitOK(o, s, w, f) ==
  /\ w # "free" => s = "alive"
  /\ w \in {"failing", "shutting"} => f = "yes"
  /\ w \in {"failing", "shutting", "draining"} =>
       \A id \in Ids : ~IsWaitedFor(o, id)

IInv ==
  /\ TypeOK /\ FinishedOnce
  /\ OwnedOK(op, completions, stream)
  /\ OneOK(op)
  /\ WriterOK(op, active, buffered, finished)
  /\ WaitOK(op, stream, worker, finished)

-----------------------------------------------------------------------------
(* Issuing, removing and cancelling *)

Issue(o, id, type) == [o EXCEPT ![id] = Issued(type)]

\* A read or a write of a kind that nothing live has can be issued.
LEMMA IssueKeeps ==
  ASSUME NEW o \in [Ids -> Completions], NEW cs \in SUBSET Ids,
         NEW type \in {"Read", "Write"},
         NEW id \in Ids, o[id].at = "free",
         OwnedOK(o, cs, "alive"), OneOK(o),
         \A i \in Ids : IsLive(o, i) => o[i].type # type
  PROVE  /\ Issue(o, id, type) \in [Ids -> Completions]
         /\ cs \cup {id} \in SUBSET Ids
         /\ OwnedOK(Issue(o, id, type), cs \cup {id}, "alive")
         /\ OneOK(Issue(o, id, type))
         /\ IsWaitedFor(Issue(o, id, type), id)
         /\ Issue(o, id, type)[id].type = type
         /\ \A i \in Ids \ {id} : Issue(o, id, type)[i] = o[i]
<1> DEFINE p == Issue(o, id, type)
<1>1. p \in [Ids -> Completions] /\ p[id] = Issued(type)
  BY DEF Issue, Issued, Completions
<1>2. \A i \in Ids \ {id} : p[i] = o[i]
  BY DEF Issue
<1> HIDE DEF p
<1>3. p[id].at = "grpc" /\ p[id].callback = "set" /\ p[id].type = type
  BY <1>1 DEF Issued
<1>4. OwnedOK(p, cs \cup {id}, "alive")
  BY <1>2, <1>3 DEF OwnedOK, IsLive, IsWaitedFor
<1>5. OneOK(p)
  BY <1>2, <1>3 DEF OneOK, IsLive, IsWaitedFor
<1> QED
  BY <1>1, <1>2, <1>3, <1>4, <1>5 DEF p, IsWaitedFor

\* A completion that came back leaves the rest as it was.
LEMMA RemoveKeeps ==
  ASSUME NEW o \in [Ids -> Completions], NEW cs \in SUBSET Ids, NEW id \in Ids,
         OwnedOK(o, cs, "alive"), OneOK(o),
         NEW p, p = [o EXCEPT ![id] = Free]
  PROVE  /\ p \in [Ids -> Completions] /\ cs \ {id} \in SUBSET Ids
         /\ OwnedOK(p, cs \ {id}, "alive") /\ OneOK(p)
         /\ p[id] = Free /\ ~IsLive(p, id)
         /\ \A i \in Ids \ {id} : p[i] = o[i]
<1>1. p \in [Ids -> Completions] /\ p[id] = Free
  BY DEF Free, Completions
<1>2. \A i \in Ids \ {id} : p[i] = o[i]
  OBVIOUS
<1>3. ~IsLive(p, id)
  BY <1>1 DEF Free, IsLive, IsWaitedFor
<1>4. OwnedOK(p, cs \ {id}, "alive") /\ OneOK(p)
  BY <1>1, <1>2, <1>3 DEF OwnedOK, OneOK, IsLive, IsWaitedFor, Free
<1> QED
  BY <1>1, <1>2, <1>3, <1>4

\* Cancelling all of the stream's completions leaves no callback.
LEMMA CancelKeeps ==
  ASSUME NEW o \in [Ids -> Completions], NEW cs \in SUBSET Ids,
         OwnedOK(o, cs, "alive"), OneOK(o)
  PROVE  /\ CancelAll(o, cs) \in [Ids -> Completions]
         /\ OwnedOK(CancelAll(o, cs), cs, "alive") /\ OneOK(CancelAll(o, cs))
         /\ \A i \in Ids :
              /\ ~IsWaitedFor(CancelAll(o, cs), i)
              /\ IsLive(CancelAll(o, cs), i) => IsLive(o, i)
              /\ CancelAll(o, cs)[i].type = o[i].type
              /\ CancelAll(o, cs)[i].at = o[i].at
<1> DEFINE p == CancelAll(o, cs)
<1>1. p \in [Ids -> Completions]
  BY DEF CancelAll, Completions
<1>2. ASSUME NEW i \in Ids
      PROVE  /\ p[i].type = o[i].type /\ p[i].at = o[i].at
             /\ i \in cs => p[i].callback = "none"
             /\ i \notin cs => p[i] = o[i]
  BY DEF CancelAll, Completions
<1>3. \A i \in Ids : ~IsWaitedFor(p, i) /\ (IsLive(p, i) => IsLive(o, i))
  BY <1>2 DEF OwnedOK, IsLive, IsWaitedFor
<1>4. OwnedOK(p, cs, "alive") /\ OneOK(p)
  BY <1>2, <1>3 DEF OwnedOK, OneOK
<1> QED
  BY <1>1, <1>2, <1>3, <1>4

\* Shutdown, up to where it waits.
LEMMA ShutdownKeeps ==
  ASSUME NEW o \in [Ids -> Completions], NEW cs \in SUBSET Ids, NEW a, NEW b,
         TypeOK, FinishedOnce, stream = "alive", stream' = stream,
         OwnedOK(o, cs, "alive"), OneOK(o), WriterOK(o, a, b, finished),
         Shutdown(o, cs)
  PROVE  /\ op' \in [Ids -> Completions] /\ completions' \in SUBSET Ids
         /\ worker' \in {"shutting", "draining"}
         /\ call' \in {"open", "ended", "cancelled"} /\ finished' \in {"yes", "no"}
         /\ asserts' = "hold"
         /\ OwnedOK(op', completions', stream') /\ OneOK(op')
         /\ WriterOK(op', a, b, finished')
         /\ WaitOK(op', stream', worker', finished')
<1> DEFINE p == CancelAll(o, cs)
<1>1. op' = p /\ completions' = cs
  BY DEF Shutdown, FinishGrpcCall
<1>2. /\ p \in [Ids -> Completions]
      /\ OwnedOK(p, cs, "alive") /\ OneOK(p)
      /\ \A i \in Ids : /\ ~IsWaitedFor(p, i)
                        /\ IsLive(p, i) => IsLive(o, i)
                        /\ p[i].type = o[i].type /\ p[i].at = o[i].at
  BY CancelKeeps
<1>3. /\ worker' \in {"shutting", "draining"}
      /\ call' \in {"open", "ended", "cancelled"}
      /\ finished' \in {"yes", "no"} /\ asserts' = "hold"
      /\ worker' = "shutting" => finished' = "yes"
  BY DEF Shutdown, FinishGrpcCall, TypeOK, FinishedOnce
<1>4. finished' = "no" => cs = {} /\ finished = "no"
  BY DEF Shutdown, FinishGrpcCall, TypeOK
<1>5. finished' = "no" => ~(a = "yes")
  BY <1>4 DEF WriterOK, OwnedOK, IsLive
<1>6. WriterOK(p, a, b, finished')
  BY <1>2, <1>5 DEF WriterOK
<1>7. WaitOK(p, stream', worker', finished')
  BY <1>2, <1>3 DEF WaitOK
<1> QED
  BY <1>1, <1>2, <1>3, <1>6, <1>7

-----------------------------------------------------------------------------
(* The steps *)

LEMMA InitIInv == Init => IInv
<1> SUFFICES ASSUME Init PROVE IInv
  OBVIOUS
<1>1. PICK id \in Ids : /\ completions = {id}
                        /\ op = [i \in Ids |-> IF i = id THEN Issued("Read") ELSE Free]
  BY DEF Init
<1>2. /\ op \in [Ids -> Completions]
      /\ IsWaitedFor(op, id) /\ op[id].type = "Read" /\ op[id].at = "grpc"
      /\ \A i \in Ids \ {id} : ~IsLive(op, i) /\ op[i].callback = "none"
  BY <1>1 DEF Issued, Free, Completions, IsLive, IsWaitedFor
<1>3. OwnedOK(op, completions, "alive") /\ OneOK(op)
  BY <1>1, <1>2 DEF OwnedOK, OneOK
<1>4. WriterOK(op, "no", 0, "no")
  BY <1>2 DEF WriterOK
<1>5. WaitOK(op, stream, worker, finished)
  BY DEF Init, WaitOK
<1>6. queue \in Seq(Ids)
  BY DEF Init
<1>7. TypeOK /\ FinishedOnce
  BY <1>1, <1>2, <1>6 DEF Init, TypeOK, FinishedOnce
<1> QED
  BY <1>3, <1>4, <1>5, <1>7 DEF Init, IInv

\* With no write active, a write can be given to gRPC.
LEMMA WriteIsIssued ==
  ASSUME IInv, stream = "alive", stream' = stream, active = "no", active' = "yes",
         UNCHANGED <<finished, buffered>>,
         NEW id \in FreeIds,
         op' = [op EXCEPT ![id] = Issued("Write")],
         completions' = completions \cup {id}
  PROVE  /\ op' \in [Ids -> Completions] /\ completions' \in SUBSET Ids
         /\ OwnedOK(op', completions', stream') /\ OneOK(op')
         /\ WriterOK(op', active', buffered', finished')
<1>1. /\ op \in [Ids -> Completions] /\ completions \in SUBSET Ids
      /\ OwnedOK(op, completions, "alive") /\ OneOK(op)
      /\ id \in Ids /\ op[id].at = "free"
  BY DEF IInv, TypeOK, FreeIds
<1>2. \A i \in Ids : IsLive(op, i) => op[i].type # "Write"
  BY DEF IInv, WriterOK
<1>3. LET o == Issue(op, id, "Write")
      IN /\ o \in [Ids -> Completions] /\ completions \cup {id} \in SUBSET Ids
         /\ OwnedOK(o, completions \cup {id}, "alive") /\ OneOK(o)
         /\ IsWaitedFor(o, id) /\ o[id].type = "Write"
  BY <1>1, <1>2, IssueKeeps
<1>4. /\ op' \in [Ids -> Completions] /\ completions' \in SUBSET Ids
      /\ OwnedOK(op', completions', "alive") /\ OneOK(op')
      /\ IsWaitedFor(op', id) /\ op'[id].type = "Write"
  BY <1>3 DEF Issue
<1>5. WriterOK(op', active', buffered', finished')
  BY <1>1, <1>4 DEF WriterOK
<1> QED
  BY <1>4, <1>5

LEMMA WriteKeeps == IInv /\ Write => IInv'
<1> SUFFICES ASSUME IInv, Write PROVE IInv'
  OBVIOUS
<1>1. CASE active = "yes"
  BY <1>1 DEF IInv, Write, WorkerIsFree, TypeOK, FinishedOnce, WriterOK
<1>2. CASE active = "no"
  <2>1. /\ stream = "alive" /\ stream' = stream /\ active' = "yes"
        /\ UNCHANGED <<finished, buffered>>
    BY <1>2 DEF Write, WorkerIsFree
  <2>2. PICK id \in FreeIds : /\ op' = [op EXCEPT ![id] = Issued("Write")]
                              /\ completions' = completions \cup {id}
    BY <1>2 DEF Write
  <2>3. /\ op' \in [Ids -> Completions] /\ completions' \in SUBSET Ids
        /\ OwnedOK(op', completions', stream') /\ OneOK(op')
        /\ WriterOK(op', active', buffered', finished')
    BY <1>2, <2>1, <2>2, WriteIsIssued
  <2> QED
    BY <2>3 DEF IInv, Write, WorkerIsFree, TypeOK, FinishedOnce, WaitOK
<1> QED
  BY <1>1, <1>2 DEF IInv, TypeOK

\* What Shutdown leaves holds after any task that ends in it.
LEMMA AfterShutdown ==
  ASSUME NEW o \in [Ids -> Completions], NEW cs \in SUBSET Ids,
         TypeOK, FinishedOnce, stream = "alive", stream' = stream,
         OwnedOK(o, cs, "alive"), OneOK(o),
         WriterOK(o, active', buffered', finished),
         active' \in {"yes", "no"}, buffered' \in Nat,
         queue' \in Seq(Ids), messages' \in Nat, writes' \in Nat,
         Shutdown(o, cs)
  PROVE  IInv'
BY ShutdownKeeps DEF IInv, TypeOK, FinishedOnce

LEMMA FinishKeeps ==
  IInv /\ (FinishImmediately \/ LastWriteEnds) => IInv'
<1> SUFFICES ASSUME IInv, FinishImmediately \/ LastWriteEnds PROVE IInv'
  OBVIOUS
<1>1. stream = "alive" /\ Shutdown(op, completions)
      /\ UNCHANGED <<stream, active, buffered, queue, messages, writes>>
  BY DEF FinishImmediately, LastWriteEnds, WorkerIsFree, IInv, WaitOK
<1> QED
  BY <1>1, AfterShutdown DEF IInv, TypeOK

LEMMA WriteAndFinishKeeps == IInv /\ WriteAndFinish => IInv'
<1> SUFFICES ASSUME IInv, WriteAndFinish PROVE IInv'
  OBVIOUS
<1>0. stream = "alive" /\ UNCHANGED <<stream, queue, messages, writes>>
  BY DEF WriteAndFinish, WorkerIsFree
<1>1. CASE finished = "no" /\ active = "no"
  <2>1. PICK id \in FreeIds : /\ op' = [op EXCEPT ![id] = Issued("Write")]
                              /\ completions' = completions \cup {id}
    BY <1>1 DEF WriteAndFinish
  <2>2. /\ active' = "yes" /\ worker' = "lastWrite"
        /\ UNCHANGED <<finished, buffered, call, asserts>>
    BY <1>1 DEF WriteAndFinish
  <2>3. /\ op' \in [Ids -> Completions] /\ completions' \in SUBSET Ids
        /\ OwnedOK(op', completions', stream') /\ OneOK(op')
        /\ WriterOK(op', active', buffered', finished')
    BY <1>0, <1>1, <2>1, <2>2, WriteIsIssued
  <2> QED
    BY <1>0, <2>2, <2>3 DEF IInv, TypeOK, FinishedOnce, WaitOK
<1>2. CASE ~(finished = "no" /\ active = "no")
  <2>1. /\ buffered' = IF finished = "no" THEN buffered + 1 ELSE buffered
        /\ Shutdown(op, completions) /\ active' = active
    BY <1>2 DEF WriteAndFinish
  <2>2. /\ active' \in {"yes", "no"} /\ buffered' \in Nat
        /\ queue' \in Seq(Ids) /\ messages' \in Nat /\ writes' \in Nat
        /\ op \in [Ids -> Completions] /\ completions \in SUBSET Ids
    BY <1>0, <2>1 DEF IInv, TypeOK
  <2>3. WriterOK(op, active', buffered', finished)
    BY <1>2, <2>1 DEF IInv, WriterOK, TypeOK
  <2>4. /\ TypeOK /\ FinishedOnce
        /\ OwnedOK(op, completions, "alive") /\ OneOK(op)
    BY <1>0 DEF IInv
  <2> QED
    BY <1>0, <2>1, <2>2, <2>3, <2>4, AfterShutdown
<1> QED
  BY <1>1, <1>2

LEMMA CallIsFinishedKeeps == IInv /\ CallIsFinished => IInv'
<1> SUFFICES ASSUME IInv, CallIsFinished PROVE IInv'
  OBVIOUS
<1> USE DEF IInv, CallIsFinished
<1>1. PICK id \in FreeIds :
        /\ completions' = {id}
        /\ op' = [op EXCEPT ![id] =
                     [Issued("Finish") EXCEPT !.callback =
                        IF worker = "failing" THEN "set" ELSE "none"]]
  OBVIOUS
<1>2. /\ op' \in [Ids -> Completions]
      /\ op'[id].type = "Finish" /\ op'[id].at = "grpc"
      /\ worker # "failing" => ~IsWaitedFor(op', id)
  BY <1>1 DEF TypeOK, Completions, Issued, FreeIds, IsWaitedFor
<1>3. \A i \in Ids \ {id} : op'[i] = op[i]
  BY <1>1 DEF TypeOK
<1>4. \A i \in Ids : ~IsLive(op, i)
  BY DEF WaitOK, OwnedOK, IsLive, Drained
<1>5. \A i \in Ids \ {id} : ~IsLive(op', i)
  BY <1>3, <1>4 DEF IsLive, IsWaitedFor
<1>6. OwnedOK(op', completions', stream') /\ OneOK(op')
  BY <1>1, <1>2, <1>3, <1>5 DEF OwnedOK, OneOK, WaitOK
<1>7. WriterOK(op', active', buffered', finished')
  BY <1>2, <1>5 DEF WriterOK, WaitOK
<1>8. WaitOK(op', stream', worker', finished')
  BY <1>2, <1>5 DEF WaitOK, IsLive
<1> QED
  BY <1>1, <1>2, <1>6, <1>7, <1>8 DEF TypeOK, FinishedOnce, FreeIds

LEMMA ReleaseKeeps == IInv /\ StreamIsReleased => IInv'
<1> SUFFICES ASSUME IInv, StreamIsReleased PROVE IInv'
  OBVIOUS
<1> USE DEF IInv, StreamIsReleased
<1>1. \A i \in Ids : ~IsLive(op, i)
  BY DEF WaitOK, OwnedOK, IsLive, Drained
<1> QED
  BY <1>1 DEF TypeOK, FinishedOnce, OwnedOK, WaitOK

-----------------------------------------------------------------------------
(* The callbacks *)

LEMMA CancelledKeeps ==
  ASSUME NEW id \in Ids, IInv, RunCancelled(id)
  PROVE  IInv'
<1> USE DEF IInv, RunCancelled, Runs, Without
<1>1. op' \in [Ids -> Completions] /\ queue' \in Seq(Ids)
  BY DEF TypeOK, Completions, Free
<1>2. /\ ~IsWaitedFor(op, id) /\ ~IsLive(op', id)
      /\ \A i \in Ids \ {id} : op'[i] = op[i]
  BY DEF TypeOK, Free, IsLive, IsWaitedFor
<1>3. \A i \in Ids : /\ IsLive(op', i) => IsLive(op, i) /\ op'[i] = op[i]
                     /\ IsWaitedFor(op, i) => IsWaitedFor(op', i) /\ op'[i] = op[i]
                     /\ IsWaitedFor(op', i) => IsWaitedFor(op, i)
  BY <1>2 DEF IsLive, IsWaitedFor
<1>4. OwnedOK(op', completions', stream') /\ OneOK(op')
  BY <1>2, <1>3 DEF OwnedOK, OneOK, TypeOK, Free
<1>5. WriterOK(op', active', buffered', finished')
  BY <1>3 DEF WriterOK
<1>6. WaitOK(op', stream', worker', finished')
  BY <1>3 DEF WaitOK
<1> QED
  BY <1>1, <1>4, <1>5, <1>6 DEF TypeOK, FinishedOnce

\* A callback that is not cancelled finds its stream, and removes itself.
LEMMA CallbackRuns ==
  ASSUME NEW id \in Ids, NEW type, NEW ok, IInv, Runs(id), IsSet(id, type, ok)
  PROVE  /\ stream = "alive" /\ worker = "free" /\ queue' \in Seq(Ids)
         /\ messages' \in Nat /\ writes' \in Nat
         /\ IsLive(op, id) /\ op[id].type = type
         /\ Without(id) \in [Ids -> Completions] /\ completions \ {id} \in SUBSET Ids
         /\ OwnedOK(Without(id), completions \ {id}, "alive") /\ OneOK(Without(id))
         /\ ~IsLive(Without(id), id)
         /\ \A i \in Ids \ {id} : Without(id)[i] = op[i]
<1>1. queue' \in Seq(Ids) /\ messages' \in Nat /\ writes' \in Nat /\ worker = "free"
  BY DEF Runs, IInv, TypeOK
<1>2. IsLive(op, id) /\ stream = "alive" /\ op[id].type = type
  BY DEF IInv, IsSet, OwnedOK, IsLive, IsWaitedFor
<1>3. /\ op \in [Ids -> Completions] /\ completions \in SUBSET Ids
      /\ OwnedOK(op, completions, "alive") /\ OneOK(op)
  BY <1>2 DEF IInv, TypeOK
<1>4. Without(id) = [op EXCEPT ![id] = Free]
  BY DEF Without
<1>5. /\ Without(id) \in [Ids -> Completions] /\ completions \ {id} \in SUBSET Ids
      /\ OwnedOK(Without(id), completions \ {id}, "alive") /\ OneOK(Without(id))
      /\ ~IsLive(Without(id), id)
      /\ \A i \in Ids \ {id} : Without(id)[i] = op[i]
  BY <1>3, <1>4, RemoveKeeps
<1> QED
  BY <1>1, <1>2, <1>5

LEMMA OnReadKeeps ==
  ASSUME NEW id \in Ids, IInv, OnRead(id)
  PROVE  IInv'
<1>1. PICK next \in FreeIds :
        LET o == [Without(id) EXCEPT ![next] = Issued("Read")]
            cs == (completions \ {id}) \cup {next}
        IN \/ /\ op' = o /\ completions' = cs
              /\ UNCHANGED <<worker, finished, call, asserts>>
           \/ Shutdown(o, cs)
  BY DEF OnRead
<1> DEFINE o == Issue(Without(id), next, "Read")
           cs == (completions \ {id}) \cup {next}
<1>2. /\ Runs(id) /\ IsSet(id, "Read", "yes")
      /\ UNCHANGED <<stream, active, buffered>>
  BY DEF OnRead
<1>3. /\ stream = "alive" /\ worker = "free" /\ queue' \in Seq(Ids)
      /\ messages' \in Nat /\ writes' \in Nat
      /\ IsLive(op, id) /\ op[id].type = "Read"
      /\ Without(id) \in [Ids -> Completions] /\ completions \ {id} \in SUBSET Ids
      /\ OwnedOK(Without(id), completions \ {id}, "alive") /\ OneOK(Without(id))
      /\ ~IsLive(Without(id), id)
      /\ \A i \in Ids \ {id} : Without(id)[i] = op[i]
  BY <1>2, CallbackRuns
<1>4. next \in Ids /\ op[next].at = "free" /\ next # id
  BY <1>2, <1>3 DEF FreeIds, IsSet, OwnedOK, IInv
<1>5. Without(id)[next].at = "free"
  BY <1>3, <1>4
<1>6. \A i \in Ids : IsLive(Without(id), i) => Without(id)[i].type # "Read"
  <2> SUFFICES ASSUME NEW i \in Ids, IsLive(Without(id), i) PROVE op[i].type # "Read"
    BY <1>3
  <2>1. i # id /\ IsLive(op, i)
    BY <1>3 DEF IsLive, IsWaitedFor
  <2> QED
    BY <1>3, <2>1 DEF IInv, OneOK
<1>7. /\ o \in [Ids -> Completions] /\ cs \in SUBSET Ids
      /\ OwnedOK(o, cs, "alive") /\ OneOK(o)
      /\ o[next].type = "Read"
      /\ \A i \in Ids \ {next} : o[i] = Without(id)[i]
  BY <1>3, <1>4, <1>5, <1>6, IssueKeeps
<1>8. WriterOK(o, active, buffered, finished)
  <2>1. \A i \in Ids : o[i].type = "Write" => i # id \/ ~IsLive(o, i)
    BY <1>3, <1>4, <1>7 DEF IsLive, IsWaitedFor
  <2>2. \A i \in Ids : o[i].type = "Write" /\ IsLive(o, i) => IsLive(op, i) /\ op[i] = o[i]
    BY <1>3, <1>7, <2>1 DEF IsLive, IsWaitedFor
  <2>3. \A i \in Ids : IsWaitedFor(op, i) /\ op[i].type = "Write"
          => IsWaitedFor(o, i) /\ o[i].type = "Write"
    BY <1>3, <1>4, <1>7 DEF IsWaitedFor
  <2> HIDE DEF o
  <2> QED
    BY <2>2, <2>3 DEF IInv, WriterOK
<1>9. CASE /\ op' = o /\ completions' = cs
           /\ UNCHANGED <<worker, finished, call, asserts>>
  <2>1. WaitOK(op', stream', worker', finished')
    BY <1>3, <1>9 DEF WaitOK
  <2> HIDE DEF o, cs
  <2> QED
    BY <1>2, <1>3, <1>7, <1>8, <1>9, <2>1 DEF IInv, TypeOK, FinishedOnce
<1>10. CASE Shutdown(o, cs)
  <2>1. TypeOK /\ FinishedOnce /\ active' \in {"yes", "no"} /\ buffered' \in Nat
    BY <1>2 DEF IInv, TypeOK
  <2>2. WriterOK(o, active', buffered', finished)
    BY <1>2, <1>8
  <2> HIDE DEF o, cs
  <2> QED
    BY <1>2, <1>3, <1>7, <1>10, <2>1, <2>2, AfterShutdown
<1> QED
  BY <1>1, <1>9, <1>10 DEF Issue

LEMMA OnFinishKeeps ==
  ASSUME NEW id \in Ids, IInv, OnFinish(id)
  PROVE  IInv'
<1>1. /\ Runs(id) /\ IsSet(id, "Finish", "yes")
      /\ Shutdown(Without(id), completions \ {id})
      /\ UNCHANGED <<stream, active, buffered>>
  BY DEF OnFinish
<1>2. /\ stream = "alive" /\ worker = "free" /\ queue' \in Seq(Ids)
      /\ messages' \in Nat /\ writes' \in Nat
      /\ IsLive(op, id) /\ op[id].type = "Finish"
      /\ Without(id) \in [Ids -> Completions] /\ completions \ {id} \in SUBSET Ids
      /\ OwnedOK(Without(id), completions \ {id}, "alive") /\ OneOK(Without(id))
      /\ ~IsLive(Without(id), id)
      /\ \A i \in Ids \ {id} : Without(id)[i] = op[i]
  BY <1>1, CallbackRuns
<1>3. WriterOK(Without(id), active', buffered', finished)
  BY <1>1, <1>2 DEF IInv, WriterOK, IsLive, IsWaitedFor
<1>4. TypeOK /\ FinishedOnce /\ active' \in {"yes", "no"} /\ buffered' \in Nat
  BY <1>1 DEF IInv, TypeOK
<1> QED
  BY <1>1, <1>2, <1>3, <1>4, AfterShutdown

LEMMA OnWriteKeeps ==
  ASSUME NEW id \in Ids, IInv, OnWrite(id)
  PROVE  IInv'
<1>1. /\ Runs(id) /\ IsSet(id, "Write", "yes")
      /\ UNCHANGED <<stream, worker, finished, call, asserts>>
  BY DEF OnWrite
<1>2. /\ stream = "alive" /\ worker = "free" /\ queue' \in Seq(Ids)
      /\ messages' \in Nat /\ writes' \in Nat
      /\ IsLive(op, id) /\ op[id].type = "Write"
      /\ Without(id) \in [Ids -> Completions] /\ completions \ {id} \in SUBSET Ids
      /\ OwnedOK(Without(id), completions \ {id}, "alive") /\ OneOK(Without(id))
      /\ ~IsLive(Without(id), id)
      /\ \A i \in Ids \ {id} : Without(id)[i] = op[i]
  BY <1>1, CallbackRuns
<1>3. \A i \in Ids : IsLive(Without(id), i) => Without(id)[i].type # "Write"
  <2> SUFFICES ASSUME NEW i \in Ids, IsLive(Without(id), i) PROVE op[i].type # "Write"
    BY <1>2
  <2>1. i # id /\ IsLive(op, i)
    BY <1>2 DEF IsLive, IsWaitedFor
  <2> QED
    BY <1>2, <2>1 DEF IInv, OneOK
<1>4. WaitOK(op', stream', worker', finished')
  BY <1>1, <1>2 DEF WaitOK
<1>5. active = "yes"
  BY <1>2 DEF IInv, WriterOK
<1>6. CASE buffered = 0
  <2>1. /\ active' = "no" /\ op' = Without(id) /\ completions' = completions \ {id}
        /\ buffered' = buffered
    BY <1>6 DEF OnWrite
  <2>2. WriterOK(op', active', buffered', finished')
    BY <1>3, <1>6, <2>1 DEF WriterOK
  <2> QED
    BY <1>1, <1>2, <1>4, <2>1, <2>2 DEF IInv, TypeOK, FinishedOnce
<1>7. CASE buffered # 0
  <2>1. PICK next \in FreeIds :
          /\ op' = Issue(Without(id), next, "Write")
          /\ completions' = (completions \ {id}) \cup {next}
    BY <1>7 DEF OnWrite, Issue
  <2>2. buffered' = buffered - 1 /\ active' = active
    BY <1>7 DEF OnWrite
  <2>3. next \in Ids /\ op[next].at = "free" /\ next # id
    BY <1>1, <1>2 DEF FreeIds, IsSet, OwnedOK, IInv
  <2>4. Without(id)[next].at = "free"
    BY <1>2, <2>3
  <2>5. /\ op' \in [Ids -> Completions] /\ completions' \in SUBSET Ids
        /\ OwnedOK(op', completions', "alive") /\ OneOK(op')
        /\ IsWaitedFor(op', next) /\ op'[next].type = "Write"
    BY <1>2, <1>3, <2>1, <2>3, <2>4, IssueKeeps
  <2>6. WriterOK(op', active', buffered', finished')
    BY <1>5, <2>2, <2>3, <2>5 DEF WriterOK
  <2>7. buffered' \in Nat
    BY <1>7, <2>2 DEF IInv, TypeOK
  <2> QED
    BY <1>1, <1>2, <1>4, <2>2, <2>5, <2>6, <2>7 DEF IInv, TypeOK, FinishedOnce
<1> QED
  BY <1>6, <1>7

\* The first failure finishes the call, which cancels the rest.
LEMMA OnOperationFailedKeeps ==
  ASSUME NEW id \in Ids, IInv, OnOperationFailed(id)
  PROVE  IInv'
<1>1. PICK type \in {"Read", "Write"} : IsSet(id, type, "no")
  BY DEF OnOperationFailed
<1>2. Runs(id) /\ UNCHANGED <<stream, active, buffered, call>>
  BY DEF OnOperationFailed
<1>3. /\ stream = "alive" /\ worker = "free" /\ queue' \in Seq(Ids)
      /\ messages' \in Nat /\ writes' \in Nat
      /\ Without(id) \in [Ids -> Completions] /\ completions \ {id} \in SUBSET Ids
      /\ OwnedOK(Without(id), completions \ {id}, "alive") /\ OneOK(Without(id))
      /\ ~IsLive(Without(id), id)
      /\ \A i \in Ids \ {id} : Without(id)[i] = op[i]
  BY <1>1, <1>2, CallbackRuns
<1>4. \A i \in Ids : IsLive(Without(id), i) => IsLive(op, i) /\ Without(id)[i] = op[i]
  BY <1>3 DEF IsLive, IsWaitedFor
<1>5. CASE finished = "yes"
  <2>1. /\ op' = Without(id) /\ completions' = completions \ {id}
        /\ UNCHANGED <<worker, finished, asserts>>
    BY <1>5 DEF OnOperationFailed
  <2>2. WriterOK(op', active', buffered', finished')
    BY <1>2, <1>4, <1>5, <2>1 DEF IInv, WriterOK
  <2>3. WaitOK(op', stream', worker', finished')
    BY <1>3, <2>1 DEF WaitOK
  <2> QED
    BY <1>2, <1>3, <2>1, <2>2, <2>3 DEF IInv, TypeOK, FinishedOnce
<1>6. CASE finished = "no"
  <2> DEFINE p == CancelAll(Without(id), completions \ {id})
  <2>1. /\ op' = p /\ completions' = completions \ {id} /\ worker' = "failing"
        /\ finished' = "yes" /\ asserts' = asserts
    BY <1>6 DEF OnOperationFailed, FinishGrpcCall
  <2>2. /\ p \in [Ids -> Completions]
        /\ OwnedOK(p, completions \ {id}, "alive") /\ OneOK(p)
        /\ \A i \in Ids : /\ ~IsWaitedFor(p, i)
                          /\ IsLive(p, i) => IsLive(Without(id), i)
                          /\ p[i].type = Without(id)[i].type
                          /\ p[i].at = Without(id)[i].at
    BY <1>3, CancelKeeps
  <2>3. WriterOK(p, active', buffered', finished')
    BY <1>2, <1>4, <2>1, <2>2 DEF IInv, WriterOK
  <2>4. WaitOK(p, stream', worker', finished')
    BY <1>2, <1>3, <2>1, <2>2 DEF WaitOK
  <2> HIDE DEF p
  <2> QED
    BY <1>2, <1>3, <2>1, <2>2, <2>3, <2>4 DEF IInv, TypeOK, FinishedOnce
<1> QED
  BY <1>5, <1>6 DEF IInv, TypeOK

-----------------------------------------------------------------------------
(* The polling thread *)

LEMMA ComesOffKeeps ==
  ASSUME NEW id \in Ids, IInv, ComesOff(id)
  PROVE  IInv'
<1>1. PICK ok \in Outcomes(op[id].type) :
        /\ op' = [op EXCEPT ![id].at = "off", ![id].ok = ok]
        /\ messages' = IF op[id].type = "Read" /\ ok = "yes"
                       THEN messages + 1 ELSE messages
  BY DEF ComesOff
<1>2. /\ op \in [Ids -> Completions] /\ op[id].at = "grpc" /\ ok \in {"yes", "no"}
      /\ UNCHANGED <<stream, worker, completions, finished, active, buffered,
                     queue, call, asserts, writes>>
  BY <1>1 DEF ComesOff, IInv, TypeOK, Outcomes, Completions
<1>3. /\ op' \in [Ids -> Completions] /\ op'[id].at = "off"
      /\ op'[id].type = op[id].type /\ op'[id].callback = op[id].callback
      /\ \A i \in Ids \ {id} : op'[i] = op[i]
  BY <1>1, <1>2 DEF Completions
<1>4. \A i \in Ids :
        /\ op'[i].type = op[i].type
        /\ IsLive(op', i) => IsLive(op, i)
        /\ IsWaitedFor(op', i) <=> IsWaitedFor(op, i)
        /\ op'[i].at = "free" => op[i].at = "free" /\ op'[i] = op[i]
  BY <1>2, <1>3 DEF IsLive, IsWaitedFor
<1>5. OwnedOK(op', completions', stream') /\ OneOK(op')
  BY <1>2, <1>4 DEF IInv, OwnedOK, OneOK
<1>6. /\ WriterOK(op', active', buffered', finished')
      /\ WaitOK(op', stream', worker', finished')
  BY <1>2, <1>4 DEF IInv, WriterOK, WaitOK
<1>7. messages' \in Nat
  BY <1>1 DEF IInv, TypeOK
<1> QED
  BY <1>2, <1>3, <1>5, <1>6, <1>7 DEF IInv, TypeOK, FinishedOnce

LEMMA IsEnqueuedKeeps ==
  ASSUME NEW id \in Ids, IInv, IsEnqueued(id)
  PROVE  IInv'
<1>1. /\ op \in [Ids -> Completions] /\ op[id].at = "off"
      /\ op' = [op EXCEPT ![id].at = "queued"] /\ queue' = Append(queue, id)
      /\ UNCHANGED <<stream, worker, completions, finished, active, buffered,
                     call, asserts, messages, writes>>
  BY DEF IsEnqueued, IInv, TypeOK
<1>2. /\ op' \in [Ids -> Completions] /\ op'[id].at = "queued"
      /\ op'[id].type = op[id].type /\ op'[id].callback = op[id].callback
      /\ \A i \in Ids \ {id} : op'[i] = op[i]
  BY <1>1 DEF Completions
<1>3. \A i \in Ids :
        /\ op'[i].type = op[i].type
        /\ IsLive(op', i) => IsLive(op, i)
        /\ IsWaitedFor(op', i) <=> IsWaitedFor(op, i)
        /\ op'[i].at = "free" => op[i].at = "free" /\ op'[i] = op[i]
  BY <1>1, <1>2 DEF IsLive, IsWaitedFor
<1>4. OwnedOK(op', completions', stream') /\ OneOK(op')
  BY <1>1, <1>3 DEF IInv, OwnedOK, OneOK
<1>5. /\ WriterOK(op', active', buffered', finished')
      /\ WaitOK(op', stream', worker', finished')
  BY <1>1, <1>3 DEF IInv, WriterOK, WaitOK
<1>6. queue' \in Seq(Ids)
  BY <1>1 DEF IInv, TypeOK
<1> QED
  BY <1>1, <1>2, <1>4, <1>5, <1>6 DEF IInv, TypeOK, FinishedOnce

-----------------------------------------------------------------------------

LEMMA NextIInv == IInv /\ [Next]_vars => IInv'
<1> SUFFICES ASSUME IInv, [Next]_vars PROVE IInv'
  OBVIOUS
<1>1. CASE Write
  BY <1>1, WriteKeeps
<1>2. CASE FinishImmediately \/ LastWriteEnds
  BY <1>2, FinishKeeps
<1>3. CASE WriteAndFinish
  BY <1>3, WriteAndFinishKeeps
<1>4. CASE CallIsFinished
  BY <1>4, CallIsFinishedKeeps
<1>5. CASE StreamIsReleased
  BY <1>5, ReleaseKeeps
<1>6. CASE CallEnds
  BY <1>6 DEF CallEnds, IInv, TypeOK, FinishedOnce
<1>7. ASSUME NEW id \in Ids, Callback(id) PROVE IInv'
  BY <1>7, CancelledKeeps, OnReadKeeps, OnWriteKeeps, OnOperationFailedKeeps,
     OnFinishKeeps DEF Callback
<1>8. ASSUME NEW id \in Ids, ComesOff(id) \/ IsEnqueued(id) PROVE IInv'
  BY <1>8, ComesOffKeeps, IsEnqueuedKeeps
<1>9. CASE UNCHANGED vars
  BY <1>9 DEF vars, IInv, TypeOK, FinishedOnce
<1> QED
  BY <1>1, <1>2, <1>3, <1>4, <1>5, <1>6, <1>7, <1>8, <1>9 DEF Next, Waits

LEMMA IInvImplies ==
  IInv => TypeOK /\ NoUseAfterFree /\ FinishedOnce /\ OneAtATime /\ BufferIsEmptied
<1> SUFFICES ASSUME IInv
             PROVE  NoUseAfterFree /\ OneAtATime /\ BufferIsEmptied
  BY DEF IInv
<1>1. NoUseAfterFree
  BY DEF IInv, OwnedOK, IsLive, IsWaitedFor, NoUseAfterFree
<1>2. OneAtATime
  BY DEF IInv, OneOK, IsLive, OneAtATime
<1>3. BufferIsEmptied
  BY DEF IInv, WriterOK, IsWaitedFor, BufferIsEmptied
<1> QED
  BY <1>1, <1>2, <1>3

\* The state of a call keeps its type, and the buffer is never taken from when
\* it is empty.
THEOREM TypeHolds == Spec => []TypeOK
<1>1. Spec => []IInv
  BY InitIInv, NextIInv, PTL DEF Spec
<1> QED
  BY <1>1, IInvImplies, PTL

\* gRPC never works on a call that was released, and no callback that is not
\* cancelled outlives its stream: FastFinishCompletionsBlocking cancels and
\* waits in the order this takes, wherever the polling thread is.
THEOREM NothingIsUsedAfterFree == Spec => []NoUseAfterFree
<1>1. Spec => []IInv
  BY InitIInv, NextIInv, PTL DEF Spec
<1> QED
  BY <1>1, IInvImplies, PTL

\* FinishGrpcCall's assertion never fails, whichever operations fail in
\* whichever order.
THEOREM FinishedOnceAlways == Spec => []FinishedOnce
<1>1. Spec => []IInv
  BY InitIInv, NextIInv, PTL DEF Spec
<1> QED
  BY <1>1, IInvImplies, PTL

\* gRPC never has two reads or two writes of one call (BufferedWriter, OnRead).
THEOREM OneAtATimeAlways == Spec => []OneAtATime
<1>1. Spec => []IInv
  BY InitIInv, NextIInv, PTL DEF Spec
<1> QED
  BY <1>1, IInvImplies, PTL

\* What is in the buffer always has a write before it whose callback will
\* fetch it, until the call is finished.
THEOREM BufferIsEmptiedAlways == Spec => []BufferIsEmptied
<1>1. Spec => []IInv
  BY InitIInv, NextIInv, PTL DEF Spec
<1> QED
  BY <1>1, IInvImplies, PTL
=============================================================================
