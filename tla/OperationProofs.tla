--------------------------- MODULE OperationProofs ---------------------------
(***************************************************************************)
(* Machine-checked facts about AsyncOperation, for any operations.         *)
(***************************************************************************)
EXTENDS AsyncOperation, TLAPS

\* Where the thread of the queue is tells what has happened to the operation.
Progress ==
  \A o \in Operations :
    /\ saved[o] => thread[o] \notin {"none", "starting", "main"}
    /\ thread[o] \in {"saved", "back"} => saved[o]
    /\ early[o] => /\ isCancelled[o]
                   /\ thread[o] \in {"none", "starting", "done"}

Inv == TypeOK /\ Progress /\ CompletionAfterSave /\ EarlyCancelSavesNothing

LEMMA InitInv == Init => Inv
  BY DEF Init, Inv, TypeOK, Progress, CompletionAfterSave,
         EarlyCancelSavesNothing, States, Threads

LEMMA NotifiedOnly ==
  ASSUME TypeOK, NEW o \in Operations, NotifyFinished(o)
  PROVE  /\ finished' \in [Operations -> BOOLEAN]
         /\ \A p \in Operations : finished'[p] => finished[p] \/ p = o
  <1>1. CASE finished' = [finished EXCEPT ![o] = TRUE]
    BY <1>1, Zenon DEF TypeOK
  <1>2. CASE finished' = finished
    BY <1>2, Zenon DEF TypeOK
  <1> QED
    BY <1>1, <1>2 DEF NotifyFinished

LEMMA PickInv ==
  ASSUME Inv, NEW o \in Operations, QueuePicks(o)
  PROVE  Inv'
  BY DEF Inv, TypeOK, Progress, CompletionAfterSave, EarlyCancelSavesNothing,
         QueuePicks, At, GoTo, Threads

LEMMA StartInv ==
  ASSUME Inv, NEW o \in Operations, start(o)
  PROVE  Inv'
  <1>1. CASE isCancelled[o]
    <2>1. /\ SetState(o, "finished") /\ NotifyFinished(o)
          /\ GoTo(o, "done")
          /\ UNCHANGED <<isCancelled, saved, early>>
      BY <1>1 DEF start
    <2>2. /\ finished' \in [Operations -> BOOLEAN]
          /\ \A p \in Operations : finished'[p] => finished[p] \/ p = o
      BY <2>1, NotifiedOnly DEF Inv
    <2>3. TypeOK'
      BY <2>1, <2>2 DEF Inv, TypeOK, SetState, GoTo, States, Threads
    <2>4. Progress' /\ EarlyCancelSavesNothing'
      BY <2>1 DEF Inv, TypeOK, Progress, EarlyCancelSavesNothing, GoTo, start, At
    <2>5. CompletionAfterSave'
      BY <1>1, <2>1, <2>2, Zenon DEF Inv, CompletionAfterSave
    <2> QED
      BY <2>3, <2>4, <2>5 DEF Inv
  <1>2. CASE ~isCancelled[o]
    BY <1>2 DEF Inv, TypeOK, Progress, CompletionAfterSave,
       EarlyCancelSavesNothing, start, At, GoTo, Threads
  <1> QED
    BY <1>1, <1>2

LEMMA SavesInv ==
  ASSUME Inv, NEW o \in Operations, mainSaves(o)
  PROVE  Inv'
  <1>1. thread[o] = "main" /\ ~early[o]
    BY DEF Inv, Progress, mainSaves, At
  <1>2. saved' = [saved EXCEPT ![o] = TRUE] /\ saved' \in [Operations -> BOOLEAN]
    BY Zenon DEF Inv, TypeOK, mainSaves
  <1>3. saved'[o] /\ \A p \in Operations : p # o => (saved'[p] <=> saved[p])
    BY <1>2, Zenon DEF Inv, TypeOK
  <1>4. thread' = [thread EXCEPT ![o] = "saved"]
        /\ UNCHANGED <<state, isCancelled, finished, early>>
    BY DEF mainSaves, GoTo
  <1>5. TypeOK'
    BY <1>2, <1>4 DEF Inv, TypeOK, Threads
  <1>6. Progress'
    <2>1. \A p \in Operations : p # o => thread'[p] = thread[p]
      BY <1>4 DEF Inv, TypeOK
    <2>2. thread'[o] = "saved"
      BY <1>4 DEF Inv, TypeOK
    <2> QED
      BY <1>1, <1>3, <1>4, <2>1, <2>2 DEF Inv, Progress
  <1>7. CompletionAfterSave' /\ EarlyCancelSavesNothing'
    BY <1>1, <1>3, <1>4 DEF Inv, CompletionAfterSave, EarlyCancelSavesNothing
  <1> QED
    BY <1>5, <1>6, <1>7 DEF Inv

LEMMA FinishesInv ==
  ASSUME Inv, NEW o \in Operations, mainFinishes(o)
  PROVE  Inv'
  <1>1. /\ SetState(o, "finished") /\ NotifyFinished(o)
        /\ GoTo(o, "back")
        /\ UNCHANGED <<isCancelled, saved, early>>
    BY DEF mainFinishes
  <1>2. thread[o] = "saved" /\ saved[o]
    BY DEF Inv, Progress, mainFinishes, At
  <1>3. /\ finished' \in [Operations -> BOOLEAN]
        /\ \A p \in Operations : finished'[p] => finished[p] \/ p = o
    BY <1>1, NotifiedOnly DEF Inv
  <1>4. TypeOK'
    BY <1>1, <1>3 DEF Inv, TypeOK, SetState, GoTo, States, Threads
  <1>5. Progress' /\ EarlyCancelSavesNothing'
    BY <1>1, <1>2 DEF Inv, TypeOK, Progress, EarlyCancelSavesNothing, GoTo
  <1>6. CompletionAfterSave'
    BY <1>1, <1>2, <1>3, Zenon DEF Inv, CompletionAfterSave
  <1> QED
    BY <1>4, <1>5, <1>6 DEF Inv

LEMMA ReturnsInv ==
  ASSUME Inv, NEW o \in Operations, startReturns(o)
  PROVE  Inv'
  BY DEF Inv, TypeOK, Progress, CompletionAfterSave, EarlyCancelSavesNothing,
         startReturns, At, GoTo, SetState, States, Threads

LEMMA CancelInv ==
  ASSUME Inv, NEW o \in Operations, cancel(o)
  PROVE  Inv'
  <1>1. /\ isCancelled' = [isCancelled EXCEPT ![o] = TRUE]
        /\ SetState(o, "finished") /\ NotifyFinished(o)
        /\ early' = [early EXCEPT ![o] = @ \/ At(o, "none") \/ At(o, "starting")]
        /\ UNCHANGED <<thread, saved>>
    BY DEF cancel
  <1>2. /\ finished' \in [Operations -> BOOLEAN]
        /\ \A p \in Operations : finished'[p] => finished[p] \/ p = o
    BY <1>1, NotifiedOnly DEF Inv
  <1>3. /\ isCancelled' \in [Operations -> BOOLEAN]
        /\ isCancelled'[o]
        /\ \A p \in Operations : p # o => (isCancelled'[p] <=> isCancelled[p])
    BY <1>1, Zenon DEF Inv, TypeOK
  <1> DEFINE e == early[o] \/ At(o, "none") \/ At(o, "starting")
  <1>4. e \in BOOLEAN
    BY Zenon DEF Inv, TypeOK
  <1>5. early' = [early EXCEPT ![o] = e]
    BY <1>1
  <1>6. e => ~saved[o] /\ thread[o] \in {"none", "starting", "done"}
    BY DEF Inv, Progress, EarlyCancelSavesNothing, At
  <1> HIDE DEF e
  <1>7. /\ early' \in [Operations -> BOOLEAN]
        /\ early'[o] <=> e
        /\ \A p \in Operations : p # o => (early'[p] <=> early[p])
    BY <1>4, <1>5, Zenon DEF Inv, TypeOK
  <1>8. TypeOK'
    BY <1>1, <1>2, <1>3, <1>7 DEF Inv, TypeOK, SetState, States
  <1>9. Progress' /\ EarlyCancelSavesNothing'
    BY <1>1, <1>3, <1>6, <1>7 DEF Inv, Progress, EarlyCancelSavesNothing
  <1>10. CompletionAfterSave'
    BY <1>1, <1>2, <1>3, Zenon DEF Inv, CompletionAfterSave
  <1> QED
    BY <1>8, <1>9, <1>10 DEF Inv

LEMMA NextInv == Inv /\ [Next]_vars => Inv'
  <1> SUFFICES ASSUME Inv, [Next]_vars PROVE Inv'
    OBVIOUS
  <1>1. CASE UNCHANGED vars
    BY <1>1 DEF Inv, vars, TypeOK, Progress, CompletionAfterSave,
                EarlyCancelSavesNothing
  <1>2. CASE Next
    BY <1>2, PickInv, StartInv, SavesInv, FinishesInv, ReturnsInv, CancelInv
    DEF Next, Thread
  <1> QED
    BY <1>1, <1>2

LEMMA Invariance == Spec => []Inv
  BY InitInv, NextInv, PTL DEF Spec

\* The completion of an operation nobody cancels runs after its save, for any
\* interleaving of the queue, its threads and cancellations of others.
THEOREM CompletionAfterSaveHolds == Spec => []CompletionAfterSave
  <1>1. Inv => CompletionAfterSave
    BY DEF Inv
  <1> QED
    BY <1>1, Invariance, PTL

\* Cancelled before start looked, an operation never saves.
THEOREM EarlyCancelSavesNothingHolds == Spec => []EarlyCancelSavesNothing
  <1>1. Inv => EarlyCancelSavesNothing
    BY DEF Inv
  <1> QED
    BY <1>1, Invariance, PTL
=============================================================================
