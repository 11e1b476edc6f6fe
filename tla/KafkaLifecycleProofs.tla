----------------------- MODULE KafkaLifecycleProofs ------------------------
(***************************************************************************)
(* Proofs about KafkaLifecycle, for any number of calls of Start and Close *)
(* of which those of Start are made by one goroutine: no goroutine of the  *)
(* consumer is out of reach, and a Start that answered nil has one that    *)
(* runs, until somebody calls Close.                                       *)
(***************************************************************************)
EXTENDS KafkaLifecycle, TLAPS

(* The calls of Start follow each other: rank is their order.              *)
OneCaller(rank) ==
    /\ \A q, r \in Run : rank[q] = rank[r] => q = r
    /\ \A q, r \in Run : rank[q] < rank[r] =>
            After[r] # Nobody /\ (q = After[r] \/ rank[q] < rank[After[r]])

Orderly(rank) ==
    \A q, r \in Run : rank[q] < rank[r] /\ start[r] # "idle" => Ended(q)

Early == {"resetting", "checked", "armed", "waiting"}
Late == {"aborting", "closing", "stopping"}

(* Of the calls that have not answered, which is one at most, c.cancel     *)
(* holds none but that one's CancelFunc; aborting has called it.           *)
Cancels ==
    \A r \in Run :
        /\ start[r] \in {"resetting", "checked"} => cancel = Nobody
        /\ start[r] \in Early \union Late => cancel \in {r, Nobody}
        /\ start[r] = "aborting" => r \in ctxDone

(* A goroutine, or one about to be launched, is cancelled or will be by    *)
(* whoever has its CancelFunc.                                             *)
Reach ==
    \A r \in Run : (start[r] = "armed" \/ Live(r)) /\ r \notin ctxDone =>
        cancel = r \/ \E c \in Closer : closer[c] = "taken" /\ taken[c] = r

(* A call that still waits does so on the channel that is there, which is  *)
(* closed in a session, and a closed client has none.                      *)
Waits ==
    /\ \A r \in Run :
        /\ start[r] \in Early => waitsOn[r] = r /\ ready = r
        /\ start[r] = "idle" => r \notin up /\ ready # r
    /\ client = "closed" => \A r \in Run : ~Inside(r)

(* As long as nobody calls Close only a Start that fails cancels anything  *)
(* or closes the client.                                                   *)
NoClose == \A c \in Closer : closer[c] = "idle"

Undisturbed ==
    NoClose =>
        /\ \A r \in Run :
            /\ start[r] \in Early \union {"idle", "ok"} => r \notin ctxDone
            /\ start[r] \in {"armed", "waiting", "ok"} => cancel = r
            /\ start[r] \in {"waiting", "ok"} => Live(r)
            /\ start[r] \in Early /\ r \in up => client = "open"
            /\ start[r] = "ok" => client = "open"
        /\ client = "closing" => \E p \in Run : start[p] = "closing"

IInv(rank) == TypeOK /\ Orderly(rank) /\ Cancels /\ Reach /\ Waits /\ Undisturbed

-----------------------------------------------------------------------------
(* At first nobody has called anything.                                    *)
LEMMA InitIInv ==
    ASSUME NEW rank, Init
    PROVE  IInv(rank)
<1> USE LifecycleAssumption DEF Init
<1>1. TypeOK
  BY DEF TypeOK, Channel
<1>2. Orderly(rank) /\ Cancels
  BY DEF Orderly, Cancels, Early, Late
<1>3. Reach /\ Waits /\ Undisturbed
  BY DEF Reach, Waits, Undisturbed, Early, Live
<1> QED
  BY <1>1, <1>2, <1>3 DEF IInv

(* Of two calls of Start one at least is idle or has answered.             *)
LEMMA OneAtATime ==
    ASSUME NEW rank \in [Run -> Nat], OneCaller(rank), Orderly(rank),
           NEW q \in Run, NEW r \in Run,
           start[q] \in Early \union Late, start[r] \in Early \union Late
    PROVE  q = r
<1>1. rank[q] < rank[r] \/ rank[r] < rank[q] \/ q = r
  BY DEF OneCaller
<1> QED
  BY <1>1 DEF Orderly, Ended, Early, Late

(* The critical sections of Start.                                         *)
LEMMA StartKeeps ==
    ASSUME NEW rank \in [Run -> Nat], OneCaller(rank), IInv(rank), NEW r \in Run,
           StartCall(r) \/ StartReset(r) \/ StartArm(r) \/ StartLaunch(r) \/ StartReady(r)
    PROVE  IInv(rank)'
<1> USE LifecycleAssumption DEF IInv, startVars, readyVars, closeVars, To
<1>0. ASSUME NEW q \in Run, start[q] \in Early \union Late, start[r] \in Early
      PROVE  q = r
  BY <1>0, OneAtATime
<1>1. CASE StartCall(r)
  <2> USE <1>1 DEF StartCall, AlreadyStarted, NewChannel
  <2>1. TypeOK'
    BY DEF TypeOK, Channel
  <2>2. Orderly(rank)'
    BY DEF TypeOK, Orderly, OneCaller, Ended
  <2>3. Cancels'
    BY DEF TypeOK, Cancels, Early, Late
  <2>4. Reach'
    BY DEF TypeOK, Reach, Live
  <2>5. Waits'
    <3>1. ASSUME NEW q \in Run, q # r, start[q] \in Early, start'[r] = "resetting" PROVE FALSE
      <4>1. rank[q] < rank[r] \/ rank[r] < rank[q]
        BY <3>1 DEF OneCaller
      <4> QED
        BY <2>2, <3>1, <4>1 DEF TypeOK, Orderly, Ended, Early
    <3> QED
      BY <3>1 DEF TypeOK, Waits, Inside, Early
  <2>6. Undisturbed'
    BY DEF TypeOK, Undisturbed, Waits, NoClose, Live, Early
  <2> QED
    BY <2>1, <2>2, <2>3, <2>4, <2>5, <2>6
<1>2. CASE StartReset(r)
  <2> USE <1>2 DEF StartReset
  <2>1. TypeOK' /\ Orderly(rank)'
    BY DEF TypeOK, Orderly, Ended
  <2>2. Cancels' /\ Reach'
    BY DEF TypeOK, Cancels, Reach, Live, Early, Late
  <2>3. Waits' /\ Undisturbed'
    BY DEF TypeOK, Waits, Undisturbed, NoClose, Inside, Live, Early
  <2> QED
    BY <2>1, <2>2, <2>3
<1>3. CASE StartArm(r)
  <2> USE <1>3 DEF StartArm
  <2>1. TypeOK' /\ Orderly(rank)'
    BY DEF TypeOK, Orderly, Ended, Channel
  <2>2. Cancels' /\ Reach'
    BY <1>0 DEF TypeOK, Cancels, Reach, Live, Early, Late
  <2>3. Waits' /\ Undisturbed'
    BY <1>0 DEF TypeOK, Cancels, Waits, Undisturbed, NoClose, Inside, Live, Early, Late
  <2> QED
    BY <2>1, <2>2, <2>3
<1>4. CASE StartLaunch(r)
  <2> USE <1>4 DEF StartLaunch
  <2>1. TypeOK' /\ Orderly(rank)'
    BY DEF TypeOK, Orderly, Ended
  <2>2. Cancels' /\ Reach'
    BY DEF TypeOK, Cancels, Reach, Live, Early, Late
  <2>3. Waits' /\ Undisturbed'
    BY DEF TypeOK, Waits, Undisturbed, NoClose, Inside, Live, Early
  <2> QED
    BY <2>1, <2>2, <2>3
<1>5. CASE StartReady(r)
  <2> USE <1>5 DEF StartReady
  <2>1. TypeOK' /\ Orderly(rank)'
    BY DEF TypeOK, Orderly, Ended
  <2>2. Cancels' /\ Reach'
    BY DEF TypeOK, Cancels, Reach, Live, Early, Late
  <2>3. Waits' /\ Undisturbed'
    BY DEF TypeOK, Waits, Undisturbed, NoClose, Inside, Live, Early
  <2> QED
    BY <2>1, <2>2, <2>3
<1> QED
  BY <1>1, <1>2, <1>3, <1>4, <1>5

(* A Start that fails, and abortStart.                                     *)
LEMMA AbortKeeps ==
    ASSUME NEW rank \in [Run -> Nat], OneCaller(rank), IInv(rank), NEW r \in Run,
           StartFails(r) \/ AbortClear(r) \/ AbortClosed(r) \/ AbortEnds(r)
    PROVE  IInv(rank)'
<1> USE LifecycleAssumption DEF IInv, startVars, readyVars, closeVars, To
<1>0. ASSUME NEW q \in Run, start[q] \in Early \union Late, start[r] \in Late \union {"waiting"}
      PROVE  q = r
  BY <1>0, OneAtATime DEF Early
<1>1. CASE StartFails(r)
  <2> USE <1>1 DEF StartFails
  <2>1. TypeOK' /\ Orderly(rank)'
    BY DEF TypeOK, Orderly, Ended
  <2>2. Cancels' /\ Reach'
    BY DEF TypeOK, Cancels, Reach, Live, Early, Late
  <2>3. Waits' /\ Undisturbed'
    BY DEF TypeOK, Waits, Undisturbed, NoClose, Inside, Live, Early
  <2> QED
    BY <2>1, <2>2, <2>3
<1>2. CASE AbortClear(r)
  <2> USE <1>2 DEF AbortClear, CloseClient
  <2>1. TypeOK' /\ Orderly(rank)'
    BY DEF TypeOK, Orderly, Ended, Channel
  <2>2. Cancels' /\ Reach'
    BY <1>0 DEF TypeOK, Cancels, Reach, Live, Early, Late
  <2>3. Waits'
    BY DEF TypeOK, Waits, Inside, Early
  <2>4. Undisturbed'
    BY <1>0 DEF TypeOK, Cancels, Undisturbed, NoClose, Live, Early, Late
  <2> QED
    BY <2>1, <2>2, <2>3, <2>4
<1>3. CASE AbortClosed(r)
  <2> USE <1>3 DEF AbortClosed
  <2>1. TypeOK' /\ Orderly(rank)'
    BY DEF TypeOK, Orderly, Ended
  <2>2. Cancels' /\ Reach'
    BY DEF TypeOK, Cancels, Reach, Live, Early, Late
  <2>3. Waits' /\ Undisturbed'
    BY DEF TypeOK, Waits, Undisturbed, NoClose, Inside, Live, Early
  <2> QED
    BY <2>1, <2>2, <2>3
<1>4. CASE AbortEnds(r)
  <2> USE <1>4 DEF AbortEnds
  <2>1. TypeOK' /\ Orderly(rank)'
    BY DEF TypeOK, Orderly, Ended
  <2>2. Cancels' /\ Reach'
    BY DEF TypeOK, Cancels, Reach, Live, Early, Late
  <2>3. Waits' /\ Undisturbed'
    BY DEF TypeOK, Waits, Undisturbed, NoClose, Inside, Live, Early
  <2> QED
    BY <2>1, <2>2, <2>3
<1> QED
  BY <1>1, <1>2, <1>3, <1>4

(* The goroutine, and sarama's Close.  A session that is set up while the  *)
(* client closes cannot answer a Start: the one that closes it is the last *)
(* of those called.                                                        *)
LoopActions(r) ==
    \/ LoopStep(r) \/ Setup(r) \/ ConsumeEnds(r) \/ ConsumeFails(r)

(* The goroutine of Start and sarama's sessions.                           *)
LEMMA LoopKeeps ==
    ASSUME NEW rank \in [Run -> Nat], OneCaller(rank), IInv(rank), NEW r \in Run, LoopActions(r)
    PROVE  IInv(rank)'
<1> USE LifecycleAssumption DEF IInv, startVars, readyVars, closeVars, Goes
<1>1. CASE Setup(r)
  <2> USE <1>1 DEF Setup
  <2>1. TypeOK' /\ Orderly(rank)'
    BY DEF TypeOK, Orderly, Ended, Channel
  <2>2. Cancels' /\ Reach'
    BY DEF TypeOK, Cancels, Reach, Live
  <2>3. Waits'
    BY DEF TypeOK, Waits, Inside
  <2>4. ASSUME NoClose, NEW q \in Run, start[q] \in Early, q = ready PROVE client = "open"
    <3>1. client # "closed"
      BY DEF Waits, Inside
    <3>2. ASSUME NEW p \in Run, start[p] = "closing" PROVE FALSE
      BY <2>4, <3>2, OneAtATime DEF Early, Late
    <3> QED
      BY <2>4, <3>1, <3>2 DEF Undisturbed, TypeOK
  <2>5. Undisturbed'
    BY <2>4 DEF TypeOK, Waits, Undisturbed, NoClose, Live, Early
  <2> QED
    BY <2>1, <2>2, <2>3, <2>5
<1>2. CASE Consume(r)
  BY <1>2 DEF Consume, TypeOK, Orderly, Ended, Cancels, Reach, Live, Waits, Inside, Undisturbed, NoClose
<1>3. CASE ConsumeEnds(r) \/ ConsumeFails(r)
  <2> USE <1>3 DEF ConsumeEnds, ConsumeFails, Cancelled, Inside
  <2>1. TypeOK' /\ Orderly(rank)'
    BY DEF TypeOK, Orderly, Ended
  <2>2. Cancels' /\ Reach'
    BY DEF TypeOK, Cancels, Reach, Live
  <2>3. Waits' /\ Undisturbed'
    BY DEF TypeOK, Waits, Undisturbed, NoClose, Live, Early
  <2> QED
    BY <2>1, <2>2, <2>3
<1>4. CASE BackoffEnds(r) \/ BackoffCancelled(r)
  <2> USE <1>4 DEF BackoffEnds, BackoffCancelled, Cancelled
  <2>1. TypeOK' /\ Orderly(rank)'
    BY DEF TypeOK, Orderly, Ended
  <2>2. Cancels' /\ Reach'
    BY DEF TypeOK, Cancels, Reach, Live
  <2>3. Waits' /\ Undisturbed'
    BY DEF TypeOK, Waits, Inside, Undisturbed, NoClose, Live, Early
  <2> QED
    BY <2>1, <2>2, <2>3
<1> QED
  BY <1>1, <1>2, <1>3, <1>4 DEF LoopActions, LoopStep

(* The client closes; a consumer subscribes.                               *)
LEMMA ClientKeeps ==
    ASSUME NEW rank \in [Run -> Nat], OneCaller(rank), IInv(rank), ClientCloses \/ Subscribe
    PROVE  IInv(rank)'
<1> USE DEF IInv, ClientCloses, Subscribe, startVars, readyVars, closeVars
<1>1. TypeOK'
  BY DEF TypeOK
<1>5. Orderly(rank)' /\ Cancels'
  BY DEF Orderly, Ended, Cancels
<1>6. Reach'
  BY DEF Reach, Live
<1>2. Waits'
  BY DEF Waits, Inside
<1>3. ASSUME NoClose, client = "closing", NEW q \in Run, start[q] \in Early PROVE FALSE
  <2>1. PICK p \in Run : start[p] = "closing"
    BY <1>3 DEF Undisturbed
  <2> QED
    BY <1>3, <2>1, OneAtATime DEF Early, Late
<1>4. Undisturbed'
  BY <1>3 DEF Undisturbed, NoClose, Live
<1> QED
  BY <1>1, <1>2, <1>4, <1>5, <1>6

(* Close.                                                                  *)
LEMMA CloseKeeps ==
    ASSUME NEW rank, IInv(rank), NEW c \in Closer, CloseCall(c) \/ CloseStep(c)
    PROVE  IInv(rank)'
<1> USE DEF IInv, CloseStep, CloseCall, CloseCancel, CloseWait, CloseReturn, CloseClient, Told,
            startVars, readyVars, closeVars
<1>1. TypeOK' /\ Orderly(rank)'
  BY DEF TypeOK, Orderly, Ended, Channel
<1>2. Cancels'
  BY DEF TypeOK, Cancels
<1>3. Reach'
  <2>1. ASSUME NEW r \in Run, start[r] = "armed" \/ Live(r), r \notin ctxDone'
        PROVE  cancel' = r \/ \E d \in Closer : closer'[d] = "taken" /\ taken'[d] = r
    <3>1. r \notin ctxDone
      BY <2>1
    <3>2. CASE cancel = r
      BY <3>2 DEF TypeOK
    <3>3. ASSUME NEW d \in Closer, closer[d] = "taken", taken[d] = r
          PROVE  closer'[d] = "taken" /\ taken'[d] = r
      BY <2>1, <3>3, LifecycleAssumption DEF TypeOK
    <3> QED
      BY <2>1, <3>1, <3>2, <3>3 DEF Reach
  <2> QED
    BY <2>1 DEF Reach, Live
<1>4. Waits'
  BY DEF TypeOK, Waits, Inside
<1>5. ~NoClose'
  BY DEF TypeOK, NoClose
<1> QED
  BY <1>1, <1>2, <1>3, <1>4, <1>5 DEF Undisturbed

(* What the invariant is for.                                              *)
LEMMA IInvIsEnough == \A rank : IInv(rank) => Inv /\ StartedMeansRunning
  BY DEF IInv, Inv, Stoppable, Reach, StartedMeansRunning, Undisturbed, NoClose

-----------------------------------------------------------------------------
(* IInv holds in every state of every behaviour.                           *)
THEOREM Invariance ==
    ASSUME NEW rank \in [Run -> Nat], OneCaller(rank)
    PROVE  Spec => []IInv(rank)
<1>1. Init => IInv(rank)
  BY InitIInv
<1>2. IInv(rank) /\ [Next]_vars => IInv(rank)'
  <2> SUFFICES ASSUME IInv(rank), [Next]_vars PROVE IInv(rank)'
    OBVIOUS
  <2>1. ASSUME NEW r \in Run, StartCall(r) \/ StartStep(r) \/ StartFails(r) PROVE IInv(rank)'
    BY <2>1, StartKeeps, AbortKeeps DEF StartStep
  <2>2. ASSUME NEW r \in Run, LoopActions(r) PROVE IInv(rank)'
    BY <2>2, LoopKeeps
  <2>3. CASE ClientCloses \/ Subscribe
    BY <2>3, ClientKeeps
  <2>4. ASSUME NEW c \in Closer, CloseCall(c) \/ CloseStep(c) PROVE IInv(rank)'
    BY <2>4, CloseKeeps
  <2>5. CASE UNCHANGED vars
    BY <2>5 DEF IInv, TypeOK, Orderly, Ended, Cancels, Reach, Live, Waits, Inside, Undisturbed, NoClose,
                vars, startVars, readyVars, closeVars
  <2> QED
    BY <2>1, <2>2, <2>3, <2>4, <2>5 DEF Next, LoopActions
<1> QED
  BY <1>1, <1>2, PTL DEF Spec

(* When one goroutine makes the calls of Start, no goroutine is launched   *)
(* that nobody can stop, however Close, sessions and failing starts        *)
(* overlap (consumer.go:126-160, 265-282).                                 *)
THEOREM NobodyIsOutOfReach ==
    ASSUME NEW rank \in [Run -> Nat], OneCaller(rank)
    PROVE  Spec => []Inv
<1>1. IInv(rank) => Inv /\ StartedMeansRunning
  BY IInvIsEnough
<1> QED
  BY <1>1, Invariance, PTL

(* And a Start that answered nil has a consumer that runs, although        *)
(* signalReady closes whatever channel is there (consumer.go:108-160).     *)
THEOREM AnsweredMeansRunning ==
    ASSUME NEW rank \in [Run -> Nat], OneCaller(rank)
    PROVE  Spec => []StartedMeansRunning
<1>1. IInv(rank) => Inv /\ StartedMeansRunning
  BY IInvIsEnough
<1> QED
  BY <1>1, Invariance, PTL
=============================================================================
