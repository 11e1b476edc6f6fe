--------------------------- MODULE ShutdownProofs ---------------------------
(***************************************************************************)
(* Proofs about Shutdown for any set of hooks, callers and priorities.     *)
(* IInv is the inductive invariant: the winner's bookkeeping (OnceInv,     *)
(* SplitInv), the order in which groups were taken (OrderInv) and what has *)
(* been collected at each point of the loop (CollectInv, VerdictInv).      *)
(***************************************************************************)
EXTENDS Shutdown, TLAPS

(* The winner's program counter says where the Once and done stand.        *)
OnceInv ==
    /\ once = "new" <=> pc = "idle"
    /\ once = "done" <=> pc = "over"
    /\ done <=> pc \in {"leave", "over"}
    /\ outcome # "none" <=> pc \in {"close", "leave", "over"}
    /\ \A c \in Caller : caller[c] = "returned" => once = "done"

(* The snapshot splits into hooks not started (pending) and hooks started. *)
SplitInv ==
    /\ pc \in {"idle", "begin"} => snapshot = {}
    /\ \A h \in Hook : Started(h) <=> h \in snapshot \ pending
    /\ \A h \in group : Started(h)
    /\ \A h \in received : hook[h] = "exited"

(* Groups are taken in ascending order of priority, and when a later group *)
(* is taken everything started before it has been collected.               *)
OrderInv ==
    /\ \A h \in snapshot \ pending, g \in pending : Prio[h] < Prio[g]
    /\ \A h, g \in snapshot \ pending : Prio[h] < Prio[g] => h \in received

(* Between groups, everything started has been collected unless the        *)
(* context ended; while collecting, that holds of all the earlier groups.  *)
CollectInv ==
    /\ pc = "groups" => ctxDone \/ snapshot \ pending \subseteq received
    /\ pc = "start" => pending # {} /\ snapshot \ pending \subseteq received
    /\ pc = "collect" => (snapshot \ pending) \ group \subseteq received
    /\ pc = "report" => ctxDone \/ snapshot \subseteq received

(* The verdict "ok" is given with everything collected, and "timeout" only *)
(* once the context has ended.                                             *)
VerdictInv ==
    /\ outcome = "ok" => snapshot \subseteq received
    /\ outcome = "timeout" => ctxDone

IInv == TypeOK /\ OnceInv /\ SplitInv /\ OrderInv /\ CollectInv /\ VerdictInv

-----------------------------------------------------------------------------
(* At first nobody has called Shutdown.                                    *)
LEMMA InitIInv == Init => IInv
  BY DEF Init, IInv, TypeOK, OnceInv, SplitInv, OrderInv, CollectInv,
         VerdictInv, Started

(* What is left after the next group has a strictly greater priority.      *)
LEMMA NextGroupIsLeast ==
  ASSUME TypeOK
  PROVE  /\ NextGroup \subseteq pending
         /\ \A h, g \in NextGroup : ~(Prio[h] < Prio[g])
         /\ \A h \in NextGroup, g \in pending \ NextGroup : Prio[h] < Prio[g]
  <1>1. NextGroup \subseteq pending
    BY DEF NextGroup
  <1>2. \A h \in pending : Prio[h] \in Int
    BY PrioAssumption DEF TypeOK
  <1>3. ASSUME NEW h \in NextGroup, NEW g \in NextGroup
        PROVE  ~(Prio[h] < Prio[g])
    <2>1. Prio[g] <= Prio[h] /\ Prio[g] \in Int /\ Prio[h] \in Int
      BY <1>1, <1>2, <1>3 DEF NextGroup
    <2> QED BY <2>1
  <1>4. ASSUME NEW h \in NextGroup, NEW g \in pending \ NextGroup
        PROVE  Prio[h] < Prio[g]
    <2>1. PICK k \in pending : ~(Prio[g] <= Prio[k])
      BY <1>4 DEF NextGroup
    <2>2. Prio[h] <= Prio[k]
      BY <1>4 DEF NextGroup
    <2> QED BY <1>1, <1>2, <2>1, <2>2
  <1> QED BY <1>1, <1>3, <1>4

(* The callers, the registration of hooks and the timers leave the groups  *)
(* alone; the Once guards who enters and who leaves.                       *)
LEMMA CallerStep ==
  ASSUME IInv,
         \/ \E h \in Hook : RegisterHookWithPriority(h)
         \/ \E c \in Caller : ShutdownCall(c) \/ ShutdownReturn(c)
         \/ ContextEnds
         \/ \E h \in Hook : HookTimeout(h)
  PROVE  IInv'
  <1> USE DEF IInv, TypeOK, OnceInv, SplitInv, OrderInv, CollectInv,
              VerdictInv, Started, winnerVars, hookVars
  <1>1. ASSUME NEW h \in Hook, RegisterHookWithPriority(h)
        PROVE  IInv'
    BY <1>1 DEF RegisterHookWithPriority
  <1>2. ASSUME NEW c \in Caller, ShutdownCall(c)
        PROVE  IInv'
    <2>1. CASE once = "new"
      BY <1>2, <2>1 DEF ShutdownCall, OnceFirst
    <2>2. CASE once # "new"
      BY <1>2, <2>2 DEF ShutdownCall, OnceFirst
    <2> QED BY <2>1, <2>2
  <1>3. ASSUME NEW c \in Caller, ShutdownReturn(c)
        PROVE  IInv'
    BY <1>3 DEF ShutdownReturn, OnceOver
  <1>4. CASE ContextEnds
    BY <1>4 DEF ContextEnds
  <1>5. ASSUME NEW h \in Hook, HookTimeout(h)
        PROVE  IInv'
    BY <1>5 DEF HookTimeout
  <1> QED BY <1>1, <1>2, <1>3, <1>4, <1>5

(* A hook goroutine moves on: a started hook stays started, and one whose  *)
(* result was read has nothing left to do.                                 *)
LEMMA HookStep ==
  ASSUME IInv, NEW h \in Hook, HookReturns(h) \/ HookSends(h)
  PROVE  IInv'
  <1> USE DEF IInv, winnerVars
  <1>1. /\ hook[h] \in {"running", "returned"}
        /\ hook' \in [Hook -> {"idle", "running", "returned", "exited"}]
        /\ \A g \in Hook : g # h => hook'[g] = hook[g]
        /\ hook'[h] \in {"returned", "exited"}
        /\ failed' \in SUBSET Hook
        /\ UNCHANGED <<hooks, caller, winnerVars, ctxDone, hookExpired>>
    BY DEF HookReturns, HookSends, TypeOK
  <1>2. TypeOK'
    BY <1>1 DEF TypeOK
  <1>3. SplitInv'
    BY <1>1 DEF TypeOK, SplitInv, Started
  <1>4. (OnceInv /\ OrderInv /\ CollectInv /\ VerdictInv)'
    BY <1>1 DEF OnceInv, OrderInv, CollectInv, VerdictInv
  <1> QED BY <1>2, <1>3, <1>4

(* The heart of the argument: a group is started only with everything      *)
(* before it collected, so the order of the groups is kept.                *)
LEMMA StartGroupStep ==
  ASSUME IInv, StartGroup
  PROVE  IInv'
  <1> USE DEF IInv, StartGroup
  <1>1. /\ NextGroup \subseteq pending
        /\ \A h, g \in NextGroup : ~(Prio[h] < Prio[g])
        /\ \A h \in NextGroup, g \in pending \ NextGroup : Prio[h] < Prio[g]
    BY NextGroupIsLeast
  <1>2. snapshot \ pending' = (snapshot \ pending) \union NextGroup
    BY <1>1 DEF TypeOK
  <1>3. TypeOK'
    BY <1>1 DEF TypeOK
  <1>4. OnceInv'
    BY DEF OnceInv
  <1>5. SplitInv'
    BY <1>1, <1>2 DEF SplitInv, Started, TypeOK
  <1>6. OrderInv'
    <2>1. ASSUME NEW h \in snapshot \ pending', NEW g \in pending'
          PROVE  Prio[h] < Prio[g]
      BY <1>1, <1>2, <2>1 DEF OrderInv
    <2>2. ASSUME NEW h \in snapshot \ pending', NEW g \in snapshot \ pending',
                 Prio[h] < Prio[g]
          PROVE  h \in received
      <3>1. CASE h \in snapshot \ pending
        BY <3>1 DEF CollectInv
      <3>2. CASE h \in NextGroup /\ g \in NextGroup
        BY <1>1, <2>2, <3>2
      <3>3. CASE h \in NextGroup /\ g \in snapshot \ pending
        <4>1. Prio[g] < Prio[h]
          BY <1>1, <3>3 DEF OrderInv
        <4>2. Prio[g] \in Int /\ Prio[h] \in Int
          BY <1>1, <3>3, PrioAssumption DEF TypeOK
        <4> QED BY <2>2, <4>1, <4>2
      <3> QED BY <1>2, <3>1, <3>2, <3>3
    <2> QED BY <2>1, <2>2 DEF OrderInv
  <1>7. CollectInv'
    BY <1>2 DEF CollectInv
  <1>8. VerdictInv'
    BY DEF VerdictInv
  <1> QED BY <1>3, <1>4, <1>5, <1>6, <1>7, <1>8

(* The other steps of the winner.                                          *)
LEMMA WinnerStep ==
  ASSUME IInv, Winner
  PROVE  IInv'
  <1> USE DEF IInv, TypeOK, OnceInv, SplitInv, OrderInv, CollectInv,
              VerdictInv, Started, hookVars
  <1>1. CASE Snapshot
    BY <1>1 DEF Snapshot
  <1>2. CASE CheckGroup
    BY <1>2 DEF CheckGroup, MayStartGroup, SkipRest
  <1>3. CASE StartGroup
    BY <1>3, StartGroupStep
  <1>4. ASSUME NEW h \in Hook, CollectResult(h)
        PROVE  IInv'
    <2>1. CASE Collected(received')
      BY <1>4, <2>1 DEF CollectResult, InErrChan, Collected
    <2>2. CASE ~Collected(received')
      BY <1>4, <2>2 DEF CollectResult, InErrChan, Collected
    <2> QED BY <2>1, <2>2
  <1>5. CASE CollectTimeout
    BY <1>5 DEF CollectTimeout
  <1>6. CASE Report
    BY <1>6 DEF Report
  <1>7. CASE CloseDone
    BY <1>7 DEF CloseDone
  <1>8. CASE LeaveOnce
    BY <1>8 DEF LeaveOnce
  <1> QED BY <1>1, <1>2, <1>3, <1>4, <1>5, <1>6, <1>7, <1>8 DEF Winner

(* A stutter keeps the invariant.                                          *)
LEMMA StutterStep ==
  ASSUME IInv, UNCHANGED vars
  PROVE  IInv'
  BY DEF IInv, TypeOK, OnceInv, SplitInv, OrderInv, CollectInv, VerdictInv,
         Started, vars, winnerVars, hookVars

(* IInv holds in every reachable state, whatever the fairness.             *)
THEOREM Invariance == Safety => []IInv
  <1>1. IInv /\ [Next]_vars => IInv'
    BY CallerStep, HookStep, WinnerStep, StutterStep DEF Next
  <1> QED BY InitIInv, <1>1, PTL DEF Safety

-----------------------------------------------------------------------------
(* No hook runs while a hook of an earlier priority is still running.      *)
THEOREM GroupsInOrder == Safety => []PriorityOrder
  <1>1. IInv => PriorityOrder
    <2> SUFFICES ASSUME IInv, NEW h \in snapshot, NEW g \in snapshot,
                        Started(h), Prio[g] < Prio[h]
                 PROVE  Finished(g)
      BY DEF PriorityOrder
    <2>1. h \in snapshot \ pending /\ g \in Hook /\ h \in Hook
      BY DEF IInv, SplitInv, TypeOK
    <2>2. g \notin pending
      <3>1. Prio[h] \in Int /\ Prio[g] \in Int
        BY <2>1, PrioAssumption
      <3> QED BY <2>1, <3>1 DEF IInv, OrderInv
    <2>3. g \in received
      BY <2>1, <2>2 DEF IInv, OrderInv
    <2> QED BY <2>3 DEF IInv, SplitInv, Finished
  <1> QED BY Invariance, <1>1, PTL

(* "Completed successfully" is only said when every hook ran.              *)
THEOREM SuccessIsHonest == Safety => []SuccessMeansAllRan
  <1>1. IInv => SuccessMeansAllRan
    BY DEF IInv, VerdictInv, SuccessMeansAllRan
  <1> QED BY Invariance, <1>1, PTL

(* Every variable keeps its type, the winner works on its own copy, and    *)
(* nobody returns from Shutdown before the shutdown is over.               *)
THEOREM CallersWait == Safety => []Inv
  <1>1. IInv => Inv
    BY DEF IInv, OnceInv, ReturnAfterDone, Inv
  <1> QED BY Invariance, <1>1, PTL

(* A hook never runs a second time: only StartGroup makes a hook run, and  *)
(* it takes hooks that are still pending.                                  *)
THEOREM RunOnce == Safety => NeverRestarted
  <1>1. ASSUME IInv, [Next]_vars, NEW h \in Hook, hook'[h] = "running"
        PROVE  hook[h] \in {"idle", "running"}
    <2>1. CASE StartGroup
      BY <1>1, <2>1, NextGroupIsLeast
         DEF StartGroup, IInv, TypeOK, SplitInv, Started
    <2>2. CASE \E g \in Hook : HookReturns(g) \/ HookSends(g)
      BY <1>1, <2>2 DEF HookReturns, HookSends, IInv, TypeOK
    <2>3. CASE UNCHANGED hook
      BY <1>1, <2>3
    <2> QED
      BY <1>1, <2>1, <2>2, <2>3
         DEF Next, Winner, vars, hookVars, RegisterHookWithPriority,
             ShutdownCall, ShutdownReturn, Snapshot, CheckGroup, CollectResult,
             CollectTimeout, Report, CloseDone, LeaveOnce, ContextEnds,
             HookTimeout
  <1>2. IInv /\ [Next]_vars =>
          [\A h \in Hook : hook'[h] = "running" => hook[h] \in {"idle", "running"}]_vars
    BY <1>1
  <1> QED BY Invariance, <1>2, PTL DEF Safety, NeverRestarted

-----------------------------------------------------------------------------
(* The refinement.  StartGroup launches one stage; HookReturns finishes a  *)
(* hook; ContextEnds is the deadline; CloseDone closes.                    *)
LEMMA StartIsLaunch ==
  ASSUME IInv, StartGroup
  PROVE  [Staged!Next]_(Staged!avars)
  <1> USE DEF IInv, StartGroup
  <1>1. /\ NextGroup \subseteq pending
        /\ \A h, g \in NextGroup : ~(Prio[h] < Prio[g])
        /\ \A h \in NextGroup, g \in pending \ NextGroup : Prio[h] < Prio[g]
    BY NextGroupIsLeast
  <1>2. CASE NextGroup = {}
    <2>1. hook' = hook
      BY <1>2 DEF TypeOK
    <2> QED BY <2>1 DEF Staged!avars, Started, Finished
  <1>3. ASSUME NEW p \in NextGroup
        PROVE  Staged!Launch(Prio[p])
    <2>0. \A h \in Hook : Prio[h] \in Int
      BY PrioAssumption
    <2>1. NextGroup = {h \in snapshot : Prio[h] = Prio[p]}
      <3>1. ASSUME NEW h \in NextGroup
            PROVE  h \in snapshot /\ Prio[h] = Prio[p]
        <4>1. ~(Prio[h] < Prio[p]) /\ ~(Prio[p] < Prio[h])
          BY <1>1
        <4> QED BY <1>1, <4>1, <2>0 DEF TypeOK
      <3>2. ASSUME NEW h \in snapshot, Prio[h] = Prio[p]
            PROVE  h \in NextGroup
        <4>1. ~(Prio[h] < Prio[p]) /\ ~(Prio[p] < Prio[h])
          BY <3>2, <1>1, <2>0 DEF TypeOK
        <4> QED BY <4>1, <1>1 DEF OrderInv
      <3> QED BY <3>1, <3>2
    <2>2. \A h \in NextGroup : hook[h] = "idle"
      BY <1>1 DEF SplitInv, Started, TypeOK
    <2>3. ASSUME NEW h \in snapshot, Prio[h] < Prio[p]
          PROVE  hook[h] = "exited"
      <3>1. h \notin pending
        <4>1. h \notin NextGroup
          BY <1>1, <2>3
        <4>2. h \notin pending \ NextGroup
          <5>1. Prio[h] \in Int /\ Prio[p] \in Int
            BY <2>0, <1>1 DEF TypeOK
          <5>2. ~(Prio[p] < Prio[h])
            BY <2>3, <5>1
          <5> QED BY <1>1, <5>2
        <4> QED BY <4>1, <4>2
      <3> QED BY <3>1 DEF CollectInv, SplitInv
    <2>4. ~done
      BY DEF OnceInv
    <2> QED BY <2>1, <2>2, <2>3, <2>4, <1>1 DEF Staged!Launch, TypeOK, Started, Finished
  <1> QED BY <1>1, <1>2, <1>3 DEF Staged!Next, TypeOK

(* Every step of the manager is one of the staged shutdown or a stutter.   *)
LEMMA StepRefines ==
  ASSUME IInv, [Next]_vars
  PROVE  [Staged!Next]_(Staged!avars)
  <1> USE DEF IInv, winnerVars, hookVars
  <1>1. CASE StartGroup
    BY <1>1, StartIsLaunch
  <1>2. CASE Snapshot
    <2>1. Staged!Plan(hooks)
      BY <1>2 DEF Snapshot, Staged!Plan, SplitInv, OnceInv, Started, Finished
    <2> QED BY <2>1 DEF Staged!Next, TypeOK
  <1>3. ASSUME NEW h \in Hook, HookReturns(h)
        PROVE  Staged!Finish(h)
    BY <1>3 DEF HookReturns, Staged!Finish, TypeOK, Started, Finished
  <1>4. ASSUME NEW h \in Hook, HookSends(h)
        PROVE  UNCHANGED Staged!avars
    BY <1>4 DEF HookSends, Staged!avars, TypeOK, Started, Finished
  <1>5. CASE ContextEnds
    <2>1. Staged!Deadline \/ UNCHANGED Staged!avars
      BY <1>5 DEF ContextEnds, Staged!Deadline, Staged!avars, Started, Finished
    <2> QED BY <2>1 DEF Staged!Next
  <1>6. CASE CloseDone
    <2>1. Staged!Close
      BY <1>6 DEF CloseDone, Staged!Close, OnceInv, VerdictInv, SplitInv, TypeOK,
             Started, Finished
    <2> QED BY <2>1 DEF Staged!Next
  <1>7. CASE Report
    <2>1. UNCHANGED Staged!avars
      BY <1>7 DEF Report, Staged!avars, OnceInv, Started, Finished
    <2> QED BY <2>1
  <1>8. CASE UNCHANGED <<snapshot, hook, ctxDone, outcome, done>>
    BY <1>8 DEF Staged!avars, Started, Finished
  <1> QED
    BY <1>1, <1>2, <1>3, <1>4, <1>5, <1>6, <1>7, <1>8
       DEF Next, Winner, vars, RegisterHookWithPriority, ShutdownCall,
           ShutdownReturn, CheckGroup, CollectResult, CollectTimeout,
           LeaveOnce, HookTimeout, Staged!Next

(* The manager keeps the promise of StagedShutdown.                        *)
THEOREM ManagerIsStaged == Safety => ImplementsStaged
  <1>1. Init => Staged!Init
    BY DEF Init, Staged!Init, Started, Finished
  <1> QED BY <1>1, Invariance, StepRefines, PTL
      DEF Safety, ImplementsStaged, Staged!Spec
=============================================================================
