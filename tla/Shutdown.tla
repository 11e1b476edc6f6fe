------------------------------ MODULE Shutdown ------------------------------
(***************************************************************************)
(* shutdown.Manager (src/shutdown/shutdown.go): goroutines register hooks, *)
(* several goroutines may call Shutdown, one of them (the winner of        *)
(* sync.Once) runs performShutdown, and every hook runs in a goroutine of  *)
(* its own that outlives the collection of its group when the global       *)
(* timeout fires.  Logging is left out, except the verdict it reports.     *)
(***************************************************************************)
EXTENDS Integers, FiniteSets

CONSTANTS Hook,     \* the hooks that may be registered
          Caller,   \* goroutines that call Shutdown (Wait calls it on a signal)
          Prio      \* [Hook -> Int]: the priority a hook is registered with

ASSUME PrioAssumption == Prio \in [Hook -> Int]

VARIABLES
    hooks,      \* Manager.hooks, as the set of hooks registered so far
    caller,     \* what each caller of Shutdown is doing
    once,       \* the sync.Once: "new", "running" or "done"
    pc,         \* where the winner is in performShutdown
    snapshot,   \* performShutdown's copy of hooks
    pending,    \* snapshotted hooks whose group has not been started
    group,      \* the group executeHookGroup is collecting
    hook,       \* the hook goroutines
    failed,     \* hooks that returned an error
    received,   \* hooks whose result was read from errChan
    hookExpired,\* hooks whose own timeout fired before shutdownCtx was done
    ctxDone,    \* shutdownCtx is done (timeout, or the caller's ctx cancelled)
    outcome,    \* the verdict logged at the end: "none", "ok" or "timeout"
    done        \* Manager.done is closed

winnerVars == <<once, pc, snapshot, pending, group, received, outcome, done>>
hookVars   == <<hook, failed, hookExpired>>
vars == <<hooks, caller, winnerVars, hookVars, ctxDone>>

-----------------------------------------------------------------------------
Init ==
    /\ hooks = {}
    /\ caller = [c \in Caller |-> "idle"]
    /\ once = "new"
    /\ pc = "idle"
    /\ snapshot = {} /\ pending = {} /\ group = {} /\ received = {}
    /\ hook = [h \in Hook |-> "idle"]
    /\ failed = {} /\ hookExpired = {}
    /\ ctxDone = FALSE
    /\ outcome = "none"
    /\ done = FALSE

(* RegisterHookWithPriority appends under the write lock, at any time: a   *)
(* hook registered after the snapshot is kept but never runs.              *)
RegisterHookWithPriority(h) ==
    /\ h \notin hooks
    /\ hooks' = hooks \union {h}
    /\ UNCHANGED <<caller, winnerVars, hookVars, ctxDone>>

-----------------------------------------------------------------------------
(* sync.Once: the first caller runs the body, the others block in Do until *)
(* the body has returned.                                                  *)
NoOnce == TRUE                     \* mutant: Shutdown without a once
OnceFirst == once = "new"
OnceStarted == once # "new"        \* mutant: a compare-and-swap flag
OnceOver == once = "done"

ShutdownCall(c) ==
    /\ caller[c] = "idle"
    /\ caller' = [caller EXCEPT ![c] = "inDo"]
    /\ IF OnceFirst
       THEN once' = "running" /\ pc' = "begin"
       ELSE UNCHANGED <<once, pc>>
    /\ UNCHANGED <<hooks, snapshot, pending, group, received, outcome, done,
                   hookVars, ctxDone>>

ShutdownReturn(c) ==
    /\ caller[c] = "inDo"
    /\ OnceOver
    /\ caller' = [caller EXCEPT ![c] = "returned"]
    /\ UNCHANGED <<hooks, winnerVars, hookVars, ctxDone>>

-----------------------------------------------------------------------------
(* performShutdown, by the winner.                                         *)
Snapshot ==
    /\ pc = "begin"
    /\ snapshot' = hooks
    /\ pending' = hooks
    /\ pc' = "groups"
    /\ UNCHANGED <<hooks, caller, once, group, received, outcome, done,
                   hookVars, ctxDone>>

(* sort.Slice and groupByPriority: the next group is what is left of the   *)
(* smallest priority.                                                      *)
DescendingNextGroup ==             \* mutant: sorts the wrong way round
    {h \in pending : \A g \in pending : Prio[h] >= Prio[g]}
NextGroup == {h \in pending : \A g \in pending : Prio[h] <= Prio[g]}

(* The head of the loop: a done context skips all the groups that remain.  *)
NoContextCheck == pending # {}     \* mutant: goes on after the timeout
MayStartGroup == pending # {} /\ ~ctxDone
StopOnError ==                     \* mutant: an error ends the shutdown
    pending = {} \/ ctxDone \/ failed # {}
SkipRest == pending = {} \/ ctxDone

CheckGroup ==
    /\ pc = "groups"
    /\ \/ /\ MayStartGroup
          /\ pc' = "start"
       \/ /\ SkipRest
          /\ pc' = "report"
    /\ UNCHANGED <<hooks, caller, once, snapshot, pending, group, received,
                   outcome, done, hookVars, ctxDone>>

(* executeHookGroup starts one goroutine per hook.  The context may have   *)
(* ended since the check: the group then starts with a done context.       *)
StartGroup ==
    /\ pc = "start"
    /\ group' = NextGroup
    /\ pending' = pending \ NextGroup
    /\ hook' = [h \in Hook |-> IF h \in NextGroup THEN "running" ELSE hook[h]]
    /\ pc' = "collect"
    /\ UNCHANGED <<hooks, caller, once, snapshot, received, outcome, done,
                   failed, hookExpired, ctxDone>>

(* The select of the collecting loop: a result, or the context.  When both *)
(* are ready Go picks either.                                              *)
InErrChan(h) == hook[h] = "exited" /\ h \notin received

CollectedButOne(r) ==              \* mutant: off by one in the count
    Cardinality(group \ r) <= 1
Collected(r) == group \subseteq r

CollectResult(h) ==
    /\ pc = "collect"
    /\ h \in group
    /\ InErrChan(h)
    /\ received' = received \union {h}
    /\ pc' = IF Collected(received') THEN "groups" ELSE "collect"
    /\ UNCHANGED <<hooks, caller, once, snapshot, pending, group, outcome,
                   done, hookVars, ctxDone>>

CollectTimeout ==
    /\ pc = "collect"
    /\ ctxDone
    /\ pc' = "groups"
    /\ UNCHANGED <<hooks, caller, once, snapshot, pending, group, received,
                   outcome, done, hookVars, ctxDone>>

(* reportResults and the final verdict; the deferred cancel() ends the     *)
(* context of any hook goroutine that is still running.                    *)
Report ==
    /\ pc = "report"
    /\ outcome' = IF ctxDone THEN "timeout" ELSE "ok"
    /\ ctxDone' = TRUE
    /\ pc' = "close"
    /\ UNCHANGED <<hooks, caller, once, snapshot, pending, group, received,
                   done, hookVars>>

CloseDone ==
    /\ pc = "close"
    /\ done' = TRUE
    /\ pc' = "leave"
    /\ UNCHANGED <<hooks, caller, once, snapshot, pending, group, received,
                   outcome, hookVars, ctxDone>>

LeaveOnce ==
    /\ pc = "leave"
    /\ once' = "done"
    /\ pc' = "over"
    /\ UNCHANGED <<hooks, caller, snapshot, pending, group, received, outcome,
                   done, hookVars, ctxDone>>

-----------------------------------------------------------------------------
(* The timers.  context.WithTimeout(ctx, m.timeout) runs from the start of *)
(* performShutdown; the caller's ctx may also be cancelled.                *)
ContextEnds ==
    /\ pc \notin {"idle", "over"}
    /\ ~ctxDone
    /\ ctxDone' = TRUE
    /\ UNCHANGED <<hooks, caller, winnerVars, hookVars>>

HookTimeout(h) ==
    /\ hook[h] = "running"
    /\ ~ctxDone
    /\ h \notin hookExpired
    /\ hookExpired' = hookExpired \union {h}
    /\ UNCHANGED <<hooks, caller, winnerVars, hook, failed, ctxDone>>

(* A hook is arbitrary code: it may return at any time, with an error or   *)
(* without, or never, whether or not its context is done.                  *)
HookReturns(h) ==
    /\ hook[h] = "running"
    /\ hook' = [hook EXCEPT ![h] = "returned"]
    /\ \/ failed' = failed \union {h}
       \/ UNCHANGED failed
    /\ UNCHANGED <<hooks, caller, winnerVars, hookExpired, ctxDone>>

(* errChan is buffered, one slot per hook of the group.                    *)
GroupOf(h) == {g \in snapshot : Prio[g] = Prio[h]}
OneSlot(h) == 1                    \* mutant: a channel of capacity one
ErrChanCap(h) == Cardinality(GroupOf(h))

HookSends(h) ==
    /\ hook[h] = "returned"
    /\ Cardinality({g \in GroupOf(h) : InErrChan(g)}) < ErrChanCap(h)
    /\ hook' = [hook EXCEPT ![h] = "exited"]
    /\ UNCHANGED <<hooks, caller, winnerVars, failed, hookExpired, ctxDone>>

-----------------------------------------------------------------------------
Winner ==
    \/ Snapshot \/ CheckGroup \/ StartGroup
    \/ \E h \in Hook : CollectResult(h)
    \/ CollectTimeout \/ Report \/ CloseDone \/ LeaveOnce

Next ==
    \/ \E h \in Hook : RegisterHookWithPriority(h)
    \/ \E c \in Caller : ShutdownCall(c) \/ ShutdownReturn(c)
    \/ Winner
    \/ ContextEnds
    \/ \E h \in Hook : HookTimeout(h) \/ HookReturns(h) \/ HookSends(h)

(* Goroutines that can run are scheduled and timers fire.  Nothing is      *)
(* assumed of the hooks, nor that anyone calls Shutdown or registers.      *)
Fairness ==
    /\ WF_vars(Winner)
    /\ WF_vars(ContextEnds)
    /\ \A h \in Hook : WF_vars(HookSends(h))
    /\ \A c \in Caller : WF_vars(ShutdownReturn(c))

Safety == Init /\ [][Next]_vars
Spec == Safety /\ Fairness

-----------------------------------------------------------------------------
(* TypeOK: the values every variable ranges over; what the winner works on *)
(* stays within its own copy of the hooks, whatever is registered later.   *)
TypeOK ==
    /\ hooks \in SUBSET Hook
    /\ caller \in [Caller -> {"idle", "inDo", "returned"}]
    /\ once \in {"new", "running", "done"}
    /\ pc \in {"idle", "begin", "groups", "start", "collect", "report",
               "close", "leave", "over"}
    /\ snapshot \in SUBSET Hook /\ pending \in SUBSET snapshot
    /\ group \in SUBSET snapshot /\ received \in SUBSET snapshot
    /\ hook \in [Hook -> {"idle", "running", "returned", "exited"}]
    /\ failed \in SUBSET Hook /\ hookExpired \in SUBSET Hook
    /\ ctxDone \in BOOLEAN /\ done \in BOOLEAN
    /\ outcome \in {"none", "ok", "timeout"}

Started(h) == hook[h] # "idle"
Finished(h) == hook[h] \in {"returned", "exited"}

(* A hook of a later priority runs only after every hook of an earlier one *)
(* that this shutdown knows has returned: not even the global timeout lets *)
(* a later group overlap a hook that is still running.                     *)
PriorityOrder ==
    \A h, g \in snapshot :
        Started(h) /\ Prio[g] < Prio[h] => Finished(g)

(* The log line "completed successfully" is only written when every hook   *)
(* of the snapshot ran and its result was collected.                       *)
SuccessMeansAllRan ==
    outcome = "ok" => snapshot \subseteq received

(* Whoever returns from Shutdown, the goroutine that ran it or one that    *)
(* found it running, returns after done was closed and the verdict given.  *)
ReturnAfterDone ==
    \A c \in Caller : caller[c] = "returned" => done /\ outcome # "none"

(* A hook runs at most once, whatever the number of Shutdown calls.        *)
NeverRestarted ==
    [][\A h \in Hook : hook'[h] = "running" => hook[h] \in {"idle", "running"}]_vars

(* Shutdown ends even when hooks never return and ignore their context.    *)
ShutdownTerminates == once = "running" ~> done

(* Every hook registered when performShutdown starts gets its turn unless  *)
(* the global timeout comes first: an error or a hook timeout of one hook  *)
(* never skips another.                                                    *)
EveryHookGetsItsTurn ==
    \A h \in Hook : (pc = "begin" /\ h \in hooks) ~> (Started(h) \/ outcome = "timeout")

(* A hook goroutine whose hook returned never blocks on errChan, even when *)
(* the manager has stopped reading it.                                     *)
HookGoroutinesExit ==
    \A h \in Hook : hook[h] = "returned" ~> hook[h] = "exited"

(* The state is well typed, and nobody returns early (shutdown.go:113-117). *)
Inv == TypeOK /\ ReturnAfterDone

(* The shutdown ends, and so does every goroutine whose hook has returned, *)
(* long after the collector has left (shutdown.go:216-268).                *)
ShutdownEnds == ShutdownTerminates /\ HookGoroutinesExit

-----------------------------------------------------------------------------
(* The promise of StagedShutdown: a hook is finished once its function has *)
(* returned, and the deadline is the end of shutdownCtx.                   *)
Staged == INSTANCE StagedShutdown WITH
    plan    <- snapshot,
    status  <- [h \in Hook |-> IF Finished(h) THEN "finished"
                               ELSE IF Started(h) THEN "running" ELSE "waiting"],
    overdue <- ctxDone /\ outcome # "ok",
    closed  <- done

ImplementsStaged == Staged!Spec
=============================================================================
