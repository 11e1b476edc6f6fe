--------------------------- MODULE StagedShutdown ---------------------------
(***************************************************************************)
(* What shutdown.Manager promises to the code that registers hooks:        *)
(* hooks run in stages of ascending priority, a stage starts only when     *)
(* every planned hook of the earlier stages has finished, no hook starts   *)
(* twice, and the manager closes its done channel only when every planned  *)
(* hook has finished or the global deadline has passed.                    *)
(***************************************************************************)
EXTENDS Integers

CONSTANTS Hook,   \* the hooks that may ever be registered
          Prio    \* the priority each is registered with (smaller runs first)

VARIABLES plan,     \* the hooks this shutdown will run
          status,   \* hook -> "waiting", "running" or "finished"
          overdue,  \* has the global deadline passed?
          closed    \* is the done channel closed?

avars == <<plan, status, overdue, closed>>

Init ==
    /\ plan = {}
    /\ status = [h \in Hook |-> "waiting"]
    /\ overdue = FALSE
    /\ closed = FALSE

(* The set of hooks to run is fixed once, from the hooks known by then.    *)
Plan(S) ==
    /\ plan = {}
    /\ ~closed
    /\ plan' = S
    /\ UNCHANGED <<status, overdue, closed>>

(* One stage: every planned hook of one priority starts together.          *)
Launch(p) ==
    LET stage == {h \in plan : Prio[h] = p} IN
    /\ ~closed
    /\ stage # {}
    /\ \A h \in stage : status[h] = "waiting"
    /\ \A h \in plan : Prio[h] < p => status[h] = "finished"
    /\ status' = [h \in Hook |-> IF h \in stage THEN "running" ELSE status[h]]
    /\ UNCHANGED <<plan, overdue, closed>>

Finish(h) ==
    /\ status[h] = "running"
    /\ status' = [status EXCEPT ![h] = "finished"]
    /\ UNCHANGED <<plan, overdue, closed>>

Deadline ==
    /\ overdue' = TRUE
    /\ UNCHANGED <<plan, status, closed>>

Close ==
    /\ overdue \/ \A h \in plan : status[h] = "finished"
    /\ closed' = TRUE
    /\ UNCHANGED <<plan, status, overdue>>

Next ==
    \/ \E S \in SUBSET Hook : Plan(S)
    \/ \E h \in Hook : Launch(Prio[h]) \/ Finish(h)
    \/ Deadline
    \/ Close

Spec == Init /\ [][Next]_avars
=============================================================================
