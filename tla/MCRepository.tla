---------------------------- MODULE MCRepository ----------------------------
(* Two callers in four constellations (of one department, of two, of two   *)
(* tenants, and one without a tenant context), two rows.                   *)
EXTENDS Repository

CONSTANTS a, b, i1, i2, t1, t2, d1, d2
MCCaller == {a, b}
MCId == {i1, i2}
MCTenant == {t1, t2}
MCDept == {d1, d2}

User(t, d) == [known |-> TRUE, tenant |-> t, dept |-> d, admin |-> FALSE]
Admin(t, d) == [known |-> TRUE, tenant |-> t, dept |-> d, admin |-> TRUE]
Stranger == [known |-> FALSE, tenant |-> t1, dept |-> NoDept, admin |-> FALSE]
As(x, y) == [c \in MCCaller |-> IF c = a THEN x ELSE y]

MCClaims == {As(User(t1, d1), Admin(t1, NoDept)), As(User(t1, d1), User(t1, d2)),
             As(Admin(t1, d1), User(t2, d1)), As(User(t1, NoDept), Stranger)}

Existing(t, d) == [tenant |-> t, dept |-> d, val |-> 1, deleted |-> FALSE]
MCSeeds == {[i \in MCId |-> IF i = i1 THEN Existing(t1, d1) ELSE Existing(t1, d2)],
            [i \in MCId |-> IF i = i1 THEN Existing(t2, d1) ELSE Absent]}
MCBatches == {MCId}
MCVals == {2}
Fields(v, t, d) == [val |-> v, tenant |-> t, dept |-> d]
MCModels == {Fields(2, NoTenant, NoDept), Fields(2, t2, NoDept), Fields(0, NoTenant, d2)}
Request(strict, updates, allowed) ==
    [strict |-> strict, updates |-> updates, allowed |-> allowed, model |-> Fields(2, t2, NoDept)]
MCRequests == {Request(FALSE, {"val", "tenant_id", "other"}, {}),
               Request(FALSE, {"val", "other"}, {"val"}),
               Request(TRUE, {"val", "tenant_id"}, {"val", "tenant_id"}),
               Request(TRUE, {"val"}, {})}
MCStatements == [c \in MCCaller |-> IF c = a THEN 2 ELSE 1]
MCDepth == [c \in MCCaller |-> IF c = a THEN 2 ELSE 0]
=============================================================================
