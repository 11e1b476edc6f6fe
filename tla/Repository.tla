----------------------------- MODULE Repository -----------------------------
(***************************************************************************)
(* repository.RepositoryImpl (src/repository): goroutines that call the    *)
(* repository of one model with their own tenant context, alone or inside  *)
(* Execute, Transaction and ExecInTransaction, which may be nested.  The   *)
(* model has tenant_id, dept_id and deleted_at (soft deletion).            *)
(*                                                                         *)
(* GORM and the database are outside src/: statements are atomic, a        *)
(* transaction sees its own writes and what others have committed (read    *)
(* committed), a written row is locked until the transaction ends, and any *)
(* statement or commit may fail.  A failed statement changes nothing.      *)
(***************************************************************************)
EXTENDS Integers, FiniteSets, Sequences

CONSTANTS
    Caller, Id, Tenant, Dept,
    NoTenant, NoDept,   \* the zero tenant_id and dept_id
    MaxVal,             \* the data column ranges over 1 .. MaxVal, 0 is zero
    Vals, Models, Requests, \* the inputs of Create and Upsert, Update, UpdateByID
    Batches,            \* the sets of rows batches are about
    Claims,             \* the tenant contexts explored: [Caller -> Claim]
    Seeds,              \* the contents of the table at the start
    MaxStatements,      \* bound on the statements of each caller
    MaxDepth,           \* bound on the nested transactions of each
    Absent,             \* no row
    Same                \* a row a transaction has not written

Claim == [known : BOOLEAN, tenant : Tenant, dept : Dept \union {NoDept}, admin : BOOLEAN]
Row == [tenant : Tenant, dept : Dept \union {NoDept}, val : 0..MaxVal, deleted : BOOLEAN]
Table == [Id -> Row \union {Absent}]
Writes == [Id -> Row \union {Absent, Same}]

ASSUME RepositoryAssumption ==
    /\ Caller # {} /\ IsFiniteSet(Id)
    /\ MaxVal \in Nat
    /\ MaxStatements \in [Caller -> Nat] /\ MaxDepth \in [Caller -> Nat]
    /\ Claims \subseteq [Caller -> Claim]
    /\ Seeds \subseteq Table
    /\ Vals \subseteq 1..MaxVal /\ Batches \subseteq SUBSET Id
    /\ Models \subseteq [val : 0..MaxVal, tenant : Tenant \union {NoTenant},
                         dept : Dept \union {NoDept}]
    /\ Requests \subseteq [strict : BOOLEAN, updates : SUBSET STRING,
                           allowed : SUBSET STRING, model : Models]

VARIABLES
    claims,     \* the TenantContext in each caller's ctx (or none)
    db,         \* the committed rows
    frames,     \* the transaction functions each caller is in, innermost last
    overlay,    \* what the open transaction of each caller has written
    page,       \* the FindPage a caller is in, between its two statements
    last,       \* what the last step was, and what it answered
    statements, \* statements of each caller so far
    meant       \* what the statements given the transaction have written

vars == <<claims, db, frames, overlay, page, last, statements, meant>>

NothingWritten == [i \in Id |-> Same]
NoPage == [size |-> 0]
Merge(f, w) == [i \in Id |-> IF w[i] = Same THEN f[i] ELSE w[i]]

(* What a step answers: rows are the rows a statement returned or computed *)
(* its number from, all that it could see when scan.                       *)
Answer(c, op, unit, scan, rows) ==
    [who |-> c, op |-> op, ok |-> TRUE, unit |-> unit, scan |-> scan, rows |-> rows]
Quiet(c, op, status) ==
    [who |-> c, op |-> op, ok |-> status, unit |-> FALSE, scan |-> FALSE, rows |-> {}]

Init ==
    /\ claims \in Claims
    /\ db \in Seeds
    /\ frames = [c \in Caller |-> <<>>]
    /\ overlay = [c \in Caller |-> NothingWritten]
    /\ page = [c \in Caller |-> NoPage]
    /\ last = Quiet(CHOOSE c \in Caller : TRUE, "none", TRUE)
    /\ statements = [c \in Caller |-> 0]
    /\ meant = [c \in Caller |-> NothingWritten]

-----------------------------------------------------------------------------
(* The connection a statement runs on.  unit says that the caller gave it  *)
(* the transaction it is in: the ctx of Execute's function, or WithTx and  *)
(* WithTxContext; otherwise it used the ctx and repository from outside.   *)
Top(c) == frames[c][Len(frames[c])]
InTx(c) == frames[c] # <<>>
InCtx(c) == InTx(c) /\ Top(c).carries

(* The k-th function is an Execute in the ctx of an Execute.               *)
JoinsAt(c, k) == frames[c][k].call = "Execute" /\ k > 1 /\ frames[c][k - 1].carries

WithContext(c, unit) == unit /\ InTx(c)

View(c, unit) == IF WithContext(c, unit) THEN Merge(db, overlay[c]) ELSE db

(* A statement by c, which is not in the middle of FindPage.               *)
Statement(c, unit) ==
    /\ page[c] = NoPage
    /\ unit => InTx(c)
    /\ statements[c] < MaxStatements[c]
    /\ statements' = [statements EXCEPT ![c] = @ + 1]
    /\ UNCHANGED <<claims, frames>>

(* It waits for the rows it writes while another transaction has written   *)
(* them.                                                                   *)
Unlocked(c, unit, i) ==
    /\ \A d \in Caller \ {c} : overlay[d][i] = Same
    /\ WithContext(c, unit) \/ overlay[c][i] = Same

Write(c, unit, op, w) ==
    /\ Statement(c, unit)
    /\ \A i \in Id : w[i] # Same => Unlocked(c, unit, i)
    /\ IF WithContext(c, unit)
       THEN overlay' = [overlay EXCEPT ![c] = Merge(@, w)] /\ UNCHANGED db
       ELSE db' = Merge(db, w) /\ UNCHANGED overlay
    /\ meant' = IF unit THEN [meant EXCEPT ![c] = Merge(@, w)] ELSE meant
    /\ last' = Quiet(c, op, TRUE)
    /\ UNCHANGED page

Read(c, unit, op, scan, rows) ==
    /\ Statement(c, unit)
    /\ last' = Answer(c, op, unit, scan, rows)
    /\ UNCHANGED <<db, overlay, page, meant>>

(* Any statement may fail; one without a usable tenant context, with a     *)
(* duplicate key, or that finds no row to change, always does.             *)
StatementFails(c) ==
    /\ Statement(c, FALSE)
    /\ last' = Quiet(c, "error", FALSE)
    /\ UNCHANGED <<db, overlay, page, meant>>

-----------------------------------------------------------------------------
(* applyTenantScope and setTenantFields: the tenant context must be there, *)
(* and have a department unless it is an administrator's.                  *)
MayAct(c) == claims[c].known /\ (claims[c].admin \/ claims[c].dept # NoDept)

SameTenant(c, row) ==              \* mutant: the department is not compared
    row # Absent /\ row.tenant = claims[c].tenant
InScope(c, row) ==
    /\ row # Absent
    /\ row.tenant = claims[c].tenant
    /\ claims[c].admin \/ row.dept = claims[c].dept

Visible(c, row) == InScope(c, row) /\ ~row.deleted
VisibleRows(c, unit) ==
    LET v == View(c, unit) IN {<<i, v[i]>> : i \in {j \in Id : Visible(c, v[j])}}

(* The row of a model to insert: an administrator without a department     *)
(* leaves the model's own.                                                 *)
NewRow(c, val, dept) ==
    [tenant |-> claims[c].tenant,
     dept |-> IF claims[c].dept # NoDept THEN claims[c].dept ELSE dept,
     val |-> val, deleted |-> FALSE]

(* The rows f is about are written, the others are not.                    *)
On(f) == [i \in Id |-> IF i \in DOMAIN f THEN f[i] ELSE Same]

-----------------------------------------------------------------------------
(* Writes.                                                                 *)
CreateBatch(c, unit, S, val, dept) ==
    /\ MayAct(c)
    /\ S # {} /\ \A i \in S : View(c, unit)[i] = Absent
    /\ Write(c, unit, "create", On([i \in S |-> NewRow(c, val, dept)]))

Create(c, unit, i, val, dept) == CreateBatch(c, unit, {i}, val, dept)

(* Update writes every field of the model that is not zero, tenant_id and  *)
(* dept_id too.                                                            *)
Update(c, unit, i, model) ==
    LET row == View(c, unit)[i]
        updated ==
            [row EXCEPT !.val = IF model.val # 0 THEN model.val ELSE @,
                        !.tenant = IF model.tenant # NoTenant THEN model.tenant ELSE @,
                        !.dept = IF model.dept # NoDept THEN model.dept ELSE @] IN
    /\ MayAct(c)
    /\ Visible(c, row)
    /\ Write(c, unit, "update", On([j \in {i} |-> updated]))

(* filterUpdates.  In strict mode there must be a whitelist, and a key     *)
(* outside it or outside the schema is an error; the primary key, the      *)
(* tenant and the department are dropped silently in both modes.           *)
Schema == {"id", "tenant_id", "dept_id", "val"}
ScopeIsUpdatable == Schema \ {"id"} \* mutant: only the primary key is kept
Updatable == {"val"}
Rejects(q) ==
    /\ q.strict
    /\ \/ q.allowed = {}
       \/ ~(q.updates \subseteq q.allowed)
       \/ ~(q.updates \subseteq Schema)
FilterUpdates(q) == {k \in q.updates \intersect Updatable : q.allowed = {} \/ k \in q.allowed}

UpdateByID(c, unit, i, q) ==
    LET row == View(c, unit)[i]
        keys == FilterUpdates(q)
        updated ==
            [row EXCEPT !.val = IF "val" \in keys THEN q.model.val ELSE @,
                        !.tenant = IF "tenant_id" \in keys THEN q.model.tenant ELSE @] IN
    /\ ~Rejects(q)
    /\ keys # {}
    /\ MayAct(c)
    /\ Visible(c, row)
    /\ Write(c, unit, "updateByID", On([j \in {i} |-> updated]))

(* INSERT ... ON CONFLICT: an existing row, whoever owns it and deleted or *)
(* not, takes the model's updatable columns, deleted_at among them.        *)
Overwritten(row, val) == [row EXCEPT !.val = val, !.deleted = FALSE]

UpsertBatch(c, unit, S, val, dept) ==
    LET v == View(c, unit)
        upserted == [i \in S |->
                       IF v[i] = Absent THEN NewRow(c, val, dept)
                       ELSE Overwritten(v[i], val)] IN
    /\ MayAct(c)
    /\ S # {}
    /\ Write(c, unit, "upsert", On(upserted))

DeleteBatch(c, unit, S) ==
    LET v == View(c, unit)
        found == {i \in S : Visible(c, v[i])}
        deleted == [i \in found |-> [v[i] EXCEPT !.deleted = TRUE]] IN
    /\ MayAct(c)
    /\ found # {}
    /\ Write(c, unit, "delete", On(deleted))

Delete(c, unit, i) == DeleteBatch(c, unit, {i})

HardDelete(c, unit, i) ==
    /\ MayAct(c)
    /\ InScope(c, View(c, unit)[i])
    /\ Write(c, unit, "hardDelete", On([j \in {i} |-> Absent]))

-----------------------------------------------------------------------------
(* Reads.  A condition is a set of the rows it admits; the aggregates are  *)
(* represented by the rows they are computed from.                         *)
OnPool(c, unit) == VisibleRows(c, FALSE)  \* mutant: buildQuery uses r.db
BuildQuery(c, unit) == VisibleRows(c, unit)

FindByIDs(c, unit, S) ==
    /\ MayAct(c)
    /\ Read(c, unit, "find", FALSE, {r \in BuildQuery(c, unit) : r[1] \in S})

FindByID(c, unit, i) ==
    /\ MayAct(c)
    /\ \E r \in BuildQuery(c, unit) :
        r[1] = i /\ Read(c, unit, "find", FALSE, {r})

FindOne(c, unit, val) ==
    /\ MayAct(c)
    /\ \E r \in BuildQuery(c, unit) :
        r[2].val = val /\ Read(c, unit, "find", FALSE, {r})

FindByCondition(c, unit) ==
    MayAct(c) /\ Read(c, unit, "find", TRUE, BuildQuery(c, unit))

Count(c, unit) ==
    MayAct(c) /\ Read(c, unit, "count", TRUE, VisibleRows(c, unit))

Aggregate(c, unit) ==
    MayAct(c) /\ Read(c, unit, "aggregate", TRUE, VisibleRows(c, unit))

(* FindPage: the count and the list are two statements of one transaction  *)
(* (a savepoint when the caller is in one).                                *)
DefaultPageSize == 10
MaxPageSize == 100
PageSize(size) ==
    IF size < 1 THEN DefaultPageSize ELSE IF size > MaxPageSize THEN MaxPageSize ELSE size
PageNumber(number) == IF number < 1 THEN 1 ELSE number

FindPage(c, unit, number, size) ==
    /\ MayAct(c)
    /\ Statement(c, unit)
    /\ page' = [page EXCEPT ![c] =
                 [number |-> PageNumber(number), size |-> PageSize(size), unit |-> unit,
                  total |-> Cardinality(BuildQuery(c, unit))]]
    /\ last' = Answer(c, "pageCount", unit, TRUE, BuildQuery(c, unit))
    /\ UNCHANGED <<db, overlay, meant>>

PageLength(p, n) ==
    LET rest == n - (p.number - 1) * p.size IN
    IF rest < 0 THEN 0 ELSE IF rest < p.size THEN rest ELSE p.size

FindPageList(c) ==
    LET p == page[c]
        all == BuildQuery(c, p.unit) IN
    /\ p # NoPage
    /\ \E list \in SUBSET all :
        /\ Cardinality(list) = PageLength(p, Cardinality(all))
        /\ last' = Answer(c, "page", p.unit, FALSE, list)
    /\ page' = [page EXCEPT ![c] = NoPage]
    /\ UNCHANGED <<claims, db, frames, overlay, statements, meant>>

FindPageFails(c) ==
    /\ page[c] # NoPage
    /\ page' = [page EXCEPT ![c] = NoPage]
    /\ last' = Quiet(c, "error", FALSE)
    /\ UNCHANGED <<claims, db, frames, overlay, statements, meant>>

-----------------------------------------------------------------------------
(* Execute joins the transaction of its ctx; otherwise it begins one, or,  *)
(* on a repository bound by WithTx, a savepoint.  Transaction and          *)
(* ExecInTransaction begin a savepoint in any transaction, and do not put  *)
(* theirs in the ctx.                                                      *)
Push(c, call, kind, carries) ==
    /\ page[c] = NoPage
    /\ Len(frames[c]) < MaxDepth[c]
    /\ frames' = [frames EXCEPT ![c] = Append(@,
                   [call |-> call, kind |-> kind, carries |-> carries,
                    saved |-> IF kind = "savepoint" THEN overlay[c] ELSE NothingWritten,
                    savedMeant |-> IF call = "Execute" /\ InCtx(c) THEN NothingWritten
                                   ELSE meant[c]])]
    /\ last' = Quiet(c, "begin", TRUE)
    /\ UNCHANGED <<claims, db, overlay, page, statements, meant>>

NeverJoins(c) == FALSE             \* mutant: Execute always begins
HasTransaction(c) == InCtx(c)
Fresh(c) == IF InTx(c) THEN "savepoint" ELSE "tx"

Execute(c) ==
    Push(c, "Execute", IF HasTransaction(c) THEN "join" ELSE Fresh(c), TRUE)
Transaction(c) == Push(c, "Transaction", Fresh(c), InCtx(c))

(* The function returns, with an error or without: GORM commits, or rolls  *)
(* back to where it began; a commit may fail.                              *)
Forgiving(c, ok) == ok \/ ~Top(c).carries  \* mutant: the error is dropped
Keeps(c, ok) == ok

Pop(c, kind, op, ok) ==
    /\ InTx(c) /\ Top(c).kind = kind
    /\ page[c] = NoPage
    /\ frames' = [frames EXCEPT ![c] = SubSeq(@, 1, Len(@) - 1)]
    /\ last' = Quiet(c, op, ok)
    /\ UNCHANGED <<claims, page, statements>>

(* What stays of the statements meant for the transaction: all of them     *)
(* after an Execute that its caller's Execute contains, which alone        *)
(* decides; else none of them after an error.                              *)
Contained(c) == JoinsAt(c, Len(frames[c]))
StillMeant(c, ok) == IF ok \/ Contained(c) THEN meant[c] ELSE Top(c).savedMeant

LeaveJoined(c, ok) ==
    /\ Pop(c, "join", "left", ok)
    /\ meant' = [meant EXCEPT ![c] = StillMeant(c, ok)]
    /\ UNCHANGED <<db, overlay>>

LeaveSavepoint(c, ok) ==
    /\ Pop(c, "savepoint", "left", ok)
    /\ overlay' = [overlay EXCEPT ![c] = IF Keeps(c, ok) THEN @ ELSE Top(c).saved]
    /\ meant' = [meant EXCEPT ![c] = StillMeant(c, ok)]
    /\ UNCHANGED db

LeaveTransaction(c, ok) ==
    /\ Pop(c, "tx", "ended", ok)
    /\ db' = IF Keeps(c, ok) THEN Merge(db, overlay[c]) ELSE db
    /\ overlay' = [overlay EXCEPT ![c] = NothingWritten]
    /\ meant' = [meant EXCEPT ![c] = NothingWritten]

-----------------------------------------------------------------------------
WriteStep(c, unit) ==
    \/ \E i \in Id, v \in Vals, d \in Dept : Create(c, unit, i, v, d)
    \/ \E S \in Batches, v \in Vals, d \in Dept :
        CreateBatch(c, unit, S, v, d) \/ UpsertBatch(c, unit, S, v, d)
    \/ \E i \in Id, model \in Models : Update(c, unit, i, model)
    \/ \E i \in Id, q \in Requests : UpdateByID(c, unit, i, q)
    \/ \E i \in Id : Delete(c, unit, i) \/ HardDelete(c, unit, i)
    \/ \E S \in Batches : DeleteBatch(c, unit, S)

ReadStep(c, unit) ==
    \/ \E S \in Batches : FindByIDs(c, unit, S)
    \/ \E i \in Id : FindByID(c, unit, i)
    \/ \E v \in Vals : FindOne(c, unit, v)
    \/ FindByCondition(c, unit) \/ Count(c, unit) \/ Aggregate(c, unit)
    \/ \E number \in 0..2, size \in {0, 1, MaxPageSize + 1} : FindPage(c, unit, number, size)

TxStep(c) ==
    \/ Execute(c) \/ Transaction(c)
    \/ \E ok \in BOOLEAN :
        LeaveJoined(c, ok) \/ LeaveSavepoint(c, ok) \/ LeaveTransaction(c, ok)

Next ==
    \E c \in Caller :
        \/ \E unit \in BOOLEAN : WriteStep(c, unit) \/ ReadStep(c, unit)
        \/ StatementFails(c)
        \/ FindPageList(c) \/ FindPageFails(c)
        \/ TxStep(c)

Spec == Init /\ [][Next]_vars

-----------------------------------------------------------------------------
(* TypeOK: types of all the variables; a page is clamped.                  *)
TypeOK ==
    /\ claims \in Claims
    /\ db \in Table
    /\ \A c \in Caller : Len(frames[c]) <= MaxDepth[c] /\ statements[c] <= MaxStatements[c]
    /\ overlay \in [Caller -> Writes] /\ meant \in [Caller -> Writes]
    /\ \A c \in Caller : page[c] # NoPage =>
        /\ page[c].number >= 1
        /\ page[c].size \in 1..MaxPageSize
        /\ page[c].total \in 0..Cardinality(Id)
    /\ last.who \in Caller /\ last.ok \in BOOLEAN
    /\ last.rows \subseteq Id \X Row

(* Whatever nests in what, all that the statements given the transaction   *)
(* wrote, and has not been rolled back, is pending in that transaction and *)
(* nowhere else: no statement slips out of it or is undone alone.          *)
UnitPending == \A c \in Caller : overlay[c] = meant[c]

(* The state is well typed, pages are clamped, and units are whole while   *)
(* they are open (context.go:14-30, transaction.go:25-60).                 *)
Inv == TypeOK /\ UnitPending

(* When the outermost function returns, all of it appears in the table at  *)
(* once if the caller is told nil, and none of it if it is told an error.  *)
(* It follows from UnitPending and ImplementsUnits (RepositoryProofs).     *)
UnitEndsWhole ==
    [][\A c \in Caller : frames[c] # <<>> /\ frames'[c] = <<>> =>
         db' = IF last'.ok THEN Merge(db, meant[c]) ELSE db]_vars

(* What a caller may see: the rows of its tenant, and of its department    *)
(* unless it is an administrator; nothing without a tenant context.        *)
Own(c, row) ==
    /\ claims[c].known
    /\ row.tenant = claims[c].tenant
    /\ claims[c].admin \/ row.dept = claims[c].dept
ReadsStayInScope ==
    \A r \in last.rows : Own(last.who, r[2]) /\ ~r[2].deleted

(* Inside a transaction a full read shows the caller exactly what it has   *)
(* written itself of the rows it wrote, committed or not.                  *)
OwnWritesAreSeen ==
    LET c == last.who IN
    last.scan /\ last.unit => \A i \in Id : meant[c][i] # Same =>
        {r \in last.rows : r[1] = i} =
            IF meant[c][i] # Absent /\ Own(c, meant[c][i]) /\ ~meant[c][i].deleted
            THEN {<<i, meant[c][i]>>} ELSE {}

(* Apart from UpsertBatch, no write reaches a row out of the caller's      *)
(* scope; apart from Update, none moves a row to another tenant or         *)
(* department; a new row is the caller's tenant's.                         *)
Acts(c) == last'.who = c /\ statements'[c] # statements[c]
Changed(c, i) ==
    (IF db'[i] # db[i] THEN {[old |-> db[i], new |-> db'[i]]} ELSE {})
    \union
    (IF overlay'[c][i] # overlay[c][i]
     THEN {[old |-> Merge(db, overlay[c])[i], new |-> overlay'[c][i]]} ELSE {})
Allowed(c, op, old, new) ==
    /\ old = Absent => new.tenant = claims[c].tenant
    /\ old # Absent /\ op # "upsert" => Own(c, old)
    /\ old # Absent /\ new # Absent /\ op # "update" =>
            new.tenant = old.tenant /\ new.dept = old.dept
WritesStayInScope ==
    [][\A c \in Caller, i \in Id : Acts(c) =>
            \A change \in Changed(c, i) : Allowed(c, last'.op, change.old, change.new)]_vars

(* tenant.go says that all operations on tenant models are filtered by the *)
(* caller's tenant: none of them writes a row of another one.              *)
WritesStayInTenant ==
    [][\A c \in Caller, i \in Id : Acts(c) =>
            \A change \in Changed(c, i) :
                change.old # Absent => change.old.tenant = claims[c].tenant]_vars

(* Refinement: the transactions are units of work, whose parts are the     *)
(* functions; those that are an Execute in an Execute are not on their     *)
(* own.  The mapping sees the connections, not what callers meant.         *)
PartAt(c, k) ==
    [own |-> ~JoinsAt(c, k),
     begun |-> IF JoinsAt(c, k) THEN NothingWritten ELSE frames[c][k].saved]
Parts == [c \in Caller |-> [k \in 1..Len(frames[c]) |-> PartAt(c, k)]]

Units == INSTANCE UnitOfWork WITH
    Content <- Row \union {Absent},
    table <- db, work <- overlay, nest <- Parts, told <- last.ok

ImplementsUnits == Units!Spec
=============================================================================
