-------------------------- MODULE RepositoryProofs --------------------------
(***************************************************************************)
(* Proofs about Repository, for any callers, rows, tenants, departments,   *)
(* tenant contexts, inputs and depths of nested transactions: what a       *)
(* caller gave its transaction is pending in it and ends as a whole, its   *)
(* reads see it, and neither reads nor writes leave the caller's scope.    *)
(***************************************************************************)
EXTENDS Repository, FiniteSetTheorems, TLAPS

Frame == [call : {"Execute", "Transaction"}, kind : {"join", "savepoint", "tx"},
          carries : BOOLEAN, saved : Writes, savedMeant : Writes]

Types ==
    /\ claims \in Claims /\ db \in Table
    /\ frames \in [Caller -> Seq(Frame)]
    /\ overlay \in [Caller -> Writes] /\ meant \in [Caller -> Writes]
    /\ statements \in [Caller -> Nat]
    /\ page = [c \in Caller |-> page[c]]
    /\ \A c \in Caller : Len(frames[c]) <= MaxDepth[c] /\ statements[c] <= MaxStatements[c]

(* The outermost function, and no other, began the transaction; whatever   *)
(* joins is an Execute in the ctx of another; whatever rolls back to a     *)
(* savepoint is not, and remembers both views of the transaction alike.    *)
NestedAt(c, k) ==
    /\ frames[c][k].kind = "tx" <=> k = 1
    /\ frames[c][k].kind = "join" => JoinsAt(c, k)
    /\ frames[c][k].kind = "savepoint" =>
            frames[c][k].saved = frames[c][k].savedMeant /\ ~JoinsAt(c, k)
Nested == \A c \in Caller : \A k \in 1..Len(frames[c]) : NestedAt(c, k)

(* A page under way is clamped, and its caller has a tenant context that   *)
(* may act.                                                                *)
Page(p) ==
    /\ p.number >= 1 /\ p.size \in 1..MaxPageSize /\ p.unit \in BOOLEAN
    /\ p.total \in 0..Cardinality(Id)
Paging == \A c \in Caller : page[c] # NoPage => Page(page[c]) /\ MayAct(c)

(* What the last step has answered.                                        *)
LastTypes == last.who \in Caller /\ last.ok \in BOOLEAN /\ last.rows \subseteq Id \X Row
Answered == LastTypes /\ ReadsStayInScope /\ OwnWritesAreSeen

IInv == Types /\ Nested /\ UnitPending /\ Paging /\ Answered

-----------------------------------------------------------------------------
(* A transaction's view is a table, and what it writes on top of its       *)
(* writes are writes.                                                      *)
LEMMA MergeTypes ==
    ASSUME NEW w \in Writes
    PROVE  /\ \A f \in Table : Merge(f, w) \in Table
           /\ \A f \in Writes : Merge(f, w) \in Writes
BY DEF Merge, Table, Writes

(* What a caller reads is a row of the table, or of its own.               *)
LEMMA ViewTypes ==
    ASSUME Types, NEW c \in Caller, NEW unit \in BOOLEAN
    PROVE  View(c, unit) \in Table
BY MergeTypes DEF Types, View

(* The rows in scope are the caller's own, and no more than there are ids. *)
LEMMA VisibleTypes ==
    ASSUME Types, NEW c \in Caller, NEW unit \in BOOLEAN, MayAct(c)
    PROVE  /\ VisibleRows(c, unit) \subseteq Id \X Row
           /\ \A r \in VisibleRows(c, unit) : Own(c, r[2]) /\ ~r[2].deleted
           /\ Cardinality(VisibleRows(c, unit)) \in 0..Cardinality(Id)
<1> DEFINE rows == VisibleRows(c, unit)
           v == View(c, unit)
<1>1. v \in Table
  BY ViewTypes
<1>2. ASSUME NEW r \in rows
      PROVE  \E i \in Id : r = <<i, v[i]>> /\ v[i] \in Row /\ Visible(c, v[i])
  <2>1. PICK i \in Id : r = <<i, v[i]>> /\ Visible(c, v[i])
    BY <1>2 DEF VisibleRows
  <2> QED
    BY <1>1, <2>1 DEF Visible, InScope, Table
<1>3. rows \subseteq Id \X Row
  BY <1>2
<1>4. \A r \in rows : Own(c, r[2]) /\ ~r[2].deleted
  BY <1>2 DEF Visible, InScope, Own, MayAct
<1>5. Cardinality(rows) \in 0..Cardinality(Id)
  <2> DEFINE f == [r \in rows |-> r[1]]
  <2>1. \A r, s \in rows : r[1] = s[1] => r = s
    BY <1>2
  <2>2. f \in Injection(rows, Id)
    <3> HIDE DEF rows
    <3> QED
      BY <1>3, <2>1 DEF Injection, IsInjective
  <2>3. IsFiniteSet(Id)
    BY RepositoryAssumption
  <2>4. IsFiniteSet(rows) /\ Cardinality(rows) <= Cardinality(Id)
    <3> HIDE DEF f, rows
    <3> QED
      BY <2>2, <2>3, FS_Injection
  <2> QED
    BY <2>3, <2>4, FS_CardinalityType
<1> QED
  BY <1>3, <1>4, <1>5

(* At first nothing is open.                                               *)
LEMMA InitIInv == Init => IInv
<1> SUFFICES ASSUME Init PROVE IInv
  OBVIOUS
<1> USE RepositoryAssumption DEF Init
<1>1. NothingWritten \in Writes
  BY DEF NothingWritten, Writes
<1>2. Types
  <2>1. db \in Table /\ claims \in Claims
    OBVIOUS
  <2>2. overlay \in [Caller -> Writes] /\ meant \in [Caller -> Writes]
    BY <1>1
  <2>3. \A c \in Caller : frames[c] = <<>> /\ statements[c] = 0 /\ MaxDepth[c] \in Nat /\ MaxStatements[c] \in Nat
    OBVIOUS
  <2>4. frames \in [Caller -> Seq(Frame)] /\ statements \in [Caller -> Nat]
    OBVIOUS
  <2>5. \A c \in Caller : Len(frames[c]) <= MaxDepth[c] /\ statements[c] <= MaxStatements[c]
    BY <2>3
  <2>6. page = [c \in Caller |-> page[c]]
    OBVIOUS
  <2> QED
    BY <2>1, <2>2, <2>4, <2>5, <2>6 DEF Types
<1>3. Nested /\ UnitPending /\ Paging
  BY DEF Nested, UnitPending, Paging
<1>4. Answered
  <2>1. (CHOOSE c \in Caller : TRUE) \in Caller
    OBVIOUS
  <2> QED
    BY <2>1 DEF Answered, LastTypes, ReadsStayInScope, OwnWritesAreSeen, Quiet
<1> QED
  BY <1>2, <1>3, <1>4 DEF IInv

-----------------------------------------------------------------------------
(* A step that answers no rows.                                            *)
LEMMA QuietKeeps ==
    ASSUME NEW c \in Caller, NEW op, NEW status \in BOOLEAN, last' = Quiet(c, op, status)
    PROVE  Answered'
BY DEF Quiet, Answered, LastTypes, ReadsStayInScope, OwnWritesAreSeen

(* A full read in a transaction shows what it wrote of the rows it wrote.  *)
LEMMA OwnWritesShow ==
    ASSUME Types, UnitPending, NEW c \in Caller, InTx(c), MayAct(c), NEW i \in Id, meant[c][i] # Same
    PROVE  {r \in VisibleRows(c, TRUE) : r[1] = i} =
               IF meant[c][i] # Absent /\ Own(c, meant[c][i]) /\ ~meant[c][i].deleted
               THEN {<<i, meant[c][i]>>} ELSE {}
<1> DEFINE v == View(c, TRUE)
<1>1. v[i] = meant[c][i]
  BY DEF View, WithContext, Merge, UnitPending
<1>2. Visible(c, v[i]) <=> meant[c][i] # Absent /\ Own(c, meant[c][i]) /\ ~meant[c][i].deleted
  BY <1>1 DEF Visible, InScope, Own, MayAct
<1>3. {r \in VisibleRows(c, TRUE) : r[1] = i} = IF Visible(c, v[i]) THEN {<<i, v[i]>>} ELSE {}
  <2> HIDE DEF v
  <2>1. VisibleRows(c, TRUE) = {<<j, v[j]>> : j \in {k \in Id : Visible(c, v[k])}}
    BY DEF VisibleRows, v
  <2>2. \A r : r \in VisibleRows(c, TRUE) /\ r[1] = i <=> r = <<i, v[i]>> /\ Visible(c, v[i])
    <3>1. ASSUME NEW r, r \in VisibleRows(c, TRUE), r[1] = i
          PROVE  r = <<i, v[i]>> /\ Visible(c, v[i])
      <4>1. PICK j \in Id : r = <<j, v[j]>> /\ Visible(c, v[j])
        BY <2>1, <3>1
      <4> QED
        BY <3>1, <4>1
    <3>2. Visible(c, v[i]) => <<i, v[i]>> \in VisibleRows(c, TRUE)
      BY <2>1
    <3>3. ASSUME NEW r, r = <<i, v[i]>> PROVE r[1] = i
      BY <3>3
    <3> QED
      BY <3>1, <3>2, <3>3
  <2> QED
    BY <2>2
<1> QED
  BY <1>1, <1>2, <1>3

(* A step that answers rows the caller can see, and all of them if it      *)
(* scans.                                                                  *)
LEMMA AnswerKeeps ==
    ASSUME Types, UnitPending, NEW c \in Caller, NEW unit \in BOOLEAN, NEW op, NEW scan \in BOOLEAN,
           NEW rows \in SUBSET VisibleRows(c, unit), scan => rows = VisibleRows(c, unit),
           MayAct(c), scan /\ unit => InTx(c),
           last' = Answer(c, op, unit, scan, rows), UNCHANGED <<claims, meant>>
    PROVE  Answered'
<1>1. /\ last'.who = c /\ last'.ok = TRUE /\ last'.rows = rows
      /\ last'.scan = scan /\ last'.unit = unit
  BY DEF Answer
<1>2. LastTypes'
  BY <1>1, VisibleTypes DEF LastTypes
<1>3. ReadsStayInScope'
  BY <1>1, VisibleTypes DEF ReadsStayInScope, Own
<1>4. OwnWritesAreSeen'
  <2>1. ASSUME scan, unit, NEW i \in Id, meant[c][i] # Same
        PROVE  {r \in rows : r[1] = i} =
                   IF meant[c][i] # Absent /\ Own(c, meant[c][i]) /\ ~meant[c][i].deleted
                   THEN {<<i, meant[c][i]>>} ELSE {}
    BY <2>1, OwnWritesShow
  <2>2. ASSUME last'.scan, last'.unit, NEW i \in Id, meant'[last'.who][i] # Same
        PROVE  {r \in last'.rows : r[1] = i} =
                   IF /\ meant'[last'.who][i] # Absent
                      /\ Own(last.who, meant[last.who][i])' /\ ~meant'[last'.who][i].deleted
                   THEN {<<i, meant'[last'.who][i]>>} ELSE {}
    <3>1. scan /\ unit /\ meant[c][i] # Same /\ meant'[last'.who][i] = meant[c][i]
      BY <1>1, <2>2
    <3>2. Own(last.who, meant[last.who][i])' <=> Own(c, meant[c][i])
      BY <1>1 DEF Own
    <3>3. {r \in last'.rows : r[1] = i} = {r \in rows : r[1] = i}
      BY <1>1
    <3>4. {r \in rows : r[1] = i} =
              IF meant[c][i] # Absent /\ Own(c, meant[c][i]) /\ ~meant[c][i].deleted
              THEN {<<i, meant[c][i]>>} ELSE {}
      BY <2>1, <3>1
    <3> DEFINE row == meant[c][i]
               shown == {r \in rows : r[1] = i}
    <3> HIDE DEF shown, row
    <3> QED
      BY <3>1, <3>2, <3>3, <3>4 DEF shown, row
  <2> QED
    BY <2>2 DEF OwnWritesAreSeen
<1> QED
  BY <1>2, <1>3, <1>4 DEF Answered

-----------------------------------------------------------------------------
(* A statement counts, and leaves what is open alone.                      *)
LEMMA StatementTypes ==
    ASSUME IInv, NEW c \in Caller, NEW unit \in BOOLEAN, Statement(c, unit)
    PROVE  /\ statements' \in [Caller -> Nat] /\ \A d \in Caller : statements'[d] <= MaxStatements[d]
           /\ UNCHANGED <<claims, frames>> /\ Nested' /\ (unit => InTx(c)) /\ page[c] = NoPage
<1>1. UNCHANGED <<claims, frames>> /\ (unit => InTx(c)) /\ page[c] = NoPage
  BY DEF Statement
<1>2. Nested'
  BY <1>1 DEF IInv, Nested, NestedAt, JoinsAt
<1>3. statements' \in [Caller -> Nat] /\ \A d \in Caller : statements'[d] <= MaxStatements[d]
  <2>1. MaxStatements[c] \in Nat
    BY RepositoryAssumption
  <2> QED
    BY <2>1 DEF Statement, IInv, Types
<1> QED
  BY <1>1, <1>2, <1>3

(* Writes go where the caller meant them.                                  *)
LEMMA WriteKeeps ==
    ASSUME IInv, NEW c \in Caller, NEW unit \in BOOLEAN, NEW op, NEW w \in Writes, Write(c, unit, op, w)
    PROVE  IInv'
<1>1. Statement(c, unit) /\ last' = Quiet(c, op, TRUE) /\ UNCHANGED page
  BY DEF Write
<1>2. /\ statements' \in [Caller -> Nat] /\ \A d \in Caller : statements'[d] <= MaxStatements[d]
      /\ UNCHANGED <<claims, frames>> /\ Nested' /\ (unit => InTx(c))
  BY <1>1, StatementTypes
<1>3. \/ /\ unit /\ overlay' = [overlay EXCEPT ![c] = Merge(@, w)] /\ UNCHANGED db
         /\ meant' = [meant EXCEPT ![c] = Merge(@, w)]
      \/ ~unit /\ db' = Merge(db, w) /\ UNCHANGED <<overlay, meant>>
  BY <1>2 DEF Write, WithContext
<1>4. db' \in Table /\ overlay' \in [Caller -> Writes] /\ meant' \in [Caller -> Writes]
  <2>1. Merge(db, w) \in Table /\ Merge(overlay[c], w) \in Writes /\ Merge(meant[c], w) \in Writes
    BY MergeTypes DEF IInv, Types
  <2> QED
    BY <1>3, <2>1 DEF IInv, Types
<1>5. Types'
  BY <1>1, <1>2, <1>4 DEF IInv, Types
<1>6. UnitPending'
  BY <1>3 DEF IInv, UnitPending, Types
<1>7. Paging'
  BY <1>1, <1>2 DEF IInv, Paging, MayAct
<1>8. Answered'
  BY <1>1, QuietKeeps
<1> QED
  BY <1>2, <1>5, <1>6, <1>7, <1>8 DEF IInv

(* Reads change nothing but the answer.                                    *)
LEMMA ReadKeeps ==
    ASSUME IInv, NEW c \in Caller, NEW unit \in BOOLEAN, NEW op, NEW scan \in BOOLEAN,
           NEW rows \in SUBSET VisibleRows(c, unit), scan => rows = VisibleRows(c, unit),
           MayAct(c), Read(c, unit, op, scan, rows)
    PROVE  IInv'
<1>1. /\ Statement(c, unit) /\ last' = Answer(c, op, unit, scan, rows)
      /\ UNCHANGED <<db, overlay, page, meant>>
  BY DEF Read
<1>2. /\ statements' \in [Caller -> Nat] /\ \A d \in Caller : statements'[d] <= MaxStatements[d]
      /\ UNCHANGED <<claims, frames>> /\ Nested' /\ (unit => InTx(c))
  BY <1>1, StatementTypes
<1>3. Types' /\ UnitPending' /\ Paging'
  BY <1>1, <1>2 DEF IInv, Types, UnitPending, Paging, MayAct
<1>4. Answered'
  BY <1>1, <1>2, AnswerKeeps DEF IInv
<1> QED
  BY <1>2, <1>3, <1>4 DEF IInv

(* A statement fails.                                                      *)
LEMMA FailKeeps ==
    ASSUME IInv, NEW c \in Caller, StatementFails(c)
    PROVE  IInv'
<1>1. /\ Statement(c, FALSE) /\ last' = Quiet(c, "error", FALSE)
      /\ UNCHANGED <<db, overlay, page, meant>>
  BY DEF StatementFails
<1>2. /\ statements' \in [Caller -> Nat] /\ \A d \in Caller : statements'[d] <= MaxStatements[d]
      /\ UNCHANGED <<claims, frames>> /\ Nested'
  BY <1>1, StatementTypes
<1>3. Types' /\ UnitPending' /\ Paging'
  BY <1>1, <1>2 DEF IInv, Types, UnitPending, Paging, MayAct
<1> QED
  BY <1>1, <1>2, <1>3, QuietKeeps DEF IInv

(* The two statements of a page.                                           *)
LEMMA PageKeeps ==
    ASSUME IInv, NEW c \in Caller,
           \/ \E unit \in BOOLEAN, number \in Int, size \in Int : FindPage(c, unit, number, size)
           \/ FindPageList(c) \/ FindPageFails(c)
    PROVE  IInv'
<1>1. ASSUME NEW unit \in BOOLEAN, NEW number \in Int, NEW size \in Int, FindPage(c, unit, number, size)
      PROVE  IInv'
  <2> DEFINE p == [number |-> PageNumber(number), size |-> PageSize(size), unit |-> unit,
                   total |-> Cardinality(BuildQuery(c, unit))]
  <2>1. /\ MayAct(c) /\ Statement(c, unit) /\ page' = [page EXCEPT ![c] = p]
        /\ last' = Answer(c, "pageCount", unit, TRUE, VisibleRows(c, unit))
        /\ UNCHANGED <<db, overlay, meant>>
    BY <1>1 DEF FindPage, BuildQuery
  <2>2. /\ statements' \in [Caller -> Nat] /\ \A d \in Caller : statements'[d] <= MaxStatements[d]
        /\ UNCHANGED <<claims, frames>> /\ Nested' /\ (unit => InTx(c))
    BY <2>1, StatementTypes
  <2>3. Page(p)
    <3>1. Cardinality(BuildQuery(c, unit)) \in 0..Cardinality(Id)
      BY <2>1, VisibleTypes DEF BuildQuery, IInv
    <3> QED
      BY <3>1 DEF Page, PageNumber, PageSize, MaxPageSize, DefaultPageSize
  <2>4. Types' /\ UnitPending'
    BY <2>1, <2>2 DEF IInv, Types, UnitPending
  <2>5. Paging'
    <3> HIDE DEF p
    <3> QED
      BY <2>1, <2>2, <2>3 DEF IInv, Types, Paging, MayAct
  <2>6. Answered'
    BY <2>1, <2>2, AnswerKeeps DEF IInv
  <2> QED
    BY <2>2, <2>4, <2>5, <2>6 DEF IInv
<1>2. CASE FindPageList(c) \/ FindPageFails(c)
  <2>1. /\ page[c] # NoPage /\ page' = [page EXCEPT ![c] = NoPage]
        /\ UNCHANGED <<claims, db, frames, overlay, statements, meant>>
    BY <1>2 DEF FindPageList, FindPageFails
  <2>2. Types' /\ Nested' /\ UnitPending' /\ Paging'
    BY <2>1 DEF IInv, Types, Nested, NestedAt, JoinsAt, UnitPending, Paging, MayAct
  <2>3. Answered'
    <3>1. CASE FindPageFails(c)
      BY <3>1, QuietKeeps DEF FindPageFails
    <3>2. CASE FindPageList(c)
      <4>1. MayAct(c) /\ page[c].unit \in BOOLEAN
        BY <2>1 DEF IInv, Paging, Page
      <4>2. PICK list \in SUBSET VisibleRows(c, page[c].unit) :
                last' = Answer(c, "page", page[c].unit, FALSE, list)
        BY <3>2 DEF FindPageList, BuildQuery
      <4> QED
        BY <2>1, <4>1, <4>2, AnswerKeeps DEF IInv
    <3> QED
      BY <1>2, <3>1, <3>2
  <2> QED
    BY <2>2, <2>3 DEF IInv
<1> QED
  BY <1>1, <1>2

-----------------------------------------------------------------------------
(* The innermost function of a transaction.                                *)
LEMMA TopIsFrame ==
    ASSUME Types, NEW c \in Caller, InTx(c)
    PROVE  Len(frames[c]) \in Nat \ {0} /\ Top(c) \in Frame
BY DEF Types, InTx, Top

(* A function begins: it joins if its caller's ctx carries a transaction   *)
(* and it is an Execute.                                                   *)
LEMMA PushKeeps ==
    ASSUME IInv, NEW c \in Caller, NEW call \in {"Execute", "Transaction"}, NEW carries \in BOOLEAN, NEW kind,
           kind = (IF call = "Execute" /\ InCtx(c) THEN "join" ELSE Fresh(c)),
           Push(c, call, kind, carries)
    PROVE  IInv'
<1> DEFINE frame == [call |-> call, kind |-> kind, carries |-> carries,
                     saved |-> IF kind = "savepoint" THEN overlay[c] ELSE NothingWritten,
                     savedMeant |-> IF call = "Execute" /\ InCtx(c) THEN NothingWritten ELSE meant[c]]
<1>1. /\ frames' = [frames EXCEPT ![c] = Append(frames[c], frame)] /\ Len(frames[c]) < MaxDepth[c]
      /\ last' = Quiet(c, "begin", TRUE) /\ UNCHANGED <<claims, db, overlay, page, statements, meant>>
  BY DEF Push
<1>2. frame \in Frame
  <2>1. NothingWritten \in Writes
    BY DEF NothingWritten, Writes
  <2> QED
    BY <2>1 DEF Frame, Fresh, IInv, Types
<1>3. Types'
  <2>1. MaxDepth[c] \in Nat /\ frames[c] \in Seq(Frame)
    BY RepositoryAssumption DEF IInv, Types
  <2>2. Append(frames[c], frame) \in Seq(Frame) /\ Len(Append(frames[c], frame)) <= MaxDepth[c]
    <3> HIDE DEF frame
    <3> QED
      BY <1>1, <1>2, <2>1
  <2> HIDE DEF frame
  <2> QED
    BY <1>1, <2>2 DEF IInv, Types
<1>4. Nested'
  <2>0. PICK n \in Nat : n = Len(frames[c])
    <3>1. frames[c] \in Seq(Frame)
      BY DEF IInv, Types
    <3> QED
      BY <3>1
  <2>1. n = Len(frames[c]) /\ n \in Nat /\ frames[c] \in Seq(Frame) /\ (InTx(c) <=> n > 0)
    BY <2>0 DEF IInv, Types, InTx
  <2>2. /\ frame.kind = "tx" <=> n + 1 = 1
        /\ frame.kind = "join" => call = "Execute" /\ n > 0 /\ frames[c][n].carries
        /\ frame.kind = "savepoint" =>
                frame.saved = frame.savedMeant /\ ~(call = "Execute" /\ n > 0 /\ frames[c][n].carries)
    BY <2>1 DEF Fresh, InCtx, Top, IInv, UnitPending
  <2>3. /\ frames'[c] = Append(frames[c], frame)
        /\ \A d \in Caller : d # c => frames'[d] = frames[d]
    BY <1>1 DEF IInv, Types
  <2>4. NestedAt(c, n + 1)'
    <3> DEFINE k == n + 1
    <3>1. frames'[c][k] = frame /\ (n > 0 => frames'[c][k - 1] = frames[c][n]) /\ (k > 1 <=> n > 0)
      BY <2>1, <2>3
    <3>2. frame.call = call
      OBVIOUS
    <3> HIDE DEF frame
    <3> QED
      BY <2>1, <2>2, <3>1, <3>2 DEF NestedAt, JoinsAt
  <2>5. ASSUME NEW k \in 1..n PROVE NestedAt(c, k)'
    <3>1. frames'[c][k] = frames[c][k] /\ (k > 1 => frames'[c][k - 1] = frames[c][k - 1])
      BY <2>1, <2>3, <2>5
    <3>2. NestedAt(c, k)
      BY <2>1, <2>5 DEF IInv, Nested
    <3> HIDE DEF frame
    <3> QED
      BY <3>1, <3>2 DEF NestedAt, JoinsAt
  <2>6. ASSUME NEW d \in Caller, d # c, NEW k \in 1..Len(frames'[d]) PROVE NestedAt(d, k)'
    BY <2>3, <2>6 DEF IInv, Nested, NestedAt, JoinsAt
  <2>7. Len(frames'[c]) = n + 1
    <3> HIDE DEF frame
    <3> QED
      BY <2>1, <2>3, <1>2
  <2>8. ASSUME NEW k \in 1..Len(frames'[c]) PROVE NestedAt(c, k)'
    <3> HIDE DEF frame
    <3>1. k = n + 1 \/ k \in 1..n
      BY <2>1, <2>7
    <3> QED
      BY <2>4, <2>5, <3>1
  <2> QED
    BY <2>6, <2>8 DEF Nested
<1>5. UnitPending' /\ Paging'
  BY <1>1 DEF IInv, UnitPending, Paging, MayAct
<1>6. Answered'
  BY <1>1, QuietKeeps
<1> QED
  BY <1>3, <1>4, <1>5, <1>6 DEF IInv

(* Whatever returns, what is below it stays as it was.                     *)
LEMMA PopTypes ==
    ASSUME IInv, NEW c \in Caller, NEW kind, NEW op, NEW ok \in BOOLEAN, Pop(c, kind, op, ok)
    PROVE  /\ frames' \in [Caller -> Seq(Frame)] /\ \A d \in Caller : Len(frames'[d]) <= MaxDepth[d]
           /\ Nested' /\ Paging' /\ Answered'
<1> DEFINE n == Len(frames[c])
<1>1. /\ frames' = [frames EXCEPT ![c] = SubSeq(frames[c], 1, n - 1)]
      /\ last' = Quiet(c, op, ok) /\ UNCHANGED <<claims, page, statements>>
  BY DEF Pop
<1>2. n \in Nat \ {0} /\ frames[c] \in Seq(Frame) /\ MaxDepth[c] \in Nat /\ n <= MaxDepth[c]
  BY TopIsFrame, RepositoryAssumption DEF IInv, Types, Pop
<1>3. /\ SubSeq(frames[c], 1, n - 1) \in Seq(Frame) /\ Len(SubSeq(frames[c], 1, n - 1)) = n - 1
      /\ \A k \in 1..n - 1 : SubSeq(frames[c], 1, n - 1)[k] = frames[c][k]
  BY <1>2
<1>4. frames' \in [Caller -> Seq(Frame)] /\ \A d \in Caller : Len(frames'[d]) <= MaxDepth[d]
  BY <1>1, <1>2, <1>3 DEF IInv, Types
<1>5. /\ Len(frames'[c]) = n - 1 /\ \A k \in 1..n - 1 : frames'[c][k] = frames[c][k]
      /\ \A d \in Caller : d # c => frames'[d] = frames[d]
  BY <1>1, <1>3 DEF IInv, Types
<1>6. Nested'
  <2> SUFFICES ASSUME NEW d \in Caller, NEW k \in 1..Len(frames'[d])
               PROVE  NestedAt(d, k)'
    BY DEF Nested
  <2>1. k \in 1..Len(frames[d]) /\ frames'[d][k] = frames[d][k]
        /\ (k > 1 => frames'[d][k - 1] = frames[d][k - 1])
    BY <1>2, <1>5
  <2> QED
    BY <2>1 DEF IInv, Nested, NestedAt, JoinsAt
<1>7. Paging' /\ Answered'
  BY <1>1, QuietKeeps DEF IInv, Paging, MayAct
<1> QED
  BY <1>4, <1>6, <1>7

(* What is kept and what the caller means to keep agree.                   *)
LEMMA LeaveKeeps ==
    ASSUME IInv, NEW c \in Caller, NEW ok \in BOOLEAN,
           LeaveJoined(c, ok) \/ LeaveSavepoint(c, ok) \/ LeaveTransaction(c, ok)
    PROVE  IInv'
<1> DEFINE n == Len(frames[c])
<1>1. \E kind, op : Pop(c, kind, op, ok)
  BY DEF LeaveJoined, LeaveSavepoint, LeaveTransaction
<1>2. /\ frames' \in [Caller -> Seq(Frame)] /\ \A d \in Caller : Len(frames'[d]) <= MaxDepth[d]
      /\ Nested' /\ Paging' /\ Answered'
  BY <1>1, PopTypes
<1>3. InTx(c) /\ UNCHANGED <<claims, page, statements>>
  BY <1>1 DEF Pop
<1>4. /\ n \in Nat \ {0} /\ Top(c) = frames[c][n] /\ Top(c) \in Frame
      /\ Contained(c) <=> JoinsAt(c, n)
  BY <1>3, TopIsFrame DEF IInv, Top, Contained, JoinsAt
<1>5. \/ UNCHANGED <<db, overlay, meant>>
      \/ \E w \in Writes : /\ overlay' = [overlay EXCEPT ![c] = w] /\ meant' = [meant EXCEPT ![c] = w]
                           /\ db' \in {db, Merge(db, overlay[c])}
  <2>1. CASE LeaveJoined(c, ok)
    <3>1. Contained(c)
      BY <1>4, <2>1 DEF LeaveJoined, Pop, IInv, Nested, NestedAt
    <3> QED
      BY <2>1, <3>1 DEF LeaveJoined, StillMeant, IInv, Types
  <2>2. CASE LeaveSavepoint(c, ok)
    <3>1. ~Contained(c) /\ Top(c).saved = Top(c).savedMeant
      BY <1>4, <2>2 DEF LeaveSavepoint, Pop, IInv, Nested, NestedAt
    <3>2. CASE ok
      BY <2>2, <3>2 DEF LeaveSavepoint, StillMeant, Keeps, IInv, Types
    <3>3. CASE ~ok
      <4>1. Top(c).saved \in Writes
        BY <1>4 DEF Frame
      <4> QED
        BY <2>2, <3>1, <3>3, <4>1 DEF LeaveSavepoint, StillMeant, Keeps
    <3> QED
      BY <3>2, <3>3
  <2>3. CASE LeaveTransaction(c, ok)
    <3>1. NothingWritten \in Writes
      BY DEF NothingWritten, Writes
    <3> QED
      BY <2>3, <3>1 DEF LeaveTransaction
  <2> QED
    BY <2>1, <2>2, <2>3
<1>6. Merge(db, overlay[c]) \in Table
  BY MergeTypes DEF IInv, Types
<1>7. Types' /\ UnitPending'
  BY <1>2, <1>3, <1>5, <1>6 DEF IInv, Types, UnitPending
<1> QED
  BY <1>2, <1>7 DEF IInv

-----------------------------------------------------------------------------
(* A write may change each row it is about as it does.                     *)
Permits(c, unit, op, w) ==
    \A i \in Id : w[i] # Same => Allowed(c, op, View(c, unit)[i], w[i])
Permitted(c, unit) == \E op : \E w \in Writes : Write(c, unit, op, w) /\ Permits(c, unit, op, w)

(* It is enough to look at the rows it is about.                           *)
LEMMA OnPermits ==
    ASSUME NEW c \in Caller, NEW unit \in BOOLEAN, NEW op, NEW f, DOMAIN f \subseteq Id,
           \A i \in DOMAIN f : f[i] \in Row \union {Absent} /\ Allowed(c, op, View(c, unit)[i], f[i]),
           Write(c, unit, op, On(f))
    PROVE  Permitted(c, unit)
<1>1. On(f) \in Writes
  BY DEF On, Writes
<1>2. Permits(c, unit, op, On(f))
  BY DEF Permits, On
<1> QED
  BY <1>1, <1>2 DEF Permitted

(* A caller's claims, and the rows it inserts.                             *)
LEMMA NewRowIsOwn ==
    ASSUME Types, NEW c \in Caller, NEW val \in Vals, NEW dept \in Dept
    PROVE  NewRow(c, val, dept) \in Row /\ NewRow(c, val, dept).tenant = claims[c].tenant
BY RepositoryAssumption DEF Types, NewRow, Row, Claim

(* Inserts.                                                                *)
LEMMA CreatePermitted ==
    ASSUME Types, NEW c \in Caller, NEW unit \in BOOLEAN, NEW S \in SUBSET Id,
           NEW val \in Vals, NEW dept \in Dept, CreateBatch(c, unit, S, val, dept)
    PROVE  Permitted(c, unit)
<1> DEFINE f == [i \in S |-> NewRow(c, val, dept)]
<1>1. Write(c, unit, "create", On(f)) /\ \A i \in S : View(c, unit)[i] = Absent
  BY DEF CreateBatch
<1>2. \A i \in S : f[i] \in Row /\ Allowed(c, "create", View(c, unit)[i], f[i])
  BY <1>1, NewRowIsOwn DEF Allowed
<1> HIDE DEF f
<1>3. DOMAIN f = S
  BY DEF f
<1> QED
  BY <1>1, <1>2, <1>3, OnPermits

(* Upserts overwrite rows they do not own, without moving them.            *)
LEMMA UpsertPermitted ==
    ASSUME Types, NEW c \in Caller, NEW unit \in BOOLEAN, NEW S \in SUBSET Id,
           NEW val \in Vals, NEW dept \in Dept, UpsertBatch(c, unit, S, val, dept)
    PROVE  Permitted(c, unit)
<1> DEFINE v == View(c, unit)
           f == [i \in S |-> IF v[i] = Absent THEN NewRow(c, val, dept) ELSE Overwritten(v[i], val)]
<1>1. Write(c, unit, "upsert", On(f))
  BY DEF UpsertBatch
<1>2. ASSUME NEW i \in S PROVE f[i] \in Row /\ Allowed(c, "upsert", v[i], f[i])
  <2>1. CASE v[i] = Absent
    BY <2>1, NewRowIsOwn DEF Allowed
  <2>2. CASE v[i] # Absent
    <3>1. v[i] \in Row /\ val \in 0..MaxVal
      BY <2>2, ViewTypes, RepositoryAssumption DEF Table
    <3>2. f[i] = [v[i] EXCEPT !.val = val, !.deleted = FALSE]
      BY <2>2 DEF Overwritten
    <3> HIDE DEF f, v
    <3> QED
      BY <2>2, <3>1, <3>2 DEF Row, Allowed
  <2> QED
    BY <2>1, <2>2
<1> HIDE DEF f
<1>3. DOMAIN f = S
  BY DEF f
<1> QED
  BY <1>1, <1>2, <1>3, OnPermits

(* A row in scope is a row, and the caller's own.                          *)
LEMMA InScopeIsOwn ==
    ASSUME Types, NEW c \in Caller, NEW unit \in BOOLEAN, NEW i \in Id, MayAct(c), InScope(c, View(c, unit)[i])
    PROVE  /\ View(c, unit)[i] \in Row /\ View(c, unit)[i] # Absent
           /\ Own(c, View(c, unit)[i])
BY ViewTypes DEF InScope, Own, MayAct, Table

(* Update may move a row the caller owns.                                  *)
LEMMA UpdatePermitted ==
    ASSUME Types, NEW c \in Caller, NEW unit \in BOOLEAN, NEW i \in Id, NEW model \in Models,
           Update(c, unit, i, model)
    PROVE  Permitted(c, unit)
<1> DEFINE row == View(c, unit)[i]
           updated == [row EXCEPT !.val = IF model.val # 0 THEN model.val ELSE @,
                                  !.tenant = IF model.tenant # NoTenant THEN model.tenant ELSE @,
                                  !.dept = IF model.dept # NoDept THEN model.dept ELSE @]
           f == [j \in {i} |-> updated]
<1>1. Write(c, unit, "update", On(f)) /\ MayAct(c) /\ InScope(c, row)
  BY DEF Update, Visible
<1>2. row \in Row /\ row # Absent /\ Own(c, row)
  BY <1>1, InScopeIsOwn
<1>3. updated \in Row
  <2>1. /\ model.val \in 0..MaxVal /\ model.tenant \in Tenant \union {NoTenant}
        /\ model.dept \in Dept \union {NoDept}
    BY RepositoryAssumption
  <2> HIDE DEF row
  <2> QED
    BY <1>2, <2>1 DEF Row
<1>4. Allowed(c, "update", row, updated)
  BY <1>2 DEF Allowed
<1> HIDE DEF updated
<1> QED
  BY <1>1, <1>3, <1>4, OnPermits

(* UpdateByID writes val alone, whatever the keys it is given.             *)
LEMMA UpdateByIDPermitted ==
    ASSUME Types, NEW c \in Caller, NEW unit \in BOOLEAN, NEW i \in Id, NEW q \in Requests,
           UpdateByID(c, unit, i, q)
    PROVE  Permitted(c, unit)
<1> DEFINE row == View(c, unit)[i]
           keys == FilterUpdates(q)
           updated == [row EXCEPT !.val = IF "val" \in keys THEN q.model.val ELSE @,
                                  !.tenant = IF "tenant_id" \in keys THEN q.model.tenant ELSE @]
           f == [j \in {i} |-> updated]
<1>1. Write(c, unit, "updateByID", On(f)) /\ MayAct(c) /\ InScope(c, row)
  BY DEF UpdateByID, Visible
<1>2. row \in Row /\ row # Absent /\ Own(c, row)
  BY <1>1, InScopeIsOwn
<1>3. keys \subseteq {"val"}
  BY DEF FilterUpdates, Updatable
<1>4. q.model.val \in 0..MaxVal
  BY RepositoryAssumption
<1>5. updated \in Row /\ updated.tenant = row.tenant /\ updated.dept = row.dept
  <2> HIDE DEF row, keys
  <2> QED
    BY <1>2, <1>3, <1>4 DEF Row
<1>6. Allowed(c, "updateByID", row, updated)
  <2> HIDE DEF updated
  <2> QED
    BY <1>2, <1>5 DEF Allowed
<1> HIDE DEF updated
<1> QED
  BY <1>1, <1>5, <1>6, OnPermits

(* Deletions, soft and hard, are of rows the caller owns.                  *)
LEMMA DeletePermitted ==
    ASSUME Types, NEW c \in Caller, NEW unit \in BOOLEAN, NEW S \in SUBSET Id, DeleteBatch(c, unit, S)
    PROVE  Permitted(c, unit)
<1> DEFINE v == View(c, unit)
           found == {i \in S : Visible(c, v[i])}
           f == [i \in found |-> [v[i] EXCEPT !.deleted = TRUE]]
<1>1. Write(c, unit, "delete", On(f)) /\ MayAct(c)
  BY DEF DeleteBatch
<1>2. ASSUME NEW i \in found PROVE f[i] \in Row /\ Allowed(c, "delete", v[i], f[i])
  <2>1. i \in Id /\ InScope(c, v[i])
    BY DEF Visible
  <2>2. v[i] \in Row /\ v[i] # Absent /\ Own(c, v[i])
    BY <1>1, <2>1, InScopeIsOwn
  <2>3. f[i] = [v[i] EXCEPT !.deleted = TRUE]
    OBVIOUS
  <2> HIDE DEF f, v
  <2> QED
    BY <2>2, <2>3 DEF Row, Allowed
<1>3. found \subseteq Id /\ DOMAIN f = found
  OBVIOUS
<1> HIDE DEF f, found
<1> QED
  BY <1>1, <1>2, <1>3, OnPermits

(* A hard deletion finds a row that is deleted softly, too.                *)
LEMMA HardDeletePermitted ==
    ASSUME Types, NEW c \in Caller, NEW unit \in BOOLEAN, NEW i \in Id, HardDelete(c, unit, i)
    PROVE  Permitted(c, unit)
<1> DEFINE row == View(c, unit)[i]
           f == [j \in {i} |-> Absent]
<1>1. Write(c, unit, "hardDelete", On(f)) /\ MayAct(c) /\ InScope(c, row)
  BY DEF HardDelete
<1>2. row \in Row /\ row # Absent /\ Own(c, row)
  BY <1>1, InScopeIsOwn
<1>3. Allowed(c, "hardDelete", row, Absent)
  BY <1>2 DEF Allowed
<1> QED
  BY <1>1, <1>3, OnPermits

(* Whatever a caller writes it may write.                                  *)
LEMMA WritesPermitted ==
    ASSUME Types, NEW c \in Caller, NEW unit \in BOOLEAN, WriteStep(c, unit)
    PROVE  Permitted(c, unit)
<1>1. ASSUME NEW i \in Id, NEW val \in Vals, NEW dept \in Dept, Create(c, unit, i, val, dept)
      PROVE  Permitted(c, unit)
  BY <1>1, CreatePermitted DEF Create
<1>2. ASSUME NEW S \in Batches, NEW val \in Vals, NEW dept \in Dept,
             CreateBatch(c, unit, S, val, dept) \/ UpsertBatch(c, unit, S, val, dept)
      PROVE  Permitted(c, unit)
  BY <1>2, CreatePermitted, UpsertPermitted, RepositoryAssumption
<1>3. ASSUME NEW S \in Batches, DeleteBatch(c, unit, S) PROVE Permitted(c, unit)
  BY <1>3, DeletePermitted, RepositoryAssumption
<1>4. ASSUME NEW i \in Id, Delete(c, unit, i) \/ HardDelete(c, unit, i) PROVE Permitted(c, unit)
  BY <1>4, DeletePermitted, HardDeletePermitted DEF Delete
<1> QED
  BY <1>1, <1>2, <1>3, <1>4, UpdatePermitted, UpdateByIDPermitted DEF WriteStep

-----------------------------------------------------------------------------
(* The reads of ReadStep answer rows the caller can see.                   *)
LEMMA ReadStepKeeps ==
    ASSUME IInv, NEW c \in Caller, NEW unit \in BOOLEAN, ReadStep(c, unit)
    PROVE  IInv'
<1>1. ASSUME MayAct(c), NEW op, NEW rows \in SUBSET VisibleRows(c, unit), Read(c, unit, op, FALSE, rows)
      PROVE  IInv'
  BY <1>1, ReadKeeps
<1>2. ASSUME MayAct(c), NEW op, Read(c, unit, op, TRUE, VisibleRows(c, unit))
      PROVE  IInv'
  BY <1>2, ReadKeeps
<1>3. ASSUME NEW S \in Batches, FindByIDs(c, unit, S) PROVE IInv'
  <2> DEFINE rows == {r \in VisibleRows(c, unit) : r[1] \in S}
  <2>1. MayAct(c) /\ Read(c, unit, "find", FALSE, rows) /\ rows \in SUBSET VisibleRows(c, unit)
    BY <1>3 DEF FindByIDs, BuildQuery
  <2> HIDE DEF rows
  <2> QED
    BY <1>1, <2>1
<1>4. ASSUME NEW x, FindByID(c, unit, x) \/ FindOne(c, unit, x) PROVE IInv'
  <2>1. PICK r \in VisibleRows(c, unit) : Read(c, unit, "find", FALSE, {r})
    BY <1>4 DEF FindByID, FindOne, BuildQuery
  <2>2. MayAct(c) /\ {r} \in SUBSET VisibleRows(c, unit)
    BY <1>4 DEF FindByID, FindOne
  <2> QED
    BY <1>1, <2>1, <2>2
<1>5. CASE FindByCondition(c, unit) \/ Count(c, unit) \/ Aggregate(c, unit)
  BY <1>2, <1>5 DEF FindByCondition, Count, Aggregate, BuildQuery
<1>6. ASSUME NEW number \in 0..2, NEW size \in {0, 1, MaxPageSize + 1}, FindPage(c, unit, number, size)
      PROVE  IInv'
  <2>1. number \in Int /\ size \in Int
    BY DEF MaxPageSize
  <2> QED
    BY <1>6, <2>1, PageKeeps
<1> QED
  BY <1>3, <1>4, <1>5, <1>6 DEF ReadStep

(* Execute, Transaction, and their ends.                                   *)
LEMMA TxStepKeeps ==
    ASSUME IInv, NEW c \in Caller, TxStep(c)
    PROVE  IInv'
<1>1. CASE Execute(c)
  BY <1>1, PushKeeps DEF Execute, HasTransaction
<1>2. CASE Transaction(c)
  <2>1. InCtx(c) \in BOOLEAN
    BY TopIsFrame DEF InCtx, IInv, Frame
  <2> QED
    BY <1>2, <2>1, PushKeeps DEF Transaction
<1> QED
  BY <1>1, <1>2, LeaveKeeps DEF TxStep

(* IInv is inductive.                                                      *)
LEMMA StepKeeps == IInv /\ [Next]_vars => IInv'
<1> SUFFICES ASSUME IInv, [Next]_vars PROVE IInv'
  OBVIOUS
<1>1. ASSUME NEW c \in Caller, NEW unit \in BOOLEAN, WriteStep(c, unit) PROVE IInv'
  BY <1>1, WritesPermitted, WriteKeeps DEF Permitted, IInv
<1>2. ASSUME NEW c \in Caller, NEW unit \in BOOLEAN, ReadStep(c, unit) PROVE IInv'
  BY <1>2, ReadStepKeeps
<1>3. ASSUME NEW c \in Caller, StatementFails(c) \/ FindPageList(c) \/ FindPageFails(c) \/ TxStep(c)
      PROVE  IInv'
  BY <1>3, FailKeeps, PageKeeps, TxStepKeeps
<1>4. CASE UNCHANGED vars
  BY <1>4 DEF vars, IInv, Types, Nested, NestedAt, JoinsAt, UnitPending, Paging, MayAct, Answered, LastTypes,
              ReadsStayInScope, OwnWritesAreSeen, Own
<1> QED
  BY <1>1, <1>2, <1>3, <1>4 DEF Next

(* IInv holds throughout.                                                  *)
THEOREM Invariance == Spec => []IInv
BY InitIInv, StepKeeps, PTL DEF Spec

(* What the statements given a transaction have written is pending in it   *)
(* and nowhere else, whatever nests in what and fails (context.go:14-30,   *)
(* transaction.go:25-60).                                                  *)
THEOREM UnitsArePending == Spec => []Inv
<1>1. IInv => Inv
  <2> SUFFICES ASSUME IInv PROVE Inv
    OBVIOUS
  <2>1. \A c \in Caller : page[c] # NoPage =>
            page[c].number >= 1 /\ page[c].size \in 1..MaxPageSize /\ page[c].total \in 0..Cardinality(Id)
    BY DEF IInv, Paging, Page
  <2>2. TypeOK
    BY <2>1 DEF IInv, Types, Answered, LastTypes, TypeOK
  <2> QED
    BY <2>2 DEF IInv, Inv
<1> QED
  BY <1>1, Invariance, PTL

(* No read answers a row out of its caller's scope, nor a deleted one      *)
(* (tenant_scope.go:18-48).                                                *)
THEOREM ReadsAreScoped == Spec => []ReadsStayInScope
<1>1. IInv => ReadsStayInScope
  BY DEF IInv, Answered
<1> QED
  BY <1>1, Invariance, PTL

(* A full read in a transaction shows what it wrote of the rows it wrote   *)
(* (query.go:19-55, context.go:14-30).                                     *)
THEOREM TransactionsSeeTheirWrites == Spec => []OwnWritesAreSeen
<1>1. IInv => OwnWritesAreSeen
  BY DEF IInv, Answered
<1> QED
  BY <1>1, Invariance, PTL

-----------------------------------------------------------------------------
(* Statements leave the transaction functions alone, and reads the rows.   *)
LEMMA StatementsLeaveFrames ==
    ASSUME IInv, NEW c \in Caller,
           \/ \E unit \in BOOLEAN : WriteStep(c, unit) \/ ReadStep(c, unit)
           \/ StatementFails(c) \/ FindPageList(c) \/ FindPageFails(c)
    PROVE  UNCHANGED frames
<1>1. ASSUME NEW unit \in BOOLEAN, WriteStep(c, unit) PROVE UNCHANGED frames
  BY <1>1, WritesPermitted DEF IInv, Permitted, Write, Statement
<1>2. ASSUME NEW unit \in BOOLEAN, ReadStep(c, unit) PROVE UNCHANGED frames
  BY <1>2 DEF ReadStep, FindByIDs, FindByID, FindOne, FindByCondition, Count, Aggregate, FindPage,
              Read, Statement
<1> QED
  BY <1>1, <1>2 DEF StatementFails, FindPageList, FindPageFails, Statement

(* Reads and failed statements change no row.                              *)
LEMMA ReadsLeaveRows ==
    ASSUME NEW c \in Caller,
           \/ \E unit \in BOOLEAN : ReadStep(c, unit)
           \/ StatementFails(c) \/ FindPageList(c) \/ FindPageFails(c)
    PROVE  UNCHANGED <<db, overlay>>
BY DEF ReadStep, FindByIDs, FindByID, FindOne, FindByCondition, Count, Aggregate, FindPage, Read,
       StatementFails, FindPageList, FindPageFails

(* The function that returns last began the transaction.                   *)
LEMMA LastEndsTransaction ==
    ASSUME IInv, Next, NEW c \in Caller, frames[c] # <<>>, frames'[c] = <<>>
    PROVE  \E ok \in BOOLEAN : LeaveTransaction(c, ok)
<1>1. PICK d \in Caller : TxStep(d)
  BY StatementsLeaveFrames DEF Next
<1>2. frames[c] \in Seq(Frame)
  BY DEF IInv, Types
<1>3. ~Execute(d) /\ ~Transaction(d)
  <2> SUFFICES ASSUME Execute(d) \/ Transaction(d) PROVE FALSE
    OBVIOUS
  <2>1. PICK frame : frames' = [frames EXCEPT ![d] = Append(frames[d], frame)]
    BY DEF Execute, Transaction, Push
  <2>2. frames'[c] = frames[c] \/ frames'[c] = Append(frames[c], frame)
    BY <2>1 DEF IInv, Types
  <2>3. Append(frames[c], frame)[Len(frames[c]) + 1] = frame /\ Len(Append(frames[c], frame)) = Len(frames[c]) + 1
    BY <1>2
  <2> QED
    BY <1>2, <2>2, <2>3
<1>4. PICK ok \in BOOLEAN : LeaveJoined(d, ok) \/ LeaveSavepoint(d, ok) \/ LeaveTransaction(d, ok)
  BY <1>1, <1>3 DEF TxStep
<1>5. frames' = [frames EXCEPT ![d] = SubSeq(frames[d], 1, Len(frames[d]) - 1)] /\ InTx(d)
  BY <1>4 DEF LeaveJoined, LeaveSavepoint, LeaveTransaction, Pop
<1>6. d = c
  BY <1>5 DEF IInv, Types
<1>7. Len(frames[c]) = 1
  <2>1. PICK n \in Nat : n = Len(frames[c])
    BY <1>2
  <2>2. SubSeq(frames[c], 1, n - 1) = <<>>
    BY <1>5, <1>6, <2>1 DEF IInv, Types
  <2>3. ASSUME n > 1 PROVE FALSE
    <3>1. SubSeq(frames[c], 1, n - 1) \in Seq(Frame) /\ Len(SubSeq(frames[c], 1, n - 1)) = n - 1
      BY <1>2, <2>1, <2>3
    <3>2. Len(<<>>) = 0
      OBVIOUS
    <3>3. Len(<<>>) = n - 1
      BY <2>2, <3>1, Zenon
    <3> QED
      BY <2>3, <3>2, <3>3
  <2>4. n # 0
    BY <1>2, <2>1
  <2>5. n = 1
    BY <2>3, <2>4
  <2> QED
    BY <2>1, <2>5
<1>8. Top(c).kind = "tx"
  BY <1>7 DEF IInv, Nested, NestedAt, Top
<1> QED
  BY <1>4, <1>6, <1>8 DEF LeaveJoined, LeaveSavepoint, Pop

(* When the outermost function returns, the table has all of what was      *)
(* meant if the caller is told nil, and nothing of it if it is told an     *)
(* error (transaction.go:17-90).                                           *)
THEOREM UnitsEndWhole == Spec => UnitEndsWhole
<1> DEFINE Whole(c) == frames[c] # <<>> /\ frames'[c] = <<>> =>
                          db' = IF last'.ok THEN Merge(db, meant[c]) ELSE db
<1>1. ASSUME IInv, Next, NEW c \in Caller PROVE Whole(c)
  <2> SUFFICES ASSUME frames[c] # <<>>, frames'[c] = <<>>
               PROVE  db' = IF last'.ok THEN Merge(db, meant[c]) ELSE db
    OBVIOUS
  <2>1. PICK ok \in BOOLEAN : LeaveTransaction(c, ok)
    BY <1>1, LastEndsTransaction
  <2>2. last'.ok = ok /\ overlay[c] = meant[c]
    BY <1>1, <2>1 DEF LeaveTransaction, Pop, Quiet, IInv, UnitPending
  <2> QED
    BY <2>1, <2>2 DEF LeaveTransaction, Keeps
<1>2. IInv /\ [Next]_vars => [\A c \in Caller : Whole(c)]_vars
  BY <1>1
<1> QED
  BY <1>2, Invariance, PTL DEF Spec, UnitEndsWhole

-----------------------------------------------------------------------------
(* What a permitted write changes, in the table or in the transaction.     *)
LEMMA PermittedChanges ==
    ASSUME IInv, NEW c \in Caller, NEW unit \in BOOLEAN, Permitted(c, unit), NEW i \in Id,
           NEW change \in Changed(c, i)
    PROVE  Allowed(c, last'.op, change.old, change.new)
<1>1. PICK op : \E w \in Writes : Write(c, unit, op, w) /\ Permits(c, unit, op, w)
  BY DEF Permitted
<1>2. PICK w \in Writes : Write(c, unit, op, w) /\ Permits(c, unit, op, w)
  BY <1>1
<1>3. last'.op = op
  BY <1>2 DEF Write, Quiet
<1>4. CASE WithContext(c, unit)
  <2>1. UNCHANGED db /\ overlay'[c] = Merge(overlay[c], w)
    BY <1>2, <1>4 DEF Write, IInv, Types
  <2>2. /\ overlay'[c][i] # overlay[c][i]
        /\ change.old = Merge(db, overlay[c])[i] /\ change.new = overlay'[c][i]
    BY <2>1 DEF Changed
  <2>3. w[i] # Same /\ change.new = w[i]
    BY <2>1, <2>2 DEF Merge
  <2>4. change.old = View(c, unit)[i]
    BY <1>4, <2>2 DEF View
  <2> QED
    BY <1>2, <1>3, <2>3, <2>4 DEF Permits
<1>5. CASE ~WithContext(c, unit)
  <2>1. UNCHANGED overlay /\ db' = Merge(db, w)
    BY <1>2, <1>5 DEF Write
  <2>2. db'[i] # db[i] /\ change.old = db[i] /\ change.new = db'[i]
    BY <2>1 DEF Changed
  <2>3. w[i] # Same /\ change.new = w[i]
    BY <2>1, <2>2 DEF Merge
  <2>4. change.old = View(c, unit)[i]
    BY <1>5, <2>2 DEF View
  <2> QED
    BY <1>2, <1>3, <2>3, <2>4 DEF Permits
<1> QED
  BY <1>4, <1>5

(* Apart from upserts no write reaches a row out of the caller's scope,    *)
(* and apart from Update none moves one (crud.go:141-441,                  *)
(* tenant_scope.go:18-119).                                                *)
THEOREM WritesAreScoped == Spec => WritesStayInScope
<1> DEFINE Scoped(c, i) == Acts(c) => \A change \in Changed(c, i) :
                               Allowed(c, last'.op, change.old, change.new)
<1>1. ASSUME IInv, Next, NEW c \in Caller, NEW i \in Id PROVE Scoped(c, i)
  <2> SUFFICES ASSUME Acts(c), NEW change \in Changed(c, i)
               PROVE  Allowed(c, last'.op, change.old, change.new)
    OBVIOUS
  <2>1. ASSUME NEW d \in Caller, NEW unit \in BOOLEAN, WriteStep(d, unit)
        PROVE  Allowed(c, last'.op, change.old, change.new)
    <3>1. Permitted(d, unit)
      BY <1>1, <2>1, WritesPermitted DEF IInv
    <3>2. d = c
      BY <3>1 DEF Permitted, Write, Quiet, Acts
    <3> QED
      BY <1>1, <3>1, <3>2, PermittedChanges
  <2>2. ASSUME NEW d \in Caller,
               \/ \E unit \in BOOLEAN : ReadStep(d, unit)
               \/ StatementFails(d) \/ FindPageList(d) \/ FindPageFails(d)
        PROVE  FALSE
    BY <2>2, ReadsLeaveRows DEF Changed
  <2>3. ASSUME NEW d \in Caller, TxStep(d) PROVE FALSE
    BY <2>3 DEF TxStep, Execute, Transaction, Push, LeaveJoined, LeaveSavepoint, LeaveTransaction, Pop, Acts
  <2> QED
    BY <1>1, <2>1, <2>2, <2>3 DEF Next
<1>2. IInv /\ [Next]_vars => [\A c \in Caller, i \in Id : Scoped(c, i)]_vars
  BY <1>1
<1> QED
  BY <1>2, Invariance, PTL DEF Spec, WritesStayInScope

-----------------------------------------------------------------------------
(* Nothing is pending for a caller that is in no transaction.              *)
Idle == \A c \in Caller : frames[c] = <<>> => overlay[c] = NothingWritten

(* It is the outermost function that ends, and it alone.                   *)
LEMMA TopKind ==
    ASSUME IInv, NEW c \in Caller, InTx(c)
    PROVE  /\ Len(frames[c]) \in Nat \ {0}
           /\ Top(c).kind = "tx" <=> Len(frames[c]) = 1
           /\ Top(c).kind = "join" => JoinsAt(c, Len(frames[c]))
           /\ Top(c).kind = "savepoint" => ~JoinsAt(c, Len(frames[c]))
<1>1. PICK n \in Nat \ {0} : n = Len(frames[c])
  BY TopIsFrame DEF IInv
<1>2. NestedAt(c, n)
  BY <1>1 DEF IInv, Nested
<1> QED
  BY <1>1, <1>2 DEF NestedAt, Top

(* Idle is preserved.                                                      *)
LEMMA IdleKeeps == IInv /\ Idle /\ [Next]_vars => Idle'
<1> SUFFICES ASSUME IInv, Idle, [Next]_vars PROVE Idle'
  OBVIOUS
<1>1. ASSUME NEW c \in Caller, NEW unit \in BOOLEAN, WriteStep(c, unit) PROVE Idle'
  <2>1. PICK op : \E w \in Writes : Write(c, unit, op, w)
    BY <1>1, WritesPermitted DEF Permitted, IInv
  <2>2. UNCHANGED frames /\ (WithContext(c, unit) \/ UNCHANGED overlay)
    BY <2>1 DEF Write, Statement
  <2>3. WithContext(c, unit) => frames[c] # <<>> /\ \A d \in Caller : d # c => overlay'[d] = overlay[d]
    BY <2>1 DEF Write, WithContext, InTx, IInv, Types
  <2> QED
    BY <2>2, <2>3 DEF Idle
<1>2. ASSUME NEW c \in Caller,
             \/ \E unit \in BOOLEAN : ReadStep(c, unit)
             \/ StatementFails(c) \/ FindPageList(c) \/ FindPageFails(c)
      PROVE  Idle'
  BY <1>2, ReadsLeaveRows, StatementsLeaveFrames DEF Idle
<1>3. ASSUME NEW c \in Caller, TxStep(c) PROVE Idle'
  <2>1. CASE Execute(c) \/ Transaction(c)
    <3>1. PICK frame : frames' = [frames EXCEPT ![c] = Append(frames[c], frame)] /\ UNCHANGED overlay
      BY <2>1 DEF Execute, Transaction, Push
    <3>2. frames[c] \in Seq(Frame)
      BY DEF IInv, Types
    <3>3. Len(Append(frames[c], frame)) = Len(frames[c]) + 1 /\ Len(frames[c]) \in Nat
      BY <3>2
    <3>4. frames'[c] # <<>> /\ \A d \in Caller : d # c => frames'[d] = frames[d]
      BY <3>1, <3>3 DEF IInv, Types
    <3> QED
      BY <3>1, <3>4 DEF Idle
  <2>2. ASSUME NEW ok \in BOOLEAN, LeaveTransaction(c, ok) PROVE Idle'
    BY <2>2 DEF LeaveTransaction, Pop, Idle, IInv, Types
  <2>3. ASSUME NEW ok \in BOOLEAN, LeaveJoined(c, ok) \/ LeaveSavepoint(c, ok) PROVE Idle'
    <3>1. /\ \A d \in Caller : d # c => frames'[d] = frames[d] /\ overlay'[d] = overlay[d]
          /\ frames[c] # <<>>
      BY <2>3 DEF LeaveJoined, LeaveSavepoint, Pop, InTx, IInv, Types
    <3>2. ASSUME frames'[c] = <<>> PROVE FALSE
      <4>1. Next
        BY <1>3 DEF Next
      <4>2. \E x \in BOOLEAN : LeaveTransaction(c, x)
        BY <3>1, <3>2, <4>1, LastEndsTransaction
      <4>3. Top(c).kind = "tx"
        BY <4>2 DEF LeaveTransaction, Pop
      <4> QED
        BY <2>3, <4>3 DEF LeaveJoined, LeaveSavepoint, Pop
    <3> QED
      BY <3>1, <3>2 DEF Idle
  <2> QED
    BY <1>3, <2>1, <2>2, <2>3 DEF TxStep
<1>4. CASE UNCHANGED vars
  BY <1>4 DEF vars, Idle
<1> QED
  BY <1>1, <1>2, <1>3, <1>4 DEF Next

(* The parts are the functions, one by one.                                *)
LEMMA PartsTypes ==
    ASSUME Types, NEW c \in Caller
    PROVE  /\ Parts[c] \in Seq([own : BOOLEAN, begun : Writes])
           /\ Len(Parts[c]) = Len(frames[c]) /\ Len(frames[c]) \in Nat
           /\ \A k \in 1..Len(frames[c]) : Parts[c][k] = PartAt(c, k)
           /\ Parts[c] = <<>> <=> frames[c] = <<>>
<1> DEFINE n == Len(frames[c])
<1>1. n \in Nat /\ frames[c] \in Seq(Frame)
  BY DEF Types
<1>2. ASSUME NEW k \in 1..n PROVE PartAt(c, k) \in [own : BOOLEAN, begun : Writes]
  <2>1. frames[c][k] \in Frame
    BY <1>1, <1>2
  <2>2. frames[c][k].saved \in Writes /\ NothingWritten \in Writes
    BY <2>1 DEF Frame, NothingWritten, Writes
  <2> QED
    BY <2>2 DEF PartAt
<1>3. Parts[c] = [k \in 1..n |-> PartAt(c, k)]
  BY DEF Parts
<1>4. Parts[c] \in Seq([own : BOOLEAN, begun : Writes]) /\ Len(Parts[c]) = n
  BY <1>1, <1>2, <1>3
<1>5. Parts[c] = <<>> <=> frames[c] = <<>>
  BY <1>1, <1>4
<1> QED
  BY <1>1, <1>3, <1>4, <1>5

(* Statements change the table, or what the unit they run in has written.  *)
LEMMA WritesOfUnits ==
    ASSUME IInv, NEW c \in Caller, NEW unit \in BOOLEAN, NEW op, NEW w \in Writes, Write(c, unit, op, w)
    PROVE  Units!Next
<1>1. last'.ok = TRUE /\ UNCHANGED frames /\ Parts' = Parts
  BY DEF Write, Statement, Quiet, Parts, PartAt, JoinsAt
<1>2. Merge(db, w) \in Table /\ Merge(overlay[c], w) \in Writes
  BY MergeTypes DEF IInv, Types
<1>3. CASE WithContext(c, unit)
  <2>1. UNCHANGED db /\ overlay' = [overlay EXCEPT ![c] = Merge(overlay[c], w)]
    BY <1>3 DEF Write
  <2>2. overlay'[c] = Merge(overlay[c], w)
    BY <2>1 DEF IInv, Types
  <2>3. Parts[c] # <<>>
    BY <1>3, PartsTypes DEF IInv, WithContext, InTx
  <2>4. \A i \in Id : overlay'[c][i] = Same => overlay[c][i] = Same
    BY <2>2 DEF Merge
  <2>5. overlay'[c] \in [Id -> (Row \union {Absent}) \union {Same}]
    BY <1>2, <2>2 DEF Writes
  <2>6. Units!Within(c)
    BY <1>1, <2>1, <2>2, <2>3, <2>4, <2>5 DEF Units!Within
  <2> QED
    BY <2>6 DEF Units!Next
<1>4. CASE ~WithContext(c, unit)
  <2>1. Units!Alone
    BY <1>1, <1>2, <1>4 DEF Write, Table, Units!Alone
  <2> QED
    BY <2>1 DEF Units!Next
<1> QED
  BY <1>3, <1>4

(* Reads and failures change nothing.                                      *)
LEMMA ReadsOfUnits ==
    ASSUME IInv, IInv', UNCHANGED <<db, overlay, frames>>
    PROVE  Units!Next
<1>1. Parts' = Parts
  BY DEF Parts, PartAt, JoinsAt
<1>2. db' \in Table /\ last'.ok \in BOOLEAN
  BY DEF IInv, Types, Answered, LastTypes
<1>3. Units!Alone
  BY <1>1, <1>2 DEF Table, Units!Alone
<1> QED
  BY <1>3 DEF Units!Next

(* A function that begins is a part, on its own unless it joins.           *)
LEMMA BeginsOfUnits ==
    ASSUME IInv, Idle, NEW c \in Caller, Execute(c) \/ Transaction(c)
    PROVE  Units!Next
<1>0. PICK n \in Nat : n = Len(frames[c])
  <2>1. frames[c] \in Seq(Frame)
    BY DEF IInv, Types
  <2> QED
    BY <2>1
<1> DEFINE k == n + 1
<1>1. PICK frame \in Frame :
        /\ frames' = [frames EXCEPT ![c] = Append(frames[c], frame)]
        /\ frame.kind = "savepoint" => frame.saved = overlay[c]
        /\ frame.kind # "savepoint" => frame.saved = NothingWritten
        /\ frame.kind = "join" <=> frame.call = "Execute" /\ InCtx(c)
        /\ frame.kind = "tx" => ~InTx(c)
  <2>1. ASSUME NEW call \in {"Execute", "Transaction"}, NEW carries \in BOOLEAN, NEW kind,
               kind = (IF call = "Execute" /\ InCtx(c) THEN "join" ELSE Fresh(c)),
               Push(c, call, kind, carries)
        PROVE  \E frame \in Frame :
                 /\ frames' = [frames EXCEPT ![c] = Append(frames[c], frame)]
                 /\ frame.kind = "savepoint" => frame.saved = overlay[c]
                 /\ frame.kind # "savepoint" => frame.saved = NothingWritten
                 /\ frame.kind = "join" <=> frame.call = "Execute" /\ InCtx(c)
                 /\ frame.kind = "tx" => ~InTx(c)
    <3> DEFINE f == [call |-> call, kind |-> kind, carries |-> carries,
                     saved |-> IF kind = "savepoint" THEN overlay[c] ELSE NothingWritten,
                     savedMeant |-> IF call = "Execute" /\ InCtx(c) THEN NothingWritten ELSE meant[c]]
    <3>1. frames' = [frames EXCEPT ![c] = Append(frames[c], f)]
      BY <2>1 DEF Push
    <3>2. NothingWritten \in Writes /\ kind \in {"join", "savepoint", "tx"}
      BY <2>1 DEF NothingWritten, Writes, Fresh
    <3>3. f \in Frame
      BY <3>2 DEF Frame, IInv, Types
    <3>4. kind = "join" <=> call = "Execute" /\ InCtx(c)
      BY <2>1 DEF Fresh
    <3>5. kind = "tx" => ~InTx(c)
      BY <2>1 DEF Fresh
    <3> QED
      BY <3>1, <3>3, <3>4, <3>5
  <2>2. CASE Execute(c)
    BY <2>1, <2>2 DEF Execute, HasTransaction
  <2>3. CASE Transaction(c)
    <3>1. InCtx(c) \in BOOLEAN
      BY TopIsFrame DEF InCtx, IInv, Frame
    <3> QED
      BY <2>1, <2>3, <3>1 DEF Transaction
  <2> QED
    BY <2>2, <2>3
<1>2. UNCHANGED <<db, overlay>> /\ last'.ok = TRUE
  BY DEF Execute, Transaction, Push, Quiet
<1>3. frames[c] \in Seq(Frame) /\ (InTx(c) <=> n > 0)
  BY <1>0 DEF IInv, Types, InTx
<1>4. /\ Len(frames'[c]) = k /\ frames'[c][k] = frame
      /\ \A j \in 1..n : frames'[c][j] = frames[c][j]
      /\ \A d \in Caller : d # c => frames'[d] = frames[d]
  BY <1>0, <1>1, <1>3 DEF IInv, Types
<1>5. JoinsAt(c, k)' <=> frame.kind = "join"
  <2>1. JoinsAt(c, k)' <=> frame.call = "Execute" /\ n > 0 /\ frames'[c][k - 1].carries
    BY <1>4 DEF JoinsAt
  <2>2. n > 0 => k - 1 = n /\ frames'[c][n] = frames[c][n]
    BY <1>4
  <2>3. InCtx(c) <=> n > 0 /\ frames[c][n].carries
    BY <1>0, <1>3 DEF InCtx, Top
  <2> QED
    BY <1>1, <2>1, <2>2, <2>3
<1> DEFINE own == frame.kind # "join"
           part == [own |-> own, begun |-> IF own THEN overlay[c] ELSE NothingWritten]
<1>6. PartAt(c, k)' = part
  <2>1. own /\ frame.kind # "savepoint" => overlay[c] = NothingWritten
    BY <1>1 DEF Frame, InTx, Idle
  <2>2. own => frame.saved = overlay[c]
    BY <1>1, <2>1
  <2>3. PartAt(c, k)' = [own |-> ~(JoinsAt(c, k)'),
                         begun |-> IF JoinsAt(c, k)' THEN NothingWritten ELSE frame.saved]
    BY <1>4 DEF PartAt
  <2> QED
    BY <1>5, <2>2, <2>3
<1>7. ASSUME NEW j \in 1..n PROVE PartAt(c, j)' = PartAt(c, j)
  <2>1. frames'[c][j] = frames[c][j] /\ (j > 1 => frames'[c][j - 1] = frames[c][j - 1])
    BY <1>4, <1>7
  <2>2. JoinsAt(c, j)' <=> JoinsAt(c, j)
    BY <1>7, <2>1 DEF JoinsAt
  <2> QED
    BY <2>1, <2>2 DEF PartAt
<1>8. Parts' = [Parts EXCEPT ![c] = Append(Parts[c], part)]
  <2>1. Parts[c] \in Seq([own : BOOLEAN, begun : Writes]) /\ Len(Parts[c]) = n
        /\ \A j \in 1..n : Parts[c][j] = PartAt(c, j)
    BY <1>0, PartsTypes DEF IInv
  <2>2. part \in [own : BOOLEAN, begun : Writes]
    BY DEF NothingWritten, Writes, IInv, Types
  <2>3. Parts'[c] = [j \in 1..k |-> PartAt(c, j)']
    BY <1>4 DEF Parts
  <2>4. Parts'[c] = Append(Parts[c], part)
    <3> HIDE DEF part
    <3> DEFINE longer == Append(Parts[c], part)
    <3>1. longer = [j \in 1..k |-> longer[j]]
      BY <2>1, <2>2
    <3>2. ASSUME NEW j \in 1..k PROVE longer[j] = PartAt(c, j)'
      <4>1. CASE j = k
        BY <1>6, <2>1, <2>2, <4>1
      <4>2. CASE j \in 1..n
        BY <1>7, <2>1, <2>2, <4>2
      <4>3. j = k \/ j \in 1..n
        BY <3>2
      <4> QED
        BY <4>1, <4>2, <4>3
    <3> HIDE DEF longer
    <3>3. longer = [j \in 1..k |-> PartAt(c, j)']
      BY <3>1, <3>2
    <3> QED
      BY <2>3, <3>3 DEF longer
  <2>5. \A d \in Caller : d # c => Parts'[d] = Parts[d]
    BY <1>4 DEF Parts, PartAt, JoinsAt
  <2>6. Parts = [d \in Caller |-> Parts[d]] /\ Parts' = [d \in Caller |-> Parts'[d]]
    BY DEF Parts
  <2> HIDE DEF part
  <2> QED
    BY <2>4, <2>5, <2>6
<1>9. Units!Enter(c, own)
  <2>1. Parts[c] = <<>> => own
    BY <1>1, PartsTypes DEF IInv, InCtx, InTx
  <2>2. Units!Part(own, overlay[c]) = part
    BY DEF Units!Part, Units!Nothing, NothingWritten
  <2> HIDE DEF part, own
  <2> QED
    BY <1>2, <1>8, <2>1, <2>2 DEF Units!Enter
<1>10. own \in BOOLEAN
  OBVIOUS
<1> HIDE DEF own, part
<1> QED
  BY <1>9, <1>10 DEF Units!Next

(* A function that returns ends its part, or the unit.                     *)
LEMMA EndsOfUnits ==
    ASSUME IInv, NEW c \in Caller, NEW ok \in BOOLEAN,
           LeaveJoined(c, ok) \/ LeaveSavepoint(c, ok) \/ LeaveTransaction(c, ok)
    PROVE  Units!Next
<1> DEFINE n == Len(frames[c])
<1>1. /\ InTx(c) /\ last'.ok = ok
      /\ frames' = [frames EXCEPT ![c] = SubSeq(frames[c], 1, n - 1)]
  BY DEF LeaveJoined, LeaveSavepoint, LeaveTransaction, Pop, Quiet
<1>2. n \in Nat \ {0} /\ frames[c] \in Seq(Frame)
  BY <1>1, TopIsFrame DEF IInv, Types
<1>3. /\ Parts[c] \in Seq([own : BOOLEAN, begun : Writes]) /\ Len(Parts[c]) = n
      /\ \A k \in 1..n : Parts[c][k] = PartAt(c, k)
  BY PartsTypes DEF IInv
<1>4. Parts' = [Parts EXCEPT ![c] = SubSeq(Parts[c], 1, n - 1)]
  <2>1. /\ Len(SubSeq(frames[c], 1, n - 1)) = n - 1
        /\ \A k \in 1..n - 1 : SubSeq(frames[c], 1, n - 1)[k] = frames[c][k]
    BY <1>2
  <2>2. /\ Len(frames'[c]) = n - 1 /\ \A k \in 1..n - 1 : frames'[c][k] = frames[c][k]
        /\ \A d \in Caller : d # c => frames'[d] = frames[d]
    BY <1>1, <2>1 DEF IInv, Types
  <2>3. ASSUME NEW k \in 1..n - 1 PROVE PartAt(c, k)' = PartAt(c, k)
    <3>1. frames'[c][k] = frames[c][k] /\ (k > 1 => frames'[c][k - 1] = frames[c][k - 1])
      BY <1>2, <2>2, <2>3
    <3>2. JoinsAt(c, k)' <=> JoinsAt(c, k)
      BY <2>3, <3>1 DEF JoinsAt
    <3> QED
      BY <3>1, <3>2 DEF PartAt
  <2>4. Parts'[c] = [k \in 1..n - 1 |-> PartAt(c, k)']
    BY <2>2 DEF Parts
  <2>5. SubSeq(Parts[c], 1, n - 1) = [k \in 1..n - 1 |-> PartAt(c, k)']
    BY <1>2, <1>3, <2>3
  <2>6. \A d \in Caller : d # c => Parts'[d] = Parts[d]
    BY <2>2 DEF Parts, PartAt, JoinsAt
  <2>7. Parts = [d \in Caller |-> Parts[d]] /\ Parts' = [d \in Caller |-> Parts'[d]]
    BY DEF Parts
  <2> QED
    BY <2>4, <2>5, <2>6, <2>7
<1>5. Units!Leaves(c)
  BY <1>3, <1>4 DEF Units!Leaves
<1>6. Units!Innermost(c) = PartAt(c, n)
  BY <1>2, <1>3 DEF Units!Innermost
<1>7. CASE LeaveTransaction(c, ok)
  <2>1. n = 1
    BY <1>1, <1>7, TopKind DEF LeaveTransaction, Pop
  <2>2. Units!Over(db, overlay[c]) = Merge(db, overlay[c]) /\ Units!Nothing = NothingWritten
    BY DEF Units!Over, Merge, Units!Nothing, NothingWritten
  <2>3. Units!End(c, ok)
    BY <1>1, <1>3, <1>5, <1>7, <2>1, <2>2 DEF Units!End, LeaveTransaction, Keeps
  <2> QED
    BY <2>3 DEF Units!Next
<1>8. CASE LeaveJoined(c, ok) \/ LeaveSavepoint(c, ok)
  <2>1. n > 1
    <3>1. Top(c).kind # "tx"
      BY <1>8 DEF LeaveJoined, LeaveSavepoint, Pop
    <3>2. n # 1
      BY <1>1, <3>1, TopKind
    <3>3. n \in Nat \ {0}
      BY <1>2
    <3> HIDE DEF n
    <3> QED
      BY <3>2, <3>3
  <2>2. overlay' = [overlay EXCEPT ![c] = IF ok \/ ~PartAt(c, n).own THEN @ ELSE PartAt(c, n).begun]
    <3>1. CASE LeaveJoined(c, ok)
      <4>1. JoinsAt(c, n)
        BY <1>1, <3>1, TopKind DEF LeaveJoined, Pop
      <4> QED
        BY <3>1, <4>1 DEF LeaveJoined, PartAt, IInv, Types
    <3>2. CASE LeaveSavepoint(c, ok)
      <4>1. ~JoinsAt(c, n) /\ Top(c) = frames[c][n]
        BY <1>1, <3>2, TopKind DEF LeaveSavepoint, Pop, Top
      <4> QED
        BY <3>2, <4>1 DEF LeaveSavepoint, Keeps, PartAt
    <3> QED
      BY <1>8, <3>1, <3>2
  <2>3. UNCHANGED db
    BY <1>8 DEF LeaveJoined, LeaveSavepoint
  <2>4. Units!Leave(c, ok)
    BY <1>1, <1>3, <1>5, <1>6, <2>1, <2>2, <2>3 DEF Units!Leave
  <2> QED
    BY <2>4 DEF Units!Next
<1> QED
  BY <1>7, <1>8

(* Transactions, however their functions nest, are units of work: see      *)
(* UnitOfWork (transaction.go:17-90, context.go:14-43).                    *)
THEOREM TransactionsAreUnits == Spec => ImplementsUnits
<1>1. Init => Idle /\ Units!Init
  <2> SUFFICES ASSUME Init PROVE Idle /\ Units!Init
    OBVIOUS
  <2>1. Idle
    BY DEF Init, Idle
  <2>2. Parts = [c \in Caller |-> <<>>]
    BY DEF Init, Parts
  <2>3. last.ok = TRUE
    BY DEF Init, Quiet
  <2>4. Units!Nothing = NothingWritten
    BY DEF Units!Nothing, NothingWritten
  <2>5. db \in [Id -> Row \union {Absent}]
    BY RepositoryAssumption DEF Init, Table
  <2>6. Units!Init
    BY <2>2, <2>3, <2>4, <2>5 DEF Init, Units!Init
  <2> QED
    BY <2>1, <2>6
<1>2. IInv /\ IInv' /\ Idle /\ [Next]_vars => [Units!Next]_(Units!vars)
  <2> SUFFICES ASSUME IInv, IInv', Idle, [Next]_vars PROVE [Units!Next]_(Units!vars)
    OBVIOUS
  <2>1. ASSUME NEW c \in Caller, NEW unit \in BOOLEAN, WriteStep(c, unit) PROVE Units!Next
    BY <2>1, WritesPermitted, WritesOfUnits DEF Permitted, IInv
  <2>2. ASSUME NEW c \in Caller,
               \/ \E unit \in BOOLEAN : ReadStep(c, unit)
               \/ StatementFails(c) \/ FindPageList(c) \/ FindPageFails(c)
        PROVE  Units!Next
    BY <2>2, ReadsLeaveRows, StatementsLeaveFrames, ReadsOfUnits
  <2>3. ASSUME NEW c \in Caller, TxStep(c) PROVE Units!Next
    BY <2>3, BeginsOfUnits, EndsOfUnits DEF TxStep
  <2>4. CASE UNCHANGED vars
    BY <2>4 DEF vars, Units!vars, Parts, PartAt, JoinsAt
  <2> QED
    BY <2>1, <2>2, <2>3, <2>4 DEF Next
<1> QED
  BY <1>1, <1>2, IdleKeeps, Invariance, PTL DEF Spec, ImplementsUnits, Units!Spec
=============================================================================
