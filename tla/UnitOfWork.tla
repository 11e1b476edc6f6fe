----------------------------- MODULE UnitOfWork -----------------------------
(***************************************************************************)
(* What a unit of work over a table promises: nobody sees what it writes   *)
(* before it ends; then all of it is in the table if its caller is told    *)
(* success, and none if it is told failure.  Parts may nest in it.  A part *)
(* on its own is undone when it fails, and it alone; a part that is not    *)
(* shares the fate of the unit, whatever it ends with.  A statement that   *)
(* fails changes nothing.                                                  *)
(***************************************************************************)
EXTENDS Integers, Sequences

CONSTANTS Caller, Id, Content,  \* what a row may hold
          Same                  \* a row a unit has not written

VARIABLES table,  \* what everybody sees
          work,   \* what the unit of each caller has written
          nest,   \* the parts each caller is in, the unit itself first
          told    \* did the last operation succeed

vars == <<table, work, nest, told>>

Nothing == [i \in Id |-> Same]
Over(f, w) == [i \in Id |-> IF w[i] = Same THEN f[i] ELSE w[i]]
Part(own, begun) == [own |-> own, begun |-> IF own THEN begun ELSE Nothing]
Innermost(c) == nest[c][Len(nest[c])]
Leaves(c) == nest' = [nest EXCEPT ![c] = SubSeq(@, 1, Len(@) - 1)]

Init ==
    /\ table \in [Id -> Content]
    /\ work = [c \in Caller |-> Nothing]
    /\ nest = [c \in Caller |-> <<>>]
    /\ told \in BOOLEAN

(* A statement outside units, of whomever.                                 *)
Alone ==
    /\ UNCHANGED <<work, nest>>
    /\ table' \in [Id -> Content]
    /\ told' \in BOOLEAN /\ (~told' => UNCHANGED table)

(* A statement of a unit: what it has written it may only write again.     *)
Within(c) ==
    /\ told' /\ UNCHANGED <<table, nest>>
    /\ nest[c] # <<>>
    /\ work' = [work EXCEPT ![c] = work'[c]]
    /\ work'[c] \in [Id -> Content \union {Same}]
    /\ \A i \in Id : work'[c][i] = Same => work[c][i] = Same

Enter(c, own) ==
    /\ told' /\ UNCHANGED <<table, work>>
    /\ nest[c] = <<>> => own
    /\ nest' = [nest EXCEPT ![c] = Append(@, Part(own, work[c]))]

Leave(c, ok) ==
    /\ Len(nest[c]) > 1
    /\ work' = [work EXCEPT ![c] = IF ok \/ ~Innermost(c).own THEN @ ELSE Innermost(c).begun]
    /\ Leaves(c)
    /\ told' = ok
    /\ UNCHANGED table

End(c, ok) ==
    /\ Len(nest[c]) = 1
    /\ table' = IF ok THEN Over(table, work[c]) ELSE table
    /\ work' = [work EXCEPT ![c] = Nothing]
    /\ Leaves(c)
    /\ told' = ok

Next ==
    \/ Alone
    \/ \E c \in Caller :
        \/ Within(c)
        \/ \E own \in BOOLEAN : Enter(c, own)
        \/ \E ok \in BOOLEAN : Leave(c, ok) \/ End(c, ok)

Spec == Init /\ [][Next]_vars
=============================================================================
