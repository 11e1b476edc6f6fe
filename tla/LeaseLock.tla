----------------------------- MODULE LeaseLock ------------------------------
(***************************************************************************)
(* What a lock with a time to live promises.  Clients ask, in any number   *)
(* of sessions each, to take, to renew and to release it; the lock grants  *)
(* a request or lets it drop.  It is taken only when it is free, it is     *)
(* renewed and released only by a request of the client that holds it, and *)
(* nobody but time takes it from its holder.                               *)
(***************************************************************************)
EXTENDS Integers

CONSTANTS Client, Session, TTL, Nobody

VARIABLES holder,   \* the client holding the lock, or Nobody
          left,     \* time left before the lock expires
          asked     \* what each session of a client has asked and not heard of

vars == <<holder, left, asked>>

Wish == {"nothing", "take", "extend", "release"}

Init ==
    /\ holder = Nobody /\ left = 0
    /\ asked = [c \in Client |-> [s \in Session |-> "nothing"]]

-----------------------------------------------------------------------------
(* What a client asks for changes, and nobody else's requests do.          *)
Request(c) ==
    /\ UNCHANGED <<holder, left>>
    /\ asked' \in [Client -> [Session -> Wish]]
    /\ \A d \in Client \ {c} : asked'[d] = asked[d]

(* The lock grants what a session of c has asked.                          *)
Grants(c, s, wish) ==
    /\ asked[c][s] = wish
    /\ asked' = [asked EXCEPT ![c][s] = "nothing"]

Take(c, s) == holder = Nobody /\ holder' = c /\ left' = TTL /\ Grants(c, s, "take")
Renew(c, s) == holder = c /\ left' = TTL /\ UNCHANGED holder /\ Grants(c, s, "extend")
GiveUp(c, s) == holder = c /\ holder' = Nobody /\ left' = 0 /\ Grants(c, s, "release")

Elapse ==
    /\ holder # Nobody
    /\ left' = left - 1
    /\ holder' = IF left' = 0 THEN Nobody ELSE holder
    /\ UNCHANGED asked

Next ==
    \/ \E c \in Client : Request(c)
    \/ \E c \in Client, s \in Session : Take(c, s) \/ Renew(c, s) \/ GiveUp(c, s)
    \/ Elapse

Spec == Init /\ [][Next]_vars
=============================================================================
