---------------------------- MODULE Idempotency ----------------------------
(***************************************************************************)
(* idempotency.Checker (src/idempotency/checker.go): a Redis key per event *)
(* says that the event has been seen.  Each operation is an action on the  *)
(* set of keys that exist, and on what the caller gets back: whether the   *)
(* key existed, and whether there was an error.                            *)
(*                                                                         *)
(* A Redis command may fail before or after the server ran it.  Keys       *)
(* outlive the deliveries of their event (the default TTL is 24 hours).    *)
(***************************************************************************)
EXTENDS Integers, FiniteSets

VARIABLES marked,   \* events whose key exists in Redis
          mode,     \* Checker.mode: "required", "best_effort" or "disabled"
          client    \* Checker.redisClient # nil

checkerVars == <<marked, mode, client>>

(* A Redis that is missing or fails: an error in mode required, degradation *)
(* in the others.                                                          *)
NeverStrict == FALSE               \* mutant: every mode degrades
Strict == mode = "required"
Asks == mode # "disabled" /\ client

(* redisClient.SetNX.                                                      *)
CheckAndMark(e, exists, err) ==
    /\ UNCHANGED <<mode, client>>
    /\ \/ ~Asks /\ exists = FALSE /\ err = Strict /\ UNCHANGED marked
       \/ Asks /\ exists = (e \in marked) /\ err = FALSE /\ marked' = marked \union {e}
       \/ Asks /\ exists = FALSE /\ err = Strict /\ marked' \in {marked, marked \union {e}}

(* redisClient.Exists.                                                     *)
MarkingCheck(e, exists, err) ==    \* mutant: Check writes the key
    CheckAndMark(e, exists, err)
Check(e, exists, err) ==
    /\ UNCHANGED checkerVars
    /\ \/ ~Asks /\ exists = FALSE /\ err = Strict
       \/ Asks /\ exists = (e \in marked) /\ err = FALSE
       \/ Asks /\ exists = FALSE /\ err = Strict

(* redisClient.Set: its error is returned in every mode.                   *)
Mark(e, err) ==
    /\ UNCHANGED <<mode, client>>
    /\ \/ ~Asks /\ err = Strict /\ UNCHANGED marked
       \/ Asks /\ err = FALSE /\ marked' = marked \union {e}
       \/ Asks /\ err = TRUE /\ marked' \in {marked, marked \union {e}}
=============================================================================
