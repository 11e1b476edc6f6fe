----------------------------- MODULE AuthHeader -----------------------------
(***************************************************************************)
(* middleware/auth_header.go: the signer, the verifier, and the in-memory  *)
(* store in which the verifier keeps the nonces it has seen.               *)
(*                                                                         *)
(* A header set is signed once and may reach the service several times, as *)
(* a client or a proxy retries.  Strings are members of small sets: what   *)
(* is wrong with a request's headers apart from their age is a flaw, and   *)
(* what a header set carries is its nonce and its user.  Time is counted   *)
(* in ticks; a timestamp is at most Drift off the verifier's clock when it *)
(* is made (seconds are cut off, and the clocks differ), and a call of     *)
(* Verify takes at most Stall from its look at the clock to its end.       *)
(***************************************************************************)
EXTENDS Integers, FiniteSets

CONSTANTS
    Request,
    Header,     \* signed header sets, each with a nonce of its own
    Of,         \* [Request -> Header]: the headers a request carries
    Policies,   \* configurations of the verifier
    MaxAge,     \* AuthHeaderVerifierConfig.MaxAge
    Skew,       \* AuthHeaderVerifierConfig.AllowedClockSkew
    Drift, Stall,
    Horizon     \* bound on the clock

Policy == [secret : BOOLEAN, store : BOOLEAN, missingNonce : BOOLEAN, emptyUser : BOOLEAN]

ASSUME AuthAssumption ==
    /\ Of \in [Request -> Header] /\ Policies \subseteq Policy
    /\ MaxAge \in Nat \ {0} /\ Skew \in Nat /\ Drift \in Nat /\ Stall \in Nat
    /\ Horizon \in Nat
    /\ Drift + Stall < Skew

Flaw == {"none", "missing", "timestamp", "version", "issuer", "secret", "signature"}
Carried == {"user", "empty", "undecodable", "no nonce"}

VARIABLES
    now,     \* the verifier's clock
    policy,  \* its configuration
    issued,  \* the timestamp in a header set; 0 before it is signed
    carried, \* what else is in it
    verify,  \* where a request's verification is, or how it ended
    readAt,  \* the time it read
    expiry   \* memNonceStore.entries; 0 for a nonce that is not there

authVars == <<now, policy, issued, carried, verify, readAt, expiry>>

AuthTypeOK ==
    /\ now \in Nat /\ policy \in Policy
    /\ issued \in [Header -> Nat] /\ carried \in [Header -> Carried]
    /\ verify \in [Request -> {"idle", "fresh", "accepted", "rejected"}]
    /\ readAt \in [Request -> Nat]
    /\ expiry \in [Header -> Nat]

AuthInit ==
    /\ now = Drift + 1
    /\ policy \in Policies
    /\ issued = [h \in Header |-> 0]
    /\ carried = [h \in Header |-> "user"]
    /\ verify = [r \in Request |-> "idle"]
    /\ readAt = [r \in Request |-> 0]
    /\ expiry = [h \in Header |-> 0]

-----------------------------------------------------------------------------
Tick ==
    /\ now < Horizon
    /\ \A r \in Request : verify[r] = "fresh" => now < readAt[r] + Stall
    /\ now' = now + 1
    /\ UNCHANGED <<policy, issued, carried, verify, readAt, expiry>>

BuildHeaders(h, stamp, what) ==
    /\ issued[h] = 0
    /\ stamp \in (now - Drift)..(now + Drift)
    /\ issued' = [issued EXCEPT ![h] = stamp]
    /\ carried' = [carried EXCEPT ![h] = what]
    /\ UNCHANGED <<now, policy, verify, readAt, expiry>>

Ends(r, verdict) == verify' = [verify EXCEPT ![r] = verdict]

(* Verify as far as the timestamp: a flaw or a nonce that is missing, then *)
(* the age and the skew.                                                   *)
Expired(stamp) == now - stamp > MaxAge
NotYetValid(stamp) == stamp > now + Skew

Usable(h, flaw) ==
    /\ policy.secret /\ flaw = "none"
    /\ carried[h] = "no nonce" => policy.missingNonce

VerifyHeaders(r, flaw) ==
    /\ verify[r] = "idle" /\ issued[Of[r]] # 0
    /\ readAt' = [readAt EXCEPT ![r] = now]
    /\ Ends(r, IF /\ Usable(Of[r], flaw)
                  /\ ~Expired(issued[Of[r]]) /\ ~NotYetValid(issued[Of[r]])
               THEN "fresh" ELSE "rejected")
    /\ UNCHANGED <<now, policy, issued, carried, expiry>>

(* DecodeUserInfo and AllowEmptyUser, after the store.                     *)
UserVerdict(h) ==
    CASE carried[h] = "undecodable" -> "rejected"
      [] carried[h] = "empty" /\ ~policy.emptyUser -> "rejected"
      [] OTHER -> "accepted"

(* The rest of Verify with a store: memNonceStore.Seen sweeps, looks and   *)
(* records under its lock, at the time t it read before it took the lock.  *)
Deduplicated(h) == policy.store /\ carried[h] # "no nonce"

Kept(h, t) == expiry[h] # 0 /\ t <= expiry[h]
SeenBefore(h, t) == Kept(h, t) /\ t < expiry[h]
ShortTTL == MaxAge                  \* mutant: the ttl leaves out the skew
TTL == MaxAge + Skew

Seen(r, t) ==
    LET h == Of[r] IN
    /\ verify[r] = "fresh" /\ Deduplicated(h)
    /\ expiry' = [k \in Header |->
            IF k = h /\ ~SeenBefore(h, t) THEN t + TTL
            ELSE IF Kept(k, t) THEN expiry[k] ELSE 0]
    /\ Ends(r, IF SeenBefore(h, t) THEN "rejected" ELSE UserVerdict(h))
    /\ UNCHANGED <<now, policy, issued, carried, readAt>>

WithoutStore(r) ==
    /\ verify[r] = "fresh" /\ ~Deduplicated(Of[r])
    /\ Ends(r, UserVerdict(Of[r]))
    /\ UNCHANGED <<now, policy, issued, carried, readAt, expiry>>

-----------------------------------------------------------------------------
Verifies(r) ==
    \/ \E flaw \in Flaw : VerifyHeaders(r, flaw)
    \/ \E t \in readAt[r]..now : Seen(r, t)
    \/ WithoutStore(r)
Signs ==
    \E h \in Header, stamp \in (now - Drift)..(now + Drift), what \in Carried :
        BuildHeaders(h, stamp, what)

AuthNext == Tick \/ Signs \/ \E r \in Request : Verifies(r)

AuthSpec == AuthInit /\ [][AuthNext]_authVars

(* A header set with a nonce is accepted once, however often it arrives    *)
(* and whenever: the store does not forget a nonce while its timestamp can *)
(* still pass, although two calls of Seen may take the lock in another     *)
(* order than they read the clock, provided clock drift and stall stay     *)
(* below the skew allowed (auth_header.go:99-117, 358-411).                *)
AcceptedOnce ==
    \A r, q \in Request :
        /\ verify[r] = "accepted" /\ verify[q] = "accepted"
        /\ Of[r] = Of[q] /\ Deduplicated(Of[r])
        => r = q
=============================================================================
