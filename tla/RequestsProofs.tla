--------------------------- MODULE RequestsProofs ---------------------------
(***************************************************************************)
(* Proofs about AuthHeader and Requests, for any numbers of requests and   *)
(* header sets and any MaxAge, Skew, Drift and Stall that satisfy          *)
(* AuthAssumption: no header set is accepted twice; then about the whole   *)
(* pipeline, for any services, failures, statuses, resolvers and limit     *)
(* that satisfy ErrorsAssumption and RequestsAssumption.                   *)
(***************************************************************************)
EXTENDS Requests, TLAPS

(* The earliest time at which the nonce of h may be forgotten.             *)
Bound(h) == issued[h] - Drift + TTL

(* A timestamp is at most Drift off the clock at which it was made.        *)
ClockInv ==
    /\ now > Drift
    /\ \A h \in Header : issued[h] <= now + Drift

(* A verification under way looked at the clock after the headers were     *)
(* signed and found them young enough, at most Stall ago.                  *)
FreshInv ==
    \A r \in Request : verify[r] = "fresh" =>
        /\ issued[Of[r]] # 0
        /\ issued[Of[r]] - Drift <= readAt[r] /\ readAt[r] <= issued[Of[r]] + MaxAge
        /\ readAt[r] <= now /\ now <= readAt[r] + Stall

(* The nonce of an accepted header set is kept until Bound at least.       *)
KeptInv ==
    \A r \in Request : verify[r] = "accepted" =>
        /\ issued[Of[r]] # 0
        /\ Deduplicated(Of[r]) => Bound(Of[r]) <= expiry[Of[r]] \/ Bound(Of[r]) <= now

IInv == AuthTypeOK /\ ClockInv /\ FreshInv /\ KeptInv /\ AcceptedOnce

-----------------------------------------------------------------------------
(* Bound is a number.                                                      *)
LEMMA BoundIsInt == AuthTypeOK => \A r \in Request : Bound(Of[r]) \in Int
  BY AuthAssumption DEF AuthTypeOK, Bound, TTL

(* The first state has nothing signed and nothing verified.                *)
LEMMA InitIInv == AuthInit => IInv
<1> SUFFICES ASSUME AuthInit PROVE IInv
  OBVIOUS
<1> USE AuthAssumption DEF AuthInit
<1>1. AuthTypeOK
  BY DEF AuthTypeOK, Carried
<1>2. ClockInv
  BY DEF ClockInv
<1>3. FreshInv /\ KeptInv /\ AcceptedOnce
  BY DEF FreshInv, KeptInv, AcceptedOnce
<1> QED
  BY <1>1, <1>2, <1>3 DEF IInv

(* A tick does not pass a verification that has used up its Stall.         *)
LEMMA TickStep == IInv /\ Tick => IInv'
<1> SUFFICES ASSUME IInv, Tick PROVE IInv'
  OBVIOUS
<1> USE AuthAssumption DEF IInv, Tick
<1>1. AuthTypeOK'
  BY DEF AuthTypeOK
<1>2. ClockInv'
  BY DEF ClockInv, AuthTypeOK
<1>3. FreshInv'
  BY DEF FreshInv, AuthTypeOK
<1>4. KeptInv'
  <2> SUFFICES ASSUME NEW q \in Request, verify[q] = "accepted"
               PROVE  /\ issued[Of[q]] # 0
                      /\ Deduplicated(Of[q]) => \/ Bound(Of[q]) <= expiry[Of[q]]
                                                \/ Bound(Of[q]) <= now'
    BY DEF KeptInv, Deduplicated, Bound, TTL
  <2>1. Bound(Of[q]) \in Int
    BY BoundIsInt
  <2>2. now' = now + 1 /\ now \in Int
    BY DEF AuthTypeOK
  <2> QED
    BY <2>1, <2>2 DEF KeptInv
<1>5. AcceptedOnce'
  BY DEF AcceptedOnce, Deduplicated
<1> QED
  BY <1>1, <1>2, <1>3, <1>4, <1>5

(* Only a header set that no verification has looked at is signed.         *)
LEMMA SignStep == IInv /\ Signs => IInv'
<1> SUFFICES ASSUME IInv,
                    NEW h \in Header, NEW stamp \in (now - Drift)..(now + Drift),
                    NEW what \in Carried, BuildHeaders(h, stamp, what)
             PROVE  IInv'
  BY DEF Signs
<1> USE AuthAssumption DEF IInv, BuildHeaders
<1>1. stamp \in Nat /\ stamp # 0
  BY DEF ClockInv, AuthTypeOK
<1>2. AuthTypeOK'
  BY <1>1 DEF AuthTypeOK
<1>3. ClockInv'
  BY <1>1 DEF ClockInv, AuthTypeOK
<1>4. \A r \in Request : verify[r] \in {"fresh", "accepted"} => Of[r] # h
  BY DEF FreshInv, KeptInv
<1>5. \A k \in Header : k # h => issued'[k] = issued[k] /\ carried'[k] = carried[k]
  BY DEF AuthTypeOK
<1>6. \A r \in Request : Of[r] \in Header
  OBVIOUS
<1>7. FreshInv'
  BY <1>4, <1>5, <1>6 DEF FreshInv
<1>8. KeptInv'
  BY <1>4, <1>5, <1>6 DEF KeptInv, Deduplicated, Bound, TTL
<1>9. AcceptedOnce'
  BY <1>4, <1>5, <1>6 DEF AcceptedOnce, Deduplicated
<1> QED
  BY <1>2, <1>3, <1>7, <1>8, <1>9

(* VerifyHeaders only lets a young timestamp through.                      *)
LEMMA VerifyStep ==
    ASSUME IInv, NEW r \in Request, NEW flaw \in Flaw, VerifyHeaders(r, flaw)
    PROVE  IInv'
<1> USE AuthAssumption DEF IInv, VerifyHeaders, Ends
<1>1. verify'[r] \in {"fresh", "rejected"} /\ readAt'[r] = now
  BY DEF AuthTypeOK
<1>2. \A q \in Request : q # r => verify'[q] = verify[q] /\ readAt'[q] = readAt[q]
  BY DEF AuthTypeOK
<1>3. AuthTypeOK'
  BY DEF AuthTypeOK
<1>4. ClockInv'
  BY DEF ClockInv
<1>5. /\ issued[Of[r]] \in Nat /\ issued[Of[r]] # 0 /\ now \in Nat
      /\ issued[Of[r]] <= now + Drift
  BY DEF AuthTypeOK, ClockInv
<1>6. verify'[r] = "fresh" => ~(now - issued[Of[r]] > MaxAge)
  BY DEF AuthTypeOK, Expired
<1>7. FreshInv'
  <2> SUFFICES ASSUME NEW q \in Request, verify'[q] = "fresh"
               PROVE  /\ issued[Of[q]] # 0
                      /\ issued[Of[q]] - Drift <= readAt'[q]
                      /\ readAt'[q] <= issued[Of[q]] + MaxAge
                      /\ readAt'[q] <= now /\ now <= readAt'[q] + Stall
    BY DEF FreshInv
  <2>1. CASE q = r
    <3> HIDE DEF IInv, VerifyHeaders, Ends
    <3> QED
      BY <1>1, <1>5, <1>6, <2>1
  <2>2. CASE q # r
    BY <1>2, <2>2 DEF FreshInv
  <2> QED
    BY <2>1, <2>2
<1>8. \A q \in Request : verify'[q] = "accepted" => verify[q] = "accepted"
  BY <1>1, <1>2
<1>9. KeptInv'
  BY <1>8 DEF KeptInv, Deduplicated, Bound, TTL
<1>10. AcceptedOnce'
  <2> SUFFICES ASSUME NEW p \in Request, NEW q \in Request,
                      verify'[p] = "accepted", verify'[q] = "accepted",
                      Of[p] = Of[q], Deduplicated(Of[p])
               PROVE  p = q
    BY DEF AcceptedOnce, Deduplicated
  <2> QED
    BY <1>8 DEF AcceptedOnce
<1> QED
  BY <1>3, <1>4, <1>7, <1>9, <1>10

(* What Seen records is kept until Bound, and when it says that a nonce is *)
(* new nobody has been accepted with it.                                   *)
LEMMA SeenStep ==
    ASSUME IInv, NEW r \in Request, NEW t \in readAt[r]..now, Seen(r, t)
    PROVE  IInv'
<1> USE AuthAssumption DEF IInv, Seen, Ends
<1> DEFINE h == Of[r]
<1>1. /\ h \in Header /\ verify[r] = "fresh" /\ Deduplicated(h)
      /\ t \in Nat /\ t <= now
      /\ issued[h] \in Nat /\ issued[h] # 0 /\ now \in Nat
      /\ issued[h] - Drift <= t
      /\ t < Bound(h) /\ now < Bound(h) /\ Bound(h) \in Int
  <2>1. h \in Header /\ verify[r] = "fresh" /\ Deduplicated(h)
    OBVIOUS
  <2>2. /\ issued[h] # 0 /\ issued[h] - Drift <= readAt[r]
        /\ readAt[r] <= issued[h] + MaxAge /\ now <= readAt[r] + Stall
    BY <2>1 DEF FreshInv
  <2>3. issued[h] \in Nat /\ readAt[r] \in Nat /\ now \in Nat
    BY <2>1 DEF AuthTypeOK
  <2>4. t \in Nat /\ t <= now /\ readAt[r] <= t
    BY <2>3
  <2> HIDE DEF IInv, Seen, Ends, h
  <2>5. now < Bound(h) /\ Bound(h) \in Int
    BY <2>2, <2>3 DEF Bound, TTL
  <2> QED
    BY <2>1, <2>2, <2>3, <2>4, <2>5
<1>2. verify'[r] \in {"accepted", "rejected"}
  BY DEF AuthTypeOK, UserVerdict
<1>3. \A q \in Request : q # r => verify'[q] = verify[q]
  BY DEF AuthTypeOK
<1>4. AuthTypeOK'
  BY <1>1, <1>2 DEF AuthTypeOK, UserVerdict, TTL
<1>5. ClockInv' /\ FreshInv'
  BY <1>2, <1>3 DEF ClockInv, FreshInv
<1>6. verify'[r] = "accepted" => ~SeenBefore(h, t)
  BY <1>1 DEF AuthTypeOK
<1>7. ~SeenBefore(h, t) => \A q \in Request : verify[q] = "accepted" => Of[q] # h
  BY <1>1 DEF KeptInv, SeenBefore, Kept, AuthTypeOK, Bound, TTL
<1>8. ~SeenBefore(h, t) => Bound(h) <= expiry'[h]
  <2>2. ~SeenBefore(h, t) => expiry'[h] = t + TTL
    BY <1>1
  <2>3. Bound(h) <= t + TTL
    <3> HIDE DEF IInv, Seen, Ends, h
    <3> QED
      BY <1>1 DEF Bound, TTL
  <2> QED
    BY <2>2, <2>3
<1>9. \A k \in Header : expiry'[k] = expiry[k] \/ (k = h /\ ~SeenBefore(h, t))
                            \/ expiry[k] = 0 \/ expiry[k] < t
  BY <1>1 DEF Kept, AuthTypeOK
<1>10. KeptInv'
  <2> SUFFICES ASSUME NEW q \in Request, verify'[q] = "accepted"
               PROVE  /\ issued[Of[q]] # 0
                      /\ Deduplicated(Of[q]) => \/ Bound(Of[q]) <= expiry'[Of[q]]
                                                \/ Bound(Of[q]) <= now
    BY DEF KeptInv, Deduplicated, Bound, TTL
  <2>1. CASE q = r
    BY <1>1, <1>6, <1>8, <2>1
  <2>2. CASE q # r
    <3>1. verify[q] = "accepted" /\ Of[q] \in Header
      BY <1>3, <2>2
    <3>2. CASE Of[q] = h /\ ~SeenBefore(h, t)
      BY <1>1, <1>8, <3>2
    <3>3. CASE expiry'[Of[q]] = expiry[Of[q]]
      BY <3>1, <3>3 DEF KeptInv
    <3>4. CASE expiry[Of[q]] = 0 \/ expiry[Of[q]] < t
      <4>1. \/ Bound(Of[q]) \in Int /\ Bound(Of[q]) > 0
            \/ ~Deduplicated(Of[q])
            \/ Bound(Of[q]) <= now
        BY <3>1, <1>1 DEF Bound, TTL, AuthTypeOK, KeptInv, ClockInv
      <4> QED
        BY <1>1, <3>1, <3>4, <4>1 DEF KeptInv, AuthTypeOK, Bound, TTL
    <3> QED
      BY <1>9, <3>1, <3>2, <3>3, <3>4
  <2> QED
    BY <2>1, <2>2
<1>11. AcceptedOnce'
  <2> SUFFICES ASSUME NEW p \in Request, NEW q \in Request,
                      verify'[p] = "accepted", verify'[q] = "accepted",
                      Of[p] = Of[q], Deduplicated(Of[p])
               PROVE  p = q
    BY DEF AcceptedOnce, Deduplicated
  <2>1. CASE p = r \/ q = r
    BY <1>3, <1>6, <1>7, <2>1
  <2>2. CASE p # r /\ q # r
    BY <1>3, <2>2 DEF AcceptedOnce
  <2> QED
    BY <2>1, <2>2
<1> QED
  BY <1>4, <1>5, <1>10, <1>11

(* Without deduplication nothing is promised, and nothing recorded.        *)
LEMMA WithoutStoreStep ==
    ASSUME IInv, NEW r \in Request, WithoutStore(r)
    PROVE  IInv'
<1> USE AuthAssumption DEF IInv, WithoutStore, Ends
<1>1. verify'[r] \in {"accepted", "rejected"} /\ ~Deduplicated(Of[r])
  BY DEF AuthTypeOK, UserVerdict
<1>2. \A q \in Request : q # r => verify'[q] = verify[q]
  BY DEF AuthTypeOK
<1>3. AuthTypeOK'
  BY DEF AuthTypeOK, UserVerdict
<1>4. ClockInv' /\ FreshInv'
  BY <1>1, <1>2 DEF ClockInv, FreshInv
<1>5. issued[Of[r]] # 0
  BY DEF FreshInv
<1>6. KeptInv'
  BY <1>1, <1>2, <1>5 DEF KeptInv, Deduplicated, Bound, TTL
<1>7. AcceptedOnce'
  BY <1>1, <1>2 DEF AcceptedOnce, Deduplicated
<1> QED
  BY <1>3, <1>4, <1>6, <1>7

-----------------------------------------------------------------------------
(* IInv is an inductive invariant of the verifier.                         *)
THEOREM AuthInvariance == AuthSpec => []IInv
<1>1. IInv /\ [AuthNext]_authVars => IInv'
  <2> SUFFICES ASSUME IInv, [AuthNext]_authVars PROVE IInv'
    OBVIOUS
  <2>1. CASE Tick
    BY <2>1, TickStep
  <2>2. CASE Signs
    BY <2>2, SignStep
  <2>3. ASSUME NEW r \in Request, Verifies(r) PROVE IInv'
    BY <2>3, VerifyStep, SeenStep, WithoutStoreStep DEF Verifies
  <2>4. CASE UNCHANGED authVars
    BY <2>4 DEF authVars, IInv, AuthTypeOK, ClockInv, FreshInv, KeptInv, AcceptedOnce,
                Deduplicated, Bound, TTL
  <2> QED
    BY <2>1, <2>2, <2>3, <2>4 DEF AuthNext
<1> QED
  BY <1>1, InitIInv, PTL DEF AuthSpec

(* Within the whole pipeline the verifier does nothing but its own steps:  *)
(* Requests implements AuthSpec.                                           *)
THEOREM RequestsAuthenticate == Spec => AuthSpec
<1>1. Init => AuthInit
  BY DEF Init
<1>2. [Next]_vars => [AuthNext]_authVars
  <2> SUFFICES ASSUME [Next]_vars PROVE [AuthNext]_authVars
    OBVIOUS
  <2>1. ASSUME NEW r \in Request, RequestStep(r) PROVE UNCHANGED authVars
    BY <2>1 DEF RequestStep, currentRateLimiter, checkRateLimit, Authenticate, Handle, Call,
                LookUp, CallResolver, RespondUnresolved, Respond
  <2>2. CASE AuthStep
    BY <2>2 DEF AuthStep, AuthNext
  <2>3. CASE PeriodEnds
    BY <2>3 DEF PeriodEnds
  <2>4. ASSUME NEW l \in {"none", "own"}, SetRateLimiter(l) PROVE UNCHANGED authVars
    BY <2>4 DEF SetRateLimiter
  <2>5. ASSUME NEW code \in Registered, NEW status \in Hit, RegisterHTTPStatus(code, status)
        PROVE  UNCHANGED authVars
    BY <2>5 DEF RegisterHTTPStatus, Change
  <2>6. ASSUME NEW f \in Resolvers, SetHTTPStatusResolver(f) PROVE UNCHANGED authVars
    BY <2>6 DEF SetHTTPStatusResolver, Change
  <2>7. CASE UNCHANGED vars
    BY <2>7 DEF vars
  <2> QED
    BY <2>1, <2>2, <2>3, <2>4, <2>5, <2>6, <2>7 DEF Next
<1> QED
  BY <1>1, <1>2, PTL DEF Spec, AuthSpec

(* So no header set is accepted twice in any service, whatever its         *)
(* middleware, its requests and the order they are served in               *)
(* (auth_header.go:99-117, 358-411).                                       *)
THEOREM NoReplay == Spec => []AcceptedOnce
<1>1. IInv => AcceptedOnce
  BY DEF IInv
<1> QED
  BY <1>1, AuthInvariance, RequestsAuthenticate, PTL

-----------------------------------------------------------------------------
(* The pipeline.                                                           *)
Error == [biz : ErrorCode \union {"none"}, fiber : {0} \union 100..599,
          msg : {"own", "cause", "generic", "none"}]
Picked == [registered : Hit \union {0}, resolver : Resolver]
Started == {"new", "limiting", "guarded", "running", "calling"}

PipeTypes ==
    /\ service \in Services
    /\ stage \in [Request -> Stage]
    /\ meant \in [Request -> Error] /\ failure \in [Request -> Error]
    /\ answering \in [Request -> {0, 400, 500}]
    /\ picked \in [Request -> Picked]
    /\ answer = [r \in Request |-> answer[r]]
    /\ possible \in [Request -> SUBSET Int]
    /\ overrides \in Resolver /\ resolver \in Resolver /\ changes \in Nat

LimitTypes ==
    /\ limiter \in {"none", "own"} /\ made \in BOOLEAN
    /\ lim \in [Request -> Limiter \union {"none"}]
    /\ used \in [Limiter -> 0..Limit + 1] /\ passed \in [Limiter -> Nat]

(* Who is answered has an answer, and nobody else has.                     *)
Served ==
    \A r \in Request :
        /\ stage[r] = "answered" => answer[r].status \in 100..599
        /\ stage[r] # "answered" => answer[r] = Unanswered

(* No limiter has let more through than it has counted, and before the     *)
(* default one is made nobody has it.                                      *)
Counted ==
    /\ \A l \in Limiter : passed[l] <= used[l] /\ passed[l] <= Limit
    /\ ~made => /\ used["default"] = 0 /\ passed["default"] = 0
                /\ \A r \in Request : lim[r] # "default"
    /\ \A r \in Request : stage[r] = "limiting" => lim[r] # "none"

(* A request that still runs has not failed, and what a failed one carries *)
(* is what its handler, or the callee, meant.                              *)
Carries(m, err) ==
    /\ err.msg # "none"
    /\ err.msg = "cause" /\ AsBizError(err) => Relayed(m)
    /\ AsBizError(m) /\ AsBizError(err) =>
        /\ err.biz = m.biz \/ (m.biz \notin Portable /\ err.biz = "Internal")
        /\ err.msg = m.msg
Meant ==
    \A r \in Request :
        /\ stage[r] \in Started => meant[r] = Nothing /\ failure[r] = Nothing
        /\ stage[r] \in {"failed", "resolving"} => Carries(meant[r], failure[r])

(* What the lookup took was the current status, which possible remembers.  *)
Looked ==
    \A r \in Request : stage[r] = "resolving" =>
        /\ Resolves(r)
        /\ statusOf(failure[r].biz, picked[r].registered, picked[r].resolver) \in possible[r]

(* Accepted headers stay accepted.                                         *)
Admitted ==
    \A r \in Request :
        service.guard = "headers" /\ stage[r] \in {"running", "calling", "failed", "resolving"}
            => verify[r] = "accepted"

PipeInv ==
    /\ PipeTypes /\ LimitTypes /\ Served /\ Counted /\ Meant /\ Looked /\ Admitted
    /\ StatusIsCurrent /\ AnswersAreFaithful

(* The statuses are HTTP statuses.                                         *)
LEMMA StatusInRange ==
    ASSUME NEW code \in ErrorCode, NEW registered \in Hit \union {0}, NEW f \in Resolver
    PROVE  statusOf(code, registered, f) \in 100..599
<1>1. defaultStatus(code) \in 100..599
  <2>1. ASSUME NEW c \in Standard PROVE httpStatusCode[c] \in 100..599
    BY DEF httpStatusCode
  <2> QED
    BY <2>1 DEF defaultStatus
<1> QED
  BY <1>1, ErrorsAssumption DEF statusOf, Resolver

(* What a handler fails with is an error.                                  *)
LEMMA FailureIsError == ASSUME NEW err \in Failures PROVE err \in Error /\ err \in Failure
BY RequestsAssumption DEF Failure, Error

(* Nothing has happened to a request that is new.                          *)
LEMMA InitPipe == Init => PipeInv
<1> SUFFICES ASSUME Init PROVE PipeInv
  OBVIOUS
<1> USE RequestsAssumption, ErrorsAssumption DEF Init
<1>1. NoResolver \in Resolver
  BY DEF NoResolver, Resolver
<1>2. Nothing \in Error
  BY DEF Nothing, Error
<1>3. NotPicked \in Picked
  BY <1>1 DEF NotPicked, Picked
<1>4. PipeTypes
  BY <1>1, <1>2, <1>3 DEF PipeTypes, Stage
<1>5. LimitTypes /\ Counted
  <2>1. /\ limiter = "none" /\ lim = [r \in Request |-> "none"] /\ made = FALSE
        /\ used = [l \in Limiter |-> 0] /\ passed = [l \in Limiter |-> 0]
        /\ \A r \in Request : stage[r] \in {"new", "guarded"}
    OBVIOUS
  <2>2. Limit \in Nat /\ 0 \in 0..Limit + 1
    OBVIOUS
  <2> HIDE DEF Init
  <2>3. LimitTypes
    BY <2>1, <2>2 DEF LimitTypes
  <2>4. Counted
    BY <2>1, <2>2 DEF Counted, Limiter
  <2> QED
    BY <2>3, <2>4
<1>6. Served /\ Meant /\ Looked /\ Admitted /\ StatusIsCurrent /\ AnswersAreFaithful
  BY DEF Served, Meant, Looked, Admitted, StatusIsCurrent, AnswersAreFaithful, At, Started
<1> QED
  BY <1>4, <1>5, <1>6 DEF PipeInv

(* What neither the limiters nor authentication touch.                     *)
Untouched == UNCHANGED <<service, meant, failure, answering, picked, possible, registryVars>>
KeepsAccepted == \A r \in Request : verify[r] = "accepted" => verify'[r] = "accepted"

(* A request goes on without an answer and without an error.               *)
LEMMA MovesOn ==
    ASSUME PipeInv, NEW r \in Request, NEW s \in Started, stage[r] \in Started, Goes(r, s),
           UNCHANGED answer, Untouched, KeepsAccepted,
           service.guard = "headers" /\ s \in {"running", "calling"} => verify[r] = "accepted"
    PROVE  PipeTypes' /\ Served' /\ Meant' /\ Looked' /\ Admitted' /\ StatusIsCurrent' /\ AnswersAreFaithful'
<1> USE DEF PipeInv, Untouched, registryVars, Goes
<1>1. PipeTypes' /\ stage'[r] = s /\ \A q \in Request : q # r => stage'[q] = stage[q]
  BY DEF PipeTypes, Started, Stage
<1>2. Served' /\ Meant' /\ Looked'
  BY <1>1 DEF Served, Meant, Looked, Started, Resolves, Carries
<1>3. Admitted'
  BY <1>1 DEF Admitted, Started, KeepsAccepted
<1>4. StatusIsCurrent' /\ AnswersAreFaithful'
  BY <1>1 DEF StatusIsCurrent, AnswersAreFaithful, At, Resolves, Started
<1> QED
  BY <1>1, <1>2, <1>3, <1>4

(* It is answered before it has failed.                                    *)
LEMMA AnswersEarly ==
    ASSUME PipeInv, NEW r \in Request, NEW response, stage[r] \in Started, Answers(r, response),
           response.status \in 100..599, response.msg # "cause",
           Untouched, KeepsAccepted
    PROVE  PipeTypes' /\ Served' /\ Meant' /\ Looked' /\ Admitted' /\ StatusIsCurrent' /\ AnswersAreFaithful'
<1> USE DEF PipeInv, Untouched, registryVars, Goes, Answers
<1>1. /\ PipeTypes' /\ stage'[r] = "answered" /\ answer'[r] = response
      /\ \A q \in Request : q # r => stage'[q] = stage[q] /\ answer'[q] = answer[q]
  BY DEF PipeTypes, Stage
<1>2. meant[r] = Nothing /\ failure[r] = Nothing /\ ~AsBizError(Nothing)
  BY DEF Meant, AsBizError, Nothing
<1>3. Served' /\ Meant' /\ Looked'
  BY <1>1 DEF Served, Meant, Looked, Started, Resolves, Carries
<1>4. Admitted'
  BY <1>1 DEF Admitted, Started, KeepsAccepted
<1>5. StatusIsCurrent' /\ AnswersAreFaithful'
  BY <1>1, <1>2 DEF StatusIsCurrent, AnswersAreFaithful, At, Resolves
<1> QED
  BY <1>1, <1>3, <1>4, <1>5

(* Answers of the middleware.                                              *)
LEMMA OwnAnswers ==
    /\ \A code \in {429, 500} : /\ ErrorWithCode(code, Plain, 0).status \in 100..599
                                /\ ErrorWithCode(code, Plain, 0).msg # "cause"
    /\ \A response \in {Unauthorized("own"), InternalError, Ok} :
            response.status \in 100..599 /\ response.msg # "cause"
BY DEF ErrorWithCode, Plain, AsBizError, respJSONWithStatusCode, Result, normalizeHTTPStatusCode,
       Unauthorized, InternalError, Ok

(* The limiters.                                                           *)
LEMMA LimitKeeps ==
    ASSUME PipeInv, NEW r \in Request, currentRateLimiter(r) \/ checkRateLimit(r)
    PROVE  PipeInv'
<1> USE RequestsAssumption DEF PipeInv
<1>1. KeepsAccepted
  BY DEF currentRateLimiter, checkRateLimit, authVars, KeepsAccepted
<1>2. CASE currentRateLimiter(r)
  <2>1. /\ stage[r] = "new" /\ Goes(r, "limiting") /\ Untouched /\ UNCHANGED <<answer, limiter, passed>>
    BY <1>2 DEF currentRateLimiter, Untouched, answerVars, At
  <2>2. PipeTypes' /\ Served' /\ Meant' /\ Looked' /\ Admitted' /\ StatusIsCurrent' /\ AnswersAreFaithful'
    BY <1>1, <2>1, MovesOn DEF Started
  <2>3. LimitTypes' /\ Counted'
    <3>1. /\ stage' = [stage EXCEPT ![r] = "limiting"]
          /\ \/ /\ limiter # "none" /\ lim' = [lim EXCEPT ![r] = limiter]
                /\ UNCHANGED <<made, used>>
             \/ /\ lim' = [lim EXCEPT ![r] = "default"] /\ made' = TRUE
                /\ used' = IF ~made THEN [used EXCEPT !["default"] = 0] ELSE used
      BY <1>2 DEF currentRateLimiter, Goes, FirstUse
    <3>2. LimitTypes'
      <4>1. lim' \in [Request -> Limiter \union {"none"}]
        BY <3>1 DEF LimitTypes, Limiter
      <4>2. used' \in [Limiter -> 0..Limit + 1]
        BY <3>1 DEF LimitTypes
      <4> QED
        BY <2>1, <3>1, <4>1, <4>2 DEF LimitTypes
    <3>3. \A l \in Limiter : used'[l] = used[l]
      BY <3>1 DEF LimitTypes, Counted, Limiter
    <3>4. Counted'
      BY <2>1, <3>1, <3>3 DEF LimitTypes, Counted, Limiter, PipeTypes
    <3> QED
      BY <3>2, <3>4
  <2> QED
    BY <2>2, <2>3
<1>3. CASE checkRateLimit(r)
  <2> DEFINE count == used[lim[r]] + 1
  <2>1. /\ stage[r] = "limiting" /\ Untouched /\ UNCHANGED <<limiter, made, lim>>
        /\ lim[r] \in Limiter
    BY <1>3 DEF checkRateLimit, Untouched, Rest, At, LimitTypes, Counted
  <2>2. CASE /\ \E code \in {429, 500} : Answers(r, ErrorWithCode(code, Plain, 0))
             /\ UNCHANGED passed
             /\ used' \in {used, [used EXCEPT ![lim[r]] = IF count > Limit THEN Limit + 1 ELSE count]}
    <3>1. PipeTypes' /\ Served' /\ Meant' /\ Looked' /\ Admitted' /\ StatusIsCurrent' /\ AnswersAreFaithful'
      BY <1>1, <2>1, <2>2, AnswersEarly, OwnAnswers DEF Started
    <3>2. LimitTypes' /\ Counted'
      <4>1. stage' = [stage EXCEPT ![r] = "answered"]
        BY <2>2 DEF Answers, Goes
      <4>2. used' \in [Limiter -> 0..Limit + 1] /\ \A l \in Limiter : used'[l] >= used[l]
        BY <2>1, <2>2 DEF LimitTypes
      <4>3. LimitTypes'
        BY <2>1, <2>2, <4>2 DEF LimitTypes
      <4>4. \A l \in Limiter : passed[l] <= used'[l]
        BY <4>2 DEF LimitTypes, Counted
      <4>5. ~made => used'["default"] = 0
        BY <2>1, <2>2 DEF LimitTypes, Counted, Limiter
      <4> QED
        BY <2>1, <2>2, <4>1, <4>3, <4>4, <4>5 DEF Counted, PipeTypes
    <3> QED
      BY <3>1, <3>2
  <2>3. CASE /\ Goes(r, "guarded") /\ UNCHANGED answer
             /\ count <= Limit
             /\ used' = [used EXCEPT ![lim[r]] = count]
             /\ passed' = [passed EXCEPT ![lim[r]] = @ + 1]
    <3>1. PipeTypes' /\ Served' /\ Meant' /\ Looked' /\ Admitted' /\ StatusIsCurrent' /\ AnswersAreFaithful'
      BY <1>1, <2>1, <2>3, MovesOn DEF Started
    <3>2. LimitTypes' /\ Counted'
      BY <2>1, <2>3 DEF LimitTypes, Counted, PipeTypes, Goes
    <3> QED
      BY <3>1, <3>2
  <2> QED
    <3>1. count \in Int /\ (count > Limit \/ count <= Limit)
      BY <2>1 DEF LimitTypes
    <3> QED
      BY <1>3, <2>2, <2>3, <3>1 DEF checkRateLimit
<1> QED
  BY <1>2, <1>3

(* Their replacement, and the end of a period.                             *)
LEMMA PeriodKeeps ==
    ASSUME PipeInv, PeriodEnds \/ \E l \in {"none", "own"} : SetRateLimiter(l)
    PROVE  PipeInv'
<1> USE RequestsAssumption DEF PipeInv
<1>1. UNCHANGED <<authVars, service, stage, answerVars, registryVars, made, lim>>
  BY DEF PeriodEnds, SetRateLimiter
<1>2. \/ limiter' \in {"none", "own"} /\ UNCHANGED <<used, passed>>
      \/ UNCHANGED limiter /\ used' = [l \in Limiter |-> 0] /\ passed' = [l \in Limiter |-> 0]
  BY DEF PeriodEnds, SetRateLimiter
<1>3. LimitTypes' /\ Counted'
  BY <1>1, <1>2 DEF LimitTypes, Counted, Limiter
<1>4. PipeTypes' /\ Served' /\ Meant' /\ Looked' /\ Admitted' /\ StatusIsCurrent' /\ AnswersAreFaithful'
  BY <1>1 DEF PipeTypes, Served, Meant, Looked, Admitted, StatusIsCurrent, AnswersAreFaithful,
              authVars, answerVars, registryVars, At, Resolves, Carries
<1> QED
  BY <1>3, <1>4

(* A stage later than the limiter leaves the counts alone.                 *)
LEMMA CountsKept ==
    ASSUME PipeInv, NEW r \in Request, NEW s \in Stage \ {"limiting"}, Goes(r, s), UNCHANGED limitVars
    PROVE  LimitTypes' /\ Counted'
BY DEF PipeInv, LimitTypes, Counted, Goes, limitVars, PipeTypes

(* Authentication.                                                         *)
LEMMA GuardKeeps ==
    ASSUME PipeInv, NEW r \in Request, Authenticate(r)
    PROVE  PipeInv'
<1>1. /\ KeepsAccepted /\ Untouched /\ UNCHANGED limitVars /\ stage[r] = "guarded"
  BY DEF Authenticate, authVars, KeepsAccepted, Untouched, Rest, At
<1>2. CASE Admits(r) /\ (service.guard = "headers" => verify[r] = "accepted")
  BY <1>1, <1>2, MovesOn, CountsKept DEF Admits, Started, Stage, PipeInv
<1>3. CASE \E response \in {Unauthorized("own"), InternalError} : Answers(r, response)
  <2>1. LimitTypes' /\ Counted'
    BY <1>1, <1>3, CountsKept DEF Answers, Stage
  <2> QED
    BY <1>1, <1>3, <2>1, AnswersEarly, OwnAnswers DEF Started, PipeInv
<1> QED
  BY <1>2, <1>3 DEF Authenticate, APIKey, AuthHeaders

(* The verifier, the signer and the clock move.                            *)
LEMMA VerifierKeeps ==
    ASSUME PipeInv, AuthTypeOK, AuthStep
    PROVE  PipeInv'
<1>1. UNCHANGED <<service, stage, answerVars, registryVars, limitVars>>
  BY DEF AuthStep
<1>2. KeepsAccepted
  BY DEF AuthStep, Tick, Signs, BuildHeaders, Verifies, VerifyHeaders, Seen, WithoutStore, Ends,
         KeepsAccepted, AuthTypeOK
<1> QED
  BY <1>1, <1>2 DEF PipeInv, PipeTypes, LimitTypes, Served, Counted, Meant, Looked, Admitted, StatusIsCurrent,
              AnswersAreFaithful, answerVars, registryVars, limitVars, At, Resolves, Carries, KeepsAccepted

-----------------------------------------------------------------------------
(* A BizError that comes back from a gRPC call is what it was, or Internal *)
(* if its code cannot be sent.                                             *)
LEMMA OverGRPC ==
    ASSUME NEW err \in Failure
    PROVE  /\ FromGRPCError(ToGRPCError(err)) \in Error
           /\ Carries(err, FromGRPCError(ToGRPCError(err)))
<1> DEFINE sent == ToGRPCError(err)
           back == FromGRPCError(sent)
<1>1. /\ err.biz \in ErrorCode \union {"none"} /\ err.msg \in {"own", "cause"}
      /\ AsBizError(err) => err.msg = "own"
  BY DEF Failure
<1>2. CASE ~AsBizError(err)
  <2>1. sent = Status("Internal", "generic")
    BY <1>2 DEF ToGRPCError
  <2>2. back = Biz("Internal", "generic")
    BY <2>1 DEF FromGRPCError, NoStatus, Status, GRPCNamed
  <2>3. back \in Error /\ Carries(err, back)
    <3> HIDE DEF back
    <3> QED
      BY <1>2, <2>2 DEF Biz, Error, Carries, ErrorCode, Standard, AsBizError
  <2> QED
    BY <2>3
<1>3. CASE AsBizError(err) /\ err.biz \in Standard
  <2>1. sent.grpc = (IF err.biz = "Timeout" THEN "DeadlineExceeded" ELSE err.biz) /\ sent.msg = "own"
    BY <1>1, <1>3 DEF ToGRPCError, errorCodeToGRPCCode, Status
  <2>2. back = Biz(IF err.biz = "Unknown" THEN "Internal" ELSE err.biz, "own")
    <3> HIDE DEF sent
    <3> QED
      BY <1>3, <2>1 DEF FromGRPCError, NoStatus, Status, GRPCNamed, Standard
  <2>3. back \in Error /\ Carries(err, back)
    <3> HIDE DEF back
    <3> QED
      BY <1>1, <1>3, <2>2 DEF Biz, Error, Carries, ErrorCode, Standard, Portable, AsBizError
  <2> QED
    BY <2>3
<1>4. CASE AsBizError(err) /\ err.biz \notin Standard
  <2>1. sent = Status("Unknown", "own")
    BY <1>1, <1>4 DEF ToGRPCError
  <2>2. back = Biz("Internal", "own")
    BY <2>1 DEF FromGRPCError, NoStatus, Status, GRPCNamed
  <2>3. back \in Error /\ Carries(err, back)
    <3> HIDE DEF back
    <3> QED
      BY <1>1, <1>4, <2>2 DEF Biz, Error, Carries, ErrorCode, Standard, Portable, AsBizError
  <2> QED
    BY <2>3
<1> QED
  BY <1>2, <1>3, <1>4

(* A handler's own errors, and grpc-go's.                                  *)
LEMMA OwnErrors ==
    /\ \A err \in Failures \union {Plain} : err \in Error /\ Carries(err, err)
    /\ FromGRPCError(Status("Internal", "generic")) \in Error
    /\ Carries(Plain, FromGRPCError(Status("Internal", "generic")))
    /\ \A status \in Unconverted :
            FromGRPCError(status) \in Error /\ Carries(FromGRPCError(status), FromGRPCError(status))
<1>1. ASSUME NEW err \in Failures PROVE err \in Error /\ Carries(err, err)
  BY <1>1, RequestsAssumption DEF Failure, Error, Carries
<1>2. Plain \in Error /\ Carries(Plain, Plain)
  BY DEF Plain, Error, Carries, AsBizError
<1>3. /\ FromGRPCError(Status("Internal", "generic")) \in Error
      /\ Carries(Plain, FromGRPCError(Status("Internal", "generic")))
  BY DEF Plain, Error, Carries, AsBizError, FromGRPCError, Status, GRPCNamed, Biz, ErrorCode, Standard
<1>4. ASSUME NEW status \in Unconverted
      PROVE  FromGRPCError(status) \in Error /\ Carries(FromGRPCError(status), FromGRPCError(status))
  <2>1. \E code \in Standard, text \in {"cause", "generic"} : FromGRPCError(status) = Biz(code, text)
    <3>1. CASE status = NoStatus
      BY <3>1 DEF FromGRPCError, Standard
    <3>2. CASE status # NoStatus
      <4>1. status.msg = "cause"
        BY <3>2 DEF Unconverted, Status
      <4> QED
        BY <3>2, <4>1 DEF FromGRPCError, GRPCNamed, Standard
    <3> QED
      BY <3>1, <3>2
  <2>2. PICK code \in Standard, text \in {"cause", "generic"} : FromGRPCError(status) = Biz(code, text)
    BY <2>1
  <2> HIDE DEF FromGRPCError
  <2> QED
    BY <2>2 DEF Biz, Error, Carries, Relayed, AsBizError, ErrorCode, Standard
<1> QED
  BY <1>1, <1>2, <1>3, <1>4

(* The handler of r ends with err, meaning m.                              *)
LEMMA FailureKeeps ==
    ASSUME PipeInv, NEW r \in Request, stage[r] \in {"running", "calling"},
           NEW err \in Error, NEW m \in Error, NEW code \in {0, 400, 500}, Carries(m, err),
           Fails(r, err, code), meant' = [meant EXCEPT ![r] = m],
           UNCHANGED <<authVars, service, registryVars, limitVars>>
    PROVE  PipeInv'
<1>0. LimitTypes' /\ Counted'
  BY CountsKept DEF Fails, Stage
<1> USE DEF PipeInv, Fails, Goes, registryVars, authVars
<1>1. /\ PipeTypes' /\ stage'[r] = "failed" /\ failure'[r] = err /\ meant'[r] = m
      /\ \A q \in Request : q # r => /\ stage'[q] = stage[q] /\ failure'[q] = failure[q]
                                     /\ meant'[q] = meant[q] /\ answering'[q] = answering[q]
  BY DEF PipeTypes, Stage
<1>3. Served' /\ Meant' /\ Looked'
  BY <1>1 DEF Served, Meant, Looked, Started, Resolves
<1>4. Admitted'
  BY <1>1 DEF Admitted
<1>5. StatusIsCurrent' /\ AnswersAreFaithful'
  BY <1>1 DEF StatusIsCurrent, AnswersAreFaithful, At, Resolves
<1> QED
  BY <1>0, <1>1, <1>3, <1>4, <1>5

(* The handler, and the service it calls.                                  *)
LEMMA HandlerKeeps ==
    ASSUME PipeInv, NEW r \in Request, Handle(r) \/ Call(r)
    PROVE  PipeInv'
<1>1. /\ stage[r] \in {"running", "calling"}
      /\ UNCHANGED <<authVars, service, registryVars, limitVars>>
      /\ KeepsAccepted
  BY DEF Handle, Call, At, authVars, KeepsAccepted
<1>2. CASE Answers(r, Ok) /\ UNCHANGED Rest
  <2>1. LimitTypes' /\ Counted'
    BY <1>1, <1>2, CountsKept DEF Answers, Stage
  <2> QED
    BY <1>1, <1>2, <2>1, AnswersEarly, OwnAnswers DEF Started, PipeInv, Untouched, Rest
<1>3. CASE Goes(r, "calling") /\ UNCHANGED answerVars
  <2>1. service.guard = "headers" => verify[r] = "accepted"
    BY <1>1 DEF PipeInv, Admitted
  <2>2. LimitTypes' /\ Counted'
    BY <1>1, <1>3, CountsKept DEF Stage
  <2> QED
    BY <1>1, <1>3, <2>1, <2>2, MovesOn DEF Started, PipeInv, Untouched, answerVars
<1>4. CASE \E err \in Failures \union {Plain}, code \in {0, 400, 500} :
            Fails(r, err, code) /\ meant' = [meant EXCEPT ![r] = err]
  <2>1. PICK e \in Failures \union {Plain}, c \in {0, 400, 500} :
            Fails(r, e, c) /\ meant' = [meant EXCEPT ![r] = e]
    BY <1>4
  <2>2. e \in Error /\ Carries(e, e)
    BY OwnErrors
  <2>3. Fails(r, e, c) /\ meant' = [meant EXCEPT ![r] = e]
    BY <2>1
  <2>4. CASE c = 0
    BY <1>1, <2>2, <2>3, <2>4, FailureKeeps
  <2>5. CASE c = 400
    BY <1>1, <2>2, <2>3, <2>5, FailureKeeps
  <2>6. CASE c = 500
    BY <1>1, <2>2, <2>3, <2>6, FailureKeeps
  <2> QED
    BY <2>4, <2>5, <2>6
<1>5. CASE \E err \in Failures \union {Plain} :
            /\ meant' = [meant EXCEPT ![r] = err]
            /\ Fails(r, FromGRPCError(ToGRPCError(err)), 0)
  <2>1. Plain \in Error /\ Plain \in Failure
    BY OwnErrors DEF Plain, Failure, AsBizError, AsFiberError
  <2>2. PICK m \in Failures \union {Plain} :
            /\ meant' = [meant EXCEPT ![r] = m]
            /\ Fails(r, FromGRPCError(ToGRPCError(m)), 0)
    BY <1>5
  <2>3. m \in Error /\ m \in Failure
    BY <2>1, FailureIsError
  <2>4. /\ FromGRPCError(ToGRPCError(m)) \in Error
        /\ Carries(m, FromGRPCError(ToGRPCError(m)))
    BY <2>3, OverGRPC
  <2> QED
    BY <1>1, <2>2, <2>3, <2>4, FailureKeeps
<1>6. CASE /\ meant' = [meant EXCEPT ![r] = Plain]
           /\ \E err \in {Plain, FromGRPCError(Status("Internal", "generic"))} : Fails(r, err, 0)
  <2>1. PICK e \in {Plain, FromGRPCError(Status("Internal", "generic"))} : Fails(r, e, 0)
    BY <1>6
  <2>2. e \in Error /\ Plain \in Error /\ Carries(Plain, e)
    BY <2>1, OwnErrors
  <2> QED
    BY <1>1, <1>6, <2>1, <2>2, FailureKeeps
<1>7. CASE \E status \in Unconverted :
            /\ meant' = [meant EXCEPT ![r] = FromGRPCError(status)]
            /\ Fails(r, FromGRPCError(status), 0)
  BY <1>1, <1>7, FailureKeeps, OwnErrors
<1> QED
  BY <1>2, <1>3, <1>4, <1>5, <1>6, <1>7 DEF Handle, Call

-----------------------------------------------------------------------------
(* The registry is looked up.                                              *)
LEMMA LookUpKeeps ==
    ASSUME PipeInv, NEW r \in Request, LookUp(r)
    PROVE  PipeInv'
<1>0. LimitTypes' /\ Counted'
  BY CountsKept DEF LookUp, Stage
<1> USE DEF PipeInv, LookUp, Goes, registryVars, authVars, At
<1>1. failure[r].biz \in ErrorCode
  BY DEF PipeTypes, Error, Resolves, AsBizError
<1>2. /\ overrides[failure[r].biz] \in Hit \union {0}
      /\ Current(failure[r].biz, overrides, resolver) \in Int
  <2>1. overrides[failure[r].biz] \in Hit \union {0}
    BY <1>1 DEF PipeTypes, Resolver
  <2>2. statusOf(failure[r].biz, overrides[failure[r].biz], resolver) \in 100..599
    <3>1. resolver \in Resolver
      BY DEF PipeTypes
    <3> HIDE DEF LookUp, PipeInv
    <3> QED
      BY <1>1, <2>1, <3>1, StatusInRange
  <2> QED
    <3> HIDE DEF LookUp, PipeInv
    <3> QED
      BY <2>1, <2>2 DEF Current
<1>3. /\ PipeTypes' /\ stage'[r] = "resolving"
      /\ \A q \in Request : q # r => /\ stage'[q] = stage[q] /\ picked'[q] = picked[q]
                                     /\ possible'[q] = possible[q]
  BY <1>2 DEF PipeTypes, Stage, Picked
<1>5. Served' /\ Meant' /\ Admitted'
  BY <1>3 DEF Served, Meant, Admitted, Started
<1>6. Looked'
  BY <1>3 DEF Looked, Resolves, Current, PipeTypes
<1>7. StatusIsCurrent' /\ AnswersAreFaithful'
  BY <1>3 DEF StatusIsCurrent, AnswersAreFaithful, Resolves
<1> QED
  BY <1>0, <1>3, <1>5, <1>6, <1>7

(* The answer to a failure.                                                *)
LEMMA AnswerKeeps ==
    ASSUME PipeInv, NEW r \in Request, CallResolver(r) \/ RespondUnresolved(r)
    PROVE  PipeInv'
<1> USE DEF PipeInv
<1>1. PICK resolved \in Int :
        /\ Respond(r, resolved)
        /\ Resolves(r) => resolved \in possible[r] /\ resolved \in 100..599
        /\ stage[r] \in {"failed", "resolving"}
  <2>1. CASE CallResolver(r)
    <3> DEFINE resolved == statusOf(failure[r].biz, picked[r].registered, picked[r].resolver)
    <3>1. stage[r] = "resolving" /\ Respond(r, resolved) /\ Resolves(r) /\ resolved \in possible[r]
      BY <2>1 DEF CallResolver, ResolverOf, At, Looked
    <3>2. resolved \in 100..599
      <4>1. failure[r].biz \in ErrorCode
        BY <3>1 DEF PipeTypes, Error, Resolves, AsBizError
      <4>2. picked[r].registered \in Hit \union {0} /\ picked[r].resolver \in Resolver
        BY DEF PipeTypes, Picked
      <4> QED
        BY <4>1, <4>2, StatusInRange
    <3> QED
      BY <3>1, <3>2
  <2>2. CASE RespondUnresolved(r)
    BY <2>2 DEF RespondUnresolved, At
  <2> QED
    BY <2>1, <2>2
<1> DEFINE response == IF answering[r] = 0 THEN ErrorHandler(failure[r], resolved)
                       ELSE ErrorWithCode(answering[r], failure[r], resolved)
<1>2. /\ Answers(r, response) /\ failure[r] \in Error /\ answering[r] \in {0, 400, 500}
      /\ UNCHANGED <<authVars, service, Rest, registryVars, limitVars>>
      /\ Carries(meant[r], failure[r])
  BY <1>1 DEF Respond, PipeTypes, Meant
<1>3. /\ response.status \in 100..599 /\ (response.msg = "cause" => Relayed(meant[r]))
      /\ Resolves(r) /\ answering[r] # 400 => response.status = resolved
      /\ Resolves(r) => response.code[2] = failure[r].biz /\ response.msg = failure[r].msg
  <2> HIDE DEF PipeInv
  <2>1. CASE answering[r] = 0 /\ AsFiberError(failure[r])
    BY <1>2, <2>1 DEF ErrorHandler, Result, Resolves, Error, AsFiberError
  <2>2. CASE AsBizError(failure[r]) /\ ~(answering[r] = 0 /\ AsFiberError(failure[r]))
    <3>1. response = Result(IF answering[r] \in {0, 500} THEN resolved ELSE answering[r],
                            <<"biz", failure[r].biz>>, failure[r].msg)
      BY <1>2, <2>2 DEF ErrorHandler, ErrorWithCode
    <3>2. Resolves(r)
      BY <2>2 DEF Resolves
    <3> HIDE DEF response
    <3> QED
      BY <1>1, <1>2, <2>2, <3>1, <3>2 DEF Result, Carries
  <2>3. CASE ~AsBizError(failure[r]) /\ ~(answering[r] = 0 /\ AsFiberError(failure[r]))
    <3>1. response = respJSONWithStatusCode(IF answering[r] = 0 THEN 500 ELSE answering[r], "generic")
      BY <1>2, <2>3 DEF ErrorHandler, ErrorWithCode
    <3> HIDE DEF response
    <3> QED
      BY <1>2, <2>3, <3>1 DEF respJSONWithStatusCode, Result, normalizeHTTPStatusCode, Resolves
  <2> QED
    BY <2>1, <2>2, <2>3
<1> HIDE DEF response
<1>4. /\ PipeTypes' /\ stage'[r] = "answered" /\ answer'[r] = response
      /\ UNCHANGED <<meant, failure, answering, possible, picked>>
      /\ \A q \in Request : q # r => stage'[q] = stage[q] /\ answer'[q] = answer[q]
  BY <1>2 DEF PipeTypes, Stage, Answers, Goes, Rest, registryVars
<1>5. LimitTypes' /\ Counted'
  BY <1>2, CountsKept DEF Stage, Answers
<1>6. Served' /\ Meant' /\ Looked' /\ Admitted'
  BY <1>2, <1>3, <1>4 DEF Served, Meant, Looked, Admitted, Started, Resolves, authVars
<1>7. StatusIsCurrent'
  BY <1>1, <1>3, <1>4 DEF StatusIsCurrent, At, Resolves
<1>8. AnswersAreFaithful'
  <2>1. AsBizError(meant[r]) /\ Resolves(r) =>
            /\ response.code[2] \in {meant[r].biz}
                    \union (IF meant[r].biz \in Portable THEN {} ELSE {"Internal"})
            /\ response.msg = meant[r].msg
    BY <1>2, <1>3 DEF Carries, Resolves
  <2> QED
    BY <1>3, <1>4, <2>1 DEF AnswersAreFaithful, At, Resolves
<1> QED
  BY <1>4, <1>5, <1>6, <1>7, <1>8

(* The registry changes.                                                   *)
LEMMA ChangeKeeps ==
    ASSUME PipeInv, NEW o \in Resolver, NEW f \in Resolver, Change(o, f)
    PROVE  PipeInv'
<1> USE DEF PipeInv
<1>1. UNCHANGED <<authVars, service, stage, meant, failure, answering, picked, answer, limitVars>>
  BY DEF Change
<1>2. \A r \in Request : possible[r] \subseteq possible'[r]
  BY DEF Change, PipeTypes
<1>3. possible' \in [Request -> SUBSET Int]
  <2>1. ASSUME NEW r \in Request, At(r, "resolving") PROVE Current(failure[r].biz, o, f) \in Int
    <3>1. failure[r].biz \in ErrorCode
      BY <2>1 DEF Looked, At, PipeTypes, Error, Resolves, AsBizError
    <3>2. o[failure[r].biz] \in Hit \union {0}
      BY <3>1 DEF Resolver
    <3>3. statusOf(failure[r].biz, o[failure[r].biz], f) \in 100..599
      BY <3>1, <3>2, StatusInRange
    <3> QED
      BY <3>3 DEF Current
  <2> QED
    BY <2>1 DEF Change, PipeTypes
<1>4. PipeTypes'
  BY <1>1, <1>3 DEF PipeTypes, Change
<1>5. LimitTypes' /\ Counted' /\ Served' /\ Meant' /\ Admitted'
  BY <1>1 DEF LimitTypes, Counted, Served, Meant, Admitted, limitVars, authVars
<1>6. Looked' /\ StatusIsCurrent' /\ AnswersAreFaithful'
  BY <1>1, <1>2 DEF Looked, StatusIsCurrent, AnswersAreFaithful, Resolves, At
<1> QED
  BY <1>4, <1>5, <1>6

-----------------------------------------------------------------------------
(* PipeInv is inductive, given the verifier's types.                       *)
LEMMA PipeKeeps == PipeInv /\ AuthTypeOK /\ [Next]_vars => PipeInv'
<1> SUFFICES ASSUME PipeInv, AuthTypeOK, [Next]_vars PROVE PipeInv'
  OBVIOUS
<1>1. ASSUME NEW r \in Request, RequestStep(r) PROVE PipeInv'
  BY <1>1, LimitKeeps, GuardKeeps, HandlerKeeps, LookUpKeeps, AnswerKeeps DEF RequestStep
<1>2. CASE AuthStep
  BY <1>2, VerifierKeeps
<1>3. CASE PeriodEnds \/ \E l \in {"none", "own"} : SetRateLimiter(l)
  BY <1>3, PeriodKeeps
<1>4. ASSUME NEW code \in Registered, NEW status \in Hit, RegisterHTTPStatus(code, status)
      PROVE  PipeInv'
  <2>1. resolver \in Resolver /\ [overrides EXCEPT ![code] = status] \in Resolver
    BY RequestsAssumption DEF PipeInv, PipeTypes, Resolver
  <2> QED
    BY <1>4, <2>1, ChangeKeeps DEF RegisterHTTPStatus
<1>5. ASSUME NEW f \in Resolvers, SetHTTPStatusResolver(f) PROVE PipeInv'
  BY <1>5, ChangeKeeps, RequestsAssumption DEF SetHTTPStatusResolver, PipeInv, PipeTypes
<1>6. CASE UNCHANGED vars
  BY <1>6 DEF vars, authVars, answerVars, registryVars, limitVars, PipeInv, PipeTypes, LimitTypes, Served,
              Counted, Meant, Looked, Admitted, StatusIsCurrent, AnswersAreFaithful, At, Resolves
<1> QED
  BY <1>1, <1>2, <1>3, <1>4, <1>5, <1>6 DEF Next

(* PipeInv and the verifier's types hold throughout.                       *)
THEOREM PipeInvariance == Spec => [](PipeInv /\ AuthTypeOK)
<1>1. IInv => AuthTypeOK
  BY DEF IInv
<1> QED
  BY <1>1, InitPipe, PipeKeeps, AuthInvariance, RequestsAuthenticate, PTL DEF Spec

(* Handlers behind header authentication run for accepted headers only,    *)
(* and no limiter lets more than Limit through in a period, however first  *)
(* uses and replacements interleave (auth_header.go:323-356,               *)
(* ratelimit.go:99-131).                                                   *)
THEOREM OnlyAdmitted == Spec => []Inv
<1>1. PipeInv /\ AuthTypeOK => Inv
  <2> SUFFICES ASSUME PipeInv, AuthTypeOK PROVE Inv
    OBVIOUS
  <2>1. TypeOK
    <3>1. /\ service \in Services /\ stage \in [Request -> Stage]
          /\ answering \in [Request -> {0, 400, 500}]
          /\ overrides \in Resolver /\ resolver \in Resolver
      BY DEF PipeInv, PipeTypes
    <3>2. /\ limiter \in {"none", "own"} /\ made \in BOOLEAN
          /\ lim \in [Request -> Limiter \union {"none"}] /\ used \in [Limiter -> 0..Limit + 1]
      BY DEF PipeInv, LimitTypes
    <3>3. ASSUME NEW r \in Request
          PROVE  /\ meant[r].biz \in ErrorCode \union {"none"}
                 /\ failure[r].biz \in ErrorCode \union {"none"}
      BY <3>3 DEF PipeInv, PipeTypes, Error
    <3>4. ASSUME NEW r \in Request
          PROVE  /\ stage[r] = "answered" <=> answer[r] # Unanswered
                 /\ stage[r] = "answered" => answer[r].status \in 100..599
      <4>1. Unanswered.status = 0
        BY DEF Unanswered
      <4> QED
        BY <4>1 DEF PipeInv, Served
    <3> QED
      BY <3>1, <3>2, <3>3, <3>4 DEF TypeOK
  <2>2. OnlyAdmittedRun
    BY DEF PipeInv, OnlyAdmittedRun, Admitted, Counted
  <2> QED
    BY <2>1, <2>2 DEF Inv
<1> QED
  BY <1>1, PipeInvariance, PTL

(* A status that is answered was current while it was looked up            *)
(* (errors.go:293-311).                                                    *)
THEOREM StatusWasCurrent == Spec => []StatusIsCurrent
<1>1. PipeInv => StatusIsCurrent
  BY DEF PipeInv
<1> QED
  BY <1>1, PipeInvariance, PTL

(* What the service that failed meant is what the caller reads, and the    *)
(* text of an error not meant for it only if FromGRPCError took it over    *)
(* from a status that ToGRPCError did not make (errors.go:163-240).        *)
THEOREM FaithfulAnswers == Spec => []AnswersAreFaithful
<1>1. PipeInv => AnswersAreFaithful
  BY DEF PipeInv
<1> QED
  BY <1>1, PipeInvariance, PTL
=============================================================================
