------------------------------ MODULE Requests ------------------------------
(***************************************************************************)
(* An HTTP request through the middleware of a service: the rate limiter   *)
(* (middleware/ratelimit.go), authentication by headers (AuthHeader) or by *)
(* API key (middleware/apikey.go), the handler, which may call another     *)
(* service over gRPC (interceptors of transport/grpc/server.go), and the   *)
(* response (errors, response, middleware/error.go), while other           *)
(* goroutines replace the limiter and the statuses errors are mapped to.   *)
(*                                                                         *)
(* fiber, grpc-go and the limiter's library are outside src/: a limiter    *)
(* counts the calls of Get in a period and says whether the limit is past; *)
(* fiber's recover middleware turns a panic into an error.                 *)
(***************************************************************************)
EXTENDS AuthHeader, Errors

CONSTANTS
    Services,   \* middleware that is installed, and how long statuses change
    Failures,   \* errors a handler, here or behind gRPC, may end with
    Registered, \* codes for which a status may be registered
    Resolvers,  \* resolvers that may be set
    Limit       \* of both limiters, for all the requests (one key)

(* changes bounds those of the registry, which most services only make     *)
(* before they serve; the clock is only looked at by "headers".            *)
Service == [limited : BOOLEAN, guard : {"off", "headers", "apikey"}, changes : Nat]

(* What a handler may end with: a BizError and a fiber.Error have a text   *)
(* meant for the caller, and the latter a status.                          *)
Failure ==
    {err \in [biz : ErrorCode \union {"none"}, fiber : {0} \union 100..599, msg : {"own", "cause"}] :
        err.msg = "own" <=> AsBizError(err) \/ AsFiberError(err)}

ASSUME RequestsAssumption ==
    /\ Services \subseteq Service /\ Failures \subseteq Failure
    /\ Registered \subseteq ErrorCode /\ Resolvers \subseteq Resolver
    /\ Limit \in Nat

VARIABLES
    service,   \* this one
    stage,     \* of a request
    meant,     \* ghost: the error its handler, or the callee, has ended with; if
               \* the callee did not convert it, what FromGRPCError makes of it
    failure,   \* the error to be answered
    answering, \* by the ErrorHandler, or by ErrorWithCode with this status
    picked,    \* what resolveHTTPStatus took from the registry
    answer,
    overrides, resolver, \* httpStatusOverrides, httpStatusResolverFn
    changes,   \* times they were changed
    possible,  \* ghost: statuses that were current while one was resolved
    limiter,   \* rateLimiter: "none" (nil) or "own"
    made,      \* defaultLimiterOnce is done
    lim,       \* the limiter a request has read
    used,      \* calls of Get in this period, up to Limit + 1
    passed     \* ghost: requests let through in this period

answerVars == <<meant, failure, answering, picked, answer, possible>>
registryVars == <<overrides, resolver, changes>>
limitVars == <<limiter, made, lim, used, passed>>
vars == <<authVars, service, stage, answerVars, registryVars, limitVars>>

Limiter == {"default", "own"}
Stage == {"new", "limiting", "guarded", "running", "calling", "failed", "resolving", "answered"}
Unanswered == [status |-> 0, code |-> <<"none">>, msg |-> "none"]
Nothing == [biz |-> "none", fiber |-> 0, msg |-> "none"]
NotPicked == [registered |-> 0, resolver |-> NoResolver]

TypeOK ==
    /\ AuthTypeOK /\ service \in Services
    /\ stage \in [Request -> Stage]
    /\ \A r \in Request :
        /\ meant[r].biz \in ErrorCode \union {"none"}
        /\ failure[r].biz \in ErrorCode \union {"none"}
        /\ stage[r] = "answered" <=> answer[r] # Unanswered
        /\ stage[r] = "answered" => answer[r].status \in 100..599
    /\ answering \in [Request -> {0, 400, 500}]
    /\ overrides \in Resolver /\ resolver \in Resolver
    /\ limiter \in {"none", "own"} /\ made \in BOOLEAN
    /\ lim \in [Request -> Limiter \union {"none"}]
    /\ used \in [Limiter -> 0..Limit + 1]

Init ==
    /\ AuthInit /\ service \in Services
    /\ stage = [r \in Request |-> IF service.limited THEN "new" ELSE "guarded"]
    /\ meant = [r \in Request |-> Nothing] /\ failure = [r \in Request |-> Nothing]
    /\ answering = [r \in Request |-> 0]
    /\ picked = [r \in Request |-> NotPicked]
    /\ answer = [r \in Request |-> Unanswered]
    /\ overrides = NoResolver /\ resolver = NoResolver /\ changes = 0
    /\ possible = [r \in Request |-> {}]
    /\ limiter = "none" /\ made = FALSE
    /\ lim = [r \in Request |-> "none"]
    /\ used = [l \in Limiter |-> 0] /\ passed = [l \in Limiter |-> 0]

At(r, s) == stage[r] = s
Goes(r, s) == stage' = [stage EXCEPT ![r] = s]
Answers(r, response) == Goes(r, "answered") /\ answer' = [answer EXCEPT ![r] = response]
Rest == <<meant, failure, answering, picked, possible>>

-----------------------------------------------------------------------------
(* Rate limiting.  The limiter is read under its lock and used after it;   *)
(* without a global one the default is made, once.                         *)
EachTime == TRUE                    \* mutant: no defaultLimiterOnce
FirstUse == ~made

currentRateLimiter(r) ==
    /\ At(r, "new")
    /\ Goes(r, "limiting")
    /\ IF limiter # "none"
       THEN lim' = [lim EXCEPT ![r] = limiter] /\ UNCHANGED <<made, used>>
       ELSE /\ lim' = [lim EXCEPT ![r] = "default"]
            /\ made' = TRUE
            /\ used' = IF FirstUse THEN [used EXCEPT !["default"] = 0] ELSE used
    /\ UNCHANGED <<authVars, service, answerVars, registryVars, limiter, passed>>

checkRateLimit(r) ==
    LET count == used[lim[r]] + 1
        refuse(code) == Answers(r, ErrorWithCode(code, Plain, 0)) /\ UNCHANGED passed
    IN
    /\ At(r, "limiting")
    /\ \/ refuse(500) /\ UNCHANGED used          \* lim.Get fails
       \/ /\ used' = [used EXCEPT ![lim[r]] = IF count > Limit THEN Limit + 1 ELSE count]
          /\ IF count > Limit THEN refuse(429)
             ELSE /\ Goes(r, "guarded")
                  /\ passed' = [passed EXCEPT ![lim[r]] = @ + 1]
                  /\ UNCHANGED answer
    /\ UNCHANGED <<authVars, service, Rest, registryVars, limiter, made, lim>>

SetRateLimiter(l) ==
    /\ service.limited /\ limiter # l /\ limiter' = l
    /\ UNCHANGED <<authVars, service, stage, answerVars, registryVars, made, lim, used, passed>>

PeriodEnds ==
    /\ service.limited
    /\ used' = [l \in Limiter |-> 0] /\ passed' = [l \in Limiter |-> 0]
    /\ UNCHANGED <<authVars, service, stage, answerVars, registryVars, limiter, made, lim>>

-----------------------------------------------------------------------------
(* Authentication: the answer of the middleware, if it has one.  The key   *)
(* of a request may be missing, one of the configured ones, or another.    *)
Admits(r) == Goes(r, "running") /\ UNCHANGED answer

APIKey(r) ==
    /\ service.guard = "apikey"
    /\ \E key \in {"none", "configured", "other"} :
            IF key = "configured" THEN Admits(r) ELSE Answers(r, Unauthorized("own"))

AuthHeaders(r) ==
    /\ service.guard = "headers"
    /\ \/ verify[r] = "accepted" /\ Admits(r)
       \/ /\ verify[r] = "rejected"
          /\ Answers(r, IF policy.secret THEN Unauthorized("own") ELSE InternalError)

Authenticate(r) ==
    /\ At(r, "guarded")
    /\ \/ service.guard = "off" /\ Admits(r)
       \/ APIKey(r)
       \/ AuthHeaders(r)
    /\ UNCHANGED <<authVars, service, Rest, registryVars, limitVars>>

AuthStep ==
    /\ service.guard = "headers"
    /\ \/ Tick \/ Signs
       \/ \E r \in Request : At(r, "guarded") /\ Verifies(r)
    /\ UNCHANGED <<service, stage, answerVars, registryVars, limitVars>>

-----------------------------------------------------------------------------
(* The handler ends well, with an error that it returns or answers itself, *)
(* in a panic, or calls another service.                                   *)
Fails(r, err, code) ==
    /\ Goes(r, "failed")
    /\ failure' = [failure EXCEPT ![r] = err]
    /\ answering' = [answering EXCEPT ![r] = code]
    /\ UNCHANGED <<answer, picked, possible>>

Handle(r) ==
    /\ At(r, "running")
    /\ \/ Answers(r, Ok) /\ UNCHANGED Rest
       \/ Goes(r, "calling") /\ UNCHANGED answerVars
       \/ \E err \in Failures, code \in {0, 400, 500} :
            Fails(r, err, code) /\ meant' = [meant EXCEPT ![r] = err]
       \/ Fails(r, Plain, 0) /\ meant' = [meant EXCEPT ![r] = Plain]
    /\ UNCHANGED <<authVars, service, registryVars, limitVars>>

(* The callee answers, fails and converts its error, or panics below       *)
(* recoveryInterceptor.  The interceptors convert no error and the client  *)
(* side none of the transport's, so the handler may also be given a status *)
(* of grpc-go's with the text of an error: Unknown for one the callee      *)
(* returns as it is, others for a ctx that ended, a callee out of reach or *)
(* an error wrapped around a status; or an error that is no status.  It    *)
(* takes FromGRPCError of what it is given, or returns it as it is.        *)
Unconverted == {NoStatus}
    \union {Status(c, "cause") : c \in GRPCNamed \union {"Unknown", "DeadlineExceeded", "Internal"}}

Call(r) ==
    /\ At(r, "calling")
    /\ \/ Answers(r, Ok) /\ UNCHANGED Rest
       \/ \E err \in Failures \union {Plain} :
            /\ meant' = [meant EXCEPT ![r] = err]
            /\ Fails(r, FromGRPCError(ToGRPCError(err)), 0)
       \/ /\ meant' = [meant EXCEPT ![r] = Plain]
          /\ \E err \in {Plain, FromGRPCError(Status("Internal", "generic"))} : Fails(r, err, 0)
       \/ \E status \in Unconverted :
            /\ meant' = [meant EXCEPT ![r] = FromGRPCError(status)]
            /\ Fails(r, FromGRPCError(status), 0)
    /\ UNCHANGED <<authVars, service, registryVars, limitVars>>

-----------------------------------------------------------------------------
(* resolveHTTPStatus reads the overrides and copies the resolver under one *)
(* read lock; the resolver is called after it.                             *)
Current(code, o, f) == statusOf(code, o[code], f)

Resolves(r) ==
    /\ AsBizError(failure[r])
    /\ answering[r] = 0 => ~AsFiberError(failure[r])

LookUp(r) ==
    LET code == failure[r].biz IN
    /\ At(r, "failed") /\ Resolves(r)
    /\ Goes(r, "resolving")
    /\ picked' = [picked EXCEPT ![r] = [registered |-> overrides[code], resolver |-> resolver]]
    /\ possible' = [possible EXCEPT ![r] = {Current(code, overrides, resolver)}]
    /\ UNCHANGED <<authVars, service, meant, failure, answering, answer, registryVars, limitVars>>

LatestResolver(r) == resolver       \* mutant: the resolver is read in a second lock
ResolverOf(r) == picked[r].resolver

Respond(r, resolved) ==
    /\ Answers(r, IF answering[r] = 0 THEN ErrorHandler(failure[r], resolved)
                  ELSE ErrorWithCode(answering[r], failure[r], resolved))
    /\ UNCHANGED <<authVars, service, Rest, registryVars, limitVars>>

CallResolver(r) ==
    /\ At(r, "resolving")
    /\ Respond(r, statusOf(failure[r].biz, picked[r].registered, ResolverOf(r)))

RespondUnresolved(r) ==
    /\ At(r, "failed") /\ ~Resolves(r)
    /\ Respond(r, 0)

Change(o, f) ==
    /\ changes < service.changes /\ changes' = changes + 1
    /\ overrides' = o /\ resolver' = f
    /\ possible' = [r \in Request |->
            IF At(r, "resolving") THEN possible[r] \union {Current(failure[r].biz, o, f)}
            ELSE possible[r]]
    /\ UNCHANGED <<authVars, service, stage, meant, failure, answering, picked, answer, limitVars>>

RegisterHTTPStatus(code, status) == Change([overrides EXCEPT ![code] = status], resolver)
SetHTTPStatusResolver(f) == Change(overrides, f)

-----------------------------------------------------------------------------
RequestStep(r) ==
    \/ currentRateLimiter(r) \/ checkRateLimit(r) \/ Authenticate(r)
    \/ Handle(r) \/ Call(r) \/ LookUp(r) \/ CallResolver(r) \/ RespondUnresolved(r)

Next ==
    \/ \E r \in Request : RequestStep(r)
    \/ AuthStep \/ PeriodEnds
    \/ \E l \in {"none", "own"} : SetRateLimiter(l)
    \/ \E code \in Registered, status \in Hit : RegisterHTTPStatus(code, status)
    \/ \E f \in Resolvers : SetHTTPStatusResolver(f)

Spec == Init /\ [][Next]_vars

-----------------------------------------------------------------------------
(* The status of a BizError is one that the registry gave at some moment   *)
(* while it was looked up, however registrations and resolvers change in   *)
(* between (errors.go:293-311).                                            *)
StatusIsCurrent ==
    \A r \in Request :
        At(r, "answered") /\ Resolves(r) /\ answering[r] # 400 => answer[r].status \in possible[r]

(* Only FromGRPCError makes a BizError with a text that nobody meant for   *)
(* the caller, of a status that ToGRPCError did not make.                  *)
Relayed(err) == AsBizError(err) /\ err.msg = "cause"

(* What a caller reads is what the service that failed meant: the code and *)
(* text of a BizError arrive through ErrorHandler, also from behind a gRPC *)
(* call if the callee converts it (as Internal if the code is not          *)
(* portable), and the text of any other error never does, however the      *)
(* handler ends and what else its error wraps, with one exception: the     *)
(* text of a status that ToGRPCError did not make is passed on             *)
(* (errors.go:163-240, response.go:132-181, error.go:29-61).               *)
AnswersAreFaithful ==
    \A r \in Request : At(r, "answered") =>
        /\ answer[r].msg = "cause" => Relayed(meant[r])
        /\ AsBizError(meant[r]) /\ Resolves(r) =>
            /\ answer[r].code[2] \in {meant[r].biz}
                    \union (IF meant[r].biz \in Portable THEN {} ELSE {"Internal"})
            /\ answer[r].msg = meant[r].msg

(* A handler behind header authentication only runs for headers that were  *)
(* accepted, and in a period each limiter, also the default one that is    *)
(* made at its first use by concurrent requests, lets at most Limit of     *)
(* them through (auth_header.go:323-356, ratelimit.go:103-131).            *)
OnlyAdmittedRun ==
    /\ \A r \in Request :
        service.guard = "headers" /\ stage[r] \in {"running", "calling", "failed", "resolving"}
            => verify[r] = "accepted"
    /\ \A l \in Limiter : passed[l] <= Limit

(* The state is well typed, and only what the middleware admits gets on.   *)
Inv == TypeOK /\ OnlyAdmittedRun
=============================================================================
