------------------------------- MODULE Errors -------------------------------
(***************************************************************************)
(* errors/errors.go, response/response.go and middleware/error.go: what an *)
(* error becomes on its way over gRPC and into an HTTP response.           *)
(*                                                                         *)
(* An error is a chain, of which the code only asks (errors.As) for the    *)
(* BizError and the fiber.Error in it: biz is the first one's code, fiber  *)
(* the second one's status.  A text is "own" (meant for the caller: that   *)
(* of a BizError or a fiber.Error), "cause" (of any other error, which     *)
(* grpc-go also puts into a status) or "generic" (a fixed text of src/).   *)
(***************************************************************************)
EXTENDS Integers

CONSTANTS
    CustomCode, \* business codes outside the package's own
    Hit         \* statuses that are registered and that resolvers answer

Standard == {"Unknown", "InvalidArgument", "NotFound", "AlreadyExists",
             "PermissionDenied", "Unauthenticated", "Internal", "Unavailable",
             "Timeout", "Canceled"}
ErrorCode == Standard \union CustomCode

ASSUME ErrorsAssumption ==
    /\ CustomCode \intersect (Standard \union {"none"}) = {}
    /\ Hit \subseteq 100..599

Plain == [biz |-> "none", fiber |-> 0, msg |-> "cause"]
Biz(code, text) == [biz |-> code, fiber |-> 0, msg |-> text]
FiberError(status) == [biz |-> "none", fiber |-> status, msg |-> "own"]
Wrap(code, cause) == [cause EXCEPT !.biz = code, !.msg = "own"]

AsBizError(err) == err.biz # "none"
AsFiberError(err) == err.fiber # 0

-----------------------------------------------------------------------------
(* errorCodeToGRPCCode keeps the name of a code but for Timeout.           *)
Misnamed ==                         \* mutant: Timeout is not in the map
    [c \in Standard |-> IF c = "Timeout" THEN "Unknown" ELSE c]
errorCodeToGRPCCode ==
    [c \in Standard |-> IF c = "Timeout" THEN "DeadlineExceeded" ELSE c]

Status(code, text) == [grpc |-> code, msg |-> text]
NoStatus == Status("none", "cause")     \* an error status.FromError knows nothing of

ToGRPCError(err) ==
    IF AsBizError(err)
    THEN Status(IF err.biz \in Standard THEN errorCodeToGRPCCode[err.biz] ELSE "Unknown",
                err.msg)
    ELSE Status("Internal", "generic")

(* The codes FromGRPCError names; every other one becomes Internal.        *)
GRPCNamed == {"InvalidArgument", "NotFound", "AlreadyExists", "PermissionDenied",
              "Unauthenticated", "Unavailable", "Canceled"}

FromGRPCError(status) ==
    IF status = NoStatus THEN Biz("Unknown", "generic")
    ELSE Biz(CASE status.grpc \in GRPCNamed -> status.grpc
               [] status.grpc = "DeadlineExceeded" -> "Timeout"
               [] OTHER -> "Internal", status.msg)

-----------------------------------------------------------------------------
(* HTTP statuses: the registered one, the resolver's, the default, 500.    *)
(* In a registry 0 stands for no answer.                                   *)
httpStatusCode ==
    [c \in Standard |->
        CASE c = "InvalidArgument" -> 400 [] c = "Unauthenticated" -> 401
          [] c = "PermissionDenied" -> 403 [] c = "NotFound" -> 404
          [] c = "AlreadyExists" -> 409 [] c = "Canceled" -> 499
          [] c = "Unavailable" -> 503 [] c = "Timeout" -> 504
          [] OTHER -> 500]

Resolver == [ErrorCode -> Hit \union {0}]
NoResolver == [c \in ErrorCode |-> 0]

defaultStatus(code) == IF code \in Standard THEN httpStatusCode[code] ELSE 500
statusOf(code, registered, resolver) ==
    IF registered # 0 THEN registered
    ELSE IF resolver[code] # 0 THEN resolver[code] ELSE defaultStatus(code)

-----------------------------------------------------------------------------
(* Responses: the HTTP status, and the code and text of the body.          *)
Result(status, code, text) == [status |-> status, code |-> code, msg |-> text]

normalizeHTTPStatusCode(status) == IF status \in 100..599 THEN status ELSE 500

respJSONWithStatusCode(status, text) ==
    Result(normalizeHTTPStatusCode(status), <<"status", status>>, text)

Ok == respJSONWithStatusCode(200, "own")
Unauthorized(text) == respJSONWithStatusCode(401, text)
InternalError == respJSONWithStatusCode(500, "own")

(* ErrorWithCode(code, err); Error(err) is ErrorWithCode(500, err).  500   *)
(* leaves the choice to a BizError, whose own status is resolved; an error *)
(* that is not one says nothing of itself.                                 *)
ErrorWithCode(code, err, resolved) ==
    IF AsBizError(err)
    THEN Result(IF code = 500 THEN resolved ELSE code, <<"biz", err.biz>>, err.msg)
    ELSE respJSONWithStatusCode(code, "generic")

(* NewErrorHandler looks for a fiber.Error first, also behind a BizError.  *)
ErrorHandler(err, resolved) ==
    IF AsFiberError(err) THEN Result(err.fiber, <<"status", err.fiber>>, "own")
    ELSE ErrorWithCode(500, err, resolved)

-----------------------------------------------------------------------------
(* The codes that survive a gRPC call: Unknown and business codes arrive   *)
(* as Internal.                                                            *)
Portable == Standard \ {"Unknown"}
=============================================================================
