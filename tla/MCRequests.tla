----------------------------- MODULE MCRequests -----------------------------
(* Two requests with the same signed headers, or one of them behind an API *)
(* key; a standard code, a business code, a fiber.Error, and one wrapped   *)
(* in a BizError; two changes of what a code is mapped to.                 *)
EXTENDS Requests, TLC

CONSTANTS r1, r2, h1
MCRequest == {r1, r2}
Symmetry == Permutations(MCRequest)
MCOf == [x \in MCRequest |-> h1]
MCServices == {[limited |-> FALSE, guard |-> "headers", changes |-> 0],
               [limited |-> TRUE, guard |-> "off", changes |-> 0],
               [limited |-> FALSE, guard |-> "apikey", changes |-> 2]}
MCHeader == {h1}
With(hasSecret, hasStore, lenient) ==
    [secret |-> hasSecret, store |-> hasStore, missingNonce |-> lenient, emptyUser |-> lenient]
MCPolicies == {With(TRUE, TRUE, TRUE), With(TRUE, TRUE, FALSE), With(FALSE, TRUE, TRUE)}
MCCustomCode == {"OrderClosed"}
MCFailures == {Biz("Timeout", "own"), Wrap("OrderClosed", Plain), FiberError(404),
               Wrap("NotFound", FiberError(404))}
MCRegistered == {"Timeout"}
MCHit == {418, 410}
MCResolvers == {[c \in ErrorCode |-> IF c = "Timeout" THEN 410 ELSE 0], NoResolver}
=============================================================================
