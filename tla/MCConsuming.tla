---------------------------- MODULE MCConsuming ----------------------------
(* Two members and two messages: one member can be evicted in its handler  *)
(* while the other handles the same message and commits past it.           *)
EXTENDS Consuming, TLC

CONSTANTS a, b
MCMember == {a, b}
Symmetry == Permutations(MCMember)

With(skip, auto, initial, usage, checkerMode, hasClient) ==
    [skipOnError |-> skip, autoCommit |-> auto, initial |-> initial,
     usage |-> usage, mode |-> checkerMode, client |-> hasClient]

MCConfig == {With(FALSE, FALSE, "oldest", "check", "best_effort", TRUE),
             With(FALSE, FALSE, "oldest", "check", "required", TRUE),
             With(TRUE, TRUE, "oldest", "check", "best_effort", FALSE),
             With(FALSE, FALSE, "oldest", "checkAndMark", "required", TRUE),
             With(TRUE, FALSE, "newest", "checkAndMark", "disabled", TRUE)}

(* KafkaConsumerConfig's defaults.                                         *)
DefaultConfig == {With(FALSE, FALSE, "newest", "check", "disabled", TRUE)}

(* The way the README recommends.                                          *)
RecommendedConfig == {With(FALSE, FALSE, "oldest", "checkAndMark", "required", TRUE)}
=============================================================================
