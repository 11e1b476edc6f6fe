----------------------------- MODULE Consuming -----------------------------
(***************************************************************************)
(* One Kafka partition consumed by a group: ConsumeClaim of                *)
(* src/mq/kafka/consumer.go, run by every member the group gives the       *)
(* partition to, with a handler that guards its work with the Checker of   *)
(* src/idempotency/checker.go in one of the two ways the README shows.     *)
(*                                                                         *)
(* The group coordinator, sarama's session and offset manager, and the     *)
(* business code are outside src/: they may end a session at any time,     *)
(* evict a member that is still in its handler, fail a commit, fail a      *)
(* message.  A member that lost the partition is fenced: its commits no    *)
(* longer count.                                                           *)
(***************************************************************************)
EXTENDS Idempotency

CONSTANTS
    Member,     \* processes of the consumer group
    Last,       \* number of messages the partition gets
    MaxRetries, \* defaultMaxRetries
    MaxRuns,    \* runs of the business code counted per message
    Config,     \* the configurations explored
    Nobody

ASSUME ConsumingAssumption ==
    /\ Last \in Nat
    /\ MaxRetries \in Nat \ {0}
    /\ MaxRuns \in Nat \ {0}
    /\ Config \subseteq [skipOnError : BOOLEAN, autoCommit : BOOLEAN,
                         initial : {"oldest", "newest"},
                         usage : {"check", "checkAndMark"},
                         mode : {"required", "best_effort", "disabled"},
                         client : BOOLEAN]
    /\ Nobody \notin Member

Message == 0..(Last - 1)
NoOffset == -1

VARIABLES
    config,     \* KafkaConsumerConfig and the handler's use of the checker
    produced,   \* messages in the partition: offsets 0 .. produced - 1
    committed,  \* the offset the group committed, or NoOffset
    owner,      \* the member of the current generation, or Nobody
    claim,      \* where each member is in ConsumeClaim and its handler
    pos,        \* the offset of the message it handles, or handles next
    retry,      \* its handler calls for that message so far
    ended,      \* session.Context() is done
    mark,       \* the offset MarkMessage left to be committed, or NoOffset
    answered,   \* messages a handler answered without error
    skipped,    \* messages given up with SkipOnError
    refused,    \* messages whose error ConsumeClaim returned
    runs        \* how often the business code took effect for each message

logVars   == <<produced, committed, owner>>
claimVars == <<claim, pos, retry, ended, mark>>
histVars  == <<answered, skipped, refused, runs>>
vars == <<config, logVars, claimVars, histVars, checkerVars>>

Init ==
    /\ config \in Config
    /\ mode = config.mode /\ client = config.client /\ marked = {}
    /\ produced = 0 /\ committed = NoOffset /\ owner = Nobody
    /\ claim = [m \in Member |-> "none"]
    /\ pos = [m \in Member |-> 0]
    /\ retry = [m \in Member |-> 0]
    /\ ended = [m \in Member |-> TRUE]
    /\ mark = [m \in Member |-> NoOffset]
    /\ answered = {} /\ skipped = {} /\ refused = {}
    /\ runs = [o \in Message |-> 0]

-----------------------------------------------------------------------------
(* The broker and the group.                                               *)
Produce ==
    /\ produced < Last
    /\ produced' = produced + 1
    /\ UNCHANGED <<config, committed, owner, claimVars, histVars, checkerVars>>

(* Where a session starts: Consumer.Offsets.Initial only counts as long as *)
(* the group has committed nothing.                                        *)
StartAt ==
    IF committed # NoOffset THEN committed
    ELSE IF config.initial = "oldest" THEN 0 ELSE produced

(* A new generation gives the partition to m: after the owner's session,   *)
(* or, when the owner missed its heartbeats, in the middle of it.          *)
Orderly == owner \in Member => claim[owner] = "none"

Join(m) ==
    /\ claim[m] = "none"
    /\ owner' = m
    /\ claim' = [claim EXCEPT ![m] = "select"]
    /\ pos' = [pos EXCEPT ![m] = StartAt]
    /\ ended' = [ended EXCEPT ![m] = FALSE]
    /\ mark' = [mark EXCEPT ![m] = NoOffset]
    /\ UNCHANGED <<config, produced, committed, retry, histVars, checkerVars>>

Assign(m) == Orderly /\ Join(m)
Evict(m) == ~Orderly /\ Join(m)

(* Rebalance, heartbeat failure, Close.                                    *)
SessionEnds(m) ==
    /\ claim[m] # "none"
    /\ ~ended[m]
    /\ ended' = [ended EXCEPT ![m] = TRUE]
    /\ UNCHANGED <<config, logVars, claim, pos, retry, mark, histVars, checkerVars>>

Crash(m) ==
    /\ claim[m] # "none"
    /\ claim' = [claim EXCEPT ![m] = "none"]
    /\ pos' = [pos EXCEPT ![m] = 0]
    /\ retry' = [retry EXCEPT ![m] = 0]
    /\ ended' = [ended EXCEPT ![m] = TRUE]
    /\ mark' = [mark EXCEPT ![m] = NoOffset]
    /\ UNCHANGED <<config, logVars, histVars, checkerVars>>

(* A commit of offset n by m: it may be lost, and it is if m is fenced.    *)
MayCommit(m) == owner = m
Commit(m, n) ==
    \/ MayCommit(m) /\ n # NoOffset /\ committed' = n
    \/ UNCHANGED committed

(* sarama's flush, by timer or at the end of the session.                  *)
AutoCommit(m) ==
    /\ config.autoCommit
    /\ claim[m] # "none" /\ mark[m] # NoOffset
    /\ MayCommit(m) /\ committed # mark[m]
    /\ committed' = mark[m]
    /\ UNCHANGED <<config, produced, owner, claimVars, histVars, checkerVars>>

(* ConsumeClaim has returned: sarama cancels the session and releases it,  *)
(* with a last flush when it commits automatically.                        *)
Release(m) ==
    /\ claim[m] = "returned"
    /\ IF config.autoCommit THEN Commit(m, mark[m]) ELSE UNCHANGED committed
    /\ claim' = [claim EXCEPT ![m] = "none"]
    /\ pos' = [pos EXCEPT ![m] = 0]
    /\ ended' = [ended EXCEPT ![m] = TRUE]
    /\ mark' = [mark EXCEPT ![m] = NoOffset]
    /\ UNCHANGED <<config, produced, owner, retry, histVars, checkerVars>>

-----------------------------------------------------------------------------
(* ConsumeClaim.                                                           *)
Goto(m, where) == claim' = [claim EXCEPT ![m] = where]

(* The select: a message (even when the session is over), or the end.      *)
Receive(m) ==
    /\ claim[m] = "select"
    /\ pos[m] < produced
    /\ Goto(m, "begin")
    /\ retry' = [retry EXCEPT ![m] = 1]
    /\ UNCHANGED <<config, logVars, pos, ended, mark, histVars, checkerVars>>

SelectEnds(m) ==
    /\ claim[m] = "select"
    /\ ended[m]
    /\ Goto(m, "returned")
    /\ UNCHANGED <<config, logVars, pos, retry, ended, mark, histVars, checkerVars>>

(* The handler: the business code guarded by the checker.                  *)
CheckStep(m) ==
    /\ claim[m] = "begin"
    /\ \E exists, err \in BOOLEAN :
        /\ IF config.usage = "check" THEN Check(pos[m], exists, err)
                                     ELSE CheckAndMark(pos[m], exists, err)
        /\ Goto(m, IF err THEN "failed" ELSE IF exists THEN "ok" ELSE "process")
    /\ UNCHANGED <<config, logVars, pos, retry, ended, mark, histVars>>

Process(m) ==
    /\ claim[m] = "process"
    /\ Goto(m, IF config.usage = "check" THEN "mark" ELSE "ok")
    /\ runs' = [runs EXCEPT ![pos[m]] = IF @ < MaxRuns THEN @ + 1 ELSE @]
    /\ UNCHANGED <<config, logVars, pos, retry, ended, mark, answered, skipped, refused, checkerVars>>

ProcessFails(m) ==
    /\ claim[m] = "process"
    /\ Goto(m, "failed")
    /\ UNCHANGED <<config, logVars, pos, retry, ended, mark, histVars, checkerVars>>

(* An error of Mark does not undo the work: the handler ignores it.        *)
MarkStep(m) ==
    /\ claim[m] = "mark"
    /\ \E err \in BOOLEAN : Mark(pos[m], err)
    /\ Goto(m, "ok")
    /\ UNCHANGED <<config, logVars, pos, retry, ended, mark, histVars>>

(* The handler returned ConsumeSuccess, or ConsumeCommit: MarkMessage and  *)
(* perhaps Commit, then the next message.                                  *)
CommitsNow(explicit) == explicit \/ ~config.autoCommit

Succeed(m) ==
    /\ claim[m] = "ok"
    /\ mark' = [mark EXCEPT ![m] = pos[m] + 1]
    /\ \E explicit \in BOOLEAN :
        IF CommitsNow(explicit) THEN Commit(m, pos[m] + 1) ELSE UNCHANGED committed
    /\ answered' = answered \union {pos[m]}
    /\ pos' = [pos EXCEPT ![m] = @ + 1]
    /\ retry' = [retry EXCEPT ![m] = 0]
    /\ Goto(m, "select")
    /\ UNCHANGED <<config, produced, owner, ended, skipped, refused, runs, checkerVars>>

(* An error, or ConsumeRetryLater: the back-off timer comes before the     *)
(* retry count is looked at, also after the last attempt.                  *)
MayRetry(m) == retry[m] < MaxRetries

Retry(m) ==
    /\ claim[m] = "failed"
    /\ MayRetry(m)
    /\ retry' = [retry EXCEPT ![m] = @ + 1]
    /\ Goto(m, "begin")
    /\ UNCHANGED <<config, logVars, pos, ended, mark, histVars, checkerVars>>

BackoffEnds(m) ==
    /\ claim[m] = "failed"
    /\ ended[m]
    /\ retry' = [retry EXCEPT ![m] = 0]
    /\ Goto(m, "returned")
    /\ UNCHANGED <<config, logVars, pos, ended, mark, histVars, checkerVars>>

(* All attempts failed.                                                    *)
AlwaysSkips == TRUE                \* mutant: the message is marked anyway
Skips == config.skipOnError

Skip(m) ==
    /\ claim[m] = "failed"
    /\ ~MayRetry(m)
    /\ Skips
    /\ mark' = [mark EXCEPT ![m] = pos[m] + 1]
    /\ skipped' = IF config.skipOnError THEN skipped \union {pos[m]} ELSE skipped
    /\ pos' = [pos EXCEPT ![m] = @ + 1]
    /\ retry' = [retry EXCEPT ![m] = 0]
    /\ Goto(m, "select")
    /\ UNCHANGED <<config, logVars, ended, answered, refused, runs, checkerVars>>

(* ConsumeClaim returns the error; nothing is marked.                      *)
StopClaim(m) ==
    /\ claim[m] = "failed"
    /\ ~MayRetry(m)
    /\ ~Skips
    /\ retry' = [retry EXCEPT ![m] = 0]
    /\ Goto(m, "returned")
    /\ refused' = refused \union {pos[m]}
    /\ UNCHANGED <<config, logVars, pos, ended, mark, answered, skipped, runs, checkerVars>>

-----------------------------------------------------------------------------
ClaimStep(m) ==
    \/ Receive(m) \/ SelectEnds(m) \/ CheckStep(m) \/ Process(m)
    \/ ProcessFails(m) \/ MarkStep(m) \/ Succeed(m) \/ Retry(m)
    \/ BackoffEnds(m) \/ Skip(m) \/ StopClaim(m) \/ Release(m)

Disturb(m) == Evict(m) \/ SessionEnds(m) \/ Crash(m)

Next ==
    \/ Produce
    \/ \E m \in Member :
        Assign(m) \/ AutoCommit(m) \/ ClaimStep(m) \/ Disturb(m)

Spec == Init /\ [][Next]_vars

-----------------------------------------------------------------------------
(* TypeOK: types of all the variables.                                     *)
TypeOK ==
    /\ config \in Config
    /\ marked \in SUBSET Message /\ mode = config.mode /\ client = config.client
    /\ produced \in 0..Last
    /\ committed \in -1..produced
    /\ owner \in Member \union {Nobody}
    /\ claim \in [Member -> {"none", "select", "begin", "process", "mark", "ok",
                             "failed", "returned"}]
    /\ pos \in [Member -> 0..Last]
    /\ \A m \in Member : pos[m] <= produced
    /\ retry \in [Member -> 0..MaxRetries]
    /\ ended \in [Member -> BOOLEAN]
    /\ mark \in [Member -> -1..Last]
    /\ answered \in SUBSET Message /\ skipped \in SUBSET Message
    /\ refused \in SUBSET Message
    /\ runs \in [Message -> 0..MaxRuns]

(* At least once: in a group that starts at the oldest message the         *)
(* committed offset never passes a message that was neither answered nor   *)
(* skipped as configured, whatever rebalances, evictions, crashes and lost *)
(* commits do.                                                             *)
Settled == answered \union skipped

NothingPassedOver ==
    config.initial = "oldest" => \A o \in Message : o < committed => o \in Settled

(* The same for the business code behind the checker: with Check and Mark  *)
(* around it, an answered message has taken effect, even when the answer   *)
(* came from a member that found the key another one had written.          *)
AnsweredTookEffect ==
    config.usage = "check" => \A o \in answered : runs[o] > 0

(* At most once: with CheckAndMark in mode required the business code runs *)
(* once per message, though two members may handle it at the same time.    *)
RunsAtMostOnce ==
    config.usage = "checkAndMark" /\ mode = "required" =>
        \A o \in Message : runs[o] <= 1

(* The state is well typed, and the work done in it is not repeated        *)
(* (checker.go:202-231).                                                   *)
Inv == TypeOK /\ RunsAtMostOnce

(* Between Check and Mark another member may check too (checker.go:149-196 *)
(* leaves that window open); but in mode required it is the only one: once *)
(* the key is there the work of the message is started by nobody, not on a *)
(* retry, a redelivery or after an eviction, and each of those that had    *)
(* checked before it was written does it at most once more.                *)
Working(o) == {m \in Member : claim[m] = "process" /\ pos[m] = o}
NobodyStarts(o) ==
    /\ Working(o)' \subseteq Working(o)
    /\ runs'[o] # runs[o] => Working(o)' # Working(o)
RepeatsAreRaces == [][mode = "required" => \A o \in marked : NobodyStarts(o)]_vars

(* config.go says that without SkipOnError (the default) a message whose   *)
(* handling failed is not lost.                                            *)
RefusedIsNotLost == \A o \in refused : o < committed => o \in Settled

(* checker.go says that CheckAndMark returns (true, nil) when another      *)
(* process has processed the event, and its users then skip the event.     *)
ExistsMeansProcessed ==
    [][\A m \in Member : claim[m] = "begin" /\ claim'[m] = "ok" => runs[pos[m]] > 0]_vars
=============================================================================
