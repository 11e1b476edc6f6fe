------------------------------ MODULE RocketMQ ------------------------------
(***************************************************************************)
(* mq/rocketmq: the producer (SendSync, SendAsync, SendOneWay), the        *)
(* transaction producer with its listener, and the push consumer, both as  *)
(* the adapters of mq.Producer/mq.Consumer (adapter.go) and as the native  *)
(* wrappers (producer.go, consumer.go, transaction.go).                    *)
(*                                                                         *)
(* rocketmq-client-go and the broker are outside src/.  A transaction      *)
(* message is stored half, the listener then runs the local transaction,   *)
(* and what it answers goes to the broker one way; the broker asks again   *)
(* about a message that stays half, up to MaxChecks times.  A batch that   *)
(* is not consumed is delivered again, up to MaxReconsumeTimes times.      *)
(* The process may die at any moment; the local database rolls back what   *)
(* was open in it.                                                         *)
(***************************************************************************)
EXTENDS Integers, FiniteSets

CONSTANTS
    Message,            \* one message is sent at most once
    Transactional,      \* those sent by SendMessageInTransaction
    Oversized,          \* those longer than ProducerConfig.MaxMessageSize
    MaxChecks,          \* times the broker asks about a half message
    MaxReconsumeTimes,  \* times it delivers a message again
    BatchMax            \* ConsumeMessageBatchMax

ASSUME RocketMQAssumption ==
    /\ Transactional \subseteq Message
    /\ Oversized \subseteq Message \ Transactional
    /\ MaxChecks \in Nat /\ MaxReconsumeTimes \in Nat /\ BatchMax \in Nat \ {0}

VARIABLES
    producer,   \* the library's producer: "none", "started", "shutdown"
    consumer,   \* its push consumer: also "created"
    call,       \* the call that sends the message, or what it returned
    local,      \* the local transaction of a transaction message
    stored,     \* the message at the broker
    told,       \* answers about local transactions on their way to the broker
    checks,     \* times the broker has asked about it
    delivery,   \* where the message is on the consumer's side
    attempts,   \* times it was delivered in vain
    refused     \* the handler's last answer on it was an error or RetryLater

sendVars == <<call, local, stored, told, checks>>
consumeVars == <<delivery, attempts, refused>>
messageVars == <<sendVars, consumeVars>>
mqVars == <<producer, consumer, messageVars>>

Call == {"idle", "sending", "oneway", "half", "local", "ok", "posted", "failed", "gone"}
Local == {"none", "open", "committed", "rolledback"}
Verdict == {"commit", "rollback"}
Answer == Verdict \union {"unknow"}
Stored == {"none", "half", "visible", "discarded"}
Delivery == {"none", "queued", "handling", "acked", "dead"}

MQTypeOK ==
    /\ producer \in {"none", "started", "shutdown"}
    /\ consumer \in {"none", "created", "started", "shutdown"}
    /\ call \in [Message -> Call]
    /\ local \in [Message -> Local]
    /\ stored \in [Message -> Stored]
    /\ told \subseteq (Message \X Verdict)
    /\ checks \in [Message -> 0..MaxChecks]
    /\ delivery \in [Message -> Delivery]
    /\ attempts \in [Message -> 0..MaxReconsumeTimes]
    /\ refused \in [Message -> BOOLEAN]

MQInit ==
    /\ producer = "none" /\ consumer = "none"
    /\ call = [m \in Message |-> "idle"]
    /\ local = [m \in Message |-> "none"]
    /\ stored = [m \in Message |-> "none"]
    /\ told = {}
    /\ checks = [m \in Message |-> 0]
    /\ delivery = [m \in Message |-> "none"]
    /\ attempts = [m \in Message |-> 0]
    /\ refused = [m \in Message |-> FALSE]

-----------------------------------------------------------------------------
(* Constructors and ends.  A producer is started by its constructor, a     *)
(* consumer by Start; either may fail, and then nothing is kept.           *)
NewProducer(ok) ==
    /\ producer = "none"
    /\ producer' = IF ok THEN "started" ELSE "none"
    /\ UNCHANGED <<consumer, messageVars>>

NewConsumer(ok) ==
    /\ consumer = "none"
    /\ consumer' = IF ok THEN "created" ELSE "none"
    /\ UNCHANGED <<producer, messageVars>>

StartConsumer(ok) ==
    /\ consumer = "created"
    /\ consumer' = IF ok THEN "started" ELSE "created"
    /\ UNCHANGED <<producer, messageVars>>

(* Shutdown of a consumer gives back what its handlers have in hand.       *)
GiveBack == [m \in Message |->
                IF delivery[m] = "handling" THEN "queued" ELSE delivery[m]]

CloseProducer ==
    /\ producer = "started"
    /\ producer' = "shutdown"
    /\ UNCHANGED <<consumer, messageVars>>

CloseConsumer ==
    /\ consumer \in {"created", "started"}
    /\ consumer' = "shutdown"
    /\ delivery' = GiveBack
    /\ UNCHANGED <<producer, sendVars, attempts, refused>>

(* The process is gone, and every call with it.                            *)
Underway(m) == call[m] \in {"sending", "oneway", "half", "local"}

Die ==
    /\ producer' = "none" /\ consumer' = "none"
    /\ call' = [m \in Message |-> IF Underway(m) THEN "gone" ELSE call[m]]
    /\ local' = [m \in Message |-> IF local[m] = "open" THEN "rolledback" ELSE local[m]]
    /\ delivery' = GiveBack
    /\ UNCHANGED <<stored, told, checks, attempts, refused>>

-----------------------------------------------------------------------------
(* Sends.  Only the native Producer looks at the size of the body; the     *)
(* adapter hands every message to the library.                             *)
checkMessageSize(m, native) == native => m \notin Oversized

To(m, c) == call' = [call EXCEPT ![m] = c]

SendCall(m, how) ==
    /\ call[m] = "idle"
    /\ producer = "started"
    /\ m \notin Transactional
    /\ \E native \in BOOLEAN :
        /\ how = "oneway" => native        \* the adapter has no SendOneWay
        /\ IF checkMessageSize(m, native) THEN To(m, how) ELSE To(m, "failed")
    /\ UNCHANGED <<producer, consumer, local, stored, told, checks, consumeVars>>

SendSync(m) == SendCall(m, "sending")      \* SendAsync: its callback gets the result
SendOneWay(m) == SendCall(m, "oneway")

Enqueue(m) ==
    /\ stored' = [stored EXCEPT ![m] = "visible"]
    /\ delivery' = [delivery EXCEPT ![m] = "queued"]

(* The library's send: the broker stores the message or not, and when it   *)
(* does its acknowledgement may be lost.                                   *)
Returned(m) == IF call[m] = "oneway" THEN "posted" ELSE "ok"
LostReply(m) == IF call[m] = "oneway" THEN "posted" ELSE "failed"

PlainResult(m) ==
    /\ call[m] \in {"sending", "oneway"}
    /\ m \notin Transactional
    /\ \/ Enqueue(m) /\ (To(m, Returned(m)) \/ To(m, LostReply(m)))
       \/ To(m, LostReply(m)) /\ UNCHANGED <<stored, delivery>>
    /\ UNCHANGED <<producer, consumer, local, told, checks, attempts, refused>>

-----------------------------------------------------------------------------
(* SendMessageInTransaction: the half message, the local transaction, and  *)
(* the answer about it.                                                    *)
SendMessageInTransaction(m) ==
    /\ call[m] = "idle"
    /\ producer = "started"
    /\ m \in Transactional
    /\ To(m, "sending")
    /\ UNCHANGED <<producer, consumer, local, stored, told, checks, consumeVars>>

HalfResult(m) ==
    /\ call[m] = "sending"
    /\ m \in Transactional
    /\ \/ To(m, "half") /\ stored' = [stored EXCEPT ![m] = "half"]
       \/ To(m, "failed") /\ stored' = [stored EXCEPT ![m] = "half"]
       \/ To(m, "failed") /\ UNCHANGED stored
    /\ UNCHANGED <<producer, consumer, local, told, checks, consumeVars>>

BeginLocal(m) ==
    /\ call[m] = "half"
    /\ To(m, "local")
    /\ local' = [local EXCEPT ![m] = "open"]
    /\ UNCHANGED <<producer, consumer, stored, told, checks, consumeVars>>

(* What a TransactionListener may answer: Commit only of what has been     *)
(* committed, Rollback only of what cannot be any more, Unknow always.     *)
Truthful(state) == {"unknow"} \union
    CASE state = "committed" -> {"commit"}
      [] state = "rolledback" -> {"rollback"}
      [] OTHER -> {}

(* transactionListenerAdapter hands the listener's answer on.              *)
RoundsUp(answer) == IF answer = "unknow" THEN "commit" ELSE answer \* mutant
adapted(answer) == answer

Tell(m, answer) ==
    IF adapted(answer) \in Verdict
    THEN told' = told \union {<<m, adapted(answer)>>} ELSE UNCHANGED told

ExecuteLocalTransaction(m) ==
    /\ call[m] = "local"
    /\ To(m, "ok")
    /\ \E result \in {"committed", "rolledback"} : \E answer \in Truthful(result) :
        /\ local' = [local EXCEPT ![m] = result]
        /\ Tell(m, answer)
    /\ UNCHANGED <<producer, consumer, stored, checks, consumeVars>>

(* The broker asks a live producer about a message that is still half.     *)
CheckLocalTransaction(m) ==
    /\ stored[m] = "half" /\ checks[m] < MaxChecks
    /\ producer = "started"
    /\ checks' = [checks EXCEPT ![m] = @ + 1]
    /\ \E answer \in Truthful(local[m]) : Tell(m, answer)
    /\ UNCHANGED <<producer, consumer, call, local, stored, consumeVars>>

EndTransaction(m, verdict) ==
    /\ <<m, verdict>> \in told
    /\ told' = told \ {<<m, verdict>>}
    /\ \/ stored[m] = "half" /\ verdict = "commit" /\ Enqueue(m)
       \/ /\ stored[m] = "half" /\ verdict = "rollback"
          /\ stored' = [stored EXCEPT ![m] = "discarded"]
          /\ UNCHANGED delivery
       \/ UNCHANGED <<stored, delivery>>   \* lost, or the message is settled
    /\ UNCHANGED <<producer, consumer, call, local, checks, attempts, refused>>

GiveUp(m) ==
    /\ stored[m] = "half" /\ checks[m] = MaxChecks
    /\ stored' = [stored EXCEPT ![m] = "discarded"]
    /\ UNCHANGED <<producer, consumer, call, local, told, checks, consumeVars>>

-----------------------------------------------------------------------------
(* The function Subscribe registers: a batch goes to the handler, an error *)
(* means ConsumeRetryLater, and a result that is neither of the two known  *)
(* ones counts as success.                                                 *)
Deliver(batch) ==
    /\ consumer = "started"
    /\ batch # {} /\ Cardinality(batch) <= BatchMax
    /\ \A m \in batch : delivery[m] = "queued"
    /\ delivery' = [m \in Message |-> IF m \in batch THEN "handling" ELSE delivery[m]]
    /\ UNCHANGED <<producer, consumer, sendVars, attempts, refused>>

HandlerResult == [result : {"success", "retry", "other"}, err : BOOLEAN]
ConsumeResult(r) == IF r.err \/ r.result = "retry" THEN "retry" ELSE "success"

InHand == {m \in Message : delivery[m] = "handling"}

Answered(m, r) ==
    IF ConsumeResult(r) = "success" THEN "acked"
    ELSE IF attempts[m] < MaxReconsumeTimes THEN "queued" ELSE "dead"

Handle(r) ==
    /\ consumer = "started"
    /\ InHand # {}
    /\ delivery' = [m \in Message |-> IF m \in InHand THEN Answered(m, r) ELSE delivery[m]]
    /\ attempts' = [m \in Message |->
            IF m \in InHand /\ Answered(m, r) = "queued" THEN attempts[m] + 1 ELSE attempts[m]]
    /\ refused' = [m \in Message |->
            IF m \in InHand THEN r.err \/ r.result = "retry" ELSE refused[m]]
    /\ UNCHANGED <<producer, consumer, sendVars>>

-----------------------------------------------------------------------------
BrokerStep ==
    \E m \in Message :
        \/ CheckLocalTransaction(m) \/ GiveUp(m)
        \/ \E verdict \in Verdict : EndTransaction(m, verdict)

MessageStep ==
    \/ \E m \in Message :
        \/ SendSync(m) \/ SendOneWay(m) \/ PlainResult(m)
        \/ SendMessageInTransaction(m) \/ HalfResult(m)
        \/ BeginLocal(m) \/ ExecuteLocalTransaction(m)
    \/ BrokerStep
    \/ \E batch \in SUBSET Message : InHand = {} /\ Deliver(batch)
    \/ \E r \in HandlerResult : Handle(r)

MQNext ==
    \/ \E ok \in BOOLEAN : NewProducer(ok) \/ NewConsumer(ok) \/ StartConsumer(ok)
    \/ CloseProducer \/ CloseConsumer \/ Die
    \/ MessageStep

MQSpec == MQInit /\ [][MQNext]_mqVars

-----------------------------------------------------------------------------
(* A transaction message can only be consumed when its local transaction   *)
(* has committed, whatever answers are lost, late or repeated and however  *)
(* often the process dies (transaction.go:139-161).                        *)
VisibleOnlyIfCommitted ==
    \A m \in Transactional : stored[m] = "visible" => local[m] = "committed"

(* A send that answered without an error has reached the broker, and a     *)
(* message is settled for the consumer (acked) only when the handler's     *)
(* last word on it was neither an error nor RetryLater: what it refused    *)
(* comes back or ends among the dead letters (adapter.go:248-256).         *)
OkMeansStored == \A m \in Message : call[m] = "ok" => stored[m] # "none"
AckedMeansAccepted == \A m \in Message : delivery[m] = "acked" => ~refused[m]
NeverLost == \A m \in Message : stored[m] = "visible" <=> delivery[m] # "none"
=============================================================================
