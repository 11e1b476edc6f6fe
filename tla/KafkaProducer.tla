--------------------------- MODULE KafkaProducer ---------------------------
(***************************************************************************)
(* mq/kafka.ProducerAdapter (src/mq/kafka/producer.go): goroutines that    *)
(* send one message each, synchronously or with a callback, one goroutine  *)
(* that hands out the results (handleAsyncErrors), and Close.              *)
(*                                                                         *)
(* sarama's AsyncProducer is outside src/.  Its Input takes messages until *)
(* Close; each ends as a success or an error on a channel of its own.      *)
(* Close first lets the messages in flight end, then closes Input and both *)
(* result channels; meanwhile it reads results too, and throws them away.  *)
(* A send on the closed Input panics.                                      *)
(***************************************************************************)
EXTENDS Integers, FiniteSets

CONSTANTS
    SyncSender,     \* goroutines in SendSync
    AsyncSender,    \* goroutines in SendAsync
    Bounded,        \* senders whose ctx ends some day
    Closer,         \* goroutines that call Close
    Nobody

ASSUME ProducerAssumption ==
    /\ SyncSender \cap AsyncSender = {}
    /\ Bounded \subseteq SyncSender \union AsyncSender
    /\ Nobody \notin SyncSender \union AsyncSender

Sender == SyncSender \union AsyncSender

VARIABLES
    sender,     \* where each sender is, or what its call returned
    ctxDone,    \* senders whose ctx is done
    late,       \* senders that called after closed was set
    message,    \* where the message of each sender is
    fate,       \* what the broker decided about it
    ch,         \* the result in the sync sender's channel, of capacity one
    callback,   \* what the async sender's callback was called with
    hand,       \* the sender whose result handleAsyncErrors has read
    results,    \* handleAsyncErrors: "running" or "exited"
    closed,     \* ProducerAdapter.closed
    closer,     \* where each caller of Close is
    input,      \* sarama's Input: "open", "draining" (shutting down), "closed"
    cancelled   \* p.ctx is done

senderVars == <<sender, ctxDone, late>>
saramaVars == <<message, fate, input>>
resultVars == <<ch, callback, hand, results>>
closeVars  == <<closed, closer, cancelled>>
vars == <<senderVars, saramaVars, resultVars, closeVars>>

Init ==
    /\ sender = [s \in Sender |-> "idle"]
    /\ ctxDone = {} /\ late = {}
    /\ message = [s \in Sender |-> "none"]
    /\ fate = [s \in Sender |-> "none"]
    /\ ch = [s \in SyncSender |-> "none"]
    /\ callback = [s \in AsyncSender |-> "none"]
    /\ hand = Nobody
    /\ results = "running"
    /\ closed = FALSE
    /\ closer = [c \in Closer |-> "idle"]
    /\ input = "open"
    /\ cancelled = FALSE

-----------------------------------------------------------------------------
(* SendSync and SendAsync.  closed is read under the lock, which is given  *)
(* back before the send on Input.                                          *)
Unchecked == FALSE                 \* mutant: Send does not look at closed
Refuses == closed

SendCheck(s) ==
    /\ sender[s] = "idle"
    /\ sender' = [sender EXCEPT ![s] = IF Refuses THEN "refused" ELSE "checked"]
    /\ late' = IF closed THEN late \union {s} ELSE late
    /\ UNCHANGED <<ctxDone, saramaVars, resultVars, closeVars>>

(* The send on Input.  A producer shutting down answers with an error; the *)
(* closed channel panics.                                                  *)
Accepted(s) == IF s \in SyncSender THEN "waiting" ELSE "accepted"

Offer(s) ==
    /\ sender[s] = "checked"
    /\ \/ /\ input = "open"
          /\ message' = [message EXCEPT ![s] = "inflight"]
          /\ sender' = [sender EXCEPT ![s] = Accepted(s)]
          /\ UNCHANGED fate
       \/ /\ input = "draining"
          /\ message' = [message EXCEPT ![s] = "result"]
          /\ fate' = [fate EXCEPT ![s] = "err"]
          /\ sender' = [sender EXCEPT ![s] = Accepted(s)]
       \/ /\ input = "closed"
          /\ sender' = [sender EXCEPT ![s] = "panicked"]
          /\ UNCHANGED <<message, fate>>
    /\ UNCHANGED <<ctxDone, late, input, resultVars, closeVars>>

CtxEnds(s) ==
    /\ s \in Bounded \ ctxDone
    /\ ctxDone' = ctxDone \union {s}
    /\ UNCHANGED <<sender, late, saramaVars, resultVars, closeVars>>

(* ctx.Done in either select.                                              *)
FirstSelect == {"checked"}         \* mutant: waits for the result without ctx
Selects == {"checked", "waiting"}

SendCancelled(s) ==
    /\ sender[s] \in Selects
    /\ s \in ctxDone
    /\ sender' = [sender EXCEPT ![s] = "cancelled"]
    /\ UNCHANGED <<ctxDone, late, saramaVars, resultVars, closeVars>>

SyncReceive(s) ==
    /\ sender[s] = "waiting"
    /\ ch[s] # "none"
    /\ sender' = [sender EXCEPT ![s] = ch[s]]
    /\ ch' = [ch EXCEPT ![s] = "none"]
    /\ UNCHANGED <<ctxDone, late, saramaVars, callback, hand, results, closeVars>>

-----------------------------------------------------------------------------
(* handleAsyncErrors: one result at a time, from either channel, until a   *)
(* channel is closed and empty, or p.ctx is done.                          *)
Pending(outcome) == {s \in Sender : message[s] = "result" /\ fate[s] = outcome}

TakeResult(s) ==
    /\ results = "running" /\ hand = Nobody
    /\ message[s] = "result"
    /\ hand' = s
    /\ message' = [message EXCEPT ![s] = "taken"]
    /\ UNCHANGED <<senderVars, fate, input, ch, callback, results, closeVars>>

(* deliverSyncSendResult: nothing for a request whose ctx is done;         *)
(* otherwise a send that never blocks.                                     *)
Rendezvous(s) ==                   \* mutant: a send that waits for the receiver
    sender[s] = "waiting"
Deliverable(s) == TRUE
Unbuffered(s) == TRUE              \* mutant: no room unless received right now
Full(s) == ch[s] # "none"
GaveUp(s) == s \in ctxDone

DeliverSync(s) ==
    /\ hand = s /\ s \in SyncSender
    /\ Deliverable(s)
    /\ hand' = Nobody
    /\ ch' = IF GaveUp(s) \/ Full(s) THEN ch ELSE [ch EXCEPT ![s] = fate[s]]
    /\ message' = [message EXCEPT ![s] = "done"]
    /\ UNCHANGED <<senderVars, fate, input, callback, results, closeVars>>

(* The callback runs on this goroutine, and is assumed to return.          *)
DeliverAsync(s) ==
    /\ hand = s /\ s \in AsyncSender
    /\ hand' = Nobody
    /\ callback' = [callback EXCEPT ![s] = fate[s]]
    /\ message' = [message EXCEPT ![s] = "done"]
    /\ UNCHANGED <<senderVars, fate, input, ch, results, closeVars>>

ResultsExit ==
    /\ results = "running" /\ hand = Nobody
    /\ \/ cancelled
       \/ input = "closed" /\ \E o \in {"ok", "err"} : Pending(o) = {}
    /\ results' = "exited"
    /\ UNCHANGED <<senderVars, saramaVars, ch, callback, hand, closeVars>>

-----------------------------------------------------------------------------
(* sarama.                                                                 *)
BrokerAnswers(s) ==
    /\ message[s] = "inflight"
    /\ message' = [message EXCEPT ![s] = "result"]
    /\ \E o \in {"ok", "err"} : fate' = [fate EXCEPT ![s] = o]
    /\ UNCHANGED <<senderVars, input, resultVars, closeVars>>

ChannelsClose ==
    /\ input = "draining"
    /\ \A s \in Sender : message[s] # "inflight"
    /\ input' = "closed"
    /\ UNCHANGED <<senderVars, message, fate, resultVars, closeVars>>

(* The goroutines of sarama's Close read what handleAsyncErrors does not.  *)
Drain(s) ==
    /\ input # "open"
    /\ message[s] = "result"
    /\ message' = [message EXCEPT ![s] = "drained"]
    /\ UNCHANGED <<senderVars, fate, input, resultVars, closeVars>>

-----------------------------------------------------------------------------
(* Close: the first call sets closed, closes sarama's producer, cancels    *)
(* p.ctx and waits for handleAsyncErrors; any other returns at once.       *)
Flag == TRUE

CloseCall(c) ==
    /\ closer[c] = "idle"
    /\ closer' = [closer EXCEPT ![c] = IF closed THEN "returned" ELSE "flagged"]
    /\ closed' = Flag
    /\ UNCHANGED <<senderVars, saramaVars, resultVars, cancelled>>

CloseProducer(c) ==
    /\ closer[c] = "flagged"
    /\ closer' = [closer EXCEPT ![c] = "closing"]
    /\ input' = "draining"
    /\ UNCHANGED <<senderVars, message, fate, resultVars, closed, cancelled>>

(* sarama's Close returns when the error channel is closed and empty.      *)
ProducerClosed == input = "closed" /\ Pending("err") = {}

CloseCancel(c) ==
    /\ closer[c] = "closing"
    /\ ProducerClosed
    /\ cancelled' = TRUE
    /\ closer' = [closer EXCEPT ![c] = "wait"]
    /\ UNCHANGED <<senderVars, saramaVars, resultVars, closed>>

CloseReturn(c) ==
    /\ closer[c] = "wait"
    /\ results = "exited"
    /\ closer' = [closer EXCEPT ![c] = "closed"]
    /\ UNCHANGED <<senderVars, saramaVars, resultVars, closed, cancelled>>

-----------------------------------------------------------------------------
SendStep(s) == Offer(s) \/ SendCancelled(s) \/ (s \in SyncSender /\ SyncReceive(s))

ResultsStep ==
    \/ \E s \in Sender : TakeResult(s) \/ DeliverSync(s) \/ DeliverAsync(s)
    \/ ResultsExit

CloseStep(c) == CloseProducer(c) \/ CloseCancel(c) \/ CloseReturn(c)

Next ==
    \/ \E s \in Sender :
        SendCheck(s) \/ SendStep(s) \/ CtxEnds(s) \/ BrokerAnswers(s) \/ Drain(s)
    \/ ResultsStep
    \/ ChannelsClose
    \/ \E c \in Closer : CloseCall(c) \/ CloseStep(c)

(* Goroutines run, the broker answers (or sarama's retries end), a bounded *)
(* ctx ends.  Nobody has to send or to close.                              *)
Fairness ==
    /\ \A s \in Sender :
        WF_vars(SendStep(s)) /\ WF_vars(CtxEnds(s)) /\ WF_vars(BrokerAnswers(s))
    /\ WF_vars(ResultsStep)
    /\ WF_vars(\E s \in Sender : Drain(s)) /\ WF_vars(ChannelsClose)
    /\ \A c \in Closer : WF_vars(CloseStep(c))

Spec == Init /\ [][Next]_vars /\ Fairness

-----------------------------------------------------------------------------
(* TypeOK: types of all the variables.                                     *)
TypeOK ==
    /\ sender \in [Sender -> {"idle", "refused", "checked", "waiting", "accepted",
                              "cancelled", "ok", "err", "panicked"}]
    /\ ctxDone \in SUBSET Bounded /\ late \in SUBSET Sender
    /\ message \in [Sender -> {"none", "inflight", "result", "taken", "done", "drained"}]
    /\ fate \in [Sender -> {"none", "ok", "err"}]
    /\ ch \in [SyncSender -> {"none", "ok", "err"}]
    /\ callback \in [AsyncSender -> {"none", "ok", "err"}]
    /\ hand \in Sender \union {Nobody}
    /\ results \in {"running", "exited"}
    /\ closed \in BOOLEAN /\ cancelled \in BOOLEAN
    /\ closer \in [Closer -> {"idle", "flagged", "closing", "wait", "closed", "returned"}]
    /\ input \in {"open", "draining", "closed"}
    /\ input # "open" => closed
    /\ hand # Nobody => message[hand] = "taken"

(* A Send that begins after Close has set closed is refused: only a sender *)
(* that had read closed before can run into the closed Input and panic.    *)
LateSendersAreRefused == \A s \in late : sender[s] = "refused"

(* When the Close that did the work returns, nothing is left behind: every *)
(* message that was accepted has been decided, no error is unread, and the *)
(* results goroutine is gone, so no callback runs after it.                *)
CloseIsFinal ==
    \A c \in Closer : closer[c] = "closed" =>
        /\ results = "exited" /\ hand = Nobody
        /\ Pending("err") = {}
        /\ \A s \in Sender : message[s] # "inflight"

(* Who is owed a result has its message on the way, or in the hands of the *)
(* goroutine that delivers it, or delivered, unless its ctx is done or     *)
(* sarama's Close threw the result away; that goroutine lives until Close; *)
(* and SendSync returns what became of the message.                        *)
Owed(s) == IF s \in SyncSender THEN sender[s] = "waiting" /\ ~GaveUp(s) ELSE sender[s] = "accepted"
Delivered(s) == (IF s \in SyncSender THEN ch[s] ELSE callback[s]) = fate[s]
NothingIsForgotten ==
    /\ results = "exited" => closed
    /\ \A s \in Sender :
        /\ Owed(s) => \/ message[s] \in {"inflight", "result"} \/ hand = s
                      \/ message[s] = "done" /\ Delivered(s)
                      \/ message[s] = "drained" /\ closed
        /\ sender[s] \in {"ok", "err"} => sender[s] = fate[s]

(* The state is well typed, closing is an end for senders and results, and *)
(* no result gets lost before (producer.go:101-186, 188-272).          *)
Inv == TypeOK /\ LateSendersAreRefused /\ CloseIsFinal /\ NothingIsForgotten

(* A result is lost (read by sarama's Close, or by nobody) only once Close *)
(* was called: until then every accepted message is answered, to the       *)
(* sender that waits for it or by its callback.                            *)
Answered(s) ==
    IF s \in SyncSender THEN sender[s] # "waiting" ELSE callback[s] # "none"

EveryMessageIsAnswered ==
    \A s \in Sender :
        sender[s] \in {"waiting", "accepted"} ~> (closed \/ Answered(s))

(* SendSync with a ctx that ends returns, whatever Close does and whether  *)
(* or not its result is lost.                                              *)
BoundedSendsReturn ==
    \A s \in Bounded : sender[s] \in {"checked", "waiting"}
        ~> sender[s] \notin {"checked", "waiting"}

(* Close ends, though receivers have gone and results keep coming.         *)
CloseEnds == \A c \in Closer : closer[c] = "flagged" ~> closer[c] = "closed"
=============================================================================
