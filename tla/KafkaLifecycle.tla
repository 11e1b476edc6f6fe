--------------------------- MODULE KafkaLifecycle ---------------------------
(***************************************************************************)
(* The life of mq/kafka.ConsumerAdapter (src/mq/kafka/consumer.go): calls  *)
(* of Start and Close, the goroutine each Start launches, and the channel  *)
(* on which a session's Setup tells Start that it is up.                   *)
(*                                                                         *)
(* sarama's ConsumerGroup is outside src/.  It is in one Consume at a time *)
(* (Consume holds its lock), Consume may fail or end whenever it likes and *)
(* ends when its ctx is done or the group closes, Close waits for the      *)
(* Consume in progress, and a closed group refuses to Consume.             *)
(***************************************************************************)
EXTENDS Integers, FiniteSets

CONSTANTS
    Run,        \* the calls of Start
    After,      \* [Run -> Run or Nobody]: the call its goroutine made before
    Closer,     \* goroutines that call Close
    Nobody      \* no call; the channel made by NewConsumerAdapter

ASSUME LifecycleAssumption ==
    /\ Nobody \notin Run
    /\ After \in [Run -> Run \union {Nobody}]

Channel == Run \union {Nobody}

VARIABLES
    subscribed, \* len(c.topics) > 0
    start,      \* where each call of Start is, or what it returned
    waitsOn,    \* its readyCh
    startErr,   \* calls in whose startErr there is an error
    cancel,     \* the call whose CancelFunc is in c.cancel, or Nobody
    ctxDone,    \* calls whose ctx is cancelled
    ready,      \* c.ready
    readyDone,  \* c.readyDone
    up,         \* channels that are closed
    loop,       \* the goroutine each call launched
    closer,     \* where each call of Close is
    taken,      \* the CancelFunc it took from c.cancel
    client      \* c.client: "open", "closing", "closed"

startVars == <<start, waitsOn, startErr>>
readyVars == <<ready, readyDone, up>>
closeVars == <<closer, taken>>
vars == <<subscribed, startVars, cancel, ctxDone, readyVars, loop, closeVars, client>>

Init ==
    /\ subscribed \in BOOLEAN
    /\ start = [r \in Run |-> "idle"]
    /\ waitsOn = [r \in Run |-> Nobody]
    /\ startErr = {}
    /\ cancel = Nobody /\ ctxDone = {}
    /\ ready = Nobody /\ readyDone = FALSE /\ up = {}
    /\ loop = [r \in Run |-> "none"]
    /\ closer = [c \in Closer |-> "idle"]
    /\ taken = [c \in Closer |-> Nobody]
    /\ client = "open"

(* c.mu is only held across a step while Start resets the ready state,     *)
(* which signalReady may interrupt: it takes c.readyMu alone.              *)
MuFree == \A r \in Run : start[r] # "resetting"

-----------------------------------------------------------------------------
Subscribe ==
    /\ MuFree
    /\ subscribed' = TRUE
    /\ UNCHANGED <<startVars, cancel, ctxDone, readyVars, loop, closeVars, client>>

Ended(r) == start[r] \in {"ok", "failed"}
To(r, where) == start' = [start EXCEPT ![r] = where]

(* Start, in the order of the code: look at cancel, make a new channel,    *)
(* clear readyDone, give the lock back, and take it again to set cancel.   *)
Unguarded == FALSE                 \* mutant: Start does not look at cancel
AlreadyStarted == cancel # Nobody
KeptChannel(r) == ready            \* mutant: Start keeps the old channel
NewChannel(r) == r

StartCall(r) ==
    /\ start[r] = "idle"
    /\ After[r] # Nobody => Ended(After[r])
    /\ MuFree
    /\ IF AlreadyStarted
       THEN To(r, "failed") /\ UNCHANGED <<waitsOn, ready>>
       ELSE /\ To(r, "resetting")
            /\ ready' = NewChannel(r)
            /\ waitsOn' = [waitsOn EXCEPT ![r] = NewChannel(r)]
    /\ UNCHANGED <<subscribed, startErr, cancel, ctxDone, readyDone, up, loop, closeVars, client>>

StartReset(r) ==
    /\ start[r] = "resetting"
    /\ readyDone' = FALSE
    /\ To(r, IF subscribed THEN "checked" ELSE "failed")
    /\ UNCHANGED <<subscribed, waitsOn, startErr, cancel, ctxDone, ready, up,
                   loop, closeVars, client>>

StartArm(r) ==
    /\ start[r] = "checked"
    /\ MuFree
    /\ cancel' = r
    /\ To(r, "armed")
    /\ UNCHANGED <<subscribed, waitsOn, startErr, ctxDone, readyVars, loop, closeVars, client>>

StartLaunch(r) ==
    /\ start[r] = "armed"
    /\ loop' = [loop EXCEPT ![r] = "begin"]
    /\ To(r, "waiting")
    /\ UNCHANGED <<subscribed, waitsOn, startErr, cancel, ctxDone, readyVars, closeVars, client>>

(* The select of Start.  Its timer may fire at any moment.                 *)
StartReady(r) ==
    /\ start[r] = "waiting"
    /\ waitsOn[r] \in up
    /\ To(r, "ok")
    /\ UNCHANGED <<subscribed, waitsOn, startErr, cancel, ctxDone, readyVars,
                   loop, closeVars, client>>

NoTimer == FALSE                   \* mutant: Start waits as long as it takes
StartTimer == TRUE

StartFails(r) ==
    /\ start[r] = "waiting"
    /\ r \in startErr \/ StartTimer
    /\ To(r, "aborting")
    /\ ctxDone' = ctxDone \union {r}
    /\ startErr' = startErr \ {r}
    /\ UNCHANGED <<subscribed, waitsOn, cancel, readyVars, loop, closeVars, client>>

(* abortStart: forget the CancelFunc, close the client, and wait for the   *)
(* goroutines, but no longer than the stop timer.                          *)
CloseClient == client' = IF client = "open" THEN "closing" ELSE client

AbortClear(r) ==
    /\ start[r] = "aborting"
    /\ MuFree
    /\ cancel' = Nobody
    /\ CloseClient
    /\ To(r, "closing")
    /\ UNCHANGED <<subscribed, waitsOn, startErr, ctxDone, readyVars, loop, closeVars>>

AbortClosed(r) ==
    /\ start[r] = "closing"
    /\ client = "closed"
    /\ To(r, "stopping")
    /\ UNCHANGED <<subscribed, waitsOn, startErr, cancel, ctxDone, readyVars,
                   loop, closeVars, client>>

AbortEnds(r) ==
    /\ start[r] = "stopping"
    /\ To(r, "failed")
    /\ UNCHANGED <<subscribed, waitsOn, startErr, cancel, ctxDone, readyVars,
                   loop, closeVars, client>>

-----------------------------------------------------------------------------
(* The goroutine.  Inside(r): it is in Consume, past the group's lock.     *)
Inside(r) == loop[r] \in {"joining", "session"}
Live(r) == loop[r] \notin {"none", "exited"}
Goes(r, where) == loop' = [loop EXCEPT ![r] = where]

Consume(r) ==
    /\ loop[r] = "begin"
    /\ client = "open" /\ \A q \in Run : ~Inside(q)
    /\ Goes(r, "joining")
    /\ UNCHANGED <<subscribed, startVars, cancel, ctxDone, readyVars, closeVars, client>>

(* Setup of a session, and signalReady: it closes whatever channel c.ready *)
(* is by now.                                                              *)
Setup(r) ==
    /\ loop[r] = "joining"
    /\ Goes(r, "session")
    /\ IF readyDone
       THEN UNCHANGED readyVars
       ELSE up' = up \union {ready} /\ readyDone' = TRUE /\ UNCHANGED ready
    /\ UNCHANGED <<subscribed, startVars, cancel, ctxDone, closeVars, client>>

(* Consume returns nil (a rebalance), or an error.  The loop ends when its *)
(* ctx is done.                                                            *)
Cancelled(r) == r \in ctxDone

ConsumeEnds(r) ==
    /\ Inside(r)
    /\ Goes(r, IF Cancelled(r) THEN "exited" ELSE "begin")
    /\ UNCHANGED <<subscribed, startVars, cancel, ctxDone, readyVars, closeVars, client>>

ConsumeFails(r) ==
    /\ Inside(r) \/ (loop[r] = "begin" /\ (client # "open" \/ Cancelled(r)))
    /\ Goes(r, IF Cancelled(r) THEN "exited" ELSE "backoff")
    /\ UNCHANGED <<subscribed, startVars, cancel, ctxDone, readyVars, closeVars, client>>

(* The back-off ends by its timer or by ctx.  The error is reported after  *)
(* it, if the Start that launched the goroutine is still waiting.          *)
BackoffEnds(r) ==
    /\ loop[r] = "backoff"
    /\ startErr' = IF waitsOn[r] \in up THEN startErr ELSE startErr \union {r}
    /\ Goes(r, IF Cancelled(r) THEN "exited" ELSE "begin")
    /\ UNCHANGED <<subscribed, start, waitsOn, cancel, ctxDone, readyVars, closeVars, client>>
BackoffCancelled(r) ==
    /\ loop[r] = "backoff"
    /\ Cancelled(r)
    /\ Goes(r, "exited")
    /\ UNCHANGED <<subscribed, startVars, cancel, ctxDone, readyVars, closeVars, client>>

(* sarama's Close ends with the Consume in progress.                       *)
ClientCloses ==
    /\ client = "closing"
    /\ \A r \in Run : ~Inside(r)
    /\ client' = "closed"
    /\ UNCHANGED <<subscribed, startVars, cancel, ctxDone, readyVars, loop, closeVars>>

-----------------------------------------------------------------------------
(* Close: take the CancelFunc, call it, wait for the goroutines, close the *)
(* client.                                                                 *)
CloseCall(c) ==
    /\ closer[c] = "idle"
    /\ MuFree
    /\ taken' = [taken EXCEPT ![c] = cancel]
    /\ cancel' = Nobody
    /\ closer' = [closer EXCEPT ![c] = "taken"]
    /\ UNCHANGED <<subscribed, startVars, ctxDone, readyVars, loop, client>>

Told(c) == {taken[c]} \ {Nobody}

CloseCancel(c) ==
    /\ closer[c] = "taken"
    /\ ctxDone' = ctxDone \union Told(c)
    /\ closer' = [closer EXCEPT ![c] = "waiting"]
    /\ UNCHANGED <<subscribed, startVars, cancel, readyVars, loop, taken, client>>

CloseWait(c) ==
    /\ closer[c] = "waiting"
    /\ \A r \in Run : ~Live(r)
    /\ CloseClient
    /\ closer' = [closer EXCEPT ![c] = "closing"]
    /\ UNCHANGED <<subscribed, startVars, cancel, ctxDone, readyVars, loop, taken>>

CloseReturn(c) ==
    /\ closer[c] = "closing"
    /\ client = "closed"
    /\ closer' = [closer EXCEPT ![c] = "returned"]
    /\ UNCHANGED <<subscribed, startVars, cancel, ctxDone, readyVars, loop, taken, client>>

-----------------------------------------------------------------------------
StartStep(r) ==
    \/ StartReset(r) \/ StartArm(r) \/ StartLaunch(r) \/ StartReady(r)
    \/ AbortClear(r) \/ AbortClosed(r) \/ AbortEnds(r)

(* What a goroutine does outside Consume, and when its ctx is done or the  *)
(* group closes.                                                           *)
LoopStep(r) ==
    \/ Consume(r) \/ BackoffEnds(r) \/ BackoffCancelled(r)
    \/ ~Inside(r) /\ ConsumeFails(r)
LoopStops(r) ==
    /\ Cancelled(r) \/ client # "open"
    /\ ConsumeEnds(r) \/ ConsumeFails(r)

CloseStep(c) == CloseCancel(c) \/ CloseWait(c) \/ CloseReturn(c)

Next ==
    \/ Subscribe
    \/ \E r \in Run :
        \/ StartCall(r) \/ StartStep(r) \/ StartFails(r)
        \/ LoopStep(r) \/ Setup(r) \/ ConsumeEnds(r) \/ ConsumeFails(r)
    \/ ClientCloses
    \/ \E c \in Closer : CloseCall(c) \/ CloseStep(c)

(* Goroutines and timers run; Consume ends when it is told to, and the     *)
(* group's Close with it.  Nobody has to call anything, and Consume may   *)
(* hang until it is told to stop.                                          *)
Fairness ==
    /\ \A r \in Run :
        WF_vars(StartStep(r)) /\ WF_vars(StartFails(r)) /\ WF_vars(LoopStep(r))
        /\ WF_vars(LoopStops(r))
    /\ WF_vars(ClientCloses)
    /\ \A c \in Closer : WF_vars(CloseStep(c))

Spec == Init /\ [][Next]_vars /\ Fairness

-----------------------------------------------------------------------------
(* TypeOK: types of all the variables.                                     *)
TypeOK ==
    /\ subscribed \in BOOLEAN
    /\ start \in [Run -> {"idle", "resetting", "checked", "armed", "waiting",
                          "aborting", "closing", "stopping", "ok", "failed"}]
    /\ waitsOn \in [Run -> Channel] /\ startErr \in SUBSET Run
    /\ cancel \in Channel /\ ctxDone \in SUBSET Run
    /\ ready \in Channel /\ readyDone \in BOOLEAN /\ up \in SUBSET Channel
    /\ loop \in [Run -> {"none", "begin", "joining", "session", "backoff", "exited"}]
    /\ closer \in [Closer -> {"idle", "taken", "waiting", "closing", "returned"}]
    /\ taken \in [Closer -> Channel]
    /\ client \in {"open", "closing", "closed"}

(* A Start that answered nil has a consumer that runs: until somebody      *)
(* calls Close its goroutine is there, its client open, and it is the one  *)
(* the next Close will stop.                                               *)
StartedMeansRunning ==
    \A r \in Run : start[r] = "ok" /\ (\A c \in Closer : closer[c] = "idle") =>
        Live(r) /\ client = "open" /\ cancel = r

(* No goroutine is out of reach: one that has not been told to stop is the *)
(* one c.cancel stops, or a Close has taken its CancelFunc and is about to *)
(* call it.                                                                *)
Stoppable ==
    \A r \in Run : Live(r) /\ r \notin ctxDone =>
        cancel = r \/ \E c \in Closer : closer[c] = "taken" /\ taken[c] = r

(* Start answers, whatever the group does and whoever closes it.           *)
StartAnswers == \A r \in Run : start[r] # "idle" ~> Ended(r)

(* Close returns, except to wait for a goroutine launched after it took    *)
(* the CancelFunc: that one goes on until the next Close.                  *)
Overtaken == \E r \in Run : Live(r) /\ cancel = r
CloseEnds == \A c \in Closer : closer[c] = "waiting" ~> closer[c] = "returned" \/ Overtaken

(* The state is well typed, and no goroutine is out of reach               *)
(* (consumer.go:126-160, 265-282).                                         *)
Inv == TypeOK /\ Stoppable

(* Both calls answer, whatever the group does and whoever overtakes whom   *)
(* (consumer.go:126-282).                                                  *)
CallsEnd == StartAnswers /\ CloseEnds
=============================================================================
