------------------------ MODULE KafkaProducerProofs -------------------------
(***************************************************************************)
(* Proofs about KafkaProducer, for any senders and any number of callers   *)
(* of Close: senders that come late are refused, and the Close that does   *)
(* the work is the end of messages, results and callbacks.                 *)
(***************************************************************************)
EXTENDS KafkaProducer, TLAPS

Working == {"flagged", "closing", "wait", "closed"}

(* One call of Close does the work, and only after it has set closed.      *)
OneCloser ==
    /\ \A c, d \in Closer : closer[c] \in Working /\ closer[d] \in Working => c = d
    /\ \A c \in Closer : closer[c] \in Working => closed

(* How far it has come tells how far sarama's producer and the goroutine   *)
(* that hands out results have.                                            *)
Closes ==
    \A c \in Closer :
        /\ closer[c] = "flagged" => input = "open"
        /\ closer[c] \in {"closing", "wait", "closed"} => input # "open"
        /\ closer[c] \in {"wait", "closed"} => input = "closed" /\ Pending("err") = {}
        /\ closer[c] = "closed" => results = "exited"

(* A message is not sent before its sender has passed the check, a closed  *)
(* producer has none in flight, and who has left holds no result.          *)
Flow ==
    /\ \A s \in Sender : sender[s] \in {"idle", "refused", "checked"} => message[s] = "none"
    /\ input = "closed" => \A s \in Sender : message[s] # "inflight"
    /\ results = "exited" => hand = Nobody

IInv == TypeOK /\ LateSendersAreRefused /\ OneCloser /\ Closes /\ Flow

-----------------------------------------------------------------------------
(* At first nobody has sent and nobody closes.                             *)
LEMMA InitIInv == Init => IInv
<1> SUFFICES ASSUME Init PROVE IInv
  OBVIOUS
<1> USE DEF Init
<1>1. TypeOK
  BY DEF TypeOK
<1>2. LateSendersAreRefused /\ Flow
  BY DEF LateSendersAreRefused, Flow
<1>3. OneCloser /\ Closes
  BY DEF OneCloser, Closes, Working
<1> QED
  BY <1>1, <1>2, <1>3 DEF IInv

(* What a sender does, with the broker and sarama answering it.            *)
SenderStep(s) == SendCheck(s) \/ SendStep(s) \/ CtxEnds(s) \/ BrokerAnswers(s) \/ Drain(s)

(* No step about one message disturbs the invariant.                       *)
LEMMA SenderKeeps ==
    ASSUME IInv, NEW s \in Sender, SenderStep(s)
    PROVE  IInv'
<1> USE ProducerAssumption DEF IInv
<1>1. TypeOK'
  <2> USE DEF TypeOK, senderVars, saramaVars, resultVars, closeVars
  <2>1. CASE SendCheck(s)
    BY <2>1 DEF SendCheck
  <2>2. CASE Offer(s)
    BY <2>2 DEF Offer, Accepted, Flow
  <2>3. CASE SendCancelled(s)
    BY <2>3 DEF SendCancelled
  <2>4. CASE s \in SyncSender /\ SyncReceive(s)
    BY <2>4 DEF SyncReceive
  <2>5. CASE CtxEnds(s)
    BY <2>5 DEF CtxEnds
  <2>6. CASE BrokerAnswers(s)
    BY <2>6 DEF BrokerAnswers
  <2>7. CASE Drain(s)
    BY <2>7 DEF Drain
  <2> QED
    BY <2>1, <2>2, <2>3, <2>4, <2>5, <2>6, <2>7 DEF SenderStep, SendStep
<1>2. LateSendersAreRefused'
  BY DEF LateSendersAreRefused, TypeOK, SenderStep, SendStep, SendCheck, Refuses, Offer, Accepted,
         SendCancelled, Selects, SyncReceive, CtxEnds, BrokerAnswers, Drain, senderVars
<1>3. OneCloser'
  BY DEF OneCloser, SenderStep, SendStep, SendCheck, Offer, SendCancelled, SyncReceive, CtxEnds,
         BrokerAnswers, Drain, closeVars
<1>4. input = "closed" /\ Pending("err") = {} => Pending("err")' = {}
  BY DEF Pending, Flow, TypeOK, SenderStep, SendStep, SendCheck, Offer, SendCancelled, SyncReceive,
         CtxEnds, BrokerAnswers, Drain, saramaVars
<1>5. Closes'
  <2>1. UNCHANGED <<closer, input, results>>
    BY DEF SenderStep, SendStep, SendCheck, Offer, SendCancelled, SyncReceive, CtxEnds,
           BrokerAnswers, Drain, saramaVars, resultVars, closeVars
  <2> QED
    BY <1>4, <2>1 DEF Closes
<1>6. Flow'
  <2>1. input' = input /\ results' = results /\ hand' = hand
    BY DEF SenderStep, SendStep, SendCheck, Offer, SendCancelled, SyncReceive, CtxEnds,
           BrokerAnswers, Drain, saramaVars, resultVars
  <2> QED
    BY <2>1 DEF Flow, TypeOK, SenderStep, SendStep, SendCheck, Offer, Accepted, SendCancelled, Selects,
         SyncReceive, CtxEnds, BrokerAnswers, Drain, senderVars, saramaVars
<1> QED
  BY <1>1, <1>2, <1>3, <1>5, <1>6

(* handleAsyncErrors, and the end of sarama's channels.                    *)
LEMMA ResultsKeep == IInv /\ (ResultsStep \/ ChannelsClose) => IInv'
<1> SUFFICES ASSUME IInv, ResultsStep \/ ChannelsClose PROVE IInv'
  OBVIOUS
<1> USE ProducerAssumption DEF IInv
<1>1. ASSUME NEW s \in Sender, TakeResult(s) \/ DeliverSync(s) \/ DeliverAsync(s)
      PROVE  IInv'
  <2> USE <1>1 DEF TakeResult, DeliverSync, DeliverAsync, senderVars, closeVars
  <2>1. TypeOK'
    BY DEF TypeOK
  <2>2. LateSendersAreRefused' /\ OneCloser'
    BY DEF LateSendersAreRefused, OneCloser
  <2>3. Pending("err") = {} => Pending("err")' = {}
    BY DEF Pending, TypeOK
  <2>4. Closes'
    BY <2>3 DEF Closes
  <2>5. Flow'
    BY DEF Flow, TypeOK
  <2> QED
    BY <2>1, <2>2, <2>4, <2>5
<1>2. CASE ResultsExit
  <2> USE <1>2 DEF ResultsExit, senderVars, saramaVars, closeVars
  <2>1. TypeOK' /\ LateSendersAreRefused' /\ OneCloser'
    BY DEF TypeOK, LateSendersAreRefused, OneCloser
  <2>2. Pending("err")' = Pending("err")
    BY DEF Pending
  <2>3. Closes' /\ Flow'
    BY <2>2 DEF Closes, Flow
  <2> QED
    BY <2>1, <2>3
<1>3. CASE ChannelsClose
  <2> USE <1>3 DEF ChannelsClose, senderVars, resultVars, closeVars
  <2>1. TypeOK' /\ LateSendersAreRefused' /\ OneCloser'
    BY DEF TypeOK, LateSendersAreRefused, OneCloser
  <2>2. Pending("err")' = Pending("err")
    BY DEF Pending
  <2>3. Closes' /\ Flow'
    BY <2>2 DEF Closes, Flow
  <2> QED
    BY <2>1, <2>3
<1> QED
  BY <1>1, <1>2, <1>3 DEF ResultsStep

(* The calls of Close.                                                     *)
LEMMA CloseKeeps ==
    ASSUME IInv, NEW c \in Closer, CloseCall(c) \/ CloseStep(c)
    PROVE  IInv'
<1> USE DEF IInv, CloseStep, CloseCall, CloseProducer, CloseCancel, CloseReturn, senderVars,
            saramaVars, resultVars
<1>1. TypeOK'
  BY DEF TypeOK, OneCloser, Working, Flag
<1>2. LateSendersAreRefused'
  BY DEF LateSendersAreRefused
<1>3. OneCloser'
  BY DEF OneCloser, TypeOK, Working, Flag
<1>4. Pending("err")' = Pending("err")
  BY DEF Pending
<1>5. Closes'
  BY <1>4 DEF Closes, OneCloser, TypeOK, Working, ProducerClosed
<1>6. Flow'
  BY DEF Flow
<1> QED
  BY <1>1, <1>2, <1>3, <1>5, <1>6

-----------------------------------------------------------------------------
(* IInv holds in every state of every behaviour.                           *)
THEOREM Invariance == Spec => []IInv
<1>1. IInv /\ [Next]_vars => IInv'
  <2> SUFFICES ASSUME IInv, [Next]_vars PROVE IInv'
    OBVIOUS
  <2>1. ASSUME NEW s \in Sender, SenderStep(s) PROVE IInv'
    BY <2>1, SenderKeeps
  <2>2. CASE ResultsStep \/ ChannelsClose
    BY <2>2, ResultsKeep
  <2>3. ASSUME NEW c \in Closer, CloseCall(c) \/ CloseStep(c) PROVE IInv'
    BY <2>3, CloseKeeps
  <2>4. CASE UNCHANGED vars
    BY <2>4 DEF IInv, TypeOK, LateSendersAreRefused, OneCloser, Closes, Flow, Pending, vars,
                senderVars, saramaVars, resultVars, closeVars
  <2> QED
    BY <2>1, <2>2, <2>3, <2>4 DEF Next, SenderStep
<1> QED
  BY <1>1, InitIInv, PTL DEF Spec

-----------------------------------------------------------------------------
(* Where each message is tells what its sender and its fate are: a result  *)
(* taken is in the hand, one thrown away was thrown away by Close, and one *)
(* delivered is the sender's or waits for it.                              *)
SyncTrack(s) ==
    /\ sender[s] # "accepted"
    /\ ch[s] # "none" => message[s] = "done" /\ ch[s] = fate[s]
    /\ sender[s] \in {"ok", "err"} => message[s] = "done" /\ sender[s] = fate[s]
    /\ sender[s] = "waiting" /\ message[s] = "done" /\ ~GaveUp(s) => ch[s] = fate[s]
AsyncTrack(s) ==
    /\ sender[s] \notin {"waiting", "ok", "err"}
    /\ sender[s] = "accepted" /\ message[s] = "done" => callback[s] = fate[s]
Track(s) ==
    /\ fate[s] = "none" <=> message[s] \in {"none", "inflight"}
    /\ message[s] = "none" => sender[s] \notin {"waiting", "accepted", "ok", "err"}
    /\ message[s] = "taken" => hand = s
    /\ message[s] = "drained" => closed
    /\ s \in SyncSender => SyncTrack(s)
    /\ s \in AsyncSender => AsyncTrack(s)
Tracks ==
    /\ cancelled \/ results = "exited" => closed
    /\ \A s \in Sender : Track(s)

(* A sender and its message: the others' are left alone.                   *)
LEMMA SenderTracks ==
    ASSUME IInv, Tracks, NEW s \in Sender, SenderStep(s)
    PROVE  Tracks'
<1> USE ProducerAssumption DEF Sender
<1>1. TypeOK /\ Track(s) /\ Flow
  BY DEF IInv, Tracks
<1>2. UNCHANGED <<input, results, hand, closed, cancelled, callback>>
  BY DEF SenderStep, SendStep, SendCheck, Offer, SendCancelled, SyncReceive, CtxEnds, BrokerAnswers,
         Drain, saramaVars, resultVars, closeVars
<1>3. ASSUME NEW q \in Sender, q # s PROVE Track(q)'
  <2>1. /\ sender'[q] = sender[q] /\ message'[q] = message[q] /\ fate'[q] = fate[q]
        /\ q \in ctxDone' <=> q \in ctxDone
        /\ q \in SyncSender => ch'[q] = ch[q]
    BY <1>1, <1>3 DEF TypeOK, SenderStep, SendStep, SendCheck, Offer, SendCancelled, SyncReceive, CtxEnds,
           BrokerAnswers, Drain, senderVars, saramaVars, resultVars
  <2> QED
    BY <1>2, <2>1 DEF Tracks, Track, SyncTrack, AsyncTrack, GaveUp
<1>4. Track(s)'
  <2> USE <1>1, <1>2 DEF TypeOK, Track, SyncTrack, AsyncTrack, GaveUp, senderVars, saramaVars, resultVars
  <2>1. CASE SendCheck(s)
    BY <2>1 DEF SendCheck, Flow
  <2>2. CASE Offer(s)
    BY <2>2 DEF Offer, Accepted, Flow
  <2>3. CASE SendCancelled(s)
    BY <2>3 DEF SendCancelled
  <2>4. CASE s \in SyncSender /\ SyncReceive(s)
    BY <2>4 DEF SyncReceive
  <2>5. CASE CtxEnds(s)
    BY <2>5 DEF CtxEnds
  <2>6. CASE BrokerAnswers(s)
    BY <2>6 DEF BrokerAnswers
  <2>7. CASE Drain(s)
    BY <2>7 DEF Drain
  <2> QED
    BY <2>1, <2>2, <2>3, <2>4, <2>5, <2>6, <2>7 DEF SenderStep, SendStep
<1> QED
  BY <1>2, <1>3, <1>4 DEF Tracks

(* A result moves to the hand, and from it to who is owed it.              *)
LEMMA ResultsTrack ==
    ASSUME IInv, Tracks, ResultsStep \/ ChannelsClose
    PROVE  Tracks'
<1> USE ProducerAssumption DEF Sender
<1>1. ASSUME NEW s \in Sender, TakeResult(s) \/ DeliverSync(s) \/ DeliverAsync(s)
      PROVE  Tracks'
  <2>1. UNCHANGED <<sender, ctxDone, fate, results, closed, cancelled>>
    BY <1>1 DEF TakeResult, DeliverSync, DeliverAsync, senderVars, closeVars
  <2>2. TypeOK /\ Track(s)
    BY DEF IInv, Tracks
  <2>3. ASSUME NEW q \in Sender, q # s PROVE Track(q)'
    <3>1. /\ message'[q] = message[q] /\ message[q] # "taken"
          /\ q \in SyncSender => ch'[q] = ch[q]
          /\ q \in AsyncSender => callback'[q] = callback[q]
      BY <1>1, <2>2, <2>3 DEF TypeOK, TakeResult, DeliverSync, DeliverAsync, Tracks, Track
    <3> QED
      BY <2>1, <3>1 DEF Tracks, Track, SyncTrack, AsyncTrack, GaveUp
  <2>4. Track(s)'
    <3> USE <2>1, <2>2 DEF TypeOK, Track, SyncTrack, AsyncTrack, GaveUp
    <3>1. CASE TakeResult(s)
      BY <3>1 DEF TakeResult
    <3>2. CASE DeliverSync(s)
      BY <3>2 DEF DeliverSync, Full
    <3>3. CASE DeliverAsync(s)
      BY <3>3 DEF DeliverAsync
    <3> QED
      BY <1>1, <3>1, <3>2, <3>3
  <2> QED
    BY <2>1, <2>3, <2>4 DEF Tracks
<1>2. CASE ResultsExit \/ ChannelsClose
  <2>1. /\ UNCHANGED <<sender, ctxDone, message, fate, ch, callback, hand, closed, cancelled>>
        /\ results' # results => cancelled \/ input = "closed"
    BY <1>2 DEF ResultsExit, ChannelsClose, senderVars, saramaVars, resultVars, closeVars
  <2> QED
    BY <2>1 DEF Tracks, Track, SyncTrack, AsyncTrack, GaveUp, IInv, TypeOK
<1> QED
  BY <1>1, <1>2 DEF ResultsStep

(* The calls of Close touch no message, and closed stays set.              *)
LEMMA CloseTracks ==
    ASSUME IInv, Tracks, NEW c \in Closer, CloseCall(c) \/ CloseStep(c)
    PROVE  Tracks'
<1>1. UNCHANGED <<sender, ctxDone, message, fate, ch, callback, hand, results>>
  BY DEF CloseStep, CloseCall, CloseProducer, CloseCancel, CloseReturn, senderVars, saramaVars, resultVars
<1>2. (closed => closed') /\ (cancelled' => cancelled \/ closed')
  BY DEF CloseStep, CloseCall, CloseProducer, CloseCancel, CloseReturn, Flag, IInv, OneCloser, Working
<1> QED
  BY <1>1, <1>2 DEF Tracks, Track, SyncTrack, AsyncTrack, GaveUp

(* Tracks holds throughout.                                                *)
LEMMA Tracked == Spec => []Tracks
<1>1. Init => Tracks
  BY ProducerAssumption DEF Init, Tracks, Track, SyncTrack, AsyncTrack, Sender
<1>2. IInv /\ Tracks /\ [Next]_vars => Tracks'
  <2> SUFFICES ASSUME IInv, Tracks, [Next]_vars PROVE Tracks'
    OBVIOUS
  <2>1. CASE UNCHANGED vars
    BY <2>1 DEF Tracks, Track, SyncTrack, AsyncTrack, GaveUp, vars, senderVars, saramaVars, resultVars, closeVars
  <2> QED
    BY <2>1, SenderTracks, ResultsTrack, CloseTracks DEF Next, SenderStep
<1> QED
  BY <1>1, <1>2, Invariance, PTL DEF Spec

(* However sends and closes race, a send that begins after closed was set  *)
(* is refused; when the working Close returns no message is undecided, no  *)
(* error unread and no result in anybody's hands; and until a Close nobody *)
(* who is owed a result is forgotten (producer.go:101-186, 188-272).       *)
THEOREM CloseIsTheEnd == Spec => []Inv
<1>1. IInv => TypeOK /\ LateSendersAreRefused /\ CloseIsFinal
  BY DEF IInv, OneCloser, Closes, Flow, CloseIsFinal
<1>2. TypeOK /\ Tracks => NothingIsForgotten
  BY ProducerAssumption DEF TypeOK, Tracks, Track, SyncTrack, AsyncTrack, NothingIsForgotten, Owed, Delivered, GaveUp, Sender
<1>3. IInv /\ Tracks => Inv
  BY <1>1, <1>2 DEF Inv
<1> QED
  BY <1>3, Invariance, Tracked, PTL
=============================================================================
