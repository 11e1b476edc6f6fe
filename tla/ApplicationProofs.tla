------------------------- MODULE ApplicationProofs --------------------------
(***************************************************************************)
(* Proofs about RocketMQ and Application, for any messages, bounds and     *)
(* deployments: what the broker shows, what a send answered and what the   *)
(* consumer settled stay true whatever is lost, late or repeated, however  *)
(* often the process dies and whatever else the application does.  Then    *)
(* the application's own life: hooks are paired however its Start and Stop *)
(* are cut short, servers are stopped cleanly, and no consumer outlives    *)
(* the producer it was constructed after.                                  *)
(***************************************************************************)
EXTENDS Application, TLAPS

(* A local transaction is decided once: when it has committed its call is  *)
(* past it, and only then is a commit on its way or carried out.           *)
Decided ==
    \A m \in Transactional :
        /\ stored[m] = "visible" => local[m] = "committed"
        /\ <<m, "commit">> \in told => local[m] = "committed"
        /\ local[m] = "committed" => call[m] \notin {"idle", "sending", "half", "local"}

(* What a call says of the broker: nothing is there before it, and what    *)
(* the local transaction or an ok follows is.                              *)
CallsTell ==
    \A m \in Message :
        /\ call[m] = "idle" => stored[m] = "none"
        /\ call[m] = "sending" /\ m \in Transactional => stored[m] = "none"
        /\ call[m] \in {"half", "local", "ok"} => stored[m] # "none"

MQInv == MQTypeOK /\ Decided /\ CallsTell /\ AckedMeansAccepted /\ NeverLost

SendActions(m) ==
    \/ SendSync(m) \/ SendOneWay(m) \/ PlainResult(m)
    \/ SendMessageInTransaction(m) \/ HalfResult(m)
    \/ BeginLocal(m) \/ ExecuteLocalTransaction(m)

Lifecycle ==
    \/ \E ok \in BOOLEAN : NewProducer(ok) \/ NewConsumer(ok) \/ StartConsumer(ok)
    \/ CloseProducer \/ CloseConsumer \/ Die

-----------------------------------------------------------------------------
(* At first there is nothing anywhere.                                     *)
LEMMA InitMQInv == MQInit => MQInv
<1> SUFFICES ASSUME MQInit PROVE MQInv
  OBVIOUS
<1> USE RocketMQAssumption DEF MQInit
<1>1. MQTypeOK
  BY DEF MQTypeOK, Call, Local, Stored, Delivery
<1>2. Decided /\ CallsTell
  BY DEF Decided, CallsTell
<1>3. AckedMeansAccepted /\ NeverLost
  BY DEF AckedMeansAccepted, NeverLost
<1> QED
  BY <1>1, <1>2, <1>3 DEF MQInv

(* Every step keeps the types.                                             *)
LEMMA SendTypes ==
    ASSUME MQTypeOK, NEW m \in Message, SendActions(m)
    PROVE  MQTypeOK'
<1> USE RocketMQAssumption DEF MQTypeOK, To, Call
<1>1. CASE SendSync(m) \/ SendOneWay(m)
  <2>1. PICK c \in Call : To(m, c)
    BY <1>1 DEF SendSync, SendOneWay, SendCall
  <2> QED
    BY <1>1, <2>1 DEF SendSync, SendOneWay, SendCall, consumeVars
<1>2. CASE PlainResult(m)
  BY <1>2 DEF PlainResult, Enqueue, Returned, LostReply, Stored, Delivery, consumeVars
<1>3. CASE SendMessageInTransaction(m)
  BY <1>3 DEF SendMessageInTransaction, consumeVars
<1>4. CASE HalfResult(m)
  BY <1>4 DEF HalfResult, Stored, consumeVars
<1>5. CASE BeginLocal(m)
  BY <1>5 DEF BeginLocal, Local, consumeVars
<1>6. CASE ExecuteLocalTransaction(m)
  BY <1>6 DEF ExecuteLocalTransaction, Tell, Local, Verdict, consumeVars
<1> QED
  BY <1>1, <1>2, <1>3, <1>4, <1>5, <1>6 DEF SendActions

(* The service and the broker.                                             *)
LEMMA OtherTypes == MQTypeOK /\ (Lifecycle \/ BrokerStep) => MQTypeOK'
<1> SUFFICES ASSUME MQTypeOK, Lifecycle \/ BrokerStep PROVE MQTypeOK'
  OBVIOUS
<1> USE RocketMQAssumption DEF MQTypeOK, messageVars, sendVars, consumeVars
<1>1. ASSUME NEW ok \in BOOLEAN, NewProducer(ok) \/ NewConsumer(ok) \/ StartConsumer(ok)
      PROVE  MQTypeOK'
  BY <1>1 DEF NewProducer, NewConsumer, StartConsumer
<1>2. CASE CloseProducer
  BY <1>2 DEF CloseProducer
<1>3. CASE CloseConsumer
  BY <1>3 DEF CloseConsumer, GiveBack, Delivery
<1>4. CASE Die
  BY <1>4 DEF Die, GiveBack, Delivery, Call, Local
<1>5. ASSUME NEW m \in Message, CheckLocalTransaction(m) PROVE MQTypeOK'
  BY <1>5 DEF CheckLocalTransaction, Tell, Verdict
<1>6. ASSUME NEW m \in Message, GiveUp(m) PROVE MQTypeOK'
  BY <1>6 DEF GiveUp, Stored
<1>7. ASSUME NEW m \in Message, NEW v \in Verdict, EndTransaction(m, v) PROVE MQTypeOK'
  BY <1>7 DEF EndTransaction, Enqueue, Stored, Delivery
<1> QED
  BY <1>1, <1>2, <1>3, <1>4, <1>5, <1>6, <1>7 DEF Lifecycle, BrokerStep

(* Handler and redelivery.                                                 *)
LEMMA DeliveryTypes ==
    ASSUME MQTypeOK,
           \/ \E batch \in SUBSET Message : Deliver(batch)
           \/ \E r \in HandlerResult : Handle(r)
    PROVE  MQTypeOK'
<1> USE RocketMQAssumption DEF MQTypeOK, sendVars, Delivery
<1>1. ASSUME NEW batch \in SUBSET Message, Deliver(batch) PROVE MQTypeOK'
  BY <1>1 DEF Deliver
<1>2. ASSUME NEW r \in HandlerResult, Handle(r) PROVE MQTypeOK'
  <2>1. \A m \in Message : Answered(m, r) = "queued" => attempts[m] < MaxReconsumeTimes
    BY DEF Answered
  <2>2. attempts' \in [Message -> 0..MaxReconsumeTimes]
    BY <1>2, <2>1 DEF Handle
  <2>3. delivery' \in [Message -> Delivery]
    BY <1>2 DEF Handle, Answered
  <2>4. refused' \in [Message -> BOOLEAN]
    BY <1>2 DEF Handle, HandlerResult
  <2> QED
    BY <1>2, <2>2, <2>3, <2>4 DEF Handle
<1> QED
  BY <1>1, <1>2

-----------------------------------------------------------------------------
(* Every step keeps Decided: only ExecuteLocalTransaction commits, and a   *)
(* commit is only told of, or carried out, after it.                       *)
LEMMA SendDecided ==
    ASSUME MQInv, NEW m \in Message, SendActions(m)
    PROVE  Decided'
<1> USE RocketMQAssumption DEF MQInv, Decided, MQTypeOK, To
<1>1. CASE SendSync(m) \/ SendOneWay(m)
  BY <1>1 DEF SendSync, SendOneWay, SendCall
<1>2. CASE PlainResult(m)
  BY <1>2 DEF PlainResult, Enqueue
<1>3. CASE SendMessageInTransaction(m)
  BY <1>3 DEF SendMessageInTransaction
<1>4. CASE HalfResult(m)
  BY <1>4 DEF HalfResult
<1>5. CASE BeginLocal(m)
  BY <1>5 DEF BeginLocal
<1>6. CASE ExecuteLocalTransaction(m)
  <2>0. PICK result \in {"committed", "rolledback"} : \E answer \in Truthful(result) :
            local' = [local EXCEPT ![m] = result] /\ Tell(m, answer)
    BY <1>6 DEF ExecuteLocalTransaction
  <2>1. PICK answer \in Truthful(result) :
            local' = [local EXCEPT ![m] = result] /\ Tell(m, answer)
    BY <2>0
  <2>2. answer = "commit" => result = "committed"
    BY <2>1 DEF Truthful, Verdict
  <2>3. \A x \in Transactional :
            <<x, "commit">> \in told' => <<x, "commit">> \in told \/ (x = m /\ answer = "commit")
    BY <2>1 DEF Tell, adapted
  <2>4. \A x \in Transactional : x # m => local'[x] = local[x] /\ call'[x] = call[x]
    BY <1>6, <2>1 DEF ExecuteLocalTransaction
  <2>5. call[m] = "local" /\ call'[m] = "ok" /\ local'[m] = result /\ stored' = stored
    BY <1>6, <2>1 DEF ExecuteLocalTransaction
  <2> QED
    BY <2>2, <2>3, <2>4, <2>5
<1> QED
  BY <1>1, <1>2, <1>3, <1>4, <1>5, <1>6 DEF SendActions

(* Starts, stops, the broker and the consumer leave decisions alone.       *)
LEMMA OtherDecided ==
    ASSUME MQInv,
           \/ Lifecycle \/ BrokerStep
           \/ \E batch \in SUBSET Message : Deliver(batch)
           \/ \E r \in HandlerResult : Handle(r)
    PROVE  Decided'
<1> USE RocketMQAssumption DEF MQInv, Decided, MQTypeOK, messageVars, sendVars, consumeVars
<1>1. ASSUME NEW ok \in BOOLEAN, NewProducer(ok) \/ NewConsumer(ok) \/ StartConsumer(ok)
      PROVE  Decided'
  BY <1>1 DEF NewProducer, NewConsumer, StartConsumer
<1>2. CASE CloseProducer \/ CloseConsumer
  BY <1>2 DEF CloseProducer, CloseConsumer
<1>3. CASE Die
  BY <1>3 DEF Die, Underway
<1>4. ASSUME NEW m \in Message, CheckLocalTransaction(m) PROVE Decided'
  <2>1. PICK answer \in Truthful(local[m]) : Tell(m, answer)
    BY <1>4 DEF CheckLocalTransaction
  <2>2. answer = "commit" => local[m] = "committed"
    BY <2>1 DEF Truthful
  <2>3. \A x \in Transactional :
            <<x, "commit">> \in told' => <<x, "commit">> \in told \/ (x = m /\ answer = "commit")
    BY <2>1 DEF Tell, adapted
  <2> QED
    BY <1>4, <2>2, <2>3 DEF CheckLocalTransaction
<1>5. ASSUME NEW m \in Message, GiveUp(m) PROVE Decided'
  BY <1>5 DEF GiveUp
<1>6. ASSUME NEW m \in Message, NEW v \in Verdict, EndTransaction(m, v) PROVE Decided'
  BY <1>6 DEF EndTransaction, Enqueue
<1>7. ASSUME NEW batch \in SUBSET Message, Deliver(batch) PROVE Decided'
  BY <1>7 DEF Deliver
<1>8. ASSUME NEW r \in HandlerResult, Handle(r) PROVE Decided'
  BY <1>8 DEF Handle
<1> QED
  BY <1>1, <1>2, <1>3, <1>4, <1>5, <1>6, <1>7, <1>8 DEF Lifecycle, BrokerStep

-----------------------------------------------------------------------------
(* Every step keeps what calls tell, what was settled and what is there.   *)
Remains == CallsTell /\ AckedMeansAccepted /\ NeverLost

(* A send leaves the broker with what its call says.                       *)
LEMMA SendKeeps ==
    ASSUME MQInv, NEW m \in Message, SendActions(m)
    PROVE  Remains'
<1> USE RocketMQAssumption DEF MQInv, Remains, CallsTell, AckedMeansAccepted, NeverLost, MQTypeOK,
                               To, consumeVars
<1>1. CASE SendSync(m) \/ SendOneWay(m)
  BY <1>1 DEF SendSync, SendOneWay, SendCall
<1>2. CASE PlainResult(m)
  BY <1>2 DEF PlainResult, Enqueue, Returned, LostReply
<1>3. CASE SendMessageInTransaction(m)
  BY <1>3 DEF SendMessageInTransaction
<1>4. CASE HalfResult(m)
  BY <1>4 DEF HalfResult
<1>5. CASE BeginLocal(m)
  BY <1>5 DEF BeginLocal
<1>6. CASE ExecuteLocalTransaction(m)
  BY <1>6 DEF ExecuteLocalTransaction
<1> QED
  BY <1>1, <1>2, <1>3, <1>4, <1>5, <1>6 DEF SendActions

(* So do starts, stops, crashes and the broker.                            *)
LEMMA OtherKeeps ==
    ASSUME MQInv, Lifecycle \/ BrokerStep
    PROVE  Remains'
<1> USE RocketMQAssumption DEF MQInv, Remains, CallsTell, AckedMeansAccepted, NeverLost, MQTypeOK,
                               messageVars, sendVars, consumeVars
<1>1. ASSUME NEW ok \in BOOLEAN, NewProducer(ok) \/ NewConsumer(ok) \/ StartConsumer(ok)
      PROVE  Remains'
  BY <1>1 DEF NewProducer, NewConsumer, StartConsumer
<1>2. CASE CloseProducer
  BY <1>2 DEF CloseProducer
<1>3. CASE CloseConsumer
  BY <1>3 DEF CloseConsumer, GiveBack
<1>4. CASE Die
  BY <1>4 DEF Die, GiveBack, Underway
<1>5. ASSUME NEW m \in Message, CheckLocalTransaction(m) PROVE Remains'
  BY <1>5 DEF CheckLocalTransaction
<1>6. ASSUME NEW m \in Message, GiveUp(m) PROVE Remains'
  BY <1>6 DEF GiveUp
<1>7. ASSUME NEW m \in Message, NEW v \in Verdict, EndTransaction(m, v) PROVE Remains'
  BY <1>7 DEF EndTransaction, Enqueue
<1> QED
  BY <1>1, <1>2, <1>3, <1>4, <1>5, <1>6, <1>7 DEF Lifecycle, BrokerStep

(* And so does the consumer.                                               *)
LEMMA DeliveryKeeps ==
    ASSUME MQInv,
           \/ \E batch \in SUBSET Message : Deliver(batch)
           \/ \E r \in HandlerResult : Handle(r)
    PROVE  Remains'
<1> USE DEF MQInv, Remains, CallsTell, AckedMeansAccepted, NeverLost, MQTypeOK, sendVars
<1>1. ASSUME NEW batch \in SUBSET Message, Deliver(batch) PROVE Remains'
  BY <1>1 DEF Deliver
<1>2. ASSUME NEW r \in HandlerResult, Handle(r) PROVE Remains'
  <2>1. \A m \in Message : Answered(m, r) = "acked" => ~(r.err \/ r.result = "retry")
    BY DEF Answered, ConsumeResult
  <2>2. \A m \in Message : Answered(m, r) # "none"
    BY DEF Answered
  <2> QED
    BY <1>2, <2>1, <2>2 DEF Handle, InHand
<1> QED
  BY <1>1, <1>2

-----------------------------------------------------------------------------
(* MQInv is an inductive invariant of the message queue.                   *)
THEOREM MQInvariance == MQSpec => []MQInv
<1>1. MQInv /\ [MQNext]_mqVars => MQInv'
  <2> SUFFICES ASSUME MQInv, [MQNext]_mqVars PROVE MQInv'
    OBVIOUS
  <2>1. ASSUME NEW m \in Message, SendActions(m) PROVE MQInv'
    BY <2>1, SendTypes, SendDecided, SendKeeps DEF MQInv, Remains
  <2>2. CASE Lifecycle \/ BrokerStep
    BY <2>2, OtherTypes, OtherDecided, OtherKeeps DEF MQInv, Remains
  <2>3. CASE \/ \E batch \in SUBSET Message : Deliver(batch)
             \/ \E r \in HandlerResult : Handle(r)
    BY <2>3, DeliveryTypes, OtherDecided, DeliveryKeeps DEF MQInv, Remains
  <2>4. CASE UNCHANGED mqVars
    BY <2>4 DEF mqVars, messageVars, sendVars, consumeVars, MQInv, MQTypeOK, Decided,
                CallsTell, AckedMeansAccepted, NeverLost
  <2> QED
    BY <2>1, <2>2, <2>3, <2>4 DEF MQNext, MessageStep, SendActions, Lifecycle
<1> QED
  BY <1>1, InitMQInv, PTL DEF MQSpec

(* Within the application the queue does nothing but its own steps.        *)
THEOREM ApplicationRunsQueue == Spec => MQSpec
<1>1. Init => MQInit
  BY DEF Init
<1>2. [Next]_vars => [MQNext]_mqVars
  <2> SUFFICES ASSUME [Next]_vars PROVE [MQNext]_mqVars
    OBVIOUS
  <2>1. ASSUME NEW ok \in BOOLEAN, ProvideProducer(ok) \/ ProvideConsumer(ok) \/ NewServer(ok)
        PROVE  [MQNext]_mqVars
    BY <2>1 DEF ProvideProducer, ProvideConsumer, NewServer, MQNext
  <2>2. CASE NewHTTPServer \/ Constructed \/ StartCut \/ Started \/ StopEnds \/ Expire \/ StopSignal
    BY <2>2 DEF NewHTTPServer, Constructed, StartCut, Started, StopEnds, Expire, StopSignal
  <2>3. CASE StartQueue \/ StopQueue
    BY <2>3 DEF StartQueue, StopQueue, MQNext
  <2>4. CASE NewProcess
    BY <2>4 DEF NewProcess, MQNext
  <2>5. ASSUME NEW ok \in BOOLEAN, StartByHand(ok) PROVE [MQNext]_mqVars
    BY <2>5 DEF StartByHand, MQNext
  <2>6. CASE GrpcRuns \/ GrpcSelects \/ GrpcRequest
    BY <2>6 DEF GrpcRuns, GrpcSelects, GrpcRequest, GrpcOnStart, GrpcServe, ServeReturnsError,
                GrpcOnStop, GracefulStop, GrpcStartReturns, GrpcStartCancelled, GrpcStopCut,
                GrpcStopReturns, grpcRest
  <2>7. ASSUME NEW next \in {"accept", "failing", "exited"}, AcceptFails(next)
        PROVE  [MQNext]_mqVars
    BY <2>7 DEF AcceptFails, grpcRest
  <2>8. ASSUME NEW checked \in BOOLEAN, HttpOnStart(checked) PROVE [MQNext]_mqVars
    BY <2>8 DEF HttpOnStart
  <2>9. CASE HttpServe \/ HttpFails \/ HttpRequest \/ HttpRequestEnds \/ HttpOnStop \/ HttpSelects
    BY <2>9 DEF HttpServe, HttpFails, HttpRequest, HttpRequestEnds, HttpOnStop, HttpSelects,
                waitForServerStartup, HttpStartCancelled, HttpStopReturns, httpRest
  <2>10. CASE MessageStep
    BY <2>10 DEF MQNext
  <2>11. CASE UNCHANGED vars
    BY <2>11 DEF vars
  <2> QED
    BY <2>1, <2>2, <2>3, <2>4, <2>5, <2>6, <2>7, <2>8, <2>9, <2>10, <2>11 DEF Next, Fx
<1> QED
  BY <1>1, <1>2, PTL DEF Spec, Safety, MQSpec

(* A transaction message is only consumed when its local transaction has   *)
(* committed, in every application (transaction.go:139-161).               *)
THEOREM CommittedIsVisible == Spec => []VisibleOnlyIfCommitted
<1>1. MQInv => VisibleOnlyIfCommitted
  BY DEF MQInv, Decided, VisibleOnlyIfCommitted
<1> QED
  BY <1>1, MQInvariance, ApplicationRunsQueue, PTL

(* A send that answered without an error has reached the broker; a message *)
(* the handler refused is not settled; and none that is visible is missing *)
(* on the consumer's side (adapter.go:88-142, 240-267).                    *)
THEOREM MessagesAreKept == Spec => [](OkMeansStored /\ AckedMeansAccepted /\ NeverLost)
<1>1. MQInv => OkMeansStored /\ AckedMeansAccepted /\ NeverLost
  BY DEF MQInv, CallsTell, OkMeansStored
<1> QED
  BY <1>1, MQInvariance, ApplicationRunsQueue, PTL
-----------------------------------------------------------------------------
(* The state of fx and of the two servers.                                 *)
ServerTypes ==
    /\ parts \in Deployments /\ optional \in BOOLEAN
    /\ config \in {"missing", "unsupported", "usable"}
    /\ runs \in 1..MaxRuns
    /\ phase \in {"construct", "start", "run", "stop", "over"}
    /\ cursor \in 0..Len(parts) /\ numStarted \in 0..Len(hooks)
    /\ expired \in BOOLEAN
    /\ hooks \in Seq(Part)

GrpcTypes ==
    grpc \in [hook : Hook, serve : {"off", "launched", "accept", "failing", "exited"},
              accepting : BOOLEAN, acceptErr : BOOLEAN, serveErr : BOOLEAN,
              stop : {"no", "graceful", "forced"},
              drain : {"off", "launched", "draining", "done"}, requests : 0..MaxRequests]
HttpTypes ==
    http \in [hook : Hook, serve : {"off", "launched", "ready", "serving", "exited"},
              ready : BOOLEAN, serveErr : BOOLEAN,
              shutdown : {"no", "reached", "missed"}, requests : 0..MaxRequests]

(* A hook that is under way is the next one fx starts, or the last one it  *)
(* started; a service runs once all of them are started.                   *)
Underfoot ==
    /\ grpc.hook \in {"starting", "cancelling"} =>
            phase = "start" /\ numStarted < Len(hooks) /\ hooks[numStarted + 1] = "grpc"
    /\ grpc.hook \in {"stopping", "cutting"} =>
            phase = "stop" /\ numStarted > 0 /\ hooks[numStarted] = "grpc"
    /\ http.hook \in {"starting", "cancelling"} =>
            phase = "start" /\ numStarted < Len(hooks) /\ hooks[numStarted + 1] = "http"
    /\ http.hook = "stopping" =>
            phase = "stop" /\ numStarted > 0 /\ hooks[numStarted] = "http"
    /\ http.hook # "cutting"
    /\ phase = "run" => numStarted = Len(hooks)

(* The queue's parts have one hook each, appended with them: OnStop of the *)
(* producer is past, and OnStop of a started consumer to come, wherever    *)
(* fx is.                                                                  *)
QueueHooks ==
    /\ \A i \in DOMAIN hooks : hooks[i] = "producer" =>
            producer # "none" /\ (producer = "shutdown" => numStarted < i)
    /\ \A j \in DOMAIN hooks : hooks[j] = "consumer" =>
            consumer # "none" /\ (consumer = "started" => j <= numStarted)
    /\ \A i, j \in DOMAIN hooks :
            hooks[i] = hooks[j] /\ hooks[i] \in {"producer", "consumer"} => i = j
    /\ producer = "shutdown" => phase \in {"stop", "over"}
    /\ consumer = "started" => phase # "construct"

(* GracefulStop runs in no other phase than the one that stops, and only   *)
(* ends when nothing is left.                                              *)
Clean ==
    /\ grpc.drain # "off" => phase \in {"stop", "over"}
    /\ grpc.drain = "done" => grpc.serve = "exited" /\ grpc.requests = 0
    /\ grpc.hook \in {"stopped", "cut"} => grpc.drain = "done"
    /\ http.hook = "stopped" /\ Closing => http.requests = 0

AppInv == ServerTypes /\ GrpcTypes /\ HttpTypes /\ Underfoot /\ QueueHooks /\ Clean

-----------------------------------------------------------------------------
(* A deployment has finitely many parts.                                   *)
LEMMA PartsFinite == ASSUME parts \in Deployments PROVE Len(parts) \in Nat
BY ApplicationAssumption

(* At first nothing is constructed.                                        *)
LEMMA InitAppInv == Init => AppInv
<1> SUFFICES ASSUME Init PROVE AppInv
  OBVIOUS
<1> USE RocketMQAssumption, ApplicationAssumption DEF Init, MQInit
<1>1. ServerTypes
  <2>1. Len(parts) \in Nat /\ parts \in Deployments
    BY PartsFinite
  <2>2. hooks \in Seq(Part) /\ Len(hooks) = 0
    OBVIOUS
  <2>3. runs \in 1..MaxRuns
    OBVIOUS
  <2>4. cursor \in 0..Len(parts) /\ numStarted \in 0..Len(hooks)
    BY <2>1, <2>2
  <2> QED
    BY <2>1, <2>2, <2>3, <2>4 DEF ServerTypes
<1>2. GrpcTypes /\ HttpTypes
  BY DEF GrpcTypes, HttpTypes, GrpcOff, HttpOff, Hook
<1>3. Underfoot /\ QueueHooks /\ Clean
  BY DEF Underfoot, QueueHooks, Clean, GrpcOff, HttpOff
<1> QED
  BY <1>1, <1>2, <1>3 DEF AppInv

(* What fx's own bookkeeping does to the types and to the queue's hooks.   *)
LEMMA QueueStarts ==
    ASSUME AppInv, HookStarted, phase = "start", numStarted < Len(hooks),
           UNCHANGED producer,
           \/ UNCHANGED consumer
           \/ hooks[numStarted + 1] = "consumer" /\ consumer = "created" /\ consumer' = "started"
    PROVE  ServerTypes' /\ QueueHooks'
<1> USE DEF AppInv, HookStarted, fxRest, setup
<1>1. ServerTypes'
  BY DEF ServerTypes
<1>2. \A j \in DOMAIN hooks : hooks[j] = "consumer" /\ consumer' = "started" /\ consumer # "started"
            => j = numStarted + 1
  BY DEF QueueHooks, ServerTypes
<1>3. QueueHooks'
  BY <1>2 DEF QueueHooks, ServerTypes
<1> QED
  BY <1>1, <1>3

(* A hook whose OnStart failed.                                            *)
LEMMA QueueFails ==
    ASSUME AppInv, HookFailed, phase # "construct", UNCHANGED <<producer, consumer>>
    PROVE  ServerTypes' /\ QueueHooks'
BY DEF AppInv, HookFailed, fxRest, setup, ServerTypes, QueueHooks

(* OnStop, from the last started hook backwards.                           *)
LEMMA QueueStops ==
    ASSUME AppInv, HookStopped, phase = "stop", numStarted > 0,
           UNCHANGED producer \/ (hooks[numStarted] = "producer" /\ producer' = "shutdown"),
           \/ UNCHANGED consumer /\ hooks[numStarted] # "consumer"
           \/ consumer' = "shutdown"
    PROVE  ServerTypes' /\ QueueHooks'
<1> USE DEF AppInv, HookStopped, fxRest, setup
<1>1. ServerTypes'
  BY DEF ServerTypes
<1>2. numStarted \in DOMAIN hooks
  BY DEF ServerTypes
<1>3. \A j \in DOMAIN hooks : hooks[j] = "consumer" => j # numStarted \/ consumer' = "shutdown"
  BY <1>2 DEF QueueHooks
<1>4. \A i \in DOMAIN hooks : hooks[i] = "producer" /\ producer' = "shutdown" => numStarted' < i
  BY <1>2 DEF QueueHooks, ServerTypes
<1>5. QueueHooks'
  BY <1>3, <1>4 DEF QueueHooks, ServerTypes
<1> QED
  BY <1>1, <1>5

(* A constructor appends its hook.                                         *)
LEMMA QueueGrows ==
    ASSUME AppInv, phase = "construct", cursor < Len(parts), NEW part \in Part, Hooked(part),
           \/ part = "producer" /\ producer = "none" /\ producer' = "started" /\ UNCHANGED consumer
           \/ part = "consumer" /\ consumer = "none" /\ consumer' = "created" /\ UNCHANGED producer
           \/ part \in {"grpc", "http"} /\ UNCHANGED <<producer, consumer>>
    PROVE  ServerTypes' /\ QueueHooks' /\ Len(hooks') = Len(hooks) + 1
<1> USE DEF AppInv, Hooked, setup
<1>1. hooks \in Seq(Part) /\ hooks' = Append(hooks, part)
  BY DEF ServerTypes
<1>2. /\ hooks' \in Seq(Part) /\ Len(hooks') = Len(hooks) + 1
      /\ \A i \in 1..Len(hooks) : hooks'[i] = hooks[i]
      /\ hooks'[Len(hooks) + 1] = part
  BY <1>1
<1>3. DOMAIN hooks = 1..Len(hooks) /\ DOMAIN hooks' = 1..(Len(hooks) + 1) /\ Len(hooks) \in Nat
  BY <1>1, <1>2
<1>4. ServerTypes'
  BY <1>2, <1>3 DEF ServerTypes, Part
<1>5. \A i \in DOMAIN hooks : hooks[i] = part => part \notin {"producer", "consumer"}
  BY DEF QueueHooks
<1>6. QueueHooks'
  BY <1>2, <1>3, <1>5 DEF QueueHooks, ServerTypes
<1> QED
  BY <1>2, <1>4, <1>6

(* Messages move without moving producer and consumer.                     *)
LEMMA MessagesApart == MessageStep => UNCHANGED <<producer, consumer>>
BY DEF MessageStep, BrokerStep, SendSync, SendOneWay, SendCall, PlainResult,
       SendMessageInTransaction, HalfResult, BeginLocal, ExecuteLocalTransaction,
       CheckLocalTransaction, GiveUp, EndTransaction, Deliver, Handle

(* Constructors.                                                           *)
LEMMA ConstructKeeps ==
    ASSUME AppInv,
           \/ \E ok \in BOOLEAN : ProvideProducer(ok) \/ ProvideConsumer(ok) \/ NewServer(ok)
           \/ NewHTTPServer \/ Constructed
    PROVE  AppInv'
<1>1. ASSUME phase = "construct", UNCHANGED <<grpc, http>>,
             ServerTypes', QueueHooks', phase' \in {"construct", "start", "over"}
      PROVE  AppInv'
  <2>1. GrpcTypes' /\ HttpTypes'
    BY <1>1 DEF AppInv, GrpcTypes, HttpTypes
  <2>2. Underfoot'
    BY <1>1 DEF AppInv, Underfoot
  <2>3. Clean'
    BY <1>1 DEF AppInv, Clean, Closing
  <2> QED
    BY <1>1, <2>1, <2>2, <2>3 DEF AppInv
<1>2. ASSUME phase = "construct", UNCHANGED <<producer, consumer>>, NotProvided, cursor < Len(parts)
      PROVE  ServerTypes' /\ QueueHooks' /\ phase' \in {"construct", "start", "over"}
  <2>1. ServerTypes'
    BY <1>2 DEF NotProvided, AppInv, ServerTypes, setup
  <2>2. QueueHooks'
    BY <1>2 DEF NotProvided, AppInv, QueueHooks
  <2> QED
    BY <1>2, <2>1, <2>2 DEF NotProvided
<1>3. ASSUME NEW ok \in BOOLEAN, ProvideProducer(ok) PROVE AppInv'
  <2>1. phase = "construct" /\ cursor < Len(parts) /\ producer = "none" /\ UNCHANGED <<grpc, http>>
    BY <1>3 DEF ProvideProducer, Next1, NewProducer
  <2>2. CASE ok
    <3>1. Hooked("producer") /\ producer' = "started" /\ UNCHANGED consumer
      BY <1>3, <2>2 DEF ProvideProducer, NewProducer
    <3> QED
      BY <1>1, <2>1, <3>1, QueueGrows DEF Part, Hooked
  <2>3. CASE ~ok
    BY <1>1, <1>2, <1>3, <2>1, <2>3 DEF ProvideProducer, NewProducer
  <2> QED
    BY <2>2, <2>3
<1>4. ASSUME NEW ok \in BOOLEAN, ProvideConsumer(ok) PROVE AppInv'
  <2>1. phase = "construct" /\ cursor < Len(parts) /\ consumer = "none" /\ UNCHANGED <<grpc, http>>
    BY <1>4 DEF ProvideConsumer, Next1, NewConsumer
  <2>2. CASE ok
    <3>1. Hooked("consumer") /\ consumer' = "created" /\ UNCHANGED producer
      BY <1>4, <2>2 DEF ProvideConsumer, NewConsumer
    <3> QED
      BY <1>1, <2>1, <3>1, QueueGrows DEF Part, Hooked
  <2>3. CASE ~ok
    BY <1>1, <1>2, <1>4, <2>1, <2>3 DEF ProvideConsumer, NewConsumer
  <2> QED
    BY <2>2, <2>3
<1>5. ASSUME NEW ok \in BOOLEAN, NewServer(ok) PROVE AppInv'
  <2>1. /\ phase = "construct" /\ cursor < Len(parts)
        /\ UNCHANGED <<grpc, http, producer, consumer>>
    BY <1>5 DEF NewServer, Next1, mqVars
  <2>2. CASE ok
    <3>1. Hooked("grpc")
      BY <1>5, <2>2 DEF NewServer
    <3> QED
      BY <1>1, <2>1, <3>1, QueueGrows DEF Part, Hooked
  <2>3. CASE ~ok
    <3>1. phase' = "over" /\ UNCHANGED <<setup, runs, cursor, hooks, numStarted, expired>>
      BY <1>5, <2>3 DEF NewServer
    <3>2. ServerTypes' /\ QueueHooks'
      BY <2>1, <3>1 DEF AppInv, ServerTypes, QueueHooks, setup
    <3> QED
      BY <1>1, <2>1, <3>1, <3>2
  <2> QED
    BY <2>2, <2>3
<1>6. CASE NewHTTPServer
  BY <1>1, <1>6, QueueGrows DEF NewHTTPServer, Next1, mqVars, Part, Hooked
<1>7. CASE Constructed
  <2>1. ServerTypes' /\ QueueHooks'
    BY <1>7 DEF Constructed, AppInv, ServerTypes, QueueHooks, setup, mqVars
  <2> QED
    BY <1>1, <1>7, <2>1 DEF Constructed
<1> QED
  BY <1>3, <1>4, <1>5, <1>6, <1>7

(* Steps of fx alone between hooks.                                        *)
LEMMA PhaseKeeps ==
    ASSUME AppInv, StartCut \/ Started \/ StopSignal \/ StopEnds \/ Expire
    PROVE  AppInv'
<1> USE DEF StartCut, Started, StopSignal, StopEnds, Expire, HookFailed, fxRest, setup, mqVars
<1>1. ServerTypes'
  BY DEF AppInv, ServerTypes
<1>2. GrpcTypes' /\ HttpTypes'
  BY DEF AppInv, GrpcTypes, HttpTypes
<1>3. Underfoot'
  BY DEF AppInv, Underfoot, Idle, Pending
<1>4. QueueHooks'
  BY DEF AppInv, QueueHooks
<1>5. Clean'
  BY DEF AppInv, Clean, Closing
<1> QED
  BY <1>1, <1>2, <1>3, <1>4, <1>5 DEF AppInv

(* The message queue's hooks, and messages.                                *)
LEMMA QueueKeeps ==
    ASSUME AppInv,
           \/ StartQueue \/ StopQueue \/ NewProcess
           \/ \E ok \in BOOLEAN : StartByHand(ok)
           \/ MessageStep /\ UNCHANGED <<fxVars, grpc, http>>
    PROVE  AppInv'
<1>1. ASSUME UNCHANGED <<grpc, http>>, grpc.hook \notin Pending, http.hook \notin Pending,
             ServerTypes', QueueHooks', phase' = phase \/ phase' = "stop",
             phase' = "run" => numStarted' = Len(hooks')
      PROVE  AppInv'
  <2>1. GrpcTypes' /\ HttpTypes'
    BY <1>1 DEF AppInv, GrpcTypes, HttpTypes
  <2>2. Underfoot'
    BY <1>1 DEF AppInv, Underfoot, Pending
  <2>3. Clean'
    BY <1>1 DEF AppInv, Clean, Closing
  <2> QED
    BY <1>1, <2>1, <2>2, <2>3 DEF AppInv
<1>2. CASE StartQueue
  <2>1. UNCHANGED <<grpc, http, producer>> /\ Idle /\ phase = "start" /\ numStarted < Len(hooks)
    BY <1>2 DEF StartQueue, Starts, mqVars, StartConsumer
  <2>2. CASE HookStarted /\ UNCHANGED consumer
    BY <1>1, <2>1, <2>2, QueueStarts DEF Idle, HookStarted
  <2>3. CASE HookFailed /\ UNCHANGED consumer
    BY <1>1, <2>1, <2>3, QueueFails DEF Idle, HookFailed
  <2>4. CASE /\ HookStarted /\ hooks[numStarted + 1] = "consumer"
             /\ consumer = "created" /\ consumer' = "started"
    BY <1>1, <2>1, <2>4, QueueStarts DEF Idle, HookStarted
  <2> QED
    BY <1>2, <2>2, <2>3, <2>4 DEF StartQueue, Starts, StartConsumer, mqVars
<1>3. CASE StopQueue
  <2>1. UNCHANGED <<grpc, http>> /\ Idle /\ phase = "stop" /\ numStarted > 0 /\ HookStopped
    BY <1>3 DEF StopQueue, Stops
  <2>2. /\ UNCHANGED producer \/ (hooks[numStarted] = "producer" /\ producer' = "shutdown")
        /\ (UNCHANGED consumer /\ hooks[numStarted] # "consumer") \/ consumer' = "shutdown"
    BY <1>3 DEF StopQueue, Stops, CloseConsumer, CloseProducer
  <2> QED
    BY <1>1, <2>1, <2>2, QueueStops DEF Idle, HookStopped
<1>4. CASE NewProcess
  <2> USE <1>4 DEF NewProcess, Die, setup
  <2>1. ServerTypes'
    <3>1. hooks' \in Seq(Part) /\ Len(hooks') = 0
      OBVIOUS
    <3>2. cursor' \in 0..Len(parts') /\ numStarted' \in 0..Len(hooks')
      BY <3>1, PartsFinite DEF AppInv, ServerTypes
    <3>3. runs' \in 1..MaxRuns
      BY ApplicationAssumption DEF AppInv, ServerTypes
    <3> QED
      BY <3>1, <3>2, <3>3 DEF AppInv, ServerTypes
  <2>2. GrpcTypes' /\ HttpTypes'
    BY ApplicationAssumption DEF GrpcTypes, HttpTypes, GrpcOff, HttpOff, Hook
  <2>3. Underfoot' /\ QueueHooks' /\ Clean'
    BY DEF Underfoot, QueueHooks, Clean, GrpcOff, HttpOff
  <2> QED
    BY <2>1, <2>2, <2>3 DEF AppInv
<1>5. ASSUME NEW ok \in BOOLEAN, StartByHand(ok) PROVE AppInv'
  <2> USE <1>5 DEF StartByHand, fxVars, setup
  <2>1. ServerTypes' /\ GrpcTypes' /\ HttpTypes'
    BY DEF AppInv, ServerTypes, GrpcTypes, HttpTypes
  <2>2. QueueHooks'
    BY DEF AppInv, QueueHooks, StartConsumer, Underfoot, ServerTypes
  <2>3. Underfoot' /\ Clean'
    BY DEF AppInv, Underfoot, Clean, Closing
  <2> QED
    BY <2>1, <2>2, <2>3 DEF AppInv
<1>6. CASE UNCHANGED <<fxVars, grpc, http, producer, consumer>>
  BY <1>6 DEF AppInv, ServerTypes, GrpcTypes, HttpTypes, Underfoot, QueueHooks, Clean, Closing,
              fxVars, setup
<1> QED
  BY <1>2, <1>3, <1>4, <1>5, <1>6, MessagesApart

(* The gRPC server, its serving goroutine and its requests.                *)
LEMMA GrpcMoves ==
    ASSUME AppInv,
           \/ GrpcOnStart \/ GrpcServe \/ ServeReturnsError \/ GrpcOnStop \/ GracefulStop
           \/ GrpcRequest \/ GrpcStartCancelled \/ GrpcStopCut
           \/ \E next \in {"accept", "failing", "exited"} : AcceptFails(next)
    PROVE  AppInv'
<1>1. UNCHANGED <<fxVars, http, mqVars>>
  BY DEF GrpcOnStart, GrpcServe, ServeReturnsError, GrpcOnStop, GracefulStop,
         GrpcRequest, GrpcStartCancelled, GrpcStopCut, AcceptFails, grpcRest
<1>2. ServerTypes' /\ HttpTypes' /\ QueueHooks'
  BY <1>1 DEF AppInv, ServerTypes, HttpTypes, QueueHooks, fxVars, setup, mqVars
<1>3. GrpcTypes' /\ Clean'
  <2> USE <1>1, ApplicationAssumption DEF AppInv, GrpcTypes, Clean, Closing, fxVars, Hook, Pending
  <2>1. CASE GrpcOnStart \/ GrpcOnStop
    BY <2>1 DEF GrpcOnStart, GrpcOnStop, Starts, Stops
  <2>2. CASE GrpcServe
    BY <2>2 DEF GrpcServe
  <2>3. CASE ServeReturnsError
    BY <2>3 DEF ServeReturnsError
  <2>4. CASE GracefulStop
    BY <2>4 DEF GracefulStop
  <2>5. CASE GrpcRequest
    <3>1. /\ grpc.serve = "accept" \/ grpc.requests > 0
          /\ \E n \in 0..MaxRequests : grpc' = [grpc EXCEPT !.requests = n]
      BY <2>5 DEF GrpcRequest
    <3> QED
      BY <3>1
  <2>6. CASE GrpcStartCancelled \/ GrpcStopCut
    <3>1. \E k \in {"cancelling", "cutting"} : grpc' = [grpc EXCEPT !.stop = "forced", !.hook = k]
      BY <2>6 DEF GrpcStartCancelled, GrpcStopCut, Forced
    <3> QED
      BY <3>1
  <2>7. ASSUME NEW next \in {"accept", "failing", "exited"}, AcceptFails(next)
        PROVE  GrpcTypes' /\ Clean'
    BY <2>7 DEF AcceptFails
  <2> QED
    BY <2>1, <2>2, <2>3, <2>4, <2>5, <2>6, <2>7
<1>4. Underfoot'
  BY <1>1 DEF GrpcOnStart, GrpcServe, ServeReturnsError, GrpcOnStop, GracefulStop,
              GrpcRequest, GrpcStartCancelled, GrpcStopCut, AcceptFails, Forced,
              AppInv, Underfoot, GrpcTypes, Starts, Stops, fxVars
<1> QED
  BY <1>2, <1>3, <1>4 DEF AppInv

(* Its OnStart and OnStop return to fx.                                    *)
LEMMA GrpcReturns ==
    ASSUME AppInv, GrpcStartReturns \/ GrpcStopReturns
    PROVE  AppInv'
<1> USE DEF GrpcStartReturns, GrpcStopReturns, InnerSelect, Drained
<1>1. UNCHANGED <<http, producer, consumer>>
  BY DEF mqVars
<1>2. GrpcTypes' /\ HttpTypes'
  BY <1>1 DEF AppInv, GrpcTypes, HttpTypes, Hook, Pending
<1>3. /\ grpc.hook \in Pending /\ http.hook \notin Pending
      /\ grpc'.hook \notin Pending /\ http'.hook \notin Pending
  BY <1>1 DEF AppInv, Underfoot, GrpcTypes, HttpTypes, Pending, ServerTypes
<1>4. CASE GrpcStartReturns
  <2>1. phase = "start" /\ numStarted < Len(hooks)
    BY <1>4 DEF AppInv, Underfoot
  <2>2. ServerTypes' /\ QueueHooks'
    BY <1>1, <1>4, <2>1, QueueStarts, QueueFails
  <2>3. Underfoot'
    BY <1>3, <1>4, <2>1 DEF Underfoot, HookStarted, HookFailed, Pending
  <2>4. Clean'
    BY <1>1, <1>4, <2>1 DEF AppInv, Clean, GrpcTypes, Closing, HookStarted, HookFailed
  <2> QED
    BY <1>2, <2>2, <2>3, <2>4 DEF AppInv
<1>5. CASE GrpcStopReturns
  <2>1. phase = "stop" /\ numStarted > 0 /\ hooks[numStarted] = "grpc" /\ HookStopped
    BY <1>5 DEF AppInv, Underfoot
  <2>2. ServerTypes' /\ QueueHooks'
    BY <1>1, <2>1, QueueStops
  <2>3. Underfoot'
    BY <1>3, <2>1 DEF Underfoot, HookStopped, Pending
  <2>4. Clean'
    BY <1>1, <1>5, <2>1 DEF AppInv, Clean, GrpcTypes, Closing, HookStopped
  <2> QED
    BY <1>2, <2>2, <2>3, <2>4 DEF AppInv
<1> QED
  BY <1>4, <1>5

(* The HTTP server likewise.                                               *)
LEMMA HttpMoves ==
    ASSUME AppInv,
           \/ HttpOnStart(TRUE) \/ HttpServe \/ HttpFails \/ HttpRequest \/ HttpRequestEnds
           \/ HttpOnStop \/ HttpStartCancelled
    PROVE  AppInv'
<1>1. UNCHANGED <<fxVars, grpc, mqVars>>
  BY DEF HttpOnStart, HttpServe, HttpFails, HttpRequest, HttpRequestEnds, HttpOnStop,
         HttpStartCancelled, httpRest
<1>2. ServerTypes' /\ GrpcTypes' /\ QueueHooks'
  BY <1>1 DEF AppInv, ServerTypes, GrpcTypes, QueueHooks, fxVars, setup, mqVars
<1>3. HttpTypes' /\ Clean'
  <2> USE <1>1, ApplicationAssumption DEF AppInv, HttpTypes, Clean, Closing, fxVars, Hook, Pending
  <2>1. CASE HttpOnStart(TRUE)
    BY <2>1 DEF HttpOnStart
  <2>2. CASE HttpServe \/ HttpFails
    BY <2>2 DEF HttpServe, HttpFails
  <2>3. CASE HttpRequest \/ HttpRequestEnds
    <3>1. \E n \in 0..MaxRequests :
              http' = [http EXCEPT !.requests = n] /\ (Closing => n < http.requests)
      BY <2>3 DEF HttpRequest, HttpRequestEnds
    <3> QED
      BY <3>1
  <2>4. CASE HttpOnStop \/ HttpStartCancelled
    <3>1. \E s \in {"no", "reached", "missed"}, k \in {"stopping", "cancelling"} :
              http' = [http EXCEPT !.shutdown = s, !.hook = k]
      BY <2>4 DEF HttpOnStop, HttpStartCancelled, Shutdown
    <3> QED
      BY <3>1
  <2> QED
    BY <2>1, <2>2, <2>3, <2>4
<1>4. Underfoot'
  BY <1>1 DEF HttpOnStart, HttpServe, HttpFails, HttpRequest, HttpRequestEnds, HttpOnStop,
              HttpStartCancelled, Shutdown, AppInv, Underfoot, HttpTypes, Starts, Stops, fxVars
<1> QED
  BY <1>2, <1>3, <1>4 DEF AppInv

(* OnStart and OnStop of the HTTP server return.                           *)
LEMMA HttpReturns ==
    ASSUME AppInv, HttpOnStart(FALSE) \/ waitForServerStartup \/ HttpStopReturns
    PROVE  AppInv'
<1> USE DEF HttpOnStart, waitForServerStartup, HttpStopReturns, Closed
<1>1. UNCHANGED <<grpc, producer, consumer>>
  BY DEF mqVars
<1>2. GrpcTypes' /\ HttpTypes'
  BY <1>1 DEF AppInv, GrpcTypes, HttpTypes, Hook, Pending
<1>3. grpc'.hook \notin Pending /\ http'.hook \notin Pending
  BY <1>1 DEF AppInv, Underfoot, GrpcTypes, HttpTypes, Pending, ServerTypes, Starts, Idle
<1>4. CASE HttpOnStart(FALSE) \/ waitForServerStartup
  <2>1. phase = "start" /\ numStarted < Len(hooks)
    BY <1>4 DEF AppInv, Underfoot, Starts
  <2>2. HookStarted \/ HookFailed
    BY <1>4
  <2>3. ServerTypes' /\ QueueHooks'
    BY <1>1, <2>1, <2>2, QueueStarts, QueueFails
  <2>4. Underfoot'
    BY <1>3, <2>1, <2>2 DEF Underfoot, HookStarted, HookFailed, Pending
  <2>5. Clean'
    BY <1>1, <1>4, <2>1, <2>2 DEF AppInv, Clean, HttpTypes, Closing, HookStarted, HookFailed
  <2> QED
    BY <1>2, <2>3, <2>4, <2>5 DEF AppInv
<1>5. CASE HttpStopReturns
  <2>1. phase = "stop" /\ numStarted > 0 /\ hooks[numStarted] = "http" /\ HookStopped
    BY <1>5 DEF AppInv, Underfoot
  <2>2. ServerTypes' /\ QueueHooks'
    BY <1>1, <2>1, QueueStops
  <2>3. Underfoot'
    BY <1>3, <2>1 DEF Underfoot, HookStopped, Pending
  <2>4. Clean'
    BY <1>1, <1>5, <2>1 DEF AppInv, Clean, HttpTypes, Closing, HookStopped
  <2> QED
    BY <1>2, <2>2, <2>3, <2>4 DEF AppInv
<1> QED
  BY <1>4, <1>5

-----------------------------------------------------------------------------
(* AppInv is an inductive invariant of the application.                    *)
THEOREM AppInvariance == Spec => []AppInv
<1>1. AppInv /\ [Next]_vars => AppInv'
  <2> SUFFICES ASSUME AppInv, [Next]_vars PROVE AppInv'
    OBVIOUS
  <2>1. CASE UNCHANGED vars
    BY <2>1 DEF vars, fxVars, setup, mqVars, AppInv, ServerTypes, GrpcTypes, HttpTypes, Underfoot,
                QueueHooks, Clean, Closing
  <2>2. CASE Fx \/ StopSignal
    BY <2>2, ConstructKeeps, PhaseKeeps, QueueKeeps DEF Fx
  <2>3. CASE \/ GrpcRuns \/ GrpcSelects \/ GrpcRequest
             \/ \E next \in {"accept", "failing", "exited"} : AcceptFails(next)
    BY <2>3, GrpcMoves, GrpcReturns DEF GrpcRuns, GrpcSelects
  <2>4. CASE \/ \E checked \in BOOLEAN : HttpOnStart(checked)
             \/ HttpServe \/ HttpFails \/ HttpRequest \/ HttpRequestEnds \/ HttpOnStop
             \/ HttpSelects
    BY <2>4, HttpMoves, HttpReturns DEF HttpSelects
  <2>5. CASE \/ NewProcess \/ \E ok \in BOOLEAN : StartByHand(ok)
             \/ MessageStep /\ UNCHANGED <<fxVars, grpc, http>>
    BY <2>5, QueueKeeps
  <2> QED
    BY <2>1, <2>2, <2>3, <2>4, <2>5 DEF Next
<1> QED
  BY <1>1, InitAppInv, PTL DEF Spec, Safety

(* When OnStop has returned the servers are stopped: see StopIsClean       *)
(* (grpc/server.go:266-285, http/server.go:257).                           *)
THEOREM ServersStopClean == Spec => []StopIsClean
<1>1. AppInv => StopIsClean
  BY DEF AppInv, Clean, StopIsClean
<1> QED
  BY <1>1, AppInvariance, PTL

(* A consumer's hook comes after its producer's, so fx stops it first, and *)
(* the rest of Inv holds with it (mq/fx.go:41-101, rocketmq/fx.go:81-198). *)
THEOREM ConsumerFirst == Spec => []Inv
<1>1. MQTypeOK /\ AppInv => ConsumerHasProducer
  <2> SUFFICES ASSUME MQTypeOK, AppInv, NEW i \in DOMAIN hooks, NEW j \in DOMAIN hooks, i < j,
                      hooks[i] = "producer", hooks[j] = "consumer", consumer = "started"
               PROVE  producer = "started"
    BY DEF ConsumerHasProducer
  <2>1. j <= numStarted /\ producer # "none" /\ (producer = "shutdown" => numStarted < i)
    BY DEF AppInv, QueueHooks
  <2>2. i \in Nat /\ j \in Nat /\ numStarted \in Nat
    BY DEF AppInv, ServerTypes
  <2> QED
    BY <2>1, <2>2 DEF MQTypeOK
<1>2. MQInv /\ AppInv => TypeOK /\ ConsumerHasProducer
  BY <1>1 DEF MQInv, AppInv, TypeOK, ServerTypes, GrpcTypes, HttpTypes
<1>3. MQInv /\ AppInv /\ OkMeansStored /\ AckedMeansAccepted /\ NeverLost => Inv
  BY <1>2 DEF Inv
<1> QED
  BY <1>3, AppInvariance, MQInvariance, ApplicationRunsQueue, MessagesAreKept, PTL

GrpcComesUp == grpc'.hook = "up" /\ grpc.hook # "up"
HttpComesUp == http'.hook = "up" /\ http.hook # "up"

(* Only the steps of a server's own OnStart report that it is up.          *)
LEMMA UpIsReported ==
    ASSUME AppInv, Next, GrpcComesUp \/ HttpComesUp
    PROVE  GrpcStartReturns \/ waitForServerStartup
<1> USE DEF AppInv, GrpcTypes, HttpTypes, GrpcComesUp, HttpComesUp
<1>1. CASE UNCHANGED <<grpc, http>>
  BY <1>1
<1>2. CASE NewProcess
  BY <1>2 DEF NewProcess, GrpcOff, HttpOff
<1>3. CASE \/ GrpcOnStart \/ GrpcServe \/ ServeReturnsError \/ GrpcOnStop \/ GracefulStop \/ GrpcRequest
           \/ \E next \in {"accept", "failing", "exited"} : AcceptFails(next)
  BY <1>3 DEF GrpcOnStart, GrpcServe, ServeReturnsError, GrpcOnStop, GracefulStop, GrpcRequest,
              AcceptFails, grpcRest
<1>4. CASE GrpcStartCancelled \/ GrpcStopCut \/ GrpcStopReturns
  BY <1>4 DEF GrpcStartCancelled, GrpcStopCut, GrpcStopReturns, Forced, grpcRest
<1>5. CASE \/ \E checked \in BOOLEAN : HttpOnStart(checked)
           \/ HttpServe \/ HttpFails \/ HttpRequest \/ HttpRequestEnds
  BY <1>5 DEF HttpOnStart, HttpServe, HttpFails, HttpRequest, HttpRequestEnds, httpRest
<1>6. CASE HttpOnStop \/ HttpStartCancelled \/ HttpStopReturns
  BY <1>6 DEF HttpOnStop, HttpStartCancelled, HttpStopReturns, Shutdown, httpRest
<1>7. CASE Fx \/ StopSignal \/ \E ok \in BOOLEAN : StartByHand(ok)
  <2>1. UNCHANGED <<grpc, http>>
    BY <1>7 DEF Fx, ProvideProducer, ProvideConsumer, NewServer, NewHTTPServer, Constructed, StartCut,
                Started, StopEnds, Expire, StartQueue, StopQueue, StopSignal, StartByHand
  <2> QED
    BY <1>1, <2>1
<1> QED
  BY <1>1, <1>2, <1>3, <1>4, <1>5, <1>6, <1>7 DEF Next, GrpcRuns, GrpcSelects, HttpSelects

(* A server is reported up only after its first Accept or its OnListen,    *)
(* and never over an error known by then (grpc/server.go:246-259,          *)
(* http/server.go:387-399).                                                *)
THEOREM StartsAreEarned == Spec => StartIsEarned
<1> DEFINE Earned == (GrpcComesUp => grpc.accepting /\ ~KnownError) /\ (HttpComesUp => http.ready)
<1>1. ASSUME AppInv, Next PROVE Earned
  <2>1. GrpcStartReturns => Earned
    BY <1>1 DEF GrpcStartReturns, InnerSelect, AppInv, GrpcTypes, GrpcComesUp, HttpComesUp
  <2>2. waitForServerStartup => Earned
    BY <1>1 DEF waitForServerStartup, AppInv, HttpTypes, GrpcComesUp, HttpComesUp
  <2> QED
    BY <1>1, <2>1, <2>2, UpIsReported
<1>2. AppInv /\ [Next]_vars => [Earned]_vars
  BY <1>1
<1> QED
  BY <1>2, AppInvariance, PTL DEF Spec, Safety, StartIsEarned, GrpcComesUp, HttpComesUp
=============================================================================
