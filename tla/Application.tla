---------------------------- MODULE Application -----------------------------
(***************************************************************************)
(* A service built from this library: an fx application whose parts are    *)
(* the message queue's producer and consumer (mq/fx.go, mq/rocketmq/fx.go  *)
(* over RocketMQ), the gRPC server (transport/grpc/server.go) and the HTTP *)
(* server (transport/http/server.go, listener.go).  The parts meet in fx:  *)
(* constructors run in order and append hooks, Start runs the OnStart      *)
(* hooks in order, and Stop runs OnStop of those started, last one first.  *)
(*                                                                         *)
(* fx, grpc-go and fiber are outside src/.  fx looks at its ctx before     *)
(* each hook; a Start that fails stops what it started under the same ctx; *)
(* OnStop is not called for a hook whose OnStart failed.  grpc's Serve     *)
(* goes on after a temporary error of Accept; fiber's Shutdown closes what *)
(* is being served and waits for the requests, without a deadline unless   *)
(* it is given a ctx, and finds nothing to close in an app that is only    *)
(* about to serve.  A handler may hang, also one whose ctx is cancelled.   *)
(***************************************************************************)
EXTENDS RocketMQ, Sequences

CONSTANTS
    Deployments,  \* sequences of parts, in the order they are constructed
    MaxRuns,      \* times the process is started
    MaxRequests   \* requests in flight at a server

Part == {"producer", "consumer", "grpc", "http"}

ASSUME ApplicationAssumption ==
    /\ Deployments \subseteq Seq(Part)
    /\ MaxRuns \in Nat \ {0} /\ MaxRequests \in Nat

VARIABLES
    parts,      \* this deployment
    config,     \* of the message queue: "missing", "unsupported", "usable"
    optional,   \* rocketmq.OptionalModule instead of Module
    runs,       \* times the process has been started
    phase,      \* of fx: "construct", "start", "run", "stop", "over"
    cursor,     \* constructors that have run
    hooks,      \* parts that appended a hook
    numStarted, \* hooks started and not yet stopped
    expired,    \* the ctx of this Start or Stop is done
    grpc,       \* the gRPC server
    http        \* the HTTP server

setup == <<parts, config, optional>>
fxVars == <<setup, runs, phase, cursor, hooks, numStarted, expired>>
vars == <<fxVars, grpc, http, mqVars>>

Pending == {"starting", "cancelling", "stopping", "cutting"}
Hook == Pending \union {"idle", "up", "failed", "stopped", "cut"}

(* serve: the goroutine that serves.  accepting: acceptStarted is closed.  *)
(* stop: GracefulStop or Stop was called.  drain: GracefulStop's goroutine.*)
GrpcOff == [hook |-> "idle", serve |-> "off", accepting |-> FALSE, acceptErr |-> FALSE,
            serveErr |-> FALSE, stop |-> "no", drain |-> "off", requests |-> 0]
(* ready: readyChan is closed.  shutdown: Shutdown was called, and found   *)
(* the app serving or not yet.                                             *)
HttpOff == [hook |-> "idle", serve |-> "off", ready |-> FALSE, serveErr |-> FALSE,
            shutdown |-> "no", requests |-> 0]

TypeOK ==
    /\ MQTypeOK
    /\ parts \in Deployments /\ optional \in BOOLEAN
    /\ config \in {"missing", "unsupported", "usable"}
    /\ runs \in 1..MaxRuns
    /\ phase \in {"construct", "start", "run", "stop", "over"}
    /\ cursor \in 0..Len(parts) /\ numStarted \in 0..Len(hooks)
    /\ expired \in BOOLEAN
    /\ grpc \in [hook : Hook, serve : {"off", "launched", "accept", "failing", "exited"},
                 accepting : BOOLEAN, acceptErr : BOOLEAN, serveErr : BOOLEAN,
                 stop : {"no", "graceful", "forced"},
                 drain : {"off", "launched", "draining", "done"}, requests : 0..MaxRequests]
    /\ http \in [hook : Hook, serve : {"off", "launched", "ready", "serving", "exited"},
                 ready : BOOLEAN, serveErr : BOOLEAN,
                 shutdown : {"no", "reached", "missed"}, requests : 0..MaxRequests]

Init ==
    /\ MQInit
    /\ parts \in Deployments
    /\ config \in {"missing", "unsupported", "usable"} /\ optional \in BOOLEAN
    /\ (\A i \in DOMAIN parts : parts[i] \notin {"producer", "consumer"}) =>
            config = "missing" /\ ~optional
    /\ runs = 1
    /\ phase = "construct" /\ cursor = 0 /\ hooks = <<>> /\ numStarted = 0
    /\ expired = FALSE /\ grpc = GrpcOff /\ http = HttpOff

(* The process dies, or exits, and is started again.                       *)
NewProcess ==
    /\ runs < MaxRuns /\ runs' = runs + 1
    /\ Die
    /\ phase' = "construct" /\ cursor' = 0 /\ hooks' = <<>> /\ numStarted' = 0
    /\ expired' = FALSE /\ grpc' = GrpcOff /\ http' = HttpOff
    /\ UNCHANGED setup

-----------------------------------------------------------------------------
(* Constructors.                                                           *)
Next1(part) == phase = "construct" /\ cursor < Len(parts) /\ parts[cursor + 1] = part

Hooked(part) ==
    /\ cursor' = cursor + 1 /\ hooks' = Append(hooks, part)
    /\ UNCHANGED <<setup, runs, phase, numStarted, expired>>

(* mq.NewProducer and NewConsumer refuse a nil config and a type nobody    *)
(* registered; the adapter's constructor, called next, may fail as well.   *)
MayCreate(ok) == ok => config = "usable"

(* A strict provider's error ends fx.New; an optional one provides nil.    *)
NotProvided ==
    /\ IF optional THEN cursor' = cursor + 1 /\ UNCHANGED phase
                   ELSE phase' = "over" /\ UNCHANGED cursor
    /\ UNCHANGED <<setup, runs, hooks, numStarted, expired>>

ProvideProducer(ok) ==
    /\ Next1("producer")
    /\ MayCreate(ok) /\ NewProducer(ok)
    /\ IF ok THEN Hooked("producer") ELSE NotProvided
    /\ UNCHANGED <<grpc, http>>

ProvideConsumer(ok) ==
    /\ Next1("consumer")
    /\ MayCreate(ok) /\ NewConsumer(ok)
    /\ IF ok THEN Hooked("consumer") ELSE NotProvided
    /\ UNCHANGED <<grpc, http>>

(* NewListener binds the port when the parts are constructed; bufconn, of  *)
(* the monolith, never fails.                                              *)
NewServer(bound) ==
    /\ Next1("grpc")
    /\ IF bound THEN Hooked("grpc")
       ELSE phase' = "over" /\ UNCHANGED <<setup, runs, cursor, hooks, numStarted, expired>>
    /\ UNCHANGED <<grpc, http, mqVars>>

NewHTTPServer ==
    /\ Next1("http")
    /\ Hooked("http")
    /\ UNCHANGED <<grpc, http, mqVars>>

Constructed ==
    /\ phase = "construct" /\ cursor = Len(parts)
    /\ phase' = "start"
    /\ UNCHANGED <<setup, runs, cursor, hooks, numStarted, expired, grpc, http, mqVars>>

-----------------------------------------------------------------------------
(* fx: one hook at a time, in order, while the ctx is not done.            *)
Idle == grpc.hook \notin Pending /\ http.hook \notin Pending
fxRest == <<setup, runs, cursor, hooks>>

Starts(part) ==
    /\ phase = "start" /\ Idle /\ ~expired
    /\ numStarted < Len(hooks) /\ hooks[numStarted + 1] = part
Stops(part) ==
    /\ phase = "stop" /\ Idle /\ ~expired
    /\ numStarted > 0 /\ hooks[numStarted] = part

HookStarted == numStarted' = numStarted + 1 /\ UNCHANGED <<fxRest, phase, expired>>
HookFailed == phase' = "stop" /\ UNCHANGED <<fxRest, numStarted, expired>>
HookStopped == numStarted' = numStarted - 1 /\ UNCHANGED <<fxRest, phase, expired>>

StartCut ==
    /\ phase = "start" /\ Idle /\ expired /\ numStarted < Len(hooks)
    /\ HookFailed
    /\ UNCHANGED <<grpc, http, mqVars>>

Started ==
    /\ phase = "start" /\ Idle /\ numStarted = Len(hooks)
    /\ phase' = "run"
    /\ UNCHANGED <<fxRest, numStarted, expired, grpc, http, mqVars>>

StopSignal ==
    /\ phase = "run"
    /\ phase' = "stop" /\ expired' = FALSE
    /\ UNCHANGED <<fxRest, numStarted, grpc, http, mqVars>>

StopEnds ==
    /\ phase = "stop" /\ Idle /\ (expired \/ numStarted = 0)
    /\ phase' = "over"
    /\ UNCHANGED <<fxRest, numStarted, expired, grpc, http, mqVars>>

(* The start or stop timeout of fx.                                        *)
Expire ==
    /\ phase \in {"start", "stop"} /\ ~expired
    /\ expired' = TRUE
    /\ UNCHANGED <<fxRest, phase, numStarted, grpc, http, mqVars>>

-----------------------------------------------------------------------------
(* The message queue's hooks.  An optional consumer has no OnStart: the    *)
(* service starts it by hand once it runs.                                 *)
StartQueue ==
    \/ /\ Starts("producer") \/ (optional /\ Starts("consumer"))
       /\ HookStarted /\ UNCHANGED <<grpc, http, mqVars>>
    \/ /\ Starts("consumer") /\ ~optional
       /\ \E ok \in BOOLEAN : StartConsumer(ok) /\ IF ok THEN HookStarted ELSE HookFailed
       /\ UNCHANGED <<grpc, http>>

StartByHand(ok) ==
    /\ phase = "run" /\ optional
    /\ StartConsumer(ok)
    /\ UNCHANGED <<fxVars, grpc, http>>

ConsumerKept ==                     \* mutant: the consumer's hook has no OnStop
    /\ \/ Stops("consumer") /\ UNCHANGED mqVars
       \/ Stops("producer") /\ CloseProducer
    /\ HookStopped
    /\ UNCHANGED <<grpc, http>>
StopQueue ==
    /\ \/ Stops("consumer") /\ CloseConsumer
       \/ Stops("producer") /\ CloseProducer
    /\ HookStopped
    /\ UNCHANGED <<grpc, http>>

-----------------------------------------------------------------------------
(* The gRPC server: OnStart launches Serve and waits for its first Accept, *)
(* its error or the ctx.                                                   *)
grpcRest == <<fxVars, http, mqVars>>

GrpcOnStart ==
    /\ Starts("grpc")
    /\ grpc' = [grpc EXCEPT !.hook = "starting", !.serve = "launched"]
    /\ UNCHANGED grpcRest

(* Serve of a server already stopped returns an error at once; otherwise   *)
(* its first call of the probe's Accept closes acceptStarted.              *)
GrpcServe ==
    /\ grpc.serve = "launched"
    /\ grpc' = IF grpc.stop = "no"
               THEN [grpc EXCEPT !.serve = "accept", !.accepting = TRUE]
               ELSE [grpc EXCEPT !.serve = "failing"]
    /\ UNCHANGED grpcRest

(* Accept fails: after a temporary error Serve tries again, after another  *)
(* it returns the error, and once the server is stopped it returns nil.    *)
AcceptFails(next) ==
    /\ grpc.serve = "accept"
    /\ next = "exited" <=> grpc.stop # "no"
    /\ grpc' = [grpc EXCEPT !.serve = next, !.acceptErr = TRUE]
    /\ UNCHANGED grpcRest

ServeReturnsError ==
    /\ grpc.serve = "failing"
    /\ grpc' = [grpc EXCEPT !.serve = "exited", !.serveErr = TRUE]
    /\ UNCHANGED grpcRest

GrpcRequest ==
    /\ \/ /\ grpc.serve = "accept" /\ grpc.stop = "no" /\ grpc.requests < MaxRequests
          /\ grpc' = [grpc EXCEPT !.requests = @ + 1]
       \/ grpc.requests > 0 /\ grpc' = [grpc EXCEPT !.requests = @ - 1]
    /\ UNCHANGED grpcRest

(* The select of OnStart, and the inner one behind acceptStarted.          *)
KnownError == grpc.acceptErr \/ grpc.serveErr
NoInnerSelect == "up"               \* mutant: acceptStarted is taken for success
InnerSelect == IF KnownError THEN "failed" ELSE "up"

GrpcStartReturns ==
    /\ \/ /\ grpc.hook = "starting"
          /\ \/ grpc.serveErr /\ grpc' = [grpc EXCEPT !.hook = "failed"]
             \/ grpc.accepting /\ grpc' = [grpc EXCEPT !.hook = InnerSelect]
       \/ /\ grpc.hook = "cancelling" /\ grpc.serve = "exited"
          /\ grpc' = [grpc EXCEPT !.hook = "failed"]
    /\ IF grpc'.hook = "up" THEN HookStarted ELSE HookFailed
    /\ UNCHANGED <<http, mqVars>>

(* Stop closes the listener and every connection, which cancels the ctx of *)
(* the handlers; they end when they heed it, and Stop does not wait.       *)
Forced == [grpc EXCEPT !.stop = "forced"]

LeftBehind ==                       \* mutant: OnStart returns without s.Stop
    /\ grpc.hook = "starting" /\ expired
    /\ grpc' = [grpc EXCEPT !.hook = "failed"]
    /\ HookFailed
    /\ UNCHANGED <<http, mqVars>>
GrpcStartCancelled ==
    /\ grpc.hook = "starting" /\ expired
    /\ grpc' = [Forced EXCEPT !.hook = "cancelling"]
    /\ UNCHANGED grpcRest

GrpcOnStop ==
    /\ Stops("grpc")
    /\ grpc' = [grpc EXCEPT !.hook = "stopping", !.drain = "launched"]
    /\ UNCHANGED grpcRest

(* GracefulStop: no more connections, and wait for the handlers there are, *)
(* also when Stop has cut their connections meanwhile.                     *)
GracefulStop ==
    /\ \/ /\ grpc.drain = "launched"
          /\ grpc' = [grpc EXCEPT !.drain = "draining",
                                  !.stop = IF @ = "no" THEN "graceful" ELSE @]
       \/ /\ grpc.drain = "draining" /\ grpc.requests = 0 /\ grpc.serve = "exited"
          /\ grpc' = [grpc EXCEPT !.drain = "done"]
    /\ UNCHANGED grpcRest

NoForce ==                          \* mutant: waits for the drain without s.Stop
    /\ grpc.hook = "stopping" /\ expired
    /\ grpc' = [grpc EXCEPT !.hook = "cutting"]
    /\ UNCHANGED grpcRest
GrpcStopCut ==
    /\ grpc.hook = "stopping" /\ expired
    /\ grpc' = [Forced EXCEPT !.hook = "cutting"]
    /\ UNCHANGED grpcRest

Unawaited == grpc.hook = "cutting" \/ grpc.drain = "done" \* mutant: no <-stopped
Drained == grpc.drain = "done"

GrpcStopReturns ==
    /\ grpc.hook \in {"stopping", "cutting"} /\ Drained
    /\ grpc' = [grpc EXCEPT !.hook = IF @ = "stopping" THEN "stopped" ELSE "cut"]
    /\ HookStopped
    /\ UNCHANGED <<http, mqVars>>

-----------------------------------------------------------------------------
(* The HTTP server.  The check before the goroutine is createListener of   *)
(* the single process, or validatePreforkNetwork.                          *)
httpRest == <<fxVars, grpc, mqVars>>
Closing == http.shutdown = "reached"

HttpOnStart(checked) ==
    /\ Starts("http")
    /\ IF checked
       THEN /\ http' = [http EXCEPT !.hook = "starting", !.serve = "launched"]
            /\ UNCHANGED fxVars
       ELSE http' = [http EXCEPT !.hook = "failed"] /\ HookFailed
    /\ UNCHANGED <<grpc, mqVars>>

(* app.Listen or app.Listener: the OnListen hook closes readyChan, then    *)
(* the app serves; it may fail at any point.                               *)
HttpServe ==
    /\ \/ /\ http.serve = "launched"
          /\ http' = [http EXCEPT !.serve = "ready", !.ready = TRUE]
       \/ http.serve = "ready" /\ http' = [http EXCEPT !.serve = "serving"]
       \/ /\ http.serve = "serving" /\ Closing
          /\ http' = [http EXCEPT !.serve = "exited"]
    /\ UNCHANGED httpRest

HttpFails ==
    /\ http.serve \in {"launched", "ready", "serving"} /\ ~Closing
    /\ http' = [http EXCEPT !.serve = "exited", !.serveErr = TRUE]
    /\ UNCHANGED httpRest

HttpRequest ==
    /\ http.serve = "serving" /\ ~Closing /\ http.requests < MaxRequests
    /\ http' = [http EXCEPT !.requests = @ + 1]
    /\ UNCHANGED httpRest

HttpRequestEnds ==
    /\ http.requests > 0
    /\ http' = [http EXCEPT !.requests = @ - 1]
    /\ UNCHANGED httpRest

Shutdown == [http EXCEPT !.shutdown = CASE http.serve = "serving" -> "reached"
                                        [] http.serve \in {"launched", "ready"} -> "missed"
                                        [] OTHER -> @]
Closed == Closing => http.requests = 0

(* waitForServerStartup: an error, readiness or the ctx, whichever select  *)
(* takes; on the ctx its cleanup shuts the app down, without a deadline.   *)
waitForServerStartup ==
    /\ \/ /\ http.hook = "starting"
          /\ \/ http.serveErr /\ http' = [http EXCEPT !.hook = "failed"]
             \/ http.ready /\ http' = [http EXCEPT !.hook = "up"]
       \/ /\ http.hook = "cancelling" /\ Closed
          /\ http' = [http EXCEPT !.hook = "failed"]
    /\ IF http'.hook = "up" THEN HookStarted ELSE HookFailed
    /\ UNCHANGED <<grpc, mqVars>>

HttpStartCancelled ==
    /\ http.hook = "starting" /\ expired
    /\ http' = [Shutdown EXCEPT !.hook = "cancelling"]
    /\ UNCHANGED httpRest

(* ShutdownWithContext.                                                    *)
HttpOnStop ==
    /\ Stops("http")
    /\ http' = [Shutdown EXCEPT !.hook = "stopping"]
    /\ UNCHANGED httpRest

HttpStopReturns ==
    /\ http.hook = "stopping"
    /\ \/ Closed /\ http' = [http EXCEPT !.hook = "stopped"]
       \/ expired /\ http' = [http EXCEPT !.hook = "cut"]
    /\ HookStopped
    /\ UNCHANGED <<grpc, mqVars>>

-----------------------------------------------------------------------------
Fx ==
    \/ \E ok \in BOOLEAN : ProvideProducer(ok) \/ ProvideConsumer(ok) \/ NewServer(ok)
    \/ NewHTTPServer \/ Constructed \/ StartCut \/ Started \/ StopEnds \/ Expire
    \/ StartQueue \/ StopQueue

GrpcRuns == GrpcOnStart \/ GrpcServe \/ ServeReturnsError \/ GrpcOnStop \/ GracefulStop
GrpcSelects == GrpcStartReturns \/ GrpcStartCancelled \/ GrpcStopCut \/ GrpcStopReturns
HttpSelects == waitForServerStartup \/ HttpStartCancelled \/ HttpStopReturns

Next ==
    \/ Fx \/ NewProcess \/ StopSignal \/ \E ok \in BOOLEAN : StartByHand(ok)
    \/ GrpcRuns \/ GrpcSelects \/ GrpcRequest
    \/ \E next \in {"accept", "failing", "exited"} : AcceptFails(next)
    \/ \E checked \in BOOLEAN : HttpOnStart(checked)
    \/ HttpServe \/ HttpFails \/ HttpRequest \/ HttpRequestEnds \/ HttpOnStop \/ HttpSelects
    \/ MessageStep /\ UNCHANGED <<fxVars, grpc, http>>

Safety == Init /\ [][Next]_vars

(* Goroutines that can run do, fx's timeouts expire, and Accept of a       *)
(* stopped server fails.  Nothing is assumed of a handler: the read and    *)
(* write deadlines of NewHTTPServer bound a connection's I/O and Stop only *)
(* cancels a ctx.                                                          *)
Fairness ==
    /\ WF_vars(Fx)
    /\ WF_vars(GrpcRuns) /\ WF_vars(AcceptFails("exited")) /\ WF_vars(GrpcSelects)
    /\ WF_vars(\E checked \in BOOLEAN : HttpOnStart(checked))
    /\ WF_vars(HttpServe) /\ WF_vars(HttpOnStop) /\ WF_vars(HttpSelects)

Spec == Safety /\ Fairness

-----------------------------------------------------------------------------
(* A server's OnStart answers nil only after its first Accept (gRPC) or    *)
(* OnListen (HTTP), and gRPC's never over an error of Accept or Serve that *)
(* was known by then (server.go:246-259, 387-399).                         *)
StartIsEarned ==
    [][/\ grpc'.hook = "up" /\ grpc.hook # "up" => grpc.accepting /\ ~KnownError
       /\ http'.hook = "up" /\ http.hook # "up" => http.ready]_vars

(* A start given up for the ctx leaves no server behind, since fx will not *)
(* call its OnStop: gRPC's goroutine ends, and so does an HTTP goroutine   *)
(* that the cleanup found serving (grpc/server.go:260-263,                 *)
(* http/server.go:342-345, 383-385).                                       *)
CancelledStartEnds ==
    /\ (grpc.hook = "cancelling" \/ (grpc.hook = "failed" /\ ~KnownError))
            ~> grpc.serve \in {"exited", "off"}
    /\ (http.hook = "cancelling" /\ http.serve = "serving" /\ http.shutdown # "missed")
            ~> http.serve \in {"exited", "off"}

(* When OnStop has returned, gRPC's serving goroutine and the one that     *)
(* drains it are gone and no request is left on its connections; HTTP's    *)
(* requests are done if Shutdown found the app serving and returned nil    *)
(* (grpc/server.go:266-285, http/server.go:257).                           *)
StopIsClean ==
    /\ grpc.hook \in {"stopped", "cut"} =>
            grpc.drain = "done" /\ grpc.serve = "exited" /\ grpc.requests = 0
    /\ http.hook = "stopped" /\ Closing => http.requests = 0

(* Start and Stop of the application end, although goroutines fail at any  *)
(* point and handlers hang.  Only a handler that goes on although its      *)
(* server is being torn down can hold them up, at two places: an RPC whose *)
(* ctx Stop has cancelled, while OnStop waits for GracefulStop's goroutine *)
(* (grpc/server.go:281-282), and an HTTP request served in a start that is *)
(* given up, in the cleanup's Shutdown without a deadline                  *)
(* (http/server.go:343, 383).                                              *)
HeldUp ==
    \/ grpc.hook = "cutting" /\ grpc.stop = "forced" /\ grpc.requests > 0
    \/ http.hook = "cancelling" /\ ~Closed
PhasesEnd ==
    <>[]HeldUp \/ (phase \in {"start", "stop"} ~> phase \in {"construct", "run", "over"})

(* A consumer constructed after a producer never runs without it: its      *)
(* handlers may send (mq/fx.go:41-101, rocketmq/fx.go:81-198).             *)
ConsumerHasProducer ==
    (\E i, j \in DOMAIN hooks : i < j /\ hooks[i] = "producer" /\ hooks[j] = "consumer")
        => (consumer = "started" => producer = "started")

(* The state is well typed, hooks are paired, and no message is lost or    *)
(* settled against its handler's word (adapter.go:88-142, 240-267).        *)
Inv ==
    /\ TypeOK /\ ConsumerHasProducer
    /\ OkMeansStored /\ AckedMeansAccepted /\ NeverLost
=============================================================================
