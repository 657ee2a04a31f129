-------------------------- MODULE ServerLifecycle --------------------------
(***************************************************************************)
(* The life of a service process: main starts a gRPC server and an HTTP    *)
(* gateway, each with a goroutine that serves and one that waits for the   *)
(* context and shuts the server down, and waits for the four of them.  The *)
(* users service starts a task processor before, and waits for a goroutine *)
(* that shuts that down.  The context of their errgroup is done after a    *)
(* signal or after the first error of a goroutine.                         *)
(*                                                                         *)
(* What the servers do at a shutdown is modelled from their use in         *)
(* libs/common/server: they take no new connection, serve what arrives on  *)
(* open ones, and wait for the handlers without a deadline.  The processor *)
(* has no handler for any task, so its shutdown waits for nothing.         *)
(***************************************************************************)
EXTENDS FiniteSets

CONSTANT Requests

Servers == {"grpc", "http"}

VARIABLES
    main,      \* where main is, or how the process ended
    processor, \* the task processor, "none" in the auth service
    signalled, \* the interrupt context is done
    groupErr,  \* a goroutine has returned an error
    serve,     \* serve[s]: the goroutine that serves
    stop,      \* stop[s]: the goroutine that shuts the server down
    inFlight,  \* inFlight[s]: requests whose handlers run
    answered,  \* requests whose handlers have returned
    cacheOpen

requestVars == << inFlight, answered >>
serverVars == << serve, stop >>
vars == << main, processor, signalled, groupErr, serverVars, requestVars,
           cacheOpen >>

Ended == {"exited", "failed", "aborted", "killed"}
Serving == {"starting", "serving"}
Started(s) ==
    main \notin IF s = "grpc" THEN {"startTasks", "startGrpc"}
                             ELSE {"startTasks", "startGrpc", "startHttp"}
Running == main \notin Ended

\* The context is that of the errgroup; in the variant, that of the signals.
SignalOnly == signalled
Done == signalled \/ groupErr

TypeOK ==
    /\ main \in {"startTasks", "startGrpc", "startHttp", "waiting", "closing"}
                    \cup Ended
    /\ processor \in {"none", "starting", "running", "stopped"}
    /\ signalled \in BOOLEAN
    /\ groupErr \in BOOLEAN
    /\ serve \in [Servers -> Serving \cup {"stopped", "failed", "never"}]
    /\ stop \in [Servers -> {"waiting", "stopping", "returned"}]
    /\ inFlight \in [Servers -> SUBSET Requests]
    /\ answered \subseteq Requests
    /\ cacheOpen \in BOOLEAN

Init ==
    /\ \/ main = "startGrpc" /\ processor = "none"
       \/ main = "startTasks" /\ processor = "starting"
    /\ signalled = FALSE
    /\ groupErr = FALSE
    /\ serve = [s \in Servers |-> "starting"]
    /\ stop = [s \in Servers |-> "waiting"]
    /\ inFlight = [s \in Servers |-> {}]
    /\ answered = {}
    /\ cacheOpen = TRUE

-----------------------------------------------------------------------------
(* main.                                                                   *)

\* runTaskProcessor starts the processor and the goroutine that waits.
StartTaskProcessor ==
    /\ main = "startTasks"
    /\ main' = "startGrpc"
    /\ processor' = "running"
    /\ UNCHANGED << signalled, groupErr, serverVars, requestVars, cacheOpen >>

\* RunGRPCServer and RunGatewayServer start their goroutines and return.
StartServers ==
    /\ \/ main = "startGrpc" /\ main' = "startHttp"
       \/ main = "startHttp" /\ main' = "waiting"
    /\ UNCHANGED << processor, signalled, groupErr, serverVars, requestVars,
                    cacheOpen >>

\* The processor, a listener, a route or the documents cannot be set up:
\* log.Fatal, whatever that which was started first is doing.
SetupFails ==
    /\ main \in {"startTasks", "startGrpc", "startHttp"}
    /\ main' = "aborted"
    /\ UNCHANGED << processor, signalled, groupErr, serverVars, requestVars,
                    cacheOpen >>

\* errgroup.Wait returns when every goroutine has, with the first error; the
\* variant is a group that returns with the first error.
FirstReturned == groupErr \/ \A s \in Servers : stop[s] = "returned"
AllReturned ==
    /\ \A s \in Servers : serve[s] \notin Serving /\ stop[s] = "returned"
    /\ processor \in {"none", "stopped"}

Wait ==
    /\ main = "waiting"
    /\ AllReturned
    /\ main' = IF groupErr THEN "failed" ELSE "closing"
    /\ UNCHANGED << processor, signalled, groupErr, serverVars, requestVars,
                    cacheOpen >>

\* The process ends with status 0 if the cache closes without an error.
CloseCache ==
    /\ main = "closing"
    /\ cacheOpen' = FALSE
    /\ main' \in {"exited", "failed"}
    /\ UNCHANGED << processor, signalled, groupErr, serverVars, requestVars >>

-----------------------------------------------------------------------------
(* The goroutines of the two servers.                                      *)

\* A server that has been shut down before it serves returns at once, with the
\* error that the goroutine ignores.
StartServing(s) ==
    /\ Started(s)
    /\ Running
    /\ serve[s] = "starting"
    /\ serve' = [serve EXCEPT ![s] =
                    IF stop[s] = "waiting" THEN "serving" ELSE "never"]
    /\ UNCHANGED << main, processor, signalled, groupErr, stop, requestVars,
                    cacheOpen >>

\* The HTTP server cannot bind its address, or a listener breaks.  The variant
\* keeps the error from the group.
FailUnreported == UNCHANGED groupErr
ReportError == groupErr' = TRUE

ServeFails(s) ==
    /\ Started(s)
    /\ Running
    /\ \/ serve[s] = "serving"
       \/ serve[s] = "starting" /\ s = "http"
    /\ stop[s] = "waiting"
    /\ serve' = [serve EXCEPT ![s] = "failed"]
    /\ ReportError
    /\ UNCHANGED << main, processor, signalled, stop, requestVars, cacheOpen >>

\* Serve waits for GracefulStop, ListenAndServe does not wait for Shutdown.
ServeReturns(s) ==
    /\ Running
    /\ serve[s] = "serving"
    /\ IF s = "grpc" THEN stop[s] = "returned" ELSE stop[s] # "waiting"
    /\ serve' = [serve EXCEPT ![s] = "stopped"]
    /\ UNCHANGED << main, processor, signalled, groupErr, stop, requestVars,
                    cacheOpen >>

BeginStop(s) ==
    /\ Started(s)
    /\ Running
    /\ Done
    /\ stop[s] = "waiting"
    /\ stop' = [stop EXCEPT ![s] = "stopping"]
    /\ UNCHANGED << main, processor, signalled, groupErr, serve, requestVars,
                    cacheOpen >>

\* GracefulStop and Shutdown wait for the handlers.
Drained(s) == inFlight[s] = {}

FinishStop(s) ==
    /\ Running
    /\ stop[s] = "stopping"
    /\ Drained(s)
    /\ stop' = [stop EXCEPT ![s] = "returned"]
    /\ UNCHANGED << main, processor, signalled, groupErr, serve, requestVars,
                    cacheOpen >>

\* The goroutine of the task processor.
StopTaskProcessor ==
    /\ Running
    /\ Done
    /\ processor = "running"
    /\ processor' = "stopped"
    /\ UNCHANGED << main, signalled, groupErr, serverVars, requestVars,
                    cacheOpen >>

-----------------------------------------------------------------------------
(* Requests, signals, and an end without notice.                           *)

\* On a connection the server has accepted, until its shutdown has returned.
\* A handler may use the cache until it returns.
Arrive(s, r) ==
    /\ Running
    /\ serve[s] \in {"serving", "stopped", "failed"}
    /\ stop[s] # "returned"
    /\ r \notin answered
    /\ \A t \in Servers : r \notin inFlight[t]
    /\ inFlight' = [inFlight EXCEPT ![s] = @ \cup {r}]
    /\ UNCHANGED << main, processor, signalled, groupErr, serverVars, answered,
                    cacheOpen >>

Answer(r) ==
    /\ Running
    /\ \E s \in Servers :
        /\ r \in inFlight[s]
        /\ inFlight' = [inFlight EXCEPT ![s] = @ \ {r}]
    /\ answered' = answered \cup {r}
    /\ UNCHANGED << main, processor, signalled, groupErr, serverVars,
                    cacheOpen >>

\* The first signal ends the context; later ones are swallowed until main has
\* called stopInterruptCtx, when a signal kills the process as by default.
Signal ==
    /\ Running
    /\ signalled' = TRUE
    /\ main' = IF main = "closing" THEN "killed" ELSE main
    /\ UNCHANGED << processor, groupErr, serverVars, requestVars, cacheOpen >>

\* SIGKILL, or a panic in a handler of the gRPC server.
Kill ==
    /\ Running
    /\ main' = "killed"
    /\ UNCHANGED << processor, signalled, groupErr, serverVars, requestVars,
                    cacheOpen >>

Terminated == ~Running /\ UNCHANGED vars

Server(s) ==
    \/ StartServing(s) \/ ServeFails(s) \/ ServeReturns(s)
    \/ BeginStop(s) \/ FinishStop(s)
    \/ \E r \in Requests : Arrive(s, r)

Next ==
    \/ StartTaskProcessor \/ StopTaskProcessor
    \/ StartServers \/ SetupFails \/ Wait \/ CloseCache
    \/ \E s \in Servers : Server(s)
    \/ \E r \in Requests : Answer(r)
    \/ Signal
    \/ Kill
    \/ Terminated

Spec == Init /\ [][Next]_vars

\* Goroutines are scheduled and handlers return.  Nothing is assumed to fail,
\* and no request to arrive.
Fairness ==
    /\ WF_vars(StartTaskProcessor) /\ WF_vars(StopTaskProcessor)
    /\ WF_vars(StartServers) /\ WF_vars(Wait) /\ WF_vars(CloseCache)
    /\ \A s \in Servers :
        /\ WF_vars(StartServing(s)) /\ WF_vars(ServeReturns(s))
        /\ WF_vars(BeginStop(s)) /\ WF_vars(FinishStop(s))
    /\ \A r \in Requests : WF_vars(Answer(r))

FairSpec == Spec /\ Fairness

-----------------------------------------------------------------------------
(* Properties.                                                             *)

\* A process that ends by itself after its servers were up, by a signal or
\* because one server broke, has answered every request that either server
\* took and stopped its task processor, and no handler has run on a closed
\* cache.
NoRequestCut ==
    main \in {"exited", "failed"} \/ ~cacheOpen =>
        /\ \A s \in Servers : inFlight[s] = {}
        /\ processor # "running"

\* Status 0 means that someone asked for the end: a server that broke, before
\* the signal or after it, is never reported as success.
SuccessIsAskedFor ==
    main = "exited" => signalled /\ \A s \in Servers : serve[s] # "failed"

\* A signal, or one broken server, ends the whole process, provided that the
\* handlers return: no server goes on without the other.
EveryShutdownEnds ==
    signalled \/ (\E s \in Servers : serve[s] = "failed") ~> main \in Ended

-----------------------------------------------------------------------------
(* The inductive invariant behind the first two.                           *)

ServerInv ==
    \A s \in Servers :
        /\ stop[s] # "waiting" => Done /\ Started(s)
        /\ stop[s] = "returned" => inFlight[s] = {}
        /\ serve[s] = "failed" => groupErr

MainInv ==
    /\ main \in {"closing", "exited", "failed"} =>
        AllReturned /\ (main # "failed" => ~groupErr)
    /\ ~cacheOpen => main \in {"exited", "failed"}

IndInv == TypeOK /\ ServerInv /\ MainInv
=============================================================================
