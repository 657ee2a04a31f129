----------------------- MODULE ServerLifecycleProofs -----------------------
(***************************************************************************)
(* Theorems about ServerLifecycle for every set of requests.               *)
(***************************************************************************)
EXTENDS ServerLifecycle, TLAPS

USE DEF Servers, Ended, Serving, Started, Running, Done, Drained, AllReturned,
    serverVars, requestVars

\* The invariant holds before the servers are started.
LEMMA InitInv == Init => IndInv
  BY DEF Init, IndInv, TypeOK, ServerInv, MainInv

\* main goes on only when both servers have returned.
LEMMA MainStep ==
    ASSUME IndInv,
           \/ StartTaskProcessor \/ StopTaskProcessor
           \/ StartServers \/ SetupFails \/ Wait \/ CloseCache
    PROVE  IndInv'
  <1> USE DEF IndInv, TypeOK, ServerInv, MainInv
  <1>1. CASE StartServers \/ SetupFails
    BY <1>1 DEF StartServers, SetupFails
  <1>2. CASE Wait
    BY <1>2 DEF Wait
  <1>3. CASE CloseCache
    BY <1>3 DEF CloseCache
  <1>4. CASE StartTaskProcessor \/ StopTaskProcessor
    BY <1>4 DEF StartTaskProcessor, StopTaskProcessor
  <1> QED
    BY <1>1, <1>2, <1>3, <1>4

\* A server takes nothing once its shutdown has returned, which it does when
\* its handlers have.
LEMMA ServerStep ==
    ASSUME IndInv, NEW s \in Servers, Server(s)
    PROVE  IndInv'
  <1> USE DEF IndInv, TypeOK, ServerInv, MainInv
  <1>1. CASE StartServing(s)
    BY <1>1 DEF StartServing
  <1>2. CASE ServeFails(s)
    BY <1>2 DEF ServeFails, ReportError
  <1>3. CASE ServeReturns(s)
    BY <1>3 DEF ServeReturns
  <1>4. CASE BeginStop(s)
    BY <1>4 DEF BeginStop
  <1>5. CASE FinishStop(s)
    BY <1>5 DEF FinishStop
  <1>6. CASE \E r \in Requests : Arrive(s, r)
    BY <1>6 DEF Arrive
  <1> QED
    BY <1>1, <1>2, <1>3, <1>4, <1>5, <1>6 DEF Server

\* Handlers, signals and the end without notice.
LEMMA OtherStep ==
    ASSUME IndInv, (\E r \in Requests : Answer(r)) \/ Signal \/ Kill
    PROVE  IndInv'
  <1> USE DEF IndInv, TypeOK, ServerInv, MainInv
  <1>1. CASE \E r \in Requests : Answer(r)
    BY <1>1 DEF Answer
  <1>2. CASE Signal
    BY <1>2 DEF Signal
  <1>3. CASE Kill
    BY <1>3 DEF Kill
  <1> QED
    BY <1>1, <1>2, <1>3

\* Types, and what main may rely on when errgroup.Wait has returned.
THEOREM InductiveInvariant == Spec => []IndInv
  <1>1. ASSUME IndInv, [Next]_vars
        PROVE  IndInv'
    <2>1. CASE UNCHANGED vars
      BY <1>1, <2>1 DEF vars, IndInv, TypeOK, ServerInv, MainInv
    <2> QED
      BY <1>1, <2>1, MainStep, ServerStep, OtherStep DEF Next, Terminated
  <1> QED
    BY InitInv, <1>1, PTL DEF Spec

\* A process that ends by itself has answered every request it took and closes
\* its cache after the last handler.
THEOREM GracefulShutdown == Spec => []NoRequestCut
  <1>1. IndInv => NoRequestCut
    BY DEF IndInv, ServerInv, MainInv, NoRequestCut
  <1> QED
    BY <1>1, InductiveInvariant, PTL

\* A broken server is never reported as success.
THEOREM TrueExitStatus == Spec => []SuccessIsAskedFor
  <1>1. IndInv => SuccessIsAskedFor
    BY DEF IndInv, ServerInv, MainInv, SuccessIsAskedFor
  <1> QED
    BY <1>1, InductiveInvariant, PTL
=============================================================================
