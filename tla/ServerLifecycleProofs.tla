------------------------ MODULE ServerLifecycleProofs ------------------------
(***************************************************************************)
(* For any number of calls: only a request terminates the server, handlers *)
(* are told so when it is over, and a token is missing only at the start.  *)
(***************************************************************************)
EXTENDS ServerLifecycle, TLAPS

\* The initial state is well typed.
LEMMA TypeInit == Init => TypeOK
BY DEF Init, TypeOK, Points

\* Every step of Run, of a client or of a handler keeps the types.
LEMMA TypeNext == TypeOK /\ [Next]_vars => TypeOK'
<1> SUFFICES ASSUME TypeOK, [Next]_vars PROVE TypeOK'
  OBVIOUS
<1> USE DEF TypeOK
<1>1. CASE RunNext
  BY <1>1 DEF RunNext, Start, CreateToken, CreateCompletionSource, SelfTestPasses,
              SelfTestFails, Kill, KillEnds, SetResult, EndCalls, Points
<1>2. ASSUME NEW c \in Calls, Call(c) PROVE TypeOK'
  BY <1>2 DEF Call
<1>3. ASSUME NEW c \in Calls, HandlerNext(c) PROVE TypeOK'
  BY <1>3 DEF HandlerNext, SayHello, Load, CancelToken, TokenIsNull, ReturnTerminateReply,
              Answer
<1>4. CASE UNCHANGED vars
  BY <1>4 DEF vars
<1> QED BY <1>1, <1>2, <1>3, <1>4 DEF Next

\* However calls race with Run, everything has its type.
THEOREM TypeCorrect == Spec => []TypeOK
BY TypeInit, TypeNext, PTL DEF Spec

-----------------------------------------------------------------------------
(* Where Run is says what it has made.                                     *)

Requested(c) == request[c] = "Terminate" /\ handler[c] \in {"waiting", "returned"}

\* The token is made after Start and cancelled by a Terminate only; the server
\* is killed after that, and the completion is announced last.
ProgressInv ==
  /\ (run = "start") = (server = "new")
  /\ run \in {"killing", "setResult", "finished"} <=> server = "killed"
  /\ TerminateToken = "null" <=> run \in {"start", "token"}
  /\ IsServerTerminated => run = "finished"

RequestInv ==
  /\ server = "killed" => TerminateToken = "cancelled"
  /\ TerminateToken = "cancelled" => \E c \in Calls : Requested(c)

\* A call that is entered was accepted; after the kill no call is in progress.
CallInv ==
  \A c \in Calls :
    /\ handler[c] # "none" => server # "new" /\ request[c] # "none"
    /\ server = "killed" /\ request[c] # "none" => outcome[c] # "none"

LifeInv == TypeOK /\ ProgressInv /\ RequestInv /\ CallInv

\* Initially nothing is made and nobody has called.
LEMMA LifeInit == Init => LifeInv
BY TypeInit DEF Init, LifeInv, ProgressInv, RequestInv, CallInv, IsServerTerminated

\* The steps of Run.
LEMMA RunKeepsLife ==
  ASSUME LifeInv, RunNext PROVE ProgressInv' /\ RequestInv' /\ CallInv'
<1> USE DEF LifeInv, TypeOK, ProgressInv, RequestInv, CallInv, IsServerTerminated, Requested
<1>1. CASE Start
  BY <1>1 DEF Start
<1>2. CASE CreateToken
  BY <1>2 DEF CreateToken
<1>3. CASE CreateCompletionSource
  BY <1>3 DEF CreateCompletionSource
<1>4. CASE SelfTestPasses
  BY <1>4 DEF SelfTestPasses
<1>5. CASE SelfTestFails
  BY <1>5 DEF SelfTestFails, EndCalls
<1>6. CASE Kill
  BY <1>6 DEF Kill, EndCalls
<1>7. CASE KillEnds
  BY <1>7 DEF KillEnds
<1>8. CASE SetResult
  BY <1>8 DEF SetResult
<1> QED BY <1>1, <1>2, <1>3, <1>4, <1>5, <1>6, <1>7, <1>8 DEF RunNext

\* A call, or a step of its handler, changes nothing for the other calls.
LEMMA CallsKeepLife ==
  ASSUME LifeInv, NEW c \in Calls, Call(c) \/ HandlerNext(c)
  PROVE  ProgressInv' /\ RequestInv' /\ CallInv'
<1> USE DEF LifeInv, TypeOK, ProgressInv, RequestInv, CallInv, IsServerTerminated, Requested
<1>1. CASE Call(c)
  <2>1. /\ UNCHANGED <<run, server, TerminateToken, terminateSource>>
        /\ request[c] = "none" /\ request'[c] # "none"
        /\ \A d \in Calls \ {c} : request'[d] = request[d] /\ handler'[d] = handler[d]
                                 /\ outcome'[d] = outcome[d]
    BY <1>1 DEF Call, Requests
  <2>2. /\ handler'[c] # "none" => server # "new"
        /\ server = "killed" => outcome'[c] # "none"
    BY <1>1 DEF Call
  <2>3. \A d \in Calls : Requested(d) => Requested(d)'
    BY <2>1
  <2>4. RequestInv'
    BY <2>1, <2>3
  <2>5. CallInv'
    BY <2>1, <2>2
  <2>6. ProgressInv'
    BY <2>1
  <2> QED BY <2>4, <2>5, <2>6
<1>2. CASE SayHello(c)
  BY <1>2 DEF SayHello, Entered, Answer
<1>3. CASE Load(c)
  BY <1>3 DEF Load, Entered, Answer
<1>4. CASE CancelToken(c)
  <2>1. Requested(c)' /\ TerminateToken # "null" /\ TerminateToken' = "cancelled"
    BY <1>4 DEF CancelToken, Entered
  <2>2. UNCHANGED <<run, server, terminateSource, request, outcome>>
    BY <1>4 DEF CancelToken
  <2>3. ProgressInv'
    BY <2>1, <2>2
  <2>4. \A d \in Calls : handler'[d] # "none" => handler[d] # "none"
    BY <1>4 DEF CancelToken, Entered
  <2>5. CallInv'
    BY <2>2, <2>4
  <2>6. RequestInv'
    BY <2>1
  <2> QED BY <2>3, <2>5, <2>6
<1>5. CASE TokenIsNull(c)
  BY <1>5 DEF TokenIsNull, Entered, Answer
<1>6. CASE ReturnTerminateReply(c)
  BY <1>6 DEF ReturnTerminateReply, Answer
<1> QED BY <1>1, <1>2, <1>3, <1>4, <1>5, <1>6 DEF HandlerNext

\* The invariant is inductive.
LEMMA LifeNext == LifeInv /\ [Next]_vars => LifeInv'
<1> SUFFICES ASSUME LifeInv, [Next]_vars PROVE ProgressInv' /\ RequestInv' /\ CallInv'
  BY TypeNext DEF LifeInv
<1>1. CASE UNCHANGED vars
  BY <1>1 DEF vars, LifeInv, ProgressInv, RequestInv, CallInv, IsServerTerminated, Requested
<1> QED BY <1>1, RunKeepsLife, CallsKeepLife DEF Next

-----------------------------------------------------------------------------
\* A server is killed only on request: KilledOnRequest, for any number of calls.
THEOREM OnlyOnRequest == Spec => []KilledOnRequest
<1>1. LifeInv => KilledOnRequest
  BY DEF LifeInv, RequestInv, Requested, KilledOnRequest
<1> QED BY LifeInit, LifeNext, <1>1, PTL DEF Spec

\* Waiting handlers are told only when no call is in progress: AnnouncedWhenOver.
THEOREM Announced == Spec => []AnnouncedWhenOver
<1>1. LifeInv => AnnouncedWhenOver
  BY DEF LifeInv, ProgressInv, CallInv, AnnouncedWhenOver
<1> QED BY LifeInit, LifeNext, <1>1, PTL DEF Spec

\* A Terminate fails for want of a token only before the self test:
\* TokenMissingOnlyAtStart.
THEOREM TokenMissing == Spec => TokenMissingOnlyAtStart
<1>1. LifeInv /\ [Next]_vars =>
        [\A c \in Calls : handler'[c] = "faulted" /\ handler[c] # "faulted"
                            /\ request[c] = "Terminate" => run = "token"]_vars
  <2> SUFFICES ASSUME LifeInv, Next, NEW c \in Calls, handler'[c] = "faulted",
                      handler[c] # "faulted", request[c] = "Terminate"
               PROVE  run = "token"
    OBVIOUS
  <2> USE DEF LifeInv, TypeOK
  <2>1. CASE RunNext
    BY <2>1 DEF RunNext, Start, CreateToken, CreateCompletionSource, SelfTestPasses,
                SelfTestFails, Kill, KillEnds, SetResult
  <2>2. ASSUME NEW d \in Calls, Call(d) PROVE run = "token"
    BY <2>2 DEF Call
  <2>3. ASSUME NEW d \in Calls, SayHello(d) \/ Load(d) \/ CancelToken(d) \/ ReturnTerminateReply(d)
        PROVE run = "token"
    BY <2>3 DEF SayHello, Load, CancelToken, ReturnTerminateReply, Entered, Answer
  <2>4. ASSUME NEW d \in Calls, TokenIsNull(d) PROVE run = "token"
    BY <2>4 DEF TokenIsNull, Entered, ProgressInv, CallInv
  <2> QED BY <2>1, <2>2, <2>3, <2>4 DEF Next, HandlerNext
<1> QED BY LifeInit, LifeNext, <1>1, PTL DEF Spec, TokenMissingOnlyAtStart
=============================================================================
