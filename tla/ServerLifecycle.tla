--------------------------- MODULE ServerLifecycle ---------------------------
(***************************************************************************)
(* The life of the Stad.Service process: Program.Main, ServerApplication   *)
(* and the handlers of StadServiceImpl, each call handled by a worker of   *)
(* the thread pool while the continuation of Run polls for termination.    *)
(*                                                                         *)
(* Grpc.Core is not part of the repository.  Its Server is modelled from   *)
(* its use: after Start it accepts calls, KillAsync refuses new calls and  *)
(* cancels those in progress, and ends without waiting for their handlers. *)
(* A handler whose call is cancelled runs on, its answer goes nowhere.     *)
(***************************************************************************)
EXTENDS Integers, FiniteSets

CONSTANT Calls          \* the calls clients make, one each

Requests == {"SayHello", "Terminate", "LoadAssemblySource", "LoadDataSource"}

VARIABLES
  run,                  \* where ServerApplication.Run is
  server,               \* the Grpc.Core server: "new", "serving", "killed"
  TerminateToken,       \* "null", "live" or "cancelled"
  terminateSource,      \* _serverTerminateCompletionSource: "null", "pending", "completed"
  request,              \* request[c]: what call c asks, "none" before it is made
  handler,              \* handler[c]: "none", "entered", "waiting", "returned", "faulted"
  outcome               \* outcome[c]: what its client gets, "none" before it does

vars == <<run, server, TerminateToken, terminateSource, request, handler, outcome>>

\* The points of Run: before Start, around the two assignments, at the await of
\* the self test, in the polling loop, at the await of KillAsync, before
\* SetResult, and its two ends; the process ends with Run (Main waits for it).
Points == {"start", "token", "source", "selfTest", "polling", "killing", "setResult",
           "finished", "failed"}
ProcessEnded == run \in {"finished", "failed"}

Init ==
  /\ run = "start"
  /\ server = "new"
  /\ TerminateToken = "null"
  /\ terminateSource = "null"
  /\ request = [c \in Calls |-> "none"]
  /\ handler = [c \in Calls |-> "none"]
  /\ outcome = [c \in Calls |-> "none"]

\* The calls still in progress get `status'.
EndCalls(status) ==
  outcome' = [c \in Calls |-> IF request[c] # "none" /\ outcome[c] = "none"
                              THEN status ELSE outcome[c]]

-----------------------------------------------------------------------------
(* ServerApplication.Run                                                   *)

Start ==
  /\ run = "start"
  /\ run' = "token"
  /\ server' = "serving"
  /\ UNCHANGED <<TerminateToken, terminateSource, request, handler, outcome>>

\* Mutant: the token is left to be made later.
MutantNoToken ==
  /\ run = "token"
  /\ run' = "source"
  /\ UNCHANGED <<server, TerminateToken, terminateSource, request, handler, outcome>>

CreateToken ==
  /\ run = "token"
  /\ run' = "source"
  /\ TerminateToken' = "live"
  /\ UNCHANGED <<server, terminateSource, request, handler, outcome>>

CreateCompletionSource ==
  /\ run = "source"
  /\ run' = "selfTest"
  /\ terminateSource' = "pending"
  /\ UNCHANGED <<server, TerminateToken, request, handler, outcome>>

\* The awaited SayHelloAsync to the server itself is answered.
SelfTestPasses ==
  /\ run = "selfTest"
  /\ run' = "polling"
  /\ UNCHANGED <<server, TerminateToken, terminateSource, request, handler, outcome>>

\* SayHelloAsync throws: Run faults, Wait in Main throws, the process ends.
SelfTestFails ==
  /\ run = "selfTest"
  /\ run' = "failed"
  /\ EndCalls("unavailable")
  /\ UNCHANGED <<server, TerminateToken, terminateSource, request, handler>>

\* Mutant: the loop polls for the end of the server instead of the token.
MutantPollTerminated ==
  /\ run = "polling"
  /\ terminateSource = "completed"
  /\ run' = "killing"
  /\ server' = "killed"
  /\ EndCalls("cancelled")
  /\ UNCHANGED <<TerminateToken, terminateSource, request, handler>>

\* Mutant: the loop runs while the token is cancelled, not until it is.
MutantPollInverted ==
  /\ run = "polling"
  /\ TerminateToken # "cancelled"
  /\ run' = "killing"
  /\ server' = "killed"
  /\ EndCalls("cancelled")
  /\ UNCHANGED <<TerminateToken, terminateSource, request, handler>>

\* Mutant: the result is set before KillAsync is awaited.
MutantResultBeforeKill ==
  /\ run = "polling"
  /\ TerminateToken = "cancelled"
  /\ run' = "killing"
  /\ terminateSource' = "completed"
  /\ UNCHANGED <<TerminateToken, server, request, handler, outcome>>

\* Mutant: a shutdown that leaves the calls in progress alone.
MutantKillForgetsCalls ==
  /\ run = "polling"
  /\ TerminateToken = "cancelled"
  /\ run' = "killing"
  /\ server' = "killed"
  /\ UNCHANGED <<TerminateToken, terminateSource, request, handler, outcome>>

\* The polling loop ends, and KillAsync is called.
Kill ==
  /\ run = "polling"
  /\ TerminateToken = "cancelled"
  /\ run' = "killing"
  /\ server' = "killed"
  /\ EndCalls("cancelled")
  /\ UNCHANGED <<TerminateToken, terminateSource, request, handler>>

KillEnds ==
  /\ run = "killing"
  /\ run' = "setResult"
  /\ UNCHANGED <<server, TerminateToken, terminateSource, request, handler, outcome>>

SetResult ==
  /\ run = "setResult"
  /\ terminateSource = "pending"
  /\ terminateSource' = "completed"
  /\ run' = "finished"
  /\ UNCHANGED <<server, TerminateToken, request, handler, outcome>>

RunNext ==
  \/ Start \/ CreateToken \/ CreateCompletionSource \/ SelfTestPasses \/ SelfTestFails
  \/ Kill \/ KillEnds \/ SetResult

-----------------------------------------------------------------------------
(* Clients and the handlers of their calls.                                *)

\* A client calls; only a serving server accepts.
Call(c) ==
  /\ ~ProcessEnded
  /\ request[c] = "none"
  /\ \E r \in Requests : request' = [request EXCEPT ![c] = r]
  /\ IF server = "serving"
       THEN /\ handler' = [handler EXCEPT ![c] = "entered"]
            /\ UNCHANGED outcome
       ELSE /\ outcome' = [outcome EXCEPT ![c] = "unavailable"]
            /\ UNCHANGED handler
  /\ UNCHANGED <<run, server, TerminateToken, terminateSource>>

\* The handler of c ends and answers `status', if the call is still there.
Answer(c, end, status) ==
  /\ handler' = [handler EXCEPT ![c] = end]
  /\ outcome' = [outcome EXCEPT ![c] = IF @ = "none" THEN status ELSE @]

Entered(c, requests) ==
  /\ ~ProcessEnded
  /\ handler[c] = "entered"
  /\ request[c] \in requests

SayHello(c) ==
  /\ Entered(c, {"SayHello"})
  /\ Answer(c, "returned", "reply")
  /\ UNCHANGED <<run, server, TerminateToken, terminateSource, request>>

\* The generated base methods throw RpcException(Unimplemented).
Load(c) ==
  /\ Entered(c, {"LoadAssemblySource", "LoadDataSource"})
  /\ Answer(c, "faulted", "unimplemented")
  /\ UNCHANGED <<run, server, TerminateToken, terminateSource, request>>

\* Mutant: the token is disposed of.
MutantDisposeToken(c) ==
  /\ Entered(c, {"Terminate"})
  /\ TerminateToken # "null"
  /\ TerminateToken' = "disposed"
  /\ handler' = [handler EXCEPT ![c] = "waiting"]
  /\ UNCHANGED <<run, server, terminateSource, request, outcome>>

\* Terminate cancels the token, and waits.
CancelToken(c) ==
  /\ Entered(c, {"Terminate"})
  /\ TerminateToken # "null"
  /\ TerminateToken' = "cancelled"
  /\ handler' = [handler EXCEPT ![c] = "waiting"]
  /\ UNCHANGED <<run, server, terminateSource, request, outcome>>

\* Terminate before Run has made the token: a null reference.
TokenIsNull(c) ==
  /\ Entered(c, {"Terminate"})
  /\ TerminateToken = "null"
  /\ Answer(c, "faulted", "unknown")
  /\ UNCHANGED <<run, server, TerminateToken, terminateSource, request>>

IsServerTerminated == terminateSource = "completed"

\* Terminate leaves its loop: the process may have a little time left for it.
ReturnTerminateReply(c) ==
  /\ handler[c] = "waiting"
  /\ IsServerTerminated
  /\ Answer(c, "returned", "reply")
  /\ UNCHANGED <<run, server, TerminateToken, terminateSource, request>>

HandlerNext(c) ==
  SayHello(c) \/ Load(c) \/ CancelToken(c) \/ TokenIsNull(c) \/ ReturnTerminateReply(c)

Next == RunNext \/ \E c \in Calls : Call(c) \/ HandlerNext(c)

Spec == Init /\ [][Next]_vars

\* Run and every handler run on (the pool starts further workers while some are
\* blocked); clients need not call.
FairSpec == Spec /\ WF_vars(RunNext) /\ \A c \in Calls : WF_vars(HandlerNext(c))

-----------------------------------------------------------------------------
(* Properties.                                                             *)

TypeOK ==
  /\ run \in Points
  /\ server \in {"new", "serving", "killed"}
  /\ TerminateToken \in {"null", "live", "cancelled"}
  /\ terminateSource \in {"null", "pending", "completed"}
  /\ request \in [Calls -> Requests \cup {"none"}]
  /\ handler \in [Calls -> {"none", "entered", "waiting", "returned", "faulted"}]
  /\ outcome \in [Calls -> {"none", "reply", "unimplemented", "unknown", "cancelled",
                           "unavailable"}]

\* The server is killed only when a client has asked for it, through a handler
\* that found the token of this run.
KilledOnRequest ==
  server = "killed" =>
    \E c \in Calls : request[c] = "Terminate" /\ handler[c] \in {"waiting", "returned"}

\* What IsServerTerminated tells the waiting handlers: the server accepts no
\* call any more and none is in progress.
AnnouncedWhenOver ==
  IsServerTerminated =>
    /\ server = "killed"
    /\ \A c \in Calls : request[c] # "none" => outcome[c] # "none"

\* Start precedes the assignment of the token, so a Terminate may meet a null
\* token; but only before Run has come to its self test.
TokenMissingOnlyAtStart ==
  [][\A c \in Calls : handler'[c] = "faulted" /\ handler[c] # "faulted"
                        /\ request[c] = "Terminate" => run = "token"]_vars

\* A cancelled token brings the process to its end: Run does not wait for the
\* handlers that wait for it, and the self test does not lose the request.
TerminationCompletes == TerminateToken = "cancelled" ~> ProcessEnded

\* Every call a client makes ends for the client, whatever it races with.
EveryCallEnds == \A c \in Calls : request[c] # "none" ~> outcome[c] # "none"

\* StadService.proto: "rpc Terminate (TerminateRequest) returns (TerminateReply)".
\* A client whose Terminate was carried out gets the reply of its handler.
TerminateIsAnswered ==
  \A c \in Calls : request[c] = "Terminate" /\ handler[c] \in {"waiting", "returned"}
                     => outcome[c] \in {"none", "reply"}
=============================================================================
