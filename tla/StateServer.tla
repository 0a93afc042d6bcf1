---------------------------- MODULE StateServer -----------------------------
(***************************************************************************)
(* The life of an x-pdb process and of its state server: main of           *)
(* cmd/controller, the part of the controller-runtime manager that main    *)
(* relies on, and Server.Start of internal/state/server with the goroutine *)
(* that runs grpc's Serve.                                                 *)
(*                                                                         *)
(* The manager runs Start as its last runnable.  A runnable that returns   *)
(* an error stops the manager and makes the process exit with status 1; a  *)
(* runnable that returns nil is forgotten.  On a signal the manager        *)
(* cancels Start's context, and waits for it within a grace period.        *)
(***************************************************************************)
CONSTANTS
  Call,      \* the calls that may be made to the server
  HangCall   \* the calls whose handler may never end

ASSUME CallAssumption == HangCall \subseteq Call

VARIABLES
  proc,     \* the process: "setup", "running", "stopping" or "exited"
  exit,     \* how it exited: "none", "ok" (status 0) or "error" (status 1)
  cause,    \* why it stops: "none", "signal" or "error"
  srv,      \* where Start is
  accept,   \* the Serve goroutine: "none", "accepting", "broken" or "ended"
  handler   \* handler[g]: "none", "running", "finished" or "killed"

serverVars == <<proc, exit, cause, srv, accept, handler>>

StartUp == {"listen", "pair", "ca"}

SInit ==
  /\ proc = "setup"
  /\ exit = "none"
  /\ cause = "none"
  /\ srv = "off"
  /\ accept = "none"
  /\ handler = [g \in Call |-> "none"]

-----------------------------------------------------------------------------
\* The process is gone, and with it the handlers that were still at work.
Exit(status) ==
  /\ proc' = "exited"
  /\ exit' = status
  /\ handler' = [g \in Call |-> IF handler[g] = "running" THEN "killed" ELSE handler[g]]

\* main up to mgr.Start: no Kubernetes configuration, a manager, client or runnable
\* that cannot be made, or endpoints that do not parse.
SetUpFails ==
  /\ proc = "setup"
  /\ Exit("error")
  /\ UNCHANGED <<cause, srv, accept>>

\* mgr.Start: with everything else up, the state server's Start is called.
SetUp ==
  /\ proc = "setup"
  /\ proc' = "running"
  /\ srv' = "listen"
  /\ UNCHANGED <<exit, cause, accept, handler>>

\* The port is taken, or a certificate file cannot be read or parsed.
StartFails ==
  /\ proc # "exited"
  /\ srv \in StartUp
  /\ srv' = "failed"
  /\ UNCHANGED <<proc, exit, cause, accept, handler>>

\* net.Listen, certwatcher.New, the CA; then Serve runs in its own goroutine and
\* Start waits in its select.
StartGoesOn ==
  /\ proc # "exited"
  /\ srv \in StartUp
  /\ srv' = CASE srv = "listen" -> "pair" [] srv = "pair" -> "ca" [] srv = "ca" -> "select"
  /\ accept' = IF srv = "ca" THEN "accepting" ELSE accept
  /\ UNCHANGED <<proc, exit, cause, handler>>

\* Accept fails for good, Serve returns the error, and the goroutine offers it to
\* the select.
ServeBreaks ==
  /\ accept = "accepting"
  /\ proc # "exited"
  /\ accept' = "broken"
  /\ UNCHANGED <<proc, exit, cause, srv, handler>>

\* The select receives Serve's error.  What Start then returns is the err of its
\* own scope, which is nil, and the manager takes it for a normal end.  The server
\* is not stopped: connections it has are served on.
SelectError ==
  /\ proc # "exited"
  /\ srv = "select"
  /\ accept = "broken"
  /\ srv' = "lost"
  /\ accept' = "ended"
  /\ UNCHANGED <<proc, exit, cause, handler>>

\* A variant of SelectDone in which the context is not the manager's.
SelectDoneLate ==
  /\ srv = "select"
  /\ proc = "exited"
  /\ srv' = "draining"
  /\ accept' = IF accept = "accepting" THEN "ended" ELSE accept
  /\ UNCHANGED <<proc, exit, cause, handler>>

\* The select sees the context done: GracefulStop begins.  Serve returns nil; if
\* it had failed before, its goroutine stays blocked on the channel.
SelectDone ==
  /\ srv = "select"
  /\ proc = "stopping"
  /\ srv' = "draining"
  /\ accept' = IF accept = "accepting" THEN "ended" ELSE accept
  /\ UNCHANGED <<proc, exit, cause, handler>>

\* A variant of Drained in which the server is stopped without waiting for the handlers.
DrainedAtOnce ==
  /\ proc # "exited"
  /\ srv = "draining"
  /\ srv' = "returned"
  /\ UNCHANGED <<proc, exit, cause, accept, handler>>

\* GracefulStop returns when no handler is at work any more.
Drained ==
  /\ proc # "exited"
  /\ srv = "draining"
  /\ \A g \in Call : handler[g] # "running"
  /\ srv' = "returned"
  /\ UNCHANGED <<proc, exit, cause, accept, handler>>

-----------------------------------------------------------------------------
\* The signal handler cancels the manager's context.
Signal ==
  /\ proc = "running"
  /\ proc' = "stopping"
  /\ cause' = "signal"
  /\ UNCHANGED <<exit, srv, accept, handler>>

\* The manager receives the error of the state server and stops the others.
RunnableFailed ==
  /\ proc = "running"
  /\ srv = "failed"
  /\ proc' = "stopping"
  /\ cause' = "error"
  /\ UNCHANGED <<exit, srv, accept, handler>>

\* It receives the error of another runnable: the webhook server or a cache.
OtherRunnableFails ==
  /\ proc = "running"
  /\ proc' = "stopping"
  /\ cause' = "error"
  /\ UNCHANGED <<exit, srv, accept, handler>>

\* A variant of ManagerReturns in which main does not look at the error.
ManagerReturnsOk ==
  /\ proc = "stopping"
  /\ srv \in {"returned", "lost", "failed"}
  /\ Exit("ok")
  /\ UNCHANGED <<cause, srv, accept>>

\* mgr.Start returns when every runnable has ended: the error that stopped it, or
\* nil after a signal.  An error that comes later is only logged.
ManagerReturns ==
  /\ proc = "stopping"
  /\ srv \in {"returned", "lost", "failed"}
  /\ Exit(IF cause = "error" THEN "error" ELSE "ok")
  /\ UNCHANGED <<cause, srv, accept>>

\* The grace period is over: it is longer than anything that ends takes, so that
\* what keeps Start is a handler that hangs.
GraceExpires ==
  /\ proc = "stopping"
  /\ srv = "draining"
  /\ \E g \in HangCall : handler[g] = "running"
  /\ Exit("error")
  /\ UNCHANGED <<cause, srv, accept>>

\* A second signal ends the process at once.
SecondSignal ==
  /\ proc = "stopping"
  /\ cause = "signal"
  /\ Exit("error")
  /\ UNCHANGED <<cause, srv, accept>>

-----------------------------------------------------------------------------
\* A handler of the state service starts.
HandlerStarts(g) ==
  /\ handler[g] = "none"
  /\ handler' = [handler EXCEPT ![g] = "running"]
  /\ UNCHANGED <<proc, exit, cause, srv, accept>>

\* It ends: Lock, Unlock and GetState all answer, with a result or an error.
HandlerEnds(g) ==
  /\ handler[g] = "running"
  /\ handler' = [handler EXCEPT ![g] = "finished"]
  /\ UNCHANGED <<proc, exit, cause, srv, accept>>

\* The steps that Start and the manager take by themselves.
StartStep == StartFails \/ StartGoesOn \/ SelectError \/ SelectDone \/ Drained

ManagerStep == RunnableFailed \/ ManagerReturns \/ GraceExpires

\* The steps that nothing obliges to happen.
OutsideStep ==
  SetUpFails \/ SetUp \/ ServeBreaks \/ Signal \/ OtherRunnableFails \/ SecondSignal
=============================================================================
