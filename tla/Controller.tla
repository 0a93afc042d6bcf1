----------------------------- MODULE Controller -----------------------------
(***************************************************************************)
(* Two x-pdb processes: the callers of one of them, handlers of webhook    *)
(* requests that get their clients from its pools (ClientPools), and the   *)
(* other one, whose state server answers the state calls (StateServer).    *)
(* Probe calls go to a workload's probe, of which only the answer is       *)
(* modelled.  A gRPC call has a deadline, and a client keeps a connection  *)
(* to its server once it has one.                                          *)
(***************************************************************************)
EXTENDS ClientPools, StateServer, Sequences

CONSTANT Flags  \* the values of --remote-endpoints, split at the commas

VARIABLES
  endpoints,  \* the endpoints of the calling process
  conns       \* the clients that have a connection to the state server

controllerVars == <<poolVars, serverVars, endpoints, conns>>

ASSUME CallerAssumption == Call = Caller

\* A part of the flag is an endpoint or has nothing but white space in it.
ASSUME FlagsAssumption == \A flag \in Flags : flag \in Seq(Key \cup {"", " "})

TrimSpace(part) == IF part = " " THEN "" ELSE part

\* A variant of ParseEndpoints that accepts empty parts.
ParseEndpointsLenient(flag) ==
  [endpoints |-> [i \in DOMAIN flag |-> TrimSpace(flag[i])], failed |-> FALSE]

\* parseEndpoints: an empty flag means no endpoints, an empty part is an error, and
\* main does not look at the rest then.  Endpoints that are listed twice stay twice.
ParseEndpoints(flag) ==
  LET trimmed == [i \in DOMAIN flag |-> TrimSpace(flag[i])]
      empty   == flag = <<"">>
      failed  == ~ empty /\ \E i \in DOMAIN flag : trimmed[i] = ""
  IN  [endpoints |-> IF empty \/ failed THEN << >> ELSE trimmed, failed |-> failed]

\* The calling process is up: its endpoints have been parsed.
CInit ==
  /\ PInit
  /\ SInit
  /\ \E flag \in Flags :
       /\ ~ ParseEndpoints(flag).failed
       /\ endpoints = ParseEndpoints(flag).endpoints
  /\ conns = {}

\* A handler calls the state servers in its list, and the probe of a budget.
Asks(g) ==
  /\ key[g] \notin ProbeKey => \E i \in DOMAIN endpoints : endpoints[i] = key[g]
  /\ Ask(g)

-----------------------------------------------------------------------------
\* The server takes the call: on the client's connection, or on one that Serve
\* still accepts.
CallArrives(g) ==
  /\ key[g] \notin ProbeKey
  /\ gpc[g] = "call"
  /\ srv \in {"select", "lost"}
  /\ proc # "exited"
  /\ got[g] \in conns \/ accept = "accepting"
  /\ conns' = conns \cup {got[g]}
  /\ Leave(g, "waiting")
  /\ HandlerStarts(g)
  /\ UNCHANGED endpoints

\* The handler ends, and the caller gets the answer if it still waits for it.
CallEnds(g) ==
  /\ key[g] \notin ProbeKey
  /\ HandlerEnds(g)
  /\ \/ gpc[g] = "waiting" /\ Leave(g, "answered")
     \/ gpc[g] # "waiting" /\ UNCHANGED poolVars
  /\ UNCHANGED <<endpoints, conns>>

\* The deadline of the call passes, or the connection fails; the handler, if
\* there is one, does not learn of it.
CallFails(g) ==
  /\ Leave(g, "failed")
  /\ UNCHANGED <<serverVars, endpoints, conns>>

\* disruptionprobe's CanPodBeDisrupted gets a response: an error text, or the
\* probe's verdict.
ProbeAnswers(g) ==
  /\ key[g] \in ProbeKey
  /\ gpc[g] = "call"
  /\ \E failed, allowed \in BOOLEAN :
       Leave(g, IF failed THEN "failed" ELSE IF allowed THEN "answered" ELSE "denied")
  /\ UNCHANGED <<serverVars, endpoints, conns>>

\* GracefulStop tells the clients to go away, and an exit closes what is left.
ServerStep ==
  /\ StartStep \/ ManagerStep \/ OutsideStep
  /\ conns' = IF srv' = "draining" \/ proc' = "exited" THEN {} ELSE conns
  /\ UNCHANGED <<poolVars, endpoints>>

PoolStep ==
  /\ FilesChange \/ \E g \in Caller : Asks(g) \/ GetStep(g) \/ WatcherStep(g)
  /\ UNCHANGED <<serverVars, endpoints, conns>>

\* The process is gone and no call is under way.
CQuiescent ==
  /\ proc = "exited"
  /\ \A g \in Caller : gpc[g] \in {"idle"} \cup Returned
  /\ UNCHANGED controllerVars

CNext ==
  \/ PoolStep
  \/ ServerStep
  \/ \E g \in Caller : CallArrives(g) \/ CallEnds(g) \/ CallFails(g) \/ ProbeAnswers(g)
  \/ CQuiescent

CSpec == CInit /\ [][CNext]_controllerVars

\* Goroutines run on, timers fire, and handlers end unless they hang.  Nothing
\* obliges a caller to come, a file to change, Serve to fail or a signal to be
\* sent; and nothing obliges Start to fail, nor a watcher to do anything.
CFairness ==
  /\ \A g \in Caller :
       /\ WF_controllerVars(GetStep(g) /\ UNCHANGED <<serverVars, endpoints, conns>>)
       /\ WF_controllerVars(CallFails(g))
  /\ \A g \in Caller \ HangCall : WF_controllerVars(CallEnds(g))
  /\ WF_controllerVars(ServerStep /\ (StartStep \/ ManagerStep))

CFairSpec == CSpec /\ CFairness

-----------------------------------------------------------------------------
\* Type correctness.
CTypeOK ==
  /\ PTypeOK
  /\ proc \in {"setup", "running", "stopping", "exited"}
  /\ exit \in {"none", "ok", "error"}
  /\ cause \in {"none", "signal", "error"}
  /\ srv \in {"off", "select", "draining", "returned", "lost", "failed"} \cup StartUp
  /\ accept \in {"none", "accepting", "broken", "ended"}
  /\ handler \in [Call -> {"none", "running", "finished", "killed"}]
  /\ conns \subseteq Caller
  /\ endpoints \in Seq(Key)

\* A process that ends with status 0 has finished every call it had taken, unless
\* Serve had failed before: only a handler that outlasts the grace period, a
\* second signal or an error cuts a call off.  A caller whose Lock is cut off
\* does not know whether it has the lease.
CleanExitFinishesCalls ==
  exit = "ok" /\ srv # "lost" => \A g \in Call : handler[g] # "killed"

\* What TLAPS proves inductive for it: handlers run only while the server serves
\* or drains, and are killed only by the exit.
ServerInv ==
  /\ proc = "setup" => srv = "off"
  /\ srv \notin {"select", "lost", "draining"} => \A g \in Call : handler[g] # "running"
  /\ proc # "exited" => exit = "none" /\ \A g \in Call : handler[g] # "killed"
  /\ CleanExitFinishesCalls

\* Every call returns, whatever happens to the files, to the server and to the
\* other callers, and whatever the handler does.
EveryCallReturns ==
  \A g \in Caller : gpc[g] # "idle" ~> gpc[g] \in Returned

\* A process that was asked to stop exits, even if a handler of its state server
\* hangs.
ShutdownEnds == proc = "stopping" ~> proc = "exited"

\* A state server that cannot start takes its process down, with status 1 so that
\* it is restarted, unless it had been asked to stop.
FailedStartIsFatal ==
  srv = "failed" ~> exit = "error" \/ (exit = "ok" /\ cause = "signal")
=============================================================================
