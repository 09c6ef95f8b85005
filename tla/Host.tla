-------------------------------- MODULE Host --------------------------------
(***************************************************************************)
(* The machine: the process that Deploy starts, replaces and loses, with   *)
(* the rate limiter of Limiter in its memory.  The limiter serves exactly  *)
(* while the process is up, whichever release it is, and begins empty      *)
(* every time (cmd/nefix/main.go, newLimiter in http/router.go).           *)
(***************************************************************************)
EXTENDS Deploy, Limiter

hostVars == <<deployVars, limiterVars>>

HostInit == DeployInit /\ LimiterInit

\* What a step of the machine does to the memory of the process.
Memory ==
  CASE process'.state = "up" /\ ~serving -> Started
    [] process'.state # "up" /\ serving  -> Stopped
    [] OTHER                             -> UNCHANGED limiterVars

\* New(ctx, ...) once per process; the requests of clients change nothing else.
MachineStep(step) == step /\ Memory
ClientStep ==
  /\ (\E c \in Clients : Allowed(c) \/ TooMany(c)) \/ Sweep \/ Tick
  /\ UNCHANGED deployVars

HostNext == MachineStep(DeployNext) \/ ClientStep

HostSpec ==
  /\ HostInit /\ [][HostNext]_hostVars
  /\ WF_hostVars(MachineStep(ProcessStep))
  /\ WF_hostVars(MachineStep(ScriptStep))
=============================================================================
