-------------------------- MODULE HostPipeMonitor ---------------------------
(***************************************************************************)
(* The states of HostPipe as states of SessionMonitor.  A host counts as   *)
(* bootstrapped when the bootstrap is in its pipe, and a handshake as      *)
(* successful when the acknowledgement is.  The instance of SessionMonitor *)
(* and the steps in it are in HostPipeProofs.                              *)
(***************************************************************************)
EXTENDS HostPipe

BootstrapSent(g) == \E i \in DOMAIN toHost[g] : toHost[g][i] = "bootstrap"

MonitorHost(g) ==
    CASE host[g] = "started" -> "launched"
      [] host[g] = "opened" -> "connected"
      [] host[g] \in {"requested", "accepted"} -> IF BootstrapSent(g) THEN "bootstrapped" ELSE "connected"
      [] host[g] \in {"bootstrapped", "stored", "chosen"} -> "bootstrapped"
      [] OTHER -> host[g]

MonitorAuth(g) ==
    IF auth[g] = "none" THEN "none"
    ELSE IF auth[g] = "ended" THEN "closed"
    ELSE IF auth[g] \in {"ack", "done"} /\ toService[g] # << >> THEN "ok"
    ELSE IF client[g] = "host" THEN "talking" ELSE "connecting"

MonitorActor(k) ==
    IF k[1] # k[2] \/ actors[k[1]] = None THEN None
    ELSE [generation |-> actors[k[1]].generation, state |-> actors[k[1]].state, rejectNewOpens |-> FALSE,
          diagnostic |-> actors[k[1]].state = "Failed"]

MonitorOwner(g) == IF host[g] = "none" THEN None ELSE <<owner[g], owner[g]>>

MonitorLogon == IF step = "wait" THEN logon ELSE None

\* What the steps in SessionMonitor need besides the invariant of HostPipe:
\* the user of a logon has no actor and its generation is the next one, every
\* generation with a user has a host or is the one the logon works on, and a
\* thread that is to write the bootstrap has not written it.
LaunchIsNext ==
    /\ logged \subseteq Generation
    /\ logon # None =>
          actors[owner[logon]] = None /\ \A e \in Generation : e < logon => owner[e] # None
    /\ \A g \in Generation :
          /\ owner[g] # None /\ logon # g => host[g] # "none"
          /\ auth[g] = "bootstrap" => host[g] \in {"requested", "accepted", "exited"} /\ ~BootstrapSent(g)
=============================================================================
