---------------------------- MODULE ConsoleProcess ----------------------------
(* console-api's processes (src/console/console-api/src/index.ts), any number *)
(* of which share one PostgreSQL: boot, an orderly stop, a forced exit, and   *)
(* death.  The modules of its background jobs extend this one.                *)
EXTENDS Naturals

CONSTANTS Instance,     \* the processes
          MaxBoots      \* bound: boots of all of them together

ASSUME ProcessAssumption == MaxBoots \in Nat

VARIABLES up,           \* "down", "up", or "stopping": in the callback of server.close
          boots

process == <<up, boots>>

InitProcess == up = [i \in Instance |-> "down"] /\ boots = 0

BootProcess(i) ==
  /\ up[i] = "down" /\ boots < MaxBoots
  /\ up' = [up EXCEPT ![i] = "up"]
  /\ boots' = boots + 1

\* shutdown, from the moment every connection is closed: pool.end waits for the
\* clients in use and gives out no more.
StopProcess(i) ==
  /\ up[i] = "up"
  /\ up' = [up EXCEPT ![i] = "stopping"]
  /\ UNCHANGED boots

\* The exit after pool.end, the forced one after five seconds, or a crash.
EndProcess(i) ==
  /\ up[i] # "down"
  /\ up' = [up EXCEPT ![i] = "down"]
  /\ UNCHANGED boots

ProcessTypeOK == up \in [Instance -> {"down", "up", "stopping"}] /\ boots \in 0 .. MaxBoots
=============================================================================
