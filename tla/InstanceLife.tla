---------------------------- MODULE InstanceLife ----------------------------
(***************************************************************************)
(* What the server and the agents together make of an instance, without    *)
(* lists, mutexes, loops and LXD operations: it is made, waits in the pool, *)
(* gets one owner, is thawed for it, and goes; never does it wait a second *)
(* time, and never is it claimed while it is being made.                   *)
(***************************************************************************)
CONSTANTS Instances, Runners, NoRunner

VARIABLES
  phase,      \* how far the life of an instance is
  owner       \* the runner it belongs to, also when it is gone

vars == <<phase, owner>>

Phases == {"unborn", "making", "pooled", "claimed", "serving", "down", "gone"}

Init ==
  /\ phase \in [Instances -> {"unborn", "pooled"}]
  /\ owner = [i \in Instances |-> NoRunner]

Advance(i, from, to) ==
  /\ phase[i] \in from
  /\ phase' = [phase EXCEPT ![i] = to]
  /\ UNCHANGED owner

Create(i) == Advance(i, {"unborn"}, "making")
Offer(i) == Advance(i, {"making"}, "pooled")
Thaw(i) == Advance(i, {"claimed"}, "serving")
Stop(i) == Advance(i, {"making", "pooled", "claimed", "serving"}, "down")
Delete(i) == Advance(i, {"making", "down"}, "gone")

(* The server looks at the owner only: the instance may be stopped by then. *)
Claim(i, r) ==
  /\ owner[i] = NoRunner
  /\ phase[i] \in {"pooled", "down"}
  /\ owner' = [owner EXCEPT ![i] = r]
  /\ phase' = [phase EXCEPT ![i] = IF @ = "pooled" THEN "claimed" ELSE @]

(* What the calls of the server may do to an instance; and the agents, the   *)
(* jobs and the operators.                                                   *)
ServerPart(i) ==
  \/ \E r \in Runners : Claim(i, r)
  \/ Thaw(i)
  \/ owner[i] # NoRunner /\ Delete(i)

OthersPart(i) == Create(i) \/ Offer(i) \/ Stop(i) \/ Delete(i)

Next == \E i \in Instances : ServerPart(i) \/ OthersPart(i)

Spec == Init /\ [][Next]_vars
============================================================================
