----------------------------- MODULE Ownership -----------------------------
(***************************************************************************)
(* What the server promises about the pool, without searches, caches,      *)
(* mutexes and LXD operations: an instance gets one owner, once and for    *)
(* ever, and runs the setup scripts of its owner only.                     *)
(***************************************************************************)
CONSTANTS Instances, Runners, NoRunner

VARIABLES
  owner,      \* the runner an instance belongs to
  serving     \* the runners whose setup script was started in the instance

vars == <<owner, serving>>

Init ==
  /\ owner = [i \in Instances |-> NoRunner]
  /\ serving = [i \in Instances |-> {}]

Claim(i, r) ==
  /\ owner[i] = NoRunner
  /\ owner' = [owner EXCEPT ![i] = r]
  /\ UNCHANGED serving

Serve(i) ==
  /\ owner[i] # NoRunner
  /\ serving' = [serving EXCEPT ![i] = @ \cup {owner[i]}]
  /\ UNCHANGED owner

Next ==
  \E i \in Instances :
    \/ \E r \in Runners : Claim(i, r)
    \/ Serve(i)

Spec == Init /\ [][Next]_vars
============================================================================
