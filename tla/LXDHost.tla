------------------------------ MODULE LXDHost ------------------------------
(***************************************************************************)
(* The instances that live on the LXD hosts, as the LXD API shows them.    *)
(* LXD is not part of the repository: every action here is external and is *)
(* modelled from how the server (server/pkg/api) and the pool agent        *)
(* (pool-agent/cmd) call it and from the errors they expect of it.         *)
(*                                                                         *)
(* Names are random (agent.go, generateInstanceName), so an instance name  *)
(* is never used twice: a name is "Unborn", then lives, then is "Gone".    *)
(* The config of an instance is reduced to the key that the server writes, *)
(* user.myshoes_runner_name, and to its kind: the pair of keys resource    *)
(* type and image alias that the agent fixes when it creates the instance. *)
(***************************************************************************)
CONSTANTS
  Hosts,      \* the LXD hosts of the cluster
  Instances,  \* every instance name that will ever be used
  HostOf,     \* [Instances -> Hosts]: where the instance is created
  Kinds,      \* pairs (resource type, image alias)
  KindOf,     \* [Instances -> Kinds]: what the instance is created as
  Runners,    \* myshoes runner names, the values of user.myshoes_runner_name
  NoRunner,   \* the key user.myshoes_runner_name is absent
  NotFrozen   \* in a list of instances: elsewhere, in another state, or none

ASSUME HostOfType == HostOf \in [Instances -> Hosts]
ASSUME KindOfType == KindOf \in [Instances -> Kinds]
ASSUME NoRunnerFresh == NoRunner \notin Runners
ASSUME NotFrozenFresh == NotFrozen \notin Runners \cup {NoRunner}

VARIABLES
  status,     \* what GetInstanceState would say of the name
  runner      \* config key user.myshoes_runner_name, kept after the instance is gone

hostVars == <<status, runner>>

Statuses == {"Unborn", "Stopped", "Running", "Frozen", "Gone"}

HostTypeOK ==
  /\ status \in [Instances -> Statuses]
  /\ runner \in [Instances -> Runners \cup {NoRunner}]

(* A pool that the agents have filled with frozen instances, or have not. *)
HostInit ==
  /\ status \in [Instances -> {"Unborn", "Frozen"}]
  /\ runner = [i \in Instances |-> NoRunner]

Exists(i) == status[i] \in {"Stopped", "Running", "Frozen"}

(* The answer of GetInstances, as far as the server's searches tell its     *)
(* entries apart: the frozen instances of the host with their runner names. *)
ViewOf(h) ==
  [i \in Instances |->
     IF HostOf[i] = h /\ status[i] = "Frozen" THEN runner[i] ELSE NotFrozen]

Views == [Instances -> Runners \cup {NoRunner, NotFrozen}]
----------------------------------------------------------------------------
(* What others than the request handlers do to an instance. *)

(* The agent creates an instance, then starts it. *)
Create(i) ==
  /\ status[i] = "Unborn"
  /\ status' = [status EXCEPT ![i] = "Stopped"]
  /\ UNCHANGED runner

Start(i) ==
  /\ status[i] = "Stopped"
  /\ status' = [status EXCEPT ![i] = "Running"]
  /\ UNCHANGED runner

(* Both, for whom the difference does not matter. *)
Boot(i) ==
  /\ status[i] = "Unborn"
  /\ status' = [status EXCEPT ![i] = "Running"]
  /\ UNCHANGED runner

(* The agent freezes what it has just booted; nothing else freezes. *)
Freeze(i) ==
  /\ status[i] = "Running"
  /\ runner[i] = NoRunner
  /\ status' = [status EXCEPT ![i] = "Frozen"]
  /\ UNCHANGED runner

(* A job ends, myshoes or an agent stops the instance, an operator does. *)
Stop(i) ==
  /\ status[i] \in {"Running", "Frozen"}
  /\ status' = [status EXCEPT ![i] = "Stopped"]
  /\ UNCHANGED runner

(* LXD deletes stopped instances only. *)
Delete(i) ==
  /\ status[i] = "Stopped"
  /\ status' = [status EXCEPT ![i] = "Gone"]
  /\ UNCHANGED runner

(* Freezing again an instance that was thawed happens to no owned instance: *)
(* the unfreeze of the server is the only way out of "Frozen" but for Stop. *)
Unfreeze(i) ==
  /\ status[i] = "Frozen"
  /\ status' = [status EXCEPT ![i] = "Running"]
  /\ UNCHANGED runner

(* An accepted config update is executed.  It writes the config the client  *)
(* sent, whatever the config is by now (canonical/lxd issue 12189).         *)
WriteRunner(i, r) ==
  /\ Exists(i)
  /\ runner' = [runner EXCEPT ![i] = r]
  /\ UNCHANGED status

Environment == \E i \in Instances : Boot(i) \/ Freeze(i) \/ Stop(i) \/ Delete(i)
============================================================================
