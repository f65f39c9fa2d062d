----------------------------- MODULE PoolAgent -----------------------------
(***************************************************************************)
(* The pool agent of one LXD host (pool-agent/cmd): a single loop that at  *)
(* every tick lists the instances once, decides from that list what to     *)
(* delete and how many to create, then deletes, then creates, one LXD call *)
(* after the other.  The server claims and thaws instances meanwhile.      *)
(*                                                                         *)
(* A kind is a pair <<image, resource type>>.  An image is what an alias    *)
(* names; a config file has it under a key, and another file can have       *)
(* another image under the same key.  No alias is named under two keys.     *)
(* Of LXDHost, Hosts is the host of the agent.                              *)
(***************************************************************************)
EXTENDS LXDHost, Naturals, FiniteSets

CONSTANTS
  Images,     \* images of the config files, by alias
  KeyOf,      \* the key that the config files have an image under
  Types,      \* resource type names
  Configs,    \* config files: partial functions from Images to counts
  CountWithoutRunning,  \* the feature flag
  MaxVersion, \* bound: versions of an image that are ever published
  MaxCrashes, \* bound: how often the agent stops
  NoInst      \* no instance in work

Counts == [Types -> Nat]

ASSUME KindsType == Kinds = Images \X Types
ASSUME ConfigsType ==
  \A c \in Configs :
    /\ DOMAIN c \in SUBSET Images /\ c \in [DOMAIN c -> Counts]
    /\ \A m, n \in DOMAIN c : KeyOf[m] = KeyOf[n] => m = n
ASSUME FlagType == CountWithoutRunning \in BOOLEAN
ASSUME BoundsType == MaxVersion \in Nat \ {0} /\ MaxCrashes \in Nat
ASSUME NoInstFresh == NoInst \notin Instances
ASSUME InstancesFinite == IsFiniteSet(Instances)

VARIABLES
  apc,        \* what the loop is doing
  config,     \* Image[...].Config of the images the agent knows
  current,    \* Image[...].Status.CurrentImage: version and creation time
  snap,       \* entries of the list that were not looked at yet
  toDelete,   \* <<instance, why>>
  toCreate,   \* createMap
  inWork,     \* the instance being deleted or created
  crashes,    \* how often the agent stopped
  base,       \* volatile.base_image: version of the image it was made from
  born,       \* CreatedAt
  published,  \* version that the alias of an image stands for
  horizon,    \* the time that lies ZombieAllowTime ago
  offered     \* history: instances that the server may have listed as frozen

agentVars == <<apc, config, current, snap, toDelete, toCreate, inWork, crashes>>
imageVars == <<base, born, published, horizon>>
vars == <<hostVars, agentVars, imageVars, offered>>

ImageOf(i) == KindOf[i][1]
TypeOf(i) == KindOf[i][2]

Reasons == {"zombie", "old", "disabled"}
Times == 0..Cardinality(Instances)
CreatedSoFar == Cardinality({i \in Instances : status[i] # "Unborn"})
NoCurrent == [hash |-> 0, at |-> 0]
Listed == {"Stopped", "Running", "Frozen"}

TypeOK ==
  /\ HostTypeOK
  /\ apc \in {"down", "idle", "scan", "delete", "remove", "create", "start",
              "boot"}
  /\ DOMAIN config \in SUBSET Images
  /\ config \in [DOMAIN config -> Counts]
  /\ current \in [Images -> [hash : 0..MaxVersion, at : Times]]
  /\ DOMAIN snap \in SUBSET Instances
  /\ snap \in [DOMAIN snap -> [status : Listed, owned : BOOLEAN]]
  /\ toDelete \in SUBSET (Instances \X Reasons)
  /\ toCreate \in [Kinds -> Nat]
  /\ inWork \in Instances \cup {NoInst}
  /\ crashes \in 0..MaxCrashes
  /\ base \in [Instances -> 0..MaxVersion]
  /\ born \in [Instances -> Times]
  /\ published \in [Images -> 1..MaxVersion]
  /\ horizon \in Times
  /\ offered \in SUBSET Instances

Nothing == [k \in Kinds |-> 0]
Empty == [i \in {} |-> 0]

(* newAgent: a config is read, and nothing is known of the images. *)
Init ==
  /\ status = [i \in Instances |-> "Unborn"]
  /\ runner = [i \in Instances |-> NoRunner]
  /\ apc = "idle"
  /\ config \in Configs
  /\ current = [m \in Images |-> NoCurrent]
  /\ snap = Empty
  /\ toDelete = {}
  /\ toCreate = Nothing
  /\ inWork = NoInst
  /\ crashes = 0
  /\ base = [i \in Instances |-> 0]
  /\ born = [i \in Instances |-> 0]
  /\ published = [m \in Images |-> 1]
  /\ horizon = 0
  /\ offered = {}
----------------------------------------------------------------------------
(* isPooledInstance, of the instance as it is now. *)
Pooled(i) ==
  IF CountWithoutRunning THEN status[i] = "Frozen"
                         ELSE status[i] \in {"Frozen", "Running"}

(* countPooledInstances *)
PooledCount(k) == Cardinality({i \in Instances : KindOf[i] = k /\ Pooled(i)})

(* ResourceTypesCounts of a kind; 0 stands also for a type that is not      *)
(* there, as CalculateCreateCount does not tell them apart.                 *)
Configured(k) == IF k[1] \in DOMAIN config THEN config[k[1]][k[2]] ELSE 0

(* Mutants of CreateCount: off by one, either way. *)
CreateOneMore(k) ==
  IF Configured(k) >= PooledCount(k) THEN Configured(k) - PooledCount(k) + 1 ELSE 0

CreateOneLess(k) ==
  IF Configured(k) > PooledCount(k) + 1 THEN Configured(k) - PooledCount(k) - 1 ELSE 0

(* CalculateCreateCount; a negative count creates nothing.  CreatingInstances *)
(* and deletingInstances are empty whenever the loop comes here.              *)
CreateCount(k) ==
  IF Configured(k) > PooledCount(k) THEN Configured(k) - PooledCount(k) ELSE 0

(* adjustInstancePool: GetInstances, and the counts of createMap. *)
Tick ==
  /\ apc = "idle"
  /\ apc' = "scan"
  /\ snap' = [i \in {j \in Instances : Exists(j) /\ ImageOf(j) \in DOMAIN config} |->
                [status |-> status[i], owned |-> runner[i] # NoRunner]]
  /\ toCreate' = [k \in Kinds |-> CreateCount(k)]
  /\ UNCHANGED <<hostVars, imageVars, offered,
                 config, current, toDelete, inWork, crashes>>

(* Mutants of IsZombie: claimed instances too, or running ones only. *)
IsZombieOwned(i) == snap[i].status # "Frozen" /\ born[i] <= horizon
IsZombieRunning(i) ==
  snap[i].status = "Running" /\ ~snap[i].owned /\ born[i] <= horizon

(* isZombieInstance; the age is that of the moment, not of the list. *)
IsZombie(i) ==
  /\ snap[i].status # "Frozen"
  /\ ~snap[i].owned
  /\ born[i] <= horizon

(* Mutant of IsOlder: whatever is not of the current image is old. *)
IsDifferent(i) == current[ImageOf(i)].hash # 0

(* isOldImageInstance: made from another image than the current one, and    *)
(* before it.  The runner name does not matter.                             *)
IsOther(i) == base[i] # current[ImageOf(i)].hash
IsOlder(i) == born[i] < current[ImageOf(i)].at
IsOld(i) == IsOther(i) /\ IsOlder(i) /\ snap[i].status = "Frozen"

(* CalculateToDeleteInstances for one entry of the list, in any order: first *)
(* zombies, then old images, then disabled types, whatever the status.       *)
Examine(i) ==
  /\ apc = "scan"
  /\ i \in DOMAIN snap
  /\ snap' = [j \in DOMAIN snap \ {i} |-> snap[j]]
  /\ LET why == IF IsZombie(i) THEN {"zombie"}
                ELSE IF IsOld(i) THEN {"old"}
                ELSE IF Configured(KindOf[i]) = 0 THEN {"disabled"}
                ELSE {}
     IN toDelete' = toDelete \cup {<<i, w>> : w \in why}
  /\ current' = IF ~IsZombie(i) /\ IsOther(i) /\ ~IsOlder(i)
                THEN [current EXCEPT ![ImageOf(i)] =
                        [hash |-> base[i], at |-> born[i]]]
                ELSE current
  /\ UNCHANGED <<hostVars, imageVars, offered,
                 apc, config, toCreate, inWork, crashes>>

Examined ==
  /\ apc = "scan"
  /\ DOMAIN snap = {}
  /\ apc' = "delete"
  /\ UNCHANGED <<hostVars, imageVars, offered,
                 config, current, snap, toDelete, toCreate, inWork, crashes>>
----------------------------------------------------------------------------
(* deleteInstances: GetInstance, whose answer gives the etag only, and a    *)
(* forced stop.  What is stopped already counts as stopped.                 *)
StopToDelete(i, why) ==
  /\ apc = "delete"
  /\ <<i, why>> \in toDelete
  /\ \/ Stop(i)
     \/ status[i] = "Stopped" /\ UNCHANGED hostVars
  /\ toDelete' = toDelete \ {<<i, why>>}
  /\ inWork' = i
  /\ apc' = "remove"
  /\ UNCHANGED <<imageVars, offered, config, current, snap, toCreate, crashes>>

(* The instance is not there any more, or a call fails. *)
StopFails(i, why) ==
  /\ apc = "delete"
  /\ <<i, why>> \in toDelete
  /\ toDelete' = toDelete \ {<<i, why>>}
  /\ UNCHANGED <<hostVars, imageVars, offered,
                 apc, config, current, snap, toCreate, inWork, crashes>>

Remove ==
  /\ apc = "remove"
  /\ Delete(inWork) \/ UNCHANGED hostVars
  /\ apc' = "delete"
  /\ inWork' = NoInst
  /\ UNCHANGED <<imageVars, offered,
                 config, current, snap, toDelete, toCreate, crashes>>

Deleted ==
  /\ apc = "delete"
  /\ toDelete = {}
  /\ apc' = "create"
  /\ UNCHANGED <<hostVars, imageVars, offered,
                 config, current, snap, toDelete, toCreate, inWork, crashes>>
----------------------------------------------------------------------------
(* createInstances: one instance after the other, the kinds in any order. *)
TakeFrom(k) == toCreate' = [toCreate EXCEPT ![k] = @ - 1]

(* Mutant of CreateOne: the name of an instance that is gone is used again. *)
CreateOneAgain(k, i) ==
  /\ apc = "create"
  /\ toCreate[k] > 0
  /\ KindOf[i] = k
  /\ ~Exists(i)
  /\ status' = [status EXCEPT ![i] = "Stopped"]
  /\ TakeFrom(k)
  /\ inWork' = i
  /\ apc' = "start"
  /\ base' = [base EXCEPT ![i] = published[ImageOf(i)]]
  /\ born' = [born EXCEPT ![i] = CreatedSoFar + 1]
  /\ UNCHANGED <<runner, published, horizon, offered, config, current, snap,
                 toDelete, crashes>>

(* CreateInstance from the image that the alias stands for now. *)
CreateOne(k, i) ==
  /\ apc = "create"
  /\ toCreate[k] > 0
  /\ KindOf[i] = k
  /\ Create(i)
  /\ TakeFrom(k)
  /\ inWork' = i
  /\ apc' = "start"
  /\ base' = [base EXCEPT ![i] = published[ImageOf(i)]]
  /\ born' = [born EXCEPT ![i] = CreatedSoFar + 1]
  /\ UNCHANGED <<published, horizon, offered, config, current, snap, toDelete, crashes>>

(* Mutant of CreateFails: counts down also what is not to be created. *)
CreateFailsAnyway(k) ==
  /\ apc = "create"
  /\ TakeFrom(k)
  /\ UNCHANGED <<hostVars, imageVars, offered,
                 apc, config, current, snap, toDelete, inWork, crashes>>

(* Creating fails, the resource type is unknown, or no name is left. *)
CreateFails(k) ==
  /\ apc = "create"
  /\ toCreate[k] > 0
  /\ TakeFrom(k)
  /\ UNCHANGED <<hostVars, imageVars, offered,
                 apc, config, current, snap, toDelete, inWork, crashes>>

Making(from, to) ==
  /\ apc = from
  /\ apc' = to
  /\ inWork' = IF to = "create" THEN NoInst ELSE inWork
  /\ UNCHANGED <<imageVars, config, current, snap, toDelete, toCreate, crashes>>

StartOne ==
  /\ Making("start", "boot")
  /\ Start(inWork)
  /\ UNCHANGED offered

(* Two execs await the boot, one disables the watchdogs, and some time      *)
(* passes, all of it without a trace; then the instance is frozen.          *)
FreezeOne ==
  /\ Making("boot", "create")
  /\ Freeze(inWork)
  /\ offered' = offered \cup {inWork}

(* A step of the creation fails: what was made is left as it is. *)
MakingFails ==
  /\ \E l \in {"start", "boot"} : Making(l, "create")
  /\ UNCHANGED <<hostVars, offered>>

Created ==
  /\ apc = "create"
  /\ toCreate = Nothing
  /\ apc' = "idle"
  /\ UNCHANGED <<hostVars, imageVars, offered,
                 config, current, snap, toDelete, toCreate, inWork, crashes>>
----------------------------------------------------------------------------
Down ==
  /\ apc' = "down"
  /\ crashes' = crashes + 1
  /\ snap' = Empty
  /\ toDelete' = {}
  /\ toCreate' = Nothing
  /\ inWork' = NoInst
  /\ UNCHANGED <<hostVars, imageVars, offered, config, current>>

(* The process ends: stopped or killed wherever it is, or by the nil         *)
(* dereferences of createInstances and deleteInstances, which wait for the   *)
(* operation also when the call that starts or stops an instance has failed. *)
Crash ==
  /\ apc # "down"
  /\ crashes < MaxCrashes
  /\ Down

Restart(c) ==
  /\ apc = "down"
  /\ apc' = "idle"
  /\ config' = c
  /\ current' = [m \in Images |-> NoCurrent]
  /\ UNCHANGED <<hostVars, imageVars, offered,
                 snap, toDelete, toCreate, inWork, crashes>>

KeysOf(images) == {KeyOf[m] : m \in images}

(* SIGHUP, reloadConfig: the image under a key that the agent knows is made  *)
(* anew, with its status lost, also when it has another alias by now; the    *)
(* other images of the agent stay.  An alias that does not parse ends the    *)
(* loop over the images early, hence done.                                   *)
Reload(c, done) ==
  /\ apc = "idle"
  /\ done \subseteq {m \in DOMAIN c : KeyOf[m] \in KeysOf(DOMAIN config)}
  /\ LET kept == {m \in DOMAIN config : KeyOf[m] \notin KeysOf(done)}
     IN config' = [m \in kept \cup done |-> IF m \in done THEN c[m] ELSE config[m]]
  /\ current' = [m \in Images |->
                   IF KeyOf[m] \in KeysOf(done) THEN NoCurrent ELSE current[m]]
  /\ UNCHANGED <<hostVars, imageVars, offered,
                 apc, snap, toDelete, toCreate, inWork, crashes>>

(* SIGHUP with a config that has a key which the agent does not know: the    *)
(* assignment to a field of the missing map entry ends the process.          *)
ReloadNewImage(c) ==
  /\ apc = "idle"
  /\ crashes < MaxCrashes
  /\ ~(KeysOf(DOMAIN c) \subseteq KeysOf(DOMAIN config))
  /\ Down
----------------------------------------------------------------------------
(* The server.  It claims an instance that it once listed as frozen, and     *)
(* looks at nothing but its runner name when it does (see AddInstance).      *)
Claim(i, r) ==
  /\ i \in offered
  /\ runner[i] = NoRunner
  /\ WriteRunner(i, r)
  /\ UNCHANGED <<agentVars, imageVars, offered>>

ThawClaimed(i) ==
  /\ runner[i] # NoRunner
  /\ Unfreeze(i)
  /\ UNCHANGED <<agentVars, imageVars, offered>>

(* The job ends or myshoes deletes the runner. *)
EndJob(i) ==
  /\ runner[i] # NoRunner
  /\ Stop(i) \/ Delete(i)
  /\ UNCHANGED <<agentVars, imageVars, offered>>

(* An operator publishes a new image under the alias; time passes. *)
Publish(m) ==
  /\ published[m] < MaxVersion
  /\ published' = [published EXCEPT ![m] = @ + 1]
  /\ UNCHANGED <<hostVars, agentVars, base, born, horizon, offered>>

TimePasses ==
  /\ horizon < CreatedSoFar
  /\ horizon' = horizon + 1
  /\ UNCHANGED <<hostVars, agentVars, base, born, published, offered>>

AgentStep ==
  \/ Tick \/ Examined \/ Remove \/ Deleted \/ Created
  \/ \E i \in Instances : Examine(i)
  \/ \E e \in toDelete : StopToDelete(e[1], e[2]) \/ StopFails(e[1], e[2])
  \/ \E k \in Kinds : CreateFails(k) \/ \E i \in Instances : CreateOne(k, i)
  \/ StartOne \/ FreezeOne \/ MakingFails

Signal ==
  \E c \in Configs :
    ReloadNewImage(c) \/ \E done \in SUBSET Images : Reload(c, done)

ServerStep ==
  \E i \in Instances :
    ThawClaimed(i) \/ EndJob(i) \/ \E r \in Runners : Claim(i, r)

Next ==
  \/ AgentStep
  \/ Signal
  \/ Crash
  \/ \E c \in Configs : Restart(c)
  \/ ServerStep
  \/ \E m \in Images : Publish(m)
  \/ TimePasses

Spec == Init /\ [][Next]_vars

(* The loop goes on, is started again when it ended, and LXD does not refuse *)
(* for ever what would take an instance a step further in its life; time     *)
(* passes, and myshoes ends every job.  Signals, crashes, claims and new     *)
(* images are left to chance.                                                *)
Fairness ==
  /\ WF_vars(AgentStep)
  /\ WF_vars(\E c \in Configs : Restart(c))
  /\ WF_vars(TimePasses)
  /\ WF_vars(\E i \in Instances : EndJob(i))
  /\ SF_vars(\E e \in toDelete : StopToDelete(e[1], e[2]))
  /\ SF_vars(AgentStep /\ status' # status)

FairSpec == Spec /\ Fairness
----------------------------------------------------------------------------
(* When the agent starts to make an instance, the pool of its kind is not   *)
(* full by then, although the counts are those of the list, and instances   *)
(* were deleted, claimed and made since (adjustInstancePool).               *)
NeverOvershoots ==
  [][\A k \in Kinds, i \in Instances :
       apc = "create" /\ inWork' = i /\ KindOf[i] = k
         => PooledCount(k) < Configured(k)]_vars

(* What is deleted for its old image was made from an image that is not the *)
(* newest: whatever the order of the list, a restart or a reload, the agent *)
(* never takes an older image for the current one and deletes the new pool  *)
(* (isOldImageInstance).                                                    *)
OldIsOutdated ==
  \A i \in Instances :
    <<i, "old">> \in toDelete => base[i] < published[ImageOf(i)]

(* A zombie is never a job's instance: no instance that the server has      *)
(* claimed is up when it is on the list of zombies to delete, although the  *)
(* server can claim it after the agent has listed it (isZombieInstance).    *)
ZombiesServeNobody ==
  \A i \in Instances :
    <<i, "zombie">> \in toDelete /\ runner[i] # NoRunner
      => status[i] \notin {"Running", "Frozen"}

(* How far an instance is in its life, as InstanceLife has it: one that is   *)
(* stopped before it was in the pool is still in the making.                 *)
PhaseOf(i) ==
  CASE status[i] = "Unborn"  -> "unborn"
    [] status[i] = "Running" -> IF runner[i] = NoRunner THEN "making" ELSE "serving"
    [] status[i] = "Frozen"  -> IF runner[i] = NoRunner THEN "pooled" ELSE "claimed"
    [] status[i] = "Stopped" -> IF i \in offered THEN "down" ELSE "making"
    [] status[i] = "Gone"    -> "gone"

Life == INSTANCE InstanceLife WITH
  owner <- runner,
  phase <- [i \in Instances |-> PhaseOf(i)]

(* Seen from the agent, instances live as InstanceLife says, next to claims, *)
(* jobs and crashes at any time: none is frozen a second time, and none is   *)
(* started again that has been in the pool.                                  *)
ImplementsLife == Life!Spec

(* The agent does to instances only what the server reckons with: it gives   *)
(* none an owner, thaws none, and freezes only what it is making.            *)
AgentKeepsItsPart ==
  [][\/ UNCHANGED agentVars
     \/ UNCHANGED Life!vars
     \/ \E i \in Instances : Life!OthersPart(i)]_vars

(* What a failed creation or a crash has left half made is not left for     *)
(* ever: the agent, or the one after the restart, deletes it as a zombie    *)
(* (isZombieInstance), unless the server has claimed it.                    *)
LeftoversGo ==
  \A i \in Instances :
    status[i] \in {"Stopped", "Running"} /\ runner[i] = NoRunner /\ inWork # i
      ~> status[i] = "Gone" \/ runner[i] # NoRunner

(* Failures, crashes and jobs keep no pool below its size for ever, as long *)
(* as there are names left in this model (adjustInstancePool).              *)
PoolIsRefilled ==
  []<>(\A k \in Kinds :
         \/ PooledCount(k) >= Configured(k)
         \/ \A i \in Instances : KindOf[i] = k => status[i] # "Unborn")

(* isOldImageInstance spares an instance that is not frozen.  What it looks *)
(* at is the list of the tick, not the instance that is stopped by force.   *)
RunningIsNotOld ==
  [][\A i \in Instances :
       <<i, "old">> \in toDelete /\ inWork' = i /\ inWork # i
         => status[i] # "Running"]_vars

(* SIGHUP updates the config of the agent, and does not end it              *)
(* (reloadConfig, "update image config").                                   *)
ReloadKeepsRunning == [][Signal => apc' # "down"]_vars
============================================================================
