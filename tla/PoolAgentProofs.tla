--------------------------- MODULE PoolAgentProofs ---------------------------
(* Proofs about PoolAgent for any number of instances, images, types and      *)
(* config files, versions and crashes.                                        *)
EXTENDS PoolAgent, FiniteSetTheorems, TLAPS

(* The kinds of instances, and the numbers of them. *)

LEMMA KindOfInstance ==
  ASSUME NEW i \in Instances
  PROVE KindOf[i] \in Kinds /\ ImageOf(i) \in Images
BY KindOfType, KindsType DEF ImageOf

LEMMA CreatedInTime == CreatedSoFar \in Times
<1>1. {i \in Instances : status[i] # "Unborn"} \in SUBSET Instances
  OBVIOUS
<1>2. IsFiniteSet({i \in Instances : status[i] # "Unborn"})
  BY <1>1, FS_Subset, InstancesFinite
<1>3. Cardinality({i \in Instances : status[i] # "Unborn"}) <= Cardinality(Instances)
  BY <1>1, FS_Subset, InstancesFinite
<1>4. QED
  BY <1>2, <1>3, FS_CardinalityType, InstancesFinite DEF CreatedSoFar, Times

(* A creation is a tick of the clock, and there is time for it. *)
LEMMA CreationTakesTime ==
  ASSUME NEW i \in Instances, status \in [Instances -> Statuses], Create(i)
  PROVE CreatedSoFar' = CreatedSoFar + 1 /\ CreatedSoFar + 1 \in Times
<1> DEFINE S == {j \in Instances : status[j] # "Unborn"}
<1>1. IsFiniteSet(S) /\ S \in SUBSET Instances
  BY FS_Subset, InstancesFinite
<1>2. i \notin S
  BY DEF Create
<1>3. S' = S \cup {i}
  BY DEF Create
<1>4. Cardinality(S \cup {i}) = Cardinality(S) + 1
  BY <1>1, <1>2, FS_AddElement
<1>5. CreatedSoFar = Cardinality(S) /\ CreatedSoFar' = Cardinality(S')
  BY DEF CreatedSoFar
<1>6. CreatedSoFar' = CreatedSoFar + 1
  BY <1>3, <1>4, <1>5
<1>7. CreatedSoFar' \in Times
  <2>1. S' \in SUBSET Instances
    OBVIOUS
  <2>2. IsFiniteSet(S') /\ Cardinality(S') <= Cardinality(Instances)
    BY <2>1, FS_Subset, InstancesFinite
  <2>3. Cardinality(S') \in Nat /\ Cardinality(Instances) \in Nat
    BY <2>2, FS_CardinalityType, InstancesFinite
  <2>4. QED
    BY <1>5, <2>2, <2>3 DEF Times
<1>8. QED
  BY <1>6, <1>7

LEMMA ClockStands ==
  ASSUME \A i \in Instances : status'[i] = "Unborn" <=> status[i] = "Unborn"
  PROVE CreatedSoFar' = CreatedSoFar
<1>1. {i \in Instances : status'[i] # "Unborn"} = {i \in Instances : status[i] # "Unborn"}
  OBVIOUS
<1>2. QED
  BY <1>1 DEF CreatedSoFar

LEMMA CountsAreNumbers ==
  ASSUME TypeOK, NEW k \in Kinds
  PROVE CreateCount(k) \in Nat
<1>1. Configured(k) \in Nat
  BY KindsType DEF TypeOK, Configured, Counts
<1>2. {i \in Instances : KindOf[i] = k /\ Pooled(i)} \in SUBSET Instances
  OBVIOUS
<1>3. PooledCount(k) \in Nat
  BY <1>2, FS_Subset, FS_CardinalityType, InstancesFinite DEF PooledCount
<1>4. QED
  BY <1>1, <1>3 DEF CreateCount
----------------------------------------------------------------------------
(* While an instance is deleted or made the agent knows which. *)
WorkInHand == apc \in {"remove", "start", "boot"} => inWork \in Instances

Typed == TypeOK /\ WorkInHand

LEMMA InitTyped == Init => Typed
<1> SUFFICES ASSUME Init PROVE Typed
  OBVIOUS
<1>1. 0 \in Times
  BY FS_CardinalityType, InstancesFinite DEF Times
<1>2. QED
  BY <1>1, ConfigsType, BoundsType
  DEF Init, Typed, TypeOK, WorkInHand, HostTypeOK, Statuses, NoCurrent, Empty, Nothing

LEMMA DownTyped ==
  ASSUME Typed, crashes < MaxCrashes, Down
  PROVE Typed'
<1> USE DEF Typed, TypeOK
<1>1. snap' \in [DOMAIN snap' -> [status : Listed, owned : BOOLEAN]] /\ DOMAIN snap' = {}
  BY DEF Down, Empty
<1>2. toCreate' \in [Kinds -> Nat]
  BY DEF Down, Nothing
<1>3. crashes' \in 0..MaxCrashes
  BY BoundsType DEF Down
<1>4. HostTypeOK'
  BY DEF Down, HostTypeOK, hostVars
<1>5. QED
  BY <1>1, <1>2, <1>3, <1>4 DEF Down, imageVars, WorkInHand

LEMMA TypeStep == Typed /\ [Next]_vars => Typed'
<1> SUFFICES ASSUME Typed, [Next]_vars PROVE Typed'
  OBVIOUS
<1> USE DEF Typed, TypeOK, WorkInHand, HostTypeOK, Statuses
<1>1. CASE Tick
  <2>1. toCreate' \in [Kinds -> Nat]
    BY <1>1, CountsAreNumbers DEF Tick
  <2>2. DOMAIN snap' \in SUBSET Instances
        /\ snap' \in [DOMAIN snap' -> [status : Listed, owned : BOOLEAN]]
    BY <1>1 DEF Tick, Exists, Listed
  <2>3. QED
    BY <1>1, <2>1, <2>2 DEF Tick, hostVars, imageVars
<1>2. ASSUME NEW i \in Instances, Examine(i) PROVE Typed'
  <2>1. toDelete' \in SUBSET (Instances \X Reasons)
    BY <1>2 DEF Examine, Reasons
  <2>2. current' \in [Images -> [hash : 0..MaxVersion, at : Times]]
    BY <1>2, KindOfInstance DEF Examine
  <2>3. DOMAIN snap' \in SUBSET Instances
        /\ snap' \in [DOMAIN snap' -> [status : Listed, owned : BOOLEAN]]
    BY <1>2 DEF Examine
  <2>4. QED
    BY <1>2, <2>1, <2>2, <2>3 DEF Examine, hostVars, imageVars
<1>3. CASE Examined \/ Deleted \/ Created
  BY <1>3 DEF Examined, Deleted, Created, hostVars, imageVars
<1>4. ASSUME NEW e \in toDelete, StopToDelete(e[1], e[2]) \/ StopFails(e[1], e[2])
      PROVE Typed'
  <2>1. e[1] \in Instances
    OBVIOUS
  <2>2. QED
    BY <1>4, <2>1 DEF StopToDelete, StopFails, Stop, hostVars, imageVars
<1>5. CASE Remove
  BY <1>5 DEF Remove, Delete, hostVars, imageVars
<1>6. ASSUME NEW k \in Kinds, CreateFails(k) PROVE Typed'
  BY <1>6 DEF CreateFails, TakeFrom, hostVars, imageVars
<1>7. ASSUME NEW k \in Kinds, NEW i \in Instances, CreateOne(k, i) PROVE Typed'
  <2>1. CreatedSoFar + 1 \in Times
    BY <1>7, CreationTakesTime DEF CreateOne
  <2>2. born' \in [Instances -> Times] /\ base' \in [Instances -> 0..MaxVersion]
    BY <1>7, <2>1, KindOfInstance, BoundsType DEF CreateOne
  <2>3. status' \in [Instances -> Statuses] /\ UNCHANGED runner
    BY <1>7 DEF CreateOne, Create
  <2>4. toCreate' \in [Kinds -> Nat]
    BY <1>7 DEF CreateOne, TakeFrom
  <2>5. QED
    BY <1>7, <2>2, <2>3, <2>4 DEF CreateOne
<1>8. CASE StartOne \/ FreezeOne \/ MakingFails
  BY <1>8 DEF StartOne, FreezeOne, MakingFails, Making, Start, Freeze, hostVars, imageVars
<1>9. ASSUME NEW c \in Configs,
             Restart(c) \/ ReloadNewImage(c) \/ \E done \in SUBSET Images : Reload(c, done)
      PROVE Typed'
  <2>1. NoCurrent \in [hash : 0..MaxVersion, at : Times]
    BY FS_CardinalityType, InstancesFinite, BoundsType DEF NoCurrent, Times
  <2>2. CASE Restart(c)
    BY <2>1, <2>2, ConfigsType DEF Restart, hostVars, imageVars
  <2>3. CASE ReloadNewImage(c)
    BY <2>3, DownTyped DEF ReloadNewImage
  <2>4. ASSUME NEW done \in SUBSET Images, Reload(c, done) PROVE Typed'
    <3> DEFINE kept == {m \in DOMAIN config : KeyOf[m] \notin KeysOf(done)}
               both == kept \cup done
    <3>1. DOMAIN config' \in SUBSET Images /\ config' \in [DOMAIN config' -> Counts]
      <4>1. config' = [m \in both |-> IF m \in done THEN c[m] ELSE config[m]]
        BY <2>4 DEF Reload
      <4>2. DOMAIN config' = both
        BY <4>1
      <4>3. /\ done \subseteq DOMAIN c
            /\ \A m \in done : c[m] \in Counts
        BY <2>4, ConfigsType DEF Reload
      <4>4. \A m \in kept : config[m] \in Counts
        OBVIOUS
      <4> HIDE DEF kept
      <4>5. config' \in [both -> Counts]
        <5>1. \A m \in both : (IF m \in done THEN c[m] ELSE config[m]) \in Counts
          BY <4>3, <4>4
        <5>2. QED
          BY <4>1, <5>1
      <4>6. kept \subseteq Images
        BY DEF kept
      <4>7. both \in SUBSET Images
        BY <4>6
      <4>8. QED
        BY <4>2, <4>5, <4>7
    <3>2. current' \in [Images -> [hash : 0..MaxVersion, at : Times]]
      BY <2>1, <2>4 DEF Reload
    <3>3. QED
      BY <2>4, <3>1, <3>2 DEF Reload, hostVars, imageVars
  <2>5. QED
    BY <1>9, <2>2, <2>3, <2>4
<1>10. CASE Crash
  BY <1>10, DownTyped DEF Crash
<1>11. CASE ServerStep
  BY <1>11 DEF ServerStep, ThawClaimed, EndJob, Claim, Unfreeze, Stop, Delete,
               WriteRunner, agentVars, imageVars
<1>12. ASSUME NEW m \in Images, Publish(m) PROVE Typed'
  BY <1>12, BoundsType DEF Publish, hostVars, agentVars
<1>13. CASE TimePasses
  BY <1>13, CreatedInTime, FS_CardinalityType, InstancesFinite
  DEF TimePasses, Times, hostVars, agentVars
<1>14. CASE UNCHANGED vars
  BY <1>14 DEF vars, hostVars, agentVars, imageVars
<1>15. QED
  BY <1>1, <1>2, <1>3, <1>4, <1>5, <1>6, <1>7, <1>8, <1>9, <1>10, <1>11, <1>12,
     <1>13, <1>14 DEF Next, AgentStep, Signal

LEMMA AlwaysTyped == Spec => []Typed
BY InitTyped, TypeStep, PTL DEF Spec

(* PoolAgent keeps its types (pool-agent/cmd). *)
THEOREM TypeCorrect == Spec => []TypeOK
BY AlwaysTyped, PTL DEF Typed
----------------------------------------------------------------------------
(* Why zombies serve nobody.  Only the server's claims give an instance an   *)
(* owner, and it claims what has been frozen once.  An instance without an   *)
(* owner that has been frozen is never seen running, only stopped; so what   *)
(* a list shows as neither frozen nor owned is one that the server does not  *)
(* know, or one that is stopped for good.                                    *)
OutOfReach(i) == i \notin offered \/ status[i] \in {"Stopped", "Gone"}

OwnedWasOffered == \A i \in Instances : runner[i] # NoRunner => i \in offered

FrozenFirst ==
  \A i \in Instances :
    status[i] = "Unborn" \/ (status[i] = "Running" /\ runner[i] = NoRunner)
      => i \notin offered

StartedIsNew == apc = "start" => inWork \notin offered

ListInv ==
  \A i \in DOMAIN snap :
    /\ apc = "scan"
    /\ status[i] # "Unborn"
    /\ snap[i].status # "Frozen" /\ ~snap[i].owned => OutOfReach(i)

DeleteInv ==
  \A e \in toDelete :
    /\ apc \in {"scan", "delete", "remove"}
    /\ e[2] = "zombie" => OutOfReach(e[1])

ZInv == OwnedWasOffered /\ FrozenFirst /\ StartedIsNew /\ ListInv /\ DeleteInv

LEMMA InitZInv == Init => ZInv
BY DEF Init, ZInv, OwnedWasOffered, FrozenFirst, StartedIsNew, ListInv, DeleteInv, Empty

LEMMA ZStep == Typed /\ ZInv /\ [Next]_vars => ZInv'
<1> SUFFICES ASSUME Typed, ZInv, [Next]_vars PROVE ZInv'
  OBVIOUS
<1> USE DEF ZInv, OwnedWasOffered, FrozenFirst, StartedIsNew, ListInv, DeleteInv, OutOfReach
<1> USE DEF Typed, TypeOK, WorkInHand, HostTypeOK, Statuses
<1>1. CASE Tick
  BY <1>1 DEF Tick, Exists, hostVars
<1>2. ASSUME NEW i \in Instances, Examine(i) PROVE ZInv'
  BY <1>2 DEF Examine, IsZombie, hostVars
<1>3. CASE Examined \/ Deleted \/ Created
  BY <1>3 DEF Examined, Deleted, Created, hostVars
<1>4. ASSUME NEW e \in toDelete, StopToDelete(e[1], e[2]) \/ StopFails(e[1], e[2])
      PROVE ZInv'
  <2>1. e[1] \in Instances
    OBVIOUS
  <2>2. QED
    BY <1>4, <2>1 DEF StopToDelete, StopFails, Stop, hostVars
<1>5. CASE Remove
  BY <1>5 DEF Remove, Delete, hostVars
<1>6. ASSUME NEW k \in Kinds, CreateFails(k) PROVE ZInv'
  BY <1>6 DEF CreateFails, hostVars
<1>7. ASSUME NEW k \in Kinds, NEW i \in Instances, CreateOne(k, i) PROVE ZInv'
  BY <1>7 DEF CreateOne, Create
<1>8. CASE StartOne
  BY <1>8 DEF StartOne, Making, Start
<1>9. CASE FreezeOne
  BY <1>9 DEF FreezeOne, Making, Freeze
<1>10. CASE MakingFails
  BY <1>10 DEF MakingFails, Making, hostVars
<1>11. ASSUME NEW c \in Configs,
              Restart(c) \/ ReloadNewImage(c) \/ \E done \in SUBSET Images : Reload(c, done)
       PROVE ZInv'
  BY <1>11 DEF Restart, ReloadNewImage, Reload, Down, Empty, hostVars
<1>12. CASE Crash
  BY <1>12 DEF Crash, Down, Empty, hostVars
<1>13. ASSUME NEW i \in Instances, NEW r \in Runners, Claim(i, r) PROVE ZInv'
  BY <1>13 DEF Claim, WriteRunner, Exists, agentVars
<1>14. ASSUME NEW i \in Instances, ThawClaimed(i) \/ EndJob(i) PROVE ZInv'
  BY <1>14 DEF ThawClaimed, EndJob, Unfreeze, Stop, Delete, agentVars
<1>15. CASE (\E m \in Images : Publish(m)) \/ TimePasses \/ UNCHANGED vars
  BY <1>15 DEF Publish, TimePasses, vars, hostVars, agentVars
<1>16. QED
  BY <1>1, <1>2, <1>3, <1>4, <1>5, <1>6, <1>7, <1>8, <1>9, <1>10, <1>11, <1>12,
     <1>13, <1>14, <1>15 DEF Next, AgentStep, Signal, ServerStep

(* No instance that the server has claimed is up when the agent is about to  *)
(* delete it as a zombie, however old the list is (isZombieInstance).        *)
THEOREM ZombiesAreFree == Spec => []ZombiesServeNobody
<1>1. Spec => []ZInv
  BY AlwaysTyped, InitZInv, ZStep, PTL DEF Spec
<1>2. Typed /\ ZInv => ZombiesServeNobody
  BY DEF Typed, TypeOK, HostTypeOK, Statuses, ZInv, OwnedWasOffered, DeleteInv, OutOfReach,
         ZombiesServeNobody
<1>3. QED
  BY <1>1, <1>2, AlwaysTyped, PTL
----------------------------------------------------------------------------
(* Why only outdated instances are old.  Images are published one after the  *)
(* other and instances made from the newest, so of two instances of an image *)
(* the later one has the newer version.  What the agent takes for the        *)
(* current image is that of some instance, and what it takes for old was     *)
(* made before that one, from another version: hence an older one.           *)
LaterIsNewer ==
  \A i, j \in Instances :
    ImageOf(i) = ImageOf(j) /\ born[i] < born[j] => base[i] <= base[j]

MadeOfPublished == \A i \in Instances : base[i] <= published[ImageOf(i)]

MadeInTime == \A i \in Instances : born[i] <= CreatedSoFar

CurrentIsReal ==
  \A m \in Images :
    \/ current[m] = NoCurrent
    \/ \E j \in Instances :
         /\ status[j] # "Unborn"
         /\ ImageOf(j) = m
         /\ current[m] = [hash |-> base[j], at |-> born[j]]

OInv == LaterIsNewer /\ MadeOfPublished /\ MadeInTime /\ CurrentIsReal /\ OldIsOutdated

LEMMA InitOInv == Init => OInv
<1> SUFFICES ASSUME Init PROVE OInv
  OBVIOUS
<1>1. CreatedSoFar \in Nat
  BY CreatedInTime, FS_CardinalityType, InstancesFinite DEF Times
<1>2. QED
  BY <1>1, KindOfInstance
  DEF Init, OInv, LaterIsNewer, MadeOfPublished, MadeInTime, CurrentIsReal, OldIsOutdated

(* Steps after which images, instances and lists are what they were, but for *)
(* the status of instances that are there.                                   *)
LEMMA OldSteady ==
  ASSUME Typed, OInv, UNCHANGED <<base, born>>,
         \A i \in Instances : status'[i] = "Unborn" <=> status[i] = "Unborn",
         \A m \in Images : published[m] <= published'[m] /\ published'[m] \in Nat,
         \A m \in Images : current'[m] \in {current[m], NoCurrent},
         toDelete' \subseteq toDelete
  PROVE OInv'
<1> USE DEF OInv, Typed, TypeOK
<1>1. LaterIsNewer'
  BY DEF LaterIsNewer, ImageOf
<1>2. MadeOfPublished' /\ OldIsOutdated'
  BY KindOfInstance DEF MadeOfPublished, OldIsOutdated
<1>3. MadeInTime'
  BY ClockStands DEF MadeInTime
<1>4. CurrentIsReal'
  <2> SUFFICES ASSUME NEW m \in Images, current'[m] # NoCurrent
               PROVE \E j \in Instances :
                       /\ status'[j] # "Unborn"
                       /\ ImageOf(j) = m
                       /\ current'[m] = [hash |-> base'[j], at |-> born'[j]]
    BY DEF CurrentIsReal, ImageOf, NoCurrent
  <2>1. current'[m] = current[m]
    OBVIOUS
  <2>2. PICK j \in Instances :
          /\ status[j] # "Unborn"
          /\ ImageOf(j) = m
          /\ current[m] = [hash |-> base[j], at |-> born[j]]
    BY <2>1 DEF CurrentIsReal
  <2>3. QED
    BY <2>1, <2>2
<1>5. QED
  BY <1>1, <1>2, <1>3, <1>4

(* A new instance is the latest, and is made from what is published. *)
LEMMA OldCreate ==
  ASSUME Typed, ZInv, OInv, NEW k \in Kinds, NEW i \in Instances, CreateOne(k, i)
  PROVE OInv'
<1> USE DEF OInv, Typed, TypeOK
<1>1. CreatedSoFar' = CreatedSoFar + 1 /\ CreatedSoFar \in Nat
  BY CreationTakesTime, CreatedInTime, FS_CardinalityType, InstancesFinite
  DEF CreateOne, HostTypeOK, Times
<1>2. /\ born' = [born EXCEPT ![i] = CreatedSoFar + 1]
      /\ base' = [base EXCEPT ![i] = published[ImageOf(i)]]
      /\ UNCHANGED <<published, current, toDelete>>
      /\ status[i] = "Unborn"
      /\ status' = [status EXCEPT ![i] = "Stopped"]
  BY DEF CreateOne, Create
<1>3. MadeInTime'
  BY <1>1, <1>2, CreatedInTime DEF MadeInTime, Times
<1>4. MadeOfPublished'
  BY <1>2, KindOfInstance DEF MadeOfPublished, ImageOf
<1>5. LaterIsNewer'
  <2> SUFFICES ASSUME NEW a \in Instances, NEW b \in Instances,
                      ImageOf(a) = ImageOf(b), born'[a] < born'[b]
               PROVE base'[a] <= base'[b]
    BY DEF LaterIsNewer, ImageOf
  <2>1. a # i
    BY <1>1, <1>2 DEF MadeInTime, Times
  <2>2. CASE b = i
    BY <1>2, <2>1, <2>2 DEF MadeOfPublished
  <2>3. CASE b # i
    BY <1>2, <2>1, <2>3 DEF LaterIsNewer
  <2>4. QED
    BY <2>2, <2>3
<1>6. CurrentIsReal'
  <2> SUFFICES ASSUME NEW m \in Images, current[m] # NoCurrent
               PROVE \E j \in Instances :
                       /\ status'[j] # "Unborn"
                       /\ ImageOf(j) = m
                       /\ current[m] = [hash |-> base'[j], at |-> born'[j]]
    BY <1>2 DEF CurrentIsReal, ImageOf, NoCurrent
  <2>1. PICK j \in Instances :
          /\ status[j] # "Unborn"
          /\ ImageOf(j) = m
          /\ current[m] = [hash |-> base[j], at |-> born[j]]
    BY DEF CurrentIsReal
  <2>2. j # i
    BY <1>2, <2>1
  <2>3. status'[j] = status[j] /\ base'[j] = base[j] /\ born'[j] = born[j]
    BY <1>2, <2>2 DEF HostTypeOK
  <2>4. QED
    BY <2>1, <2>3
<1>7. OldIsOutdated'
  BY DEF CreateOne, ZInv, DeleteInv, OldIsOutdated
<1>8. QED
  BY <1>3, <1>4, <1>5, <1>6, <1>7

LEMMA LessThan ==
  ASSUME NEW n \in Nat, NEW a \in 0..n, NEW b \in 0..n, NEW c \in 1..n,
         a # b, a <= b, b <= c
  PROVE a < c
OBVIOUS

LEMMA OldExamine ==
  ASSUME Typed, ZInv, OInv, NEW i \in Instances, Examine(i)
  PROVE OInv'
<1> USE DEF OInv, Typed, TypeOK
<1>1. UNCHANGED <<status, base, born, published>> /\ status[i] # "Unborn"
  BY DEF Examine, hostVars, imageVars, ZInv, ListInv
<1>2. LaterIsNewer' /\ MadeOfPublished' /\ MadeInTime'
  BY <1>1, ClockStands DEF LaterIsNewer, MadeOfPublished, MadeInTime, ImageOf
<1>3. CurrentIsReal'
  <2>1. CASE current' = current
    BY <1>1, <2>1 DEF CurrentIsReal, ImageOf, NoCurrent
  <2>2. CASE current' = [current EXCEPT ![ImageOf(i)] = [hash |-> base[i], at |-> born[i]]]
    BY <1>1, <2>2, KindOfInstance DEF CurrentIsReal, ImageOf, NoCurrent
  <2>3. QED
    BY <2>1, <2>2 DEF Examine
<1>4. ASSUME IsOld(i) PROVE base[i] < published[ImageOf(i)]
  <2>1. ImageOf(i) \in Images /\ born[i] \in Nat
    BY KindOfInstance, FS_CardinalityType, InstancesFinite DEF Times
  <2>2. PICK j \in Instances :
          /\ ImageOf(j) = ImageOf(i)
          /\ current[ImageOf(i)] = [hash |-> base[j], at |-> born[j]]
    BY <1>4, <2>1 DEF IsOld, IsOlder, CurrentIsReal, NoCurrent
  <2>3. base[i] # base[j] /\ born[i] < born[j]
    BY <1>4, <2>2 DEF IsOld, IsOther, IsOlder
  <2>4. base[i] <= base[j] /\ base[j] <= published[ImageOf(i)]
    BY <2>2, <2>3 DEF LaterIsNewer, MadeOfPublished
  <2>5. base[i] \in 0..MaxVersion /\ base[j] \in 0..MaxVersion
    OBVIOUS
  <2>6. published[ImageOf(i)] \in 1..MaxVersion
    BY <2>1
  <2>7. QED
    BY <2>3, <2>4, <2>5, <2>6, BoundsType, LessThan
<1>5. OldIsOutdated'
  <2> SUFFICES ASSUME NEW j \in Instances, <<j, "old">> \in toDelete'
               PROVE base[j] < published[ImageOf(j)]
    BY <1>1 DEF OldIsOutdated, ImageOf
  <2>1. CASE <<j, "old">> \in toDelete
    BY <2>1 DEF OldIsOutdated
  <2>2. CASE <<j, "old">> \notin toDelete
    <3>1. j = i /\ IsOld(i)
      BY <2>2 DEF Examine
    <3>2. QED
      BY <1>4, <3>1
  <2>3. QED
    BY <2>1, <2>2
<1>6. QED
  BY <1>2, <1>3, <1>5

LEMMA OldStep == Typed /\ ZInv /\ OInv /\ [Next]_vars => OInv'
<1> SUFFICES ASSUME Typed, ZInv, OInv, [Next]_vars PROVE OInv'
  OBVIOUS
<1> USE DEF Typed, TypeOK, HostTypeOK, Statuses
<1>1. CASE Tick \/ Examined \/ Deleted \/ Created
  BY <1>1, OldSteady DEF Tick, Examined, Deleted, Created, hostVars, imageVars
<1>2. ASSUME NEW i \in Instances, Examine(i) PROVE OInv'
  BY <1>2, OldExamine
<1>3. ASSUME NEW e \in toDelete, StopToDelete(e[1], e[2]) \/ StopFails(e[1], e[2])
      PROVE OInv'
  <2>1. e[1] \in Instances
    OBVIOUS
  <2>2. QED
    BY <1>3, <2>1, OldSteady DEF StopToDelete, StopFails, Stop, hostVars, imageVars
<1>4. CASE Remove
  BY <1>4, OldSteady DEF Remove, Delete, WorkInHand, hostVars, imageVars
<1>5. ASSUME NEW k \in Kinds, CreateFails(k) PROVE OInv'
  BY <1>5, OldSteady DEF CreateFails, hostVars, imageVars
<1>6. ASSUME NEW k \in Kinds, NEW i \in Instances, CreateOne(k, i) PROVE OInv'
  BY <1>6, OldCreate
<1>7. CASE StartOne \/ FreezeOne \/ MakingFails
  BY <1>7, OldSteady
  DEF StartOne, FreezeOne, MakingFails, Making, Start, Freeze, WorkInHand, hostVars, imageVars
<1>8. ASSUME NEW c \in Configs,
             Restart(c) \/ ReloadNewImage(c) \/ \E done \in SUBSET Images : Reload(c, done)
      PROVE OInv'
  <2>1. CASE Restart(c)
    BY <2>1, OldSteady DEF Restart, hostVars, imageVars
  <2>2. CASE ReloadNewImage(c)
    BY <2>2, OldSteady DEF ReloadNewImage, Down, hostVars, imageVars
  <2>3. ASSUME NEW done \in SUBSET Images, Reload(c, done) PROVE OInv'
    <3>1. \A m \in Images : current'[m] \in {current[m], NoCurrent}
      BY <2>3 DEF Reload
    <3>2. QED
      BY <2>3, <3>1, OldSteady DEF Reload, hostVars, imageVars
  <2>4. QED
    BY <1>8, <2>1, <2>2, <2>3
<1>9. CASE Crash
  BY <1>9, OldSteady DEF Crash, Down, hostVars, imageVars
<1>10. ASSUME NEW i \in Instances, NEW r \in Runners, Claim(i, r) PROVE OInv'
  BY <1>10, OldSteady DEF Claim, WriteRunner, agentVars, imageVars
<1>11. ASSUME NEW i \in Instances, ThawClaimed(i) \/ EndJob(i) PROVE OInv'
  BY <1>11, OldSteady DEF ThawClaimed, EndJob, Unfreeze, Stop, Delete, agentVars, imageVars
<1>12. ASSUME NEW m \in Images, Publish(m) PROVE OInv'
  BY <1>12, OldSteady DEF Publish, hostVars, agentVars
<1>13. CASE TimePasses \/ UNCHANGED vars
  BY <1>13, OldSteady DEF TimePasses, vars, hostVars, agentVars, imageVars
<1>14. QED
  BY <1>1, <1>2, <1>3, <1>4, <1>5, <1>6, <1>7, <1>8, <1>9, <1>10, <1>11, <1>12, <1>13
  DEF Next, AgentStep, Signal, ServerStep

(* What is deleted for its old image was made from a version that is not the *)
(* newest, whatever the order of the list, restarts and reloads              *)
(* (isOldImageInstance).                                                     *)
THEOREM OldInstancesAreOutdated == Spec => []OldIsOutdated
<1>1. Spec => [](Typed /\ ZInv)
  BY AlwaysTyped, InitZInv, ZStep, PTL DEF Spec
<1>2. Spec => []OInv
  BY <1>1, InitOInv, OldStep, PTL DEF Spec
<1>3. QED
  BY <1>2, PTL DEF OInv
----------------------------------------------------------------------------
(* Why the pool is not overfilled.  What is counted of a kind, with the      *)
(* instance that is being made, and what is still to be made of it, fit into *)
(* the configured count together.  Only a creation adds to the first, and it *)
(* takes from the second; nobody else starts or freezes an instance.  The    *)
(* count that is configured changes between two rounds only.                 *)
InTheMaking(i) == apc \in {"start", "boot"} /\ inWork = i
Taken(k) == {i \in Instances : KindOf[i] = k /\ (Pooled(i) \/ InTheMaking(i))}

RoomLeft ==
  \A k \in Kinds :
    toCreate[k] > 0 => Cardinality(Taken(k)) + toCreate[k] <= Configured(k)

HandsFree == apc \notin {"remove", "start", "boot"} => inWork = NoInst

RoundOver == apc \in {"idle", "down"} => \A k \in Kinds : toCreate[k] = 0

RInv == RoomLeft /\ HandsFree /\ RoundOver

LEMMA TakenIsNumber ==
  ASSUME NEW k
  PROVE  IsFiniteSet(Taken(k)) /\ Cardinality(Taken(k)) \in Nat
<1>1. Taken(k) \in SUBSET Instances
  BY DEF Taken
<1>2. QED
  BY <1>1, FS_Subset, FS_CardinalityType, InstancesFinite

LEMMA ConfiguredIsNumber ==
  ASSUME TypeOK, NEW k \in Kinds
  PROVE  Configured(k) \in Nat
  BY KindsType DEF TypeOK, Configured, Counts

(* Before a round of creations begins, what is taken is what is counted. *)
LEMMA TakenIsPooled ==
  ASSUME apc \notin {"start", "boot"}, NEW k
  PROVE  PooledCount(k) = Cardinality(Taken(k))
<1>1. Taken(k) = {i \in Instances : KindOf[i] = k /\ Pooled(i)}
  BY DEF Taken, InTheMaking
<1>2. QED
  BY <1>1 DEF PooledCount

(* Steps that add to no pool and plan nothing. *)
LEMMA RoomKept ==
  ASSUME Typed, Typed', RoomLeft, UNCHANGED config,
         \A i \in Instances : (Pooled(i) \/ InTheMaking(i))' => Pooled(i) \/ InTheMaking(i),
         \A k \in Kinds : toCreate'[k] <= toCreate[k]
  PROVE  RoomLeft'
<1> SUFFICES ASSUME NEW k \in Kinds, toCreate'[k] > 0
             PROVE  Cardinality(Taken(k)') + toCreate'[k] <= Configured(k)'
  BY DEF RoomLeft
<1>1. Taken(k)' \in SUBSET Taken(k)
  BY DEF Taken
<1>2. Cardinality(Taken(k)') <= Cardinality(Taken(k))
  BY <1>1, TakenIsNumber, FS_Subset
<1>3. Cardinality(Taken(k)') \in Nat /\ Cardinality(Taken(k)) \in Nat
  BY <1>1, TakenIsNumber, FS_Subset, FS_CardinalityType
<1>4. toCreate[k] \in Nat /\ toCreate'[k] \in Nat /\ toCreate'[k] <= toCreate[k]
  BY DEF Typed, TypeOK
<1>5. Cardinality(Taken(k)) + toCreate[k] <= Configured(k)
  BY <1>4 DEF RoomLeft
<1>6. Configured(k)' = Configured(k) /\ Configured(k) \in Nat
  BY ConfiguredIsNumber DEF Configured, Typed
<1>7. QED
  BY <1>2, <1>3, <1>4, <1>5, <1>6

(* A creation takes from what is to be made what it adds to the pool. *)
LEMMA RoomCreate ==
  ASSUME Typed, Typed', RInv, NEW k \in Kinds, NEW i \in Instances, CreateOne(k, i)
  PROVE  RInv'
<1>1. /\ apc = "create" /\ apc' = "start" /\ inWork' = i /\ KindOf[i] = k
      /\ toCreate[k] > 0 /\ toCreate' = [toCreate EXCEPT ![k] = @ - 1]
      /\ status[i] = "Unborn" /\ status' = [status EXCEPT ![i] = "Stopped"]
      /\ UNCHANGED config
  BY DEF CreateOne, TakeFrom, Create
<1>2. ASSUME NEW g \in Kinds, toCreate'[g] > 0
      PROVE  Cardinality(Taken(g)') + toCreate'[g] <= Configured(g)'
  <2>1. Configured(g)' = Configured(g) /\ Configured(g) \in Nat
    BY <1>1, ConfiguredIsNumber DEF Configured, Typed
  <2>2. toCreate[g] \in Nat /\ toCreate'[g] = IF g = k THEN toCreate[g] - 1 ELSE toCreate[g]
    BY <1>1 DEF Typed, TypeOK
  <2>3. Cardinality(Taken(g)) + toCreate[g] <= Configured(g)
    BY <1>2, <2>2 DEF RInv, RoomLeft
  <2>4. Taken(g)' = IF g = k THEN Taken(g) \cup {i} ELSE Taken(g)
    BY <1>1 DEF Taken, InTheMaking, Pooled, Typed, TypeOK, HostTypeOK
  <2>5. i \notin Taken(k)
    BY <1>1 DEF Taken, InTheMaking, Pooled
  <2>6. Cardinality(Taken(k) \cup {i}) = Cardinality(Taken(k)) + 1
    BY <2>5, TakenIsNumber, FS_AddElement
  <2>7. Cardinality(Taken(g)) \in Nat
    BY TakenIsNumber
  <2>8. CASE g = k
    <3>1. Cardinality(Taken(g)') = Cardinality(Taken(g)) + 1
      BY <2>4, <2>6, <2>8
    <3>2. toCreate'[g] = toCreate[g] - 1
      BY <2>2, <2>8
    <3>3. QED
      BY ONLY <2>1, <2>2, <2>3, <2>7, <3>1, <3>2
  <2>9. CASE g # k
    BY <2>1, <2>2, <2>3, <2>4, <2>9
  <2>10. QED
    BY <2>8, <2>9
<1>3. QED
  BY <1>1, <1>2 DEF RInv, RoomLeft, HandsFree, RoundOver

(* The tick counts, and plans what is missing. *)
LEMMA RoomTick ==
  ASSUME Typed, Typed', RInv, Tick
  PROVE  RInv'
<1>1. /\ apc = "idle" /\ apc' = "scan"
      /\ toCreate' = [k \in Kinds |-> CreateCount(k)]
      /\ UNCHANGED <<status, config, inWork>>
  BY DEF Tick, hostVars
<1>2. ASSUME NEW k \in Kinds, toCreate'[k] > 0
      PROVE  Cardinality(Taken(k)') + toCreate'[k] <= Configured(k)'
  <2>1. Configured(k)' = Configured(k) /\ Configured(k) \in Nat
    BY <1>1, ConfiguredIsNumber DEF Configured, Typed
  <2>2. Taken(k)' = Taken(k) /\ PooledCount(k) = Cardinality(Taken(k))
    BY <1>1, TakenIsPooled DEF Taken, InTheMaking, Pooled
  <2>3. toCreate'[k] = CreateCount(k)
    BY <1>1
  <2>4. QED
    BY <1>2, <2>1, <2>2, <2>3, TakenIsNumber DEF CreateCount
<1>3. QED
  BY <1>1, <1>2 DEF RInv, RoomLeft, HandsFree, RoundOver

LEMMA InitRInv == Init => RInv
  BY DEF Init, RInv, RoomLeft, HandsFree, RoundOver, Nothing

LEMMA RoomStep == Typed /\ Typed' /\ RInv /\ [Next]_vars => RInv'
<1> SUFFICES ASSUME Typed, Typed', RInv, [Next]_vars PROVE RInv'
  OBVIOUS
<1> USE DEF RInv, HandsFree, RoundOver
<1>1. ASSUME UNCHANGED <<config, status>>, apc' \notin {"start", "boot"},
             \A k \in Kinds : toCreate'[k] <= toCreate[k]
      PROVE  RoomLeft'
  BY <1>1, RoomKept DEF Pooled, InTheMaking
<1>2. CASE Examined \/ Deleted \/ Created
  BY <1>1, <1>2 DEF Examined, Deleted, Created, Nothing, hostVars, Typed, TypeOK
<1>3. ASSUME NEW i \in Instances, Examine(i) PROVE RInv'
  BY <1>1, <1>3 DEF Examine, hostVars, Typed, TypeOK
<1>4. ASSUME NEW e \in toDelete, StopToDelete(e[1], e[2]) \/ StopFails(e[1], e[2])
      PROVE RInv'
  <2>1. e[1] \in Instances /\ \A k \in Kinds : toCreate[k] <= toCreate[k]
    BY DEF Typed, TypeOK
  <2>2. /\ apc = "delete" /\ apc' \in {"delete", "remove"} /\ UNCHANGED <<config, toCreate>>
        /\ apc' = "delete" => UNCHANGED inWork
        /\ \A i \in Instances : Pooled(i)' => Pooled(i)
    BY <1>4, <2>1 DEF StopToDelete, StopFails, Stop, hostVars, Pooled, Typed, TypeOK, HostTypeOK
  <2>3. RoomLeft'
    BY <2>1, <2>2, RoomKept DEF InTheMaking
  <2>4. QED
    BY <2>2, <2>3
<1>5. CASE Remove
  <2>1. /\ apc = "remove" /\ apc' = "delete" /\ inWork' = NoInst /\ UNCHANGED <<config, toCreate>>
        /\ \A i \in Instances : Pooled(i)' => Pooled(i)
        /\ \A k \in Kinds : toCreate[k] <= toCreate[k]
    BY <1>5 DEF Remove, Delete, hostVars, Pooled, Typed, TypeOK, HostTypeOK, WorkInHand
  <2>2. QED
    BY <2>1, RoomKept DEF InTheMaking
<1>6. ASSUME NEW k \in Kinds, CreateFails(k) PROVE RInv'
  <2>1. /\ apc = "create" /\ UNCHANGED <<apc, config, status, inWork>>
        /\ \A g \in Kinds : toCreate'[g] <= toCreate[g]
    BY <1>6 DEF CreateFails, TakeFrom, hostVars, Typed, TypeOK
  <2>2. QED
    BY <1>1, <2>1
<1>7. CASE StartOne \/ FreezeOne \/ MakingFails
  <2>1. /\ apc \in {"start", "boot"} /\ apc' \in {"boot", "create"}
        /\ inWork' = IF apc' = "create" THEN NoInst ELSE inWork
        /\ UNCHANGED <<config, toCreate>>
        /\ inWork \in Instances
    BY <1>7 DEF StartOne, FreezeOne, MakingFails, Making, Typed, WorkInHand
  <2>2. \A i \in Instances : i # inWork => status'[i] = status[i]
    BY <1>7, <2>1 DEF StartOne, FreezeOne, MakingFails, Start, Freeze, hostVars,
                      Typed, TypeOK, HostTypeOK
  <2>3. \A i \in Instances : (Pooled(i) \/ InTheMaking(i))' => Pooled(i) \/ InTheMaking(i)
    BY <2>1, <2>2 DEF Pooled, InTheMaking
  <2>4. \A k \in Kinds : toCreate'[k] <= toCreate[k]
    BY <2>1 DEF Typed, TypeOK
  <2>5. RoomLeft'
    BY <2>1, <2>3, <2>4, RoomKept
  <2>6. QED
    BY <2>1, <2>5
<1>8. ASSUME NEW c \in Configs,
             Restart(c) \/ ReloadNewImage(c) \/ \E done \in SUBSET Images : Reload(c, done)
      PROVE RInv'
  <2>1. /\ apc' \in {"idle", "down"} /\ inWork' = NoInst
        /\ \A k \in Kinds : toCreate'[k] = 0
    BY <1>8 DEF Restart, ReloadNewImage, Reload, Down, Nothing
  <2>2. QED
    BY <2>1 DEF RoomLeft
<1>9. ASSUME NEW i \in Instances,
             ThawClaimed(i) \/ EndJob(i) \/ \E r \in Runners : Claim(i, r)
      PROVE RInv'
  <2>1. /\ UNCHANGED <<apc, config, toCreate, inWork>>
        /\ \A j \in Instances : Pooled(j)' => Pooled(j)
        /\ \A k \in Kinds : toCreate[k] <= toCreate[k]
    BY <1>9 DEF ThawClaimed, EndJob, Claim, WriteRunner, Unfreeze, Stop, Delete, agentVars,
                Pooled, Typed, TypeOK, HostTypeOK
  <2>2. QED
    BY <2>1, RoomKept DEF InTheMaking
<1>10. CASE (\E m \in Images : Publish(m)) \/ TimePasses \/ UNCHANGED vars
  <2>1. /\ UNCHANGED <<apc, config, toCreate, inWork, status>>
        /\ \A k \in Kinds : toCreate[k] <= toCreate[k]
    BY <1>10 DEF Publish, TimePasses, vars, hostVars, agentVars, Typed, TypeOK
  <2>2. QED
    BY <2>1, RoomKept DEF Pooled, InTheMaking
<1>11. CASE Crash
  <2>1. apc' = "down" /\ inWork' = NoInst /\ \A k \in Kinds : toCreate'[k] = 0
    BY <1>11 DEF Crash, Down, Nothing
  <2>2. QED
    BY <2>1 DEF RoomLeft
<1>12. QED
  BY <1>2, <1>3, <1>4, <1>5, <1>6, <1>7, <1>8, <1>9, <1>10, <1>11, RoomTick, RoomCreate
  DEF Next, AgentStep, Signal, ServerStep

(* When the agent makes an instance, the pool of its kind is not full then,  *)
(* whatever was claimed, thawed, ended, deleted or failed to be made since   *)
(* the counts were taken (adjustInstancePool, CalculateCreateCount).         *)
THEOREM PoolIsNotOverfilled == Spec => NeverOvershoots
<1>1. Spec => []RInv
  BY AlwaysTyped, InitRInv, RoomStep, PTL DEF Spec
<1>2. Typed /\ RInv /\ [Next]_vars
        => [\A k \in Kinds, i \in Instances :
              apc = "create" /\ inWork' = i /\ KindOf[i] = k
                => PooledCount(k) < Configured(k)]_vars
  <2> SUFFICES ASSUME Typed, RInv, Next,
                      NEW k \in Kinds, NEW i \in Instances,
                      apc = "create", inWork' = i, KindOf[i] = k
               PROVE  PooledCount(k) < Configured(k)
    BY NoInstFresh
  <2>1. inWork = NoInst /\ inWork' # NoInst
    BY NoInstFresh DEF RInv, HandsFree
  <2>2. PICK g \in Kinds, j \in Instances : CreateOne(g, j)
    BY <2>1 DEF Next, AgentStep, Tick, Examined, Remove, Deleted, Created, Examine,
                StopToDelete, StopFails, CreateFails, StartOne, FreezeOne, MakingFails, Making,
                Signal, ReloadNewImage, Reload, Crash, Down, Restart,
                ServerStep, ThawClaimed, EndJob, Claim, Publish, TimePasses, agentVars
  <2>3. toCreate[k] > 0
    BY <2>2 DEF CreateOne
  <2>4. Cardinality(Taken(k)) + toCreate[k] <= Configured(k) /\ toCreate[k] \in Nat
    BY <2>3 DEF RInv, RoomLeft, Typed, TypeOK
  <2>5. QED
    BY <2>3, <2>4, TakenIsNumber, TakenIsPooled, ConfiguredIsNumber DEF Typed
<1>3. QED
  BY <1>1, <1>2, AlwaysTyped, PTL DEF Spec, NeverOvershoots
----------------------------------------------------------------------------
(* Why instances live as InstanceLife says.  What is frozen has been offered, *)
(* so it is not in the making when it stops; and what the agent is about to   *)
(* start or freeze has not been offered yet, so nobody owns it.  The guard of *)
(* LXDHost!Freeze, that nobody does, therefore never holds the agent up.      *)
FrozenIsOffered == \A i \in Instances : status[i] = "Frozen" => i \in offered

InHandIsNew == apc \in {"start", "boot"} => inWork \notin offered

LInv == FrozenIsOffered /\ InHandIsNew

(* The agent works on the same instance as before, or makes none. *)
SameInHand == apc' \in {"start", "boot"} => apc = apc' /\ inWork = inWork'

(* What a step does to the life of instances. *)
LEMMA LifeSteps ==
  ASSUME Typed, [Next]_vars
  PROVE  \/ UNCHANGED <<status, runner, offered>> /\ SameInHand
         \/ StartOne
         \/ FreezeOne
         \/ /\ UNCHANGED offered
            /\ \E i \in Instances :
                 \/ Create(i) /\ inWork' = i
                 \/ (Stop(i) \/ Delete(i)) /\ SameInHand
                 \/ runner[i] # NoRunner /\ Unfreeze(i) /\ UNCHANGED agentVars
                 \/ \E r \in Runners : Claim(i, r)
<1> USE DEF hostVars, SameInHand
<1>1. CASE Tick
  BY <1>1 DEF Tick
<1>2. ASSUME NEW i \in Instances, Examine(i)
      PROVE UNCHANGED <<status, runner, offered>> /\ SameInHand
  BY <1>2 DEF Examine
<1>3. CASE Examined \/ Deleted \/ Created
  BY <1>3 DEF Examined, Deleted, Created
<1>4. ASSUME NEW e \in toDelete, StopToDelete(e[1], e[2]) \/ StopFails(e[1], e[2])
      PROVE /\ UNCHANGED offered /\ SameInHand
            /\ UNCHANGED <<status, runner>> \/ \E i \in Instances : Stop(i)
  <2>1. e[1] \in Instances
    BY DEF Typed, TypeOK
  <2>2. QED
    BY <1>4, <2>1 DEF StopToDelete, StopFails
<1>5. CASE Remove
  BY <1>5 DEF Remove, Typed, WorkInHand
<1>6. ASSUME NEW k \in Kinds, CreateFails(k)
      PROVE UNCHANGED <<status, runner, offered>> /\ SameInHand
  BY <1>6 DEF CreateFails
<1>7. ASSUME NEW k \in Kinds, NEW i \in Instances, CreateOne(k, i)
      PROVE UNCHANGED offered /\ Create(i) /\ inWork' = i
  BY <1>7 DEF CreateOne
<1>8. CASE StartOne \/ FreezeOne \/ MakingFails
  BY <1>8 DEF MakingFails, Making
<1>9. ASSUME NEW c \in Configs,
             Restart(c) \/ ReloadNewImage(c) \/ \E done \in SUBSET Images : Reload(c, done)
      PROVE UNCHANGED <<status, runner, offered>> /\ SameInHand
  BY <1>9 DEF Restart, ReloadNewImage, Reload, Down
<1>10. CASE Crash
  BY <1>10 DEF Crash, Down
<1>11. ASSUME NEW i \in Instances, ThawClaimed(i) \/ EndJob(i)
       PROVE /\ UNCHANGED offered /\ UNCHANGED agentVars /\ SameInHand
             /\ Stop(i) \/ Delete(i) \/ (runner[i] # NoRunner /\ Unfreeze(i))
  BY <1>11 DEF ThawClaimed, EndJob, agentVars
<1>12. ASSUME NEW i \in Instances, NEW r \in Runners, Claim(i, r)
       PROVE UNCHANGED offered
  BY <1>12 DEF Claim
<1>13. CASE (\E m \in Images : Publish(m)) \/ TimePasses \/ UNCHANGED vars
  BY <1>13 DEF Publish, TimePasses, vars, agentVars
<1>14. QED
  BY <1>1, <1>2, <1>3, <1>4, <1>5, <1>6, <1>7, <1>8, <1>9, <1>10, <1>11, <1>12, <1>13
     DEF Next, AgentStep, Signal, ServerStep

LEMMA LInvStep == Typed /\ ZInv /\ LInv /\ [Next]_vars => LInv'
<1> SUFFICES ASSUME Typed, ZInv, LInv, [Next]_vars PROVE LInv'
  OBVIOUS
<1> USE DEF LInv, FrozenIsOffered, InHandIsNew, Typed, TypeOK, HostTypeOK, WorkInHand
<1>1. CASE UNCHANGED <<status, runner, offered>> /\ SameInHand
  BY <1>1 DEF SameInHand
<1>2. CASE StartOne
  BY <1>2 DEF StartOne, Making, Start
<1>3. CASE FreezeOne
  BY <1>3 DEF FreezeOne, Making, Freeze
<1>4. ASSUME UNCHANGED offered, NEW i \in Instances, Create(i), inWork' = i
      PROVE LInv'
  BY <1>4 DEF Create, ZInv, FrozenFirst
<1>5. ASSUME UNCHANGED offered, SameInHand, NEW i \in Instances,
             Stop(i) \/ Delete(i) \/ Unfreeze(i)
      PROVE LInv'
  BY <1>5 DEF SameInHand, Stop, Delete, Unfreeze
<1>6. ASSUME NEW i \in Instances, NEW r \in Runners, Claim(i, r) PROVE LInv'
  BY <1>6 DEF Claim, WriteRunner, agentVars
<1>7. QED
  BY <1>1, <1>2, <1>3, <1>4, <1>5, <1>6, LifeSteps DEF SameInHand, agentVars

(* One instance goes on in its life, or none does. *)
LEMMA LifeAdvances ==
  ASSUME UNCHANGED runner, NEW i \in Instances,
         \A j \in Instances : j # i => PhaseOf(j)' = PhaseOf(j),
         NEW from, PhaseOf(i) \in from
  PROVE  Life!Advance(i, from, PhaseOf(i)')
BY DEF Life!Advance

LEMMA LifeStands ==
  ASSUME UNCHANGED runner, \A j \in Instances : PhaseOf(j)' = PhaseOf(j)
  PROVE  UNCHANGED Life!vars
BY DEF Life!vars

(* What each step does to the life of instances, and that only the server's *)
(* steps, which leave the agent alone, go beyond OthersPart.                 *)
LEMMA StepOfLife ==
  ASSUME Typed, ZInv, LInv, [Next]_vars
  PROVE  \/ UNCHANGED Life!vars
         \/ \E i \in Instances : Life!OthersPart(i)
         \/ UNCHANGED agentVars /\ \E i \in Instances : Life!ServerPart(i)
<1> USE DEF Typed, TypeOK, HostTypeOK, Statuses, LInv, FrozenIsOffered, InHandIsNew,
            ZInv, OwnedWasOffered, FrozenFirst
<1>1. CASE UNCHANGED <<status, runner, offered>>
  BY <1>1, LifeStands DEF PhaseOf
<1>2. CASE StartOne
  <2>1. \A j \in Instances : PhaseOf(j)' = PhaseOf(j)
    BY <1>2 DEF StartOne, Making, Start, WorkInHand, PhaseOf
  <2>2. QED
    BY <1>2, <2>1, LifeStands DEF StartOne, Start
<1>3. CASE FreezeOne
  <2>1. PICK i \in Instances : i = inWork
    BY <1>3 DEF FreezeOne, Making, WorkInHand
  <2>2. /\ PhaseOf(i) = "making" /\ PhaseOf(i)' = "pooled"
        /\ \A j \in Instances : j # i => PhaseOf(j)' = PhaseOf(j)
        /\ UNCHANGED runner
    BY <1>3, <2>1 DEF FreezeOne, Making, Freeze, PhaseOf
  <2>3. Life!Offer(i)
    BY <2>2, LifeAdvances DEF Life!Offer
  <2>4. QED
    BY <2>3 DEF Life!OthersPart
<1>4. ASSUME UNCHANGED offered, NEW i \in Instances, Create(i)
      PROVE Life!OthersPart(i)
  <2>1. /\ PhaseOf(i) = "unborn" /\ PhaseOf(i)' = "making"
        /\ \A j \in Instances : j # i => PhaseOf(j)' = PhaseOf(j)
        /\ UNCHANGED runner
    BY <1>4 DEF Create, PhaseOf
  <2>2. Life!Create(i)
    BY <2>1, LifeAdvances DEF Life!Create
  <2>3. QED
    BY <2>2 DEF Life!OthersPart
<1>5. ASSUME UNCHANGED offered, NEW i \in Instances, Stop(i)
      PROVE Life!OthersPart(i) \/ UNCHANGED Life!vars
  <2>1. UNCHANGED runner /\ \A j \in Instances : j # i => PhaseOf(j)' = PhaseOf(j)
    BY <1>5 DEF Stop, PhaseOf
  <2>2. CASE i \in offered
    <3>1. PhaseOf(i) \in {"pooled", "claimed", "serving"} /\ PhaseOf(i)' = "down"
      BY <1>5, <2>2 DEF Stop, PhaseOf
    <3>2. Life!Stop(i)
      BY <2>1, <3>1, LifeAdvances DEF Life!Stop
    <3>3. QED
      BY <3>2 DEF Life!OthersPart
  <2>3. CASE i \notin offered
    <3>1. PhaseOf(i)' = PhaseOf(i)
      BY <1>5, <2>3 DEF Stop, PhaseOf
    <3>2. QED
      BY <2>1, <3>1, LifeStands
  <2>4. QED
    BY <2>2, <2>3
<1>6. ASSUME UNCHANGED offered, NEW i \in Instances, Delete(i)
      PROVE Life!OthersPart(i)
  <2>1. /\ PhaseOf(i) \in {"making", "down"} /\ PhaseOf(i)' = "gone"
        /\ \A j \in Instances : j # i => PhaseOf(j)' = PhaseOf(j)
        /\ UNCHANGED runner
    BY <1>6 DEF Delete, PhaseOf
  <2>2. Life!Delete(i)
    BY <2>1, LifeAdvances DEF Life!Delete
  <2>3. QED
    BY <2>2 DEF Life!OthersPart
<1>7. ASSUME UNCHANGED offered, NEW i \in Instances, runner[i] # NoRunner, Unfreeze(i)
      PROVE Life!ServerPart(i)
  <2>1. /\ PhaseOf(i) = "claimed" /\ PhaseOf(i)' = "serving"
        /\ \A j \in Instances : j # i => PhaseOf(j)' = PhaseOf(j)
        /\ UNCHANGED runner
    BY <1>7 DEF Unfreeze, PhaseOf
  <2>2. Life!Thaw(i)
    BY <2>1, LifeAdvances DEF Life!Thaw
  <2>3. QED
    BY <2>2 DEF Life!ServerPart
<1>8. ASSUME NEW i \in Instances, NEW r \in Runners, Claim(i, r)
      PROVE Life!ServerPart(i)
  <2>1. /\ runner[i] = NoRunner /\ runner' = [runner EXCEPT ![i] = r]
        /\ UNCHANGED <<status, offered>> /\ i \in offered /\ Exists(i)
    BY <1>8 DEF Claim, WriteRunner
  <2>2. /\ PhaseOf(i) \in {"pooled", "down"}
        /\ PhaseOf(i)' = IF PhaseOf(i) = "pooled" THEN "claimed" ELSE PhaseOf(i)
        /\ \A j \in Instances : j # i => PhaseOf(j)' = PhaseOf(j)
    BY <2>1, NoRunnerFresh DEF Exists, PhaseOf
  <2>3. Life!Claim(i, r)
    BY <2>1, <2>2 DEF Life!Claim
  <2>4. QED
    BY <2>3 DEF Life!ServerPart
<1>9. QED
  BY <1>1, <1>2, <1>3, <1>4, <1>5, <1>6, <1>7, <1>8, LifeSteps DEF Claim

LEMMA AlwaysLInv == Spec => [](Typed /\ ZInv /\ LInv)
<1>1. Init => LInv
  BY DEF Init, LInv, FrozenIsOffered, InHandIsNew
<1>2. QED
  BY <1>1, AlwaysTyped, InitZInv, ZStep, LInvStep, PTL DEF Spec

(* However the agent's loop, its crashes, the server's claims and the jobs   *)
(* interleave, an instance is made, waits in the pool once, gets one owner,  *)
(* is thawed for it and goes: the agent implements InstanceLife.             *)
THEOREM AgentKeepsLife == Spec => ImplementsLife
<1>1. Init => Life!Init
  BY DEF Init, Life!Init, PhaseOf
<1>2. Typed /\ ZInv /\ LInv /\ [Next]_vars => [Life!Next]_(Life!vars)
  BY StepOfLife DEF Life!Next
<1>3. QED
  BY <1>1, <1>2, AlwaysLInv, PTL DEF Spec, Life!Spec, ImplementsLife

(* What the agent itself does is never the server's part: it gives no        *)
(* instance an owner, thaws none, and freezes none but what it makes.        *)
THEOREM AgentsPart == Spec => AgentKeepsItsPart
<1>1. Typed /\ ZInv /\ LInv /\ [Next]_vars =>
        [\/ UNCHANGED agentVars
         \/ UNCHANGED Life!vars
         \/ \E i \in Instances : Life!OthersPart(i)]_vars
  BY StepOfLife
<1>2. QED
  BY <1>1, AlwaysLInv, PTL DEF Spec, AgentKeepsItsPart
=============================================================================
