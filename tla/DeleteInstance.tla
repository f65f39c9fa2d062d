--------------------------- MODULE DeleteInstance ---------------------------
(***************************************************************************)
(* The DeleteInstance RPC of the server (server_delete_instance.go and      *)
(* server_host.go).  A call asks the host that the status cache names, then *)
(* all hosts, under their mutexes and within two seconds; then it stops and *)
(* deletes the instance without the mutex.  Scrapes and AddInstance calls   *)
(* use the same clients at the same time.                                   *)
(***************************************************************************)
EXTENDS ClientContext

CONSTANTS
  CloudId,    \* [Deletes -> Instances]: the instance to delete
  NoHost      \* no host found

ASSUME CloudIdType == CloudId \in [Deletes -> Instances]
ASSUME NoHostFresh == NoHost \notin Hosts

VARIABLES
  pc,         \* where the handler is
  targets,    \* targetLXDHosts of the call
  found,      \* foundHost
  queried     \* history: the hosts that got GetInstance of the last search

handlerVars == <<pc, targets, found, queried>>
vars == <<hostVars, contextVars, handlerVars>>

Answers == {"deleted", "notfound", "internal", "invalid"}
PCs == {"idle", "confirm", "search", "stop", "delete"} \cup Answers

TypeOK ==
  /\ HostTypeOK
  /\ ContextTypeOK
  /\ pc \in [Deletes -> PCs]
  /\ targets \in [Deletes -> SUBSET Hosts]
  /\ found \in [Deletes -> Hosts \cup {NoHost}]
  /\ queried \in [Deletes -> SUBSET Hosts]

Init ==
  /\ status \in [Instances -> {"Stopped", "Running", "Gone"}]
  /\ runner = [i \in Instances |-> NoRunner]
  /\ ContextInit
  /\ pc = [d \in Deletes |-> "idle"]
  /\ targets = [d \in Deletes |-> {}]
  /\ found = [d \in Deletes |-> NoHost]
  /\ queried = [d \in Deletes |-> {}]

Goto(d, l) == pc' = [pc EXCEPT ![d] = l]
IsOn(d, h) == Exists(CloudId[d]) /\ HostOf[CloudId[d]] = h
Quiet(d) == \A h \in Hosts : using[d][h] = "no"
----------------------------------------------------------------------------
(* findInstanceHostFromCache: the cache, of any age, names one of the hosts *)
(* or none.  That host is asked alone first, else all are.                  *)
AskCached(d, hosts, h) ==
  /\ pc[d] = "idle"
  /\ h \in hosts
  /\ targets' = [targets EXCEPT ![d] = hosts]
  /\ StartUse(d, {h})
  /\ Goto(d, "confirm")
  /\ UNCHANGED <<hostVars, found, queried>>

AskAll(d, hosts) ==
  /\ \/ pc[d] = "idle"
     \/ pc[d] = "confirm" /\ Quiet(d) /\ found[d] = NoHost /\ hosts = targets[d]
  /\ hosts # {}
  /\ targets' = [targets EXCEPT ![d] = hosts]
  /\ StartUse(d, hosts)
  /\ Goto(d, "search")
  /\ queried' = [queried EXCEPT ![d] = {}]
  /\ UNCHANGED <<hostVars, found>>

(* validateTargetHosts: no known host, or none to connect to. *)
Reject(d) ==
  /\ pc[d] = "idle"
  /\ Goto(d, "invalid")
  /\ UNCHANGED <<hostVars, contextVars, targets, found, queried>>

LockHost(d, h) == Lock(d, h) /\ UNCHANGED <<hostVars, handlerVars>>

(* GetInstance; no request goes out with a context that has expired. *)
Query(d, h) ==
  /\ SetContext(d, h)
  /\ queried' = IF <<d, h>> \in expired THEN queried
                ELSE [queried EXCEPT ![d] = @ \cup {h}]
  /\ UNCHANGED <<hostVars, pc, targets, found>>

(* isExistInstanceWithTimeout gets the instance in time. *)
AnswerFound(d, h) ==
  /\ IsOn(d, h)
  /\ <<d, h>> \notin expired
  /\ ResetContext(d, h)
  /\ found' = [found EXCEPT ![d] = h]
  /\ UNCHANGED <<hostVars, pc, targets, queried>>

(* The instance is not on the host, the deadline has passed, or the call    *)
(* has failed otherwise: isExistInstance and isExistInstanceInHosts ignore  *)
(* the host in each case.                                                   *)
Ignore(d, h) == ResetContext(d, h) /\ UNCHANGED <<hostVars, handlerVars>>

AnswerAbsent(d, h) == ~IsOn(d, h) /\ <<d, h>> \notin expired /\ Ignore(d, h)
AnswerLate(d, h) == <<d, h>> \in expired /\ Ignore(d, h)
AnswerFails(d, h) == <<d, h>> \notin expired /\ Ignore(d, h)

Release(d, h) == (Unlock(d, h) \/ Cancel(d, h)) /\ UNCHANGED <<hostVars, handlerVars>>

Found(d) ==
  /\ pc[d] \in {"confirm", "search"}
  /\ Quiet(d)
  /\ found[d] # NoHost
  /\ Goto(d, "stop")
  /\ UNCHANGED <<hostVars, contextVars, targets, found, queried>>

NotFound(d) ==
  /\ pc[d] = "search"
  /\ Quiet(d)
  /\ found[d] = NoHost
  /\ Goto(d, "notfound")
  /\ UNCHANGED <<hostVars, contextVars, targets, found, queried>>
----------------------------------------------------------------------------
(* Mutant of StopDone: that the instance was removed meanwhile is no error, *)
(* and the call is answered at once.                                        *)
StopDoneOrGone(d) ==
  /\ pc[d] = "stop"
  /\ carries[d] # Cut
  /\ EndCall(d)
  /\ Stop(CloudId[d]) \/ UNCHANGED hostVars
  /\ Goto(d, "deleted")
  /\ UNCHANGED <<targets, found, queried>>

(* UpdateInstanceState and DeleteInstance, each with the wait for it. *)
Request(d) ==
  /\ pc[d] \in {"stop", "delete"}
  /\ StartCall(d, found[d])
  /\ UNCHANGED <<hostVars, handlerVars>>

(* An instance that is already stopped counts as stopped. *)
StopDone(d) ==
  /\ pc[d] = "stop"
  /\ carries[d] # Cut
  /\ EndCall(d)
  /\ Stop(CloudId[d]) \/ (status[CloudId[d]] = "Stopped" /\ UNCHANGED hostVars)
  /\ Goto(d, "delete")
  /\ UNCHANGED <<targets, found, queried>>

DeleteDone(d) ==
  /\ pc[d] = "delete"
  /\ carries[d] # Cut
  /\ EndCall(d)
  /\ Delete(CloudId[d])
  /\ Goto(d, "deleted")
  /\ UNCHANGED <<targets, found, queried>>

(* An error, of LXD or of the context; LXD may have done its work. *)
RequestFails(d) ==
  /\ pc[d] \in {"stop", "delete"}
  /\ EndCall(d)
  /\ \/ UNCHANGED hostVars
     \/ pc[d] = "stop" /\ Stop(CloudId[d])
     \/ pc[d] = "delete" /\ Delete(CloudId[d])
  /\ Goto(d, "internal")
  /\ UNCHANGED <<targets, found, queried>>
----------------------------------------------------------------------------
DeleteStep(d) ==
  \/ \E hosts \in SUBSET Hosts : AskAll(d, hosts) \/ \E h \in Hosts : AskCached(d, hosts, h)
  \/ Reject(d)
  \/ \E h \in Hosts :
       \/ LockHost(d, h) \/ Query(d, h) \/ Release(d, h)
       \/ AnswerFound(d, h) \/ AnswerAbsent(d, h) \/ AnswerLate(d, h) \/ AnswerFails(d, h)
  \/ Found(d) \/ NotFound(d)
  \/ Request(d) \/ StopDone(d) \/ DeleteDone(d) \/ RequestFails(d)

OtherUse(s, h) ==
  /\ \/ StartUse(s, {h}) \/ Lock(s, h) \/ GiveUpUse(s, h)
     \/ SetContext(s, h) \/ ResetContext(s, h) \/ Unlock(s, h) \/ Cancel(s, h)
  /\ UNCHANGED <<hostVars, handlerVars>>

OtherCall(a, h) ==
  /\ AllocLock(a, h) \/ AllocUnlock(a, h) \/ StartCall(a, h) \/ EndCall(a)
  /\ UNCHANGED <<hostVars, handlerVars>>

Deadline ==
  /\ \E x \in Holders, h \in Hosts : Expire(x, h)
  /\ UNCHANGED <<hostVars, handlerVars>>

(* The job in the instance ends by itself. *)
JobEnds ==
  /\ \E i \in Instances : status[i] = "Running" /\ Stop(i)
  /\ UNCHANGED <<contextVars, handlerVars>>

Next ==
  \/ \E d \in Deletes : DeleteStep(d)
  \/ \E s \in Scrapers, h \in Hosts : OtherUse(s, h)
  \/ \E a \in Setups, h \in Hosts : OtherCall(a, h)
  \/ Deadline
  \/ JobEnds

Spec == Init /\ [][Next]_vars

(* Handlers run, a mutex that is asked for is obtained in the end (Go's     *)
(* mutexes do not starve a waiter), calls under the mutex end, and an       *)
(* allocation makes a few of them only.                                     *)
Fairness ==
  /\ \A d \in Deletes : SF_vars(pc[d] # "idle" /\ DeleteStep(d))
  /\ \A s \in Scrapers, h \in Hosts :
       WF_vars((SetContext(s, h) \/ ResetContext(s, h) \/ Unlock(s, h))
                 /\ UNCHANGED <<hostVars, handlerVars>>)
  /\ \A a \in Setups, h \in Hosts :
       /\ WF_vars(lock[h] = a /\ EndCall(a) /\ UNCHANGED <<hostVars, handlerVars>>)
       /\ SF_vars(AllocUnlock(a, h) /\ UNCHANGED <<hostVars, handlerVars>>)

FairSpec == Spec /\ Fairness
----------------------------------------------------------------------------
(* A deadline is on the client of a host only while the one that set it     *)
(* holds the mutex; who waits for LXD after setting its context has that    *)
(* one on the client; and no call of an allocation under the mutex carries  *)
(* a deadline: who follows the mutex pattern is cut off by nobody else      *)
(* (connect_test.go, TestAPICallMutex_NoContextRace; lxdclient/resource.go).  *)
ContextIsTheHolders ==
  \A h \in Hosts :
    /\ ctx[h] # Background => lock[h] = ctx[h]
    /\ \A x \in Holders : using[x][h] = "call" => ctx[h] = x
    /\ \A a \in Setups : lock[h] = a => carries[a] \in {NoCall, <<Background, h>>}

(* Of several calls for one instance (myshoes repeats a call that it thinks  *)
(* has failed) at most one says that it has deleted it, and then it is gone. *)
DeletedOnce ==
  \A d, e \in Deletes :
    pc[d] = "deleted" =>
      /\ status[CloudId[d]] = "Gone"
      /\ pc[e] = "deleted" /\ CloudId[d] = CloudId[e] => d = e

(* Each call is answered, whoever holds the mutexes and whatever times out. *)
EveryDeleteAnswered ==
  \A d \in Deletes : pc[d] # "idle" ~> pc[d] \in Answers

(* NotFound is answered when no host of the call has the instance, or when  *)
(* each that has it was asked for it ("isExistInstanceInHosts searches the  *)
(* instance by querying all target hosts").                                 *)
NotFoundIsAbsent ==
  \A d \in Deletes : pc[d] = "notfound" =>
    \A h \in targets[d] : IsOn(d, h) => h \in queried[d]
============================================================================
