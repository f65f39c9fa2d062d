------------------------ MODULE DeleteInstanceProofs ------------------------
(* Proofs about DeleteInstance for any number of hosts, instances, deletions, *)
(* scrapes and setups.                                                        *)
EXTENDS DeleteInstance, TLAPS

(* A handler that is past the search has found a host.  The type of the     *)
(* context that its next call carries rests on that.                        *)
Located == \A d \in Deletes : pc[d] \in {"stop", "delete"} => found[d] \in Hosts

(* A holder has the mutex from Lock to Unlock, and its context is on the    *)
(* client from SetContext to ResetContext, which lie between the two.       *)
MutexPattern ==
  \A h \in Hosts, x \in Holders :
    /\ lock[h] = x <=> using[x][h] \in {"set", "call", "unlock"}
    /\ ctx[h] = x <=> using[x][h] = "call"

(* No call of an allocation that holds the mutex carries a deadline. *)
AllocationsUncut ==
  \A h \in Hosts, a \in Setups :
    lock[h] = a => carries[a] \in {NoCall, <<Background, h>>}

ContextInv == ContextTypeOK /\ MutexPattern /\ AllocationsUncut

IInv == TypeOK /\ Located /\ MutexPattern /\ AllocationsUncut /\ DeletedOnce

(* What the users of the mutex find follows from what they do with it. *)
LEMMA PatternGivesContext == ContextInv => ContextIsTheHolders
<1> SUFFICES ASSUME ContextInv, NEW h \in Hosts
             PROVE /\ ctx[h] # Background => lock[h] = ctx[h]
                   /\ \A x \in Holders : using[x][h] = "call" => ctx[h] = x
                   /\ \A a \in Setups : lock[h] = a => carries[a] \in {NoCall, <<Background, h>>}
  BY DEF ContextIsTheHolders
<1>1. ctx[h] \in Holders \cup {Background}
  BY DEF ContextInv, ContextTypeOK
<1>2. ctx[h] # Background => lock[h] = ctx[h]
  BY <1>1 DEF ContextInv, MutexPattern
<1>3. QED
  BY <1>2 DEF ContextInv, MutexPattern, AllocationsUncut

LEMMA InitIInv == Init => IInv
<1> SUFFICES ASSUME Init PROVE IInv
  OBVIOUS
<1>1. TypeOK
  BY NoHostFresh DEF Init, TypeOK, HostTypeOK, Statuses, ContextInit, ContextTypeOK, Uses, PCs
<1>2. MutexPattern /\ AllocationsUncut
  BY FreshUsers DEF Init, ContextInit, MutexPattern, AllocationsUncut, Holders
<1>3. DeletedOnce
  BY DEF Init, DeletedOnce
<1>4. Located
  BY DEF Init, Located
<1>5. QED
  BY <1>1, <1>2, <1>3, <1>4 DEF IInv

(* What a use of a client does, whoever uses it. *)
UseStep(x, h) ==
  \/ \E hosts \in SUBSET Hosts : StartUse(x, hosts)
  \/ Lock(x, h) \/ GiveUpUse(x, h) \/ SetContext(x, h) \/ Expire(x, h)
  \/ ResetContext(x, h) \/ Unlock(x, h) \/ Cancel(x, h)

LEMMA UseTypes ==
  ASSUME ContextTypeOK, NEW x \in Holders, NEW h \in Hosts, UseStep(x, h)
  PROVE ContextTypeOK'
<1> USE DEF ContextTypeOK, Use, Uses
<1>1. ASSUME NEW y \in Holders, NEW g \in Hosts, CutCalls(y, g)
      PROVE carries' \in [Callers -> ((Holders \cup {Background}) \X Hosts) \cup {NoCall, Cut}]
  BY <1>1 DEF CutCalls
<1>2. ASSUME NEW hosts \in SUBSET Hosts, StartUse(x, hosts)
      PROVE ContextTypeOK'
  BY <1>2 DEF StartUse
<1>3. CASE Lock(x, h)
  BY <1>3 DEF Lock
<1>4. CASE GiveUpUse(x, h)
  BY <1>4 DEF GiveUpUse
<1>5. CASE SetContext(x, h)
  BY <1>5 DEF SetContext
<1>6. CASE Expire(x, h)
  BY <1>1, <1>6 DEF Expire
<1>7. CASE ResetContext(x, h)
  BY <1>7 DEF ResetContext
<1>8. CASE Unlock(x, h)
  BY <1>8 DEF Unlock
<1>9. CASE Cancel(x, h)
  BY <1>1, <1>9 DEF Cancel
<1>10. QED
  BY <1>2, <1>3, <1>4, <1>5, <1>6, <1>7, <1>8, <1>9 DEF UseStep

(* Each step of a use keeps the pattern of its own mutex and context, and    *)
(* touches nobody else's: the mutex is free when it is locked.               *)
LEMMA UsePattern ==
  ASSUME ContextTypeOK, MutexPattern, NEW x \in Holders, NEW h \in Hosts,
         UseStep(x, h)
  PROVE MutexPattern'
<1> USE FreshUsers DEF ContextTypeOK, MutexPattern, Use
<1>1. ASSUME NEW hosts \in SUBSET Hosts, StartUse(x, hosts)
      PROVE MutexPattern'
  BY <1>1 DEF StartUse
<1>2. CASE Lock(x, h)
  BY <1>2 DEF Lock
<1>3. CASE GiveUpUse(x, h)
  BY <1>3 DEF GiveUpUse
<1>4. CASE SetContext(x, h)
  BY <1>4 DEF SetContext
<1>5. CASE Expire(x, h)
  BY <1>5 DEF Expire
<1>6. CASE ResetContext(x, h)
  BY <1>6 DEF ResetContext
<1>7. CASE Unlock(x, h)
  BY <1>7 DEF Unlock
<1>8. CASE Cancel(x, h)
  BY <1>8 DEF Cancel
<1>9. QED
  BY <1>1, <1>2, <1>3, <1>4, <1>5, <1>6, <1>7, <1>8 DEF UseStep

(* A deadline that passes or is cancelled cuts no call with the background    *)
(* context, and a use never takes a mutex away from an allocation.            *)
LEMMA UseCutsNoAllocation ==
  ASSUME ContextTypeOK, AllocationsUncut, NEW x \in Holders, NEW h \in Hosts,
         UseStep(x, h)
  PROVE AllocationsUncut'
<1> SUFFICES ASSUME NEW g \in Hosts, NEW a \in Setups, lock'[g] = a
             PROVE carries'[a] \in {NoCall, <<Background, g>>}
  BY DEF AllocationsUncut
<1>1. lock[g] = a
  BY HoldersDisjoint, FreshUsers
     DEF UseStep, StartUse, Lock, GiveUpUse, SetContext, Expire, ResetContext, Unlock,
         Cancel, ContextTypeOK
<1>2. carries[a] \in {NoCall, <<Background, g>>} /\ a \in Callers
  BY <1>1 DEF AllocationsUncut, Callers
<1>3. carries[a] # <<x, h>>
  BY <1>2, FreshUsers, FreshCalls
<1>4. UNCHANGED carries \/ CutCalls(x, h)
  BY DEF UseStep, StartUse, Lock, GiveUpUse, SetContext, Expire, ResetContext, Unlock,
         Cancel
<1>5. carries'[a] = carries[a]
  BY <1>2, <1>3, <1>4 DEF CutCalls
<1>6. QED
  BY <1>2, <1>5

LEMMA UseInv ==
  ASSUME ContextInv, NEW x \in Holders, NEW h \in Hosts, UseStep(x, h)
  PROVE ContextInv'
  BY UseTypes, UsePattern, UseCutsNoAllocation DEF ContextInv

LEMMA CallInv ==
  ASSUME ContextInv, NEW c \in Callers, NEW h \in Hosts, StartCall(c, h) \/ EndCall(c)
  PROVE ContextInv'
<1> USE DEF ContextInv
<1>1. UNCHANGED <<lock, ctx, using, expired>>
  BY DEF EndCall, StartCall
<1>2. <<ctx[h], h>> \in (Holders \cup {Background}) \X Hosts
  BY DEF ContextTypeOK
<1>3. PICK e \in ((Holders \cup {Background}) \X Hosts) \cup {NoCall, Cut} :
        carries' = [carries EXCEPT ![c] = e]
  BY <1>2 DEF EndCall, StartCall
<1>4. ContextTypeOK' /\ MutexPattern'
  BY <1>1, <1>3 DEF ContextTypeOK, MutexPattern
<1>5. ASSUME NEW g \in Hosts, lock[g] = c, c \in Setups
      PROVE carries'[c] \in {NoCall, <<Background, g>>}
  <2>1. ctx[g] = Background
    BY <1>5, HoldersDisjoint DEF ContextTypeOK, MutexPattern
  <2>2. <<Background, g>> \notin expired
    BY FreshUsers DEF ContextTypeOK
  <2>3. CASE EndCall(c)
    BY <2>3 DEF EndCall, ContextTypeOK
  <2>4. CASE StartCall(c, h)
    <3>1. g = h
      BY <1>5, <2>4 DEF StartCall
    <3>2. QED
      BY <2>1, <2>2, <2>4, <3>1 DEF StartCall, ContextTypeOK
  <2>5. QED
    BY <2>3, <2>4
<1>6. AllocationsUncut'
  BY <1>1, <1>3, <1>5 DEF AllocationsUncut, ContextTypeOK, Callers
<1>7. QED
  BY <1>4, <1>6

(* An allocation takes a free mutex before its first call, and frees it       *)
(* after its last.                                                            *)
LEMMA AllocInv ==
  ASSUME ContextInv, NEW a \in Setups, NEW h \in Hosts,
         AllocLock(a, h) \/ AllocUnlock(a, h)
  PROVE ContextInv'
<1> USE DEF ContextInv
<1>1. UNCHANGED <<ctx, using, expired, carries>> /\ carries[a] = NoCall
  BY DEF AllocLock, AllocUnlock
<1>2. ContextTypeOK'
  BY <1>1 DEF AllocLock, AllocUnlock, ContextTypeOK
<1>3. MutexPattern'
  BY <1>1, HoldersDisjoint, FreshUsers
     DEF AllocLock, AllocUnlock, ContextTypeOK, MutexPattern
<1>4. AllocationsUncut'
  BY <1>1, FreshUsers DEF AllocLock, AllocUnlock, ContextTypeOK, AllocationsUncut
<1>5. QED
  BY <1>2, <1>3, <1>4

(* An instance that is gone stays gone. *)
GoneStays == \A i \in Instances : status[i] = "Gone" => status'[i] = "Gone"

LEMMA HostTypes ==
  ASSUME HostTypeOK, NEW i \in Instances, Stop(i) \/ Delete(i) \/ UNCHANGED hostVars
  PROVE HostTypeOK' /\ GoneStays
  BY DEF HostTypeOK, Statuses, Stop, Delete, hostVars, GoneStays

LEMMA DeletedKept ==
  ASSUME DeletedOnce, GoneStays,
         \A d \in Deletes : pc'[d] = "deleted" => pc[d] = "deleted"
  PROVE DeletedOnce'
  BY CloudIdType DEF DeletedOnce, GoneStays

(* A step of a handler that leaves the instances alone and does not end in   *)
(* success.                                                                  *)
LEMMA QuietStep ==
  ASSUME TypeOK, DeletedOnce, UNCHANGED hostVars,
         NEW d \in Deletes, NEW l \in PCs \ {"deleted"},
         Goto(d, l) \/ UNCHANGED pc
  PROVE HostTypeOK' /\ pc' \in [Deletes -> PCs] /\ DeletedOnce'
<1>1. HostTypeOK' /\ GoneStays
  BY DEF TypeOK, HostTypeOK, hostVars, GoneStays
<1>2. pc' \in [Deletes -> PCs]
  BY DEF TypeOK, Goto
<1>3. \A e \in Deletes : pc'[e] = "deleted" => pc[e] = "deleted"
  BY DEF TypeOK, Goto
<1>4. QED
  BY <1>1, <1>2, <1>3, DeletedKept

LEMMA DeleteDoneStep ==
  ASSUME IInv, NEW d \in Deletes, DeleteDone(d)
  PROVE HostTypeOK' /\ pc' \in [Deletes -> PCs] /\ DeletedOnce'
<1> USE CloudIdType DEF IInv, TypeOK
<1>1. /\ status[CloudId[d]] = "Stopped"
      /\ status' = [status EXCEPT ![CloudId[d]] = "Gone"]
      /\ pc' = [pc EXCEPT ![d] = "deleted"]
      /\ UNCHANGED runner
  BY DEF DeleteDone, Delete, Goto
<1>2. HostTypeOK' /\ pc' \in [Deletes -> PCs]
  BY <1>1 DEF HostTypeOK, Statuses, PCs, Answers
<1>3. \A e \in Deletes : pc[e] = "deleted" => CloudId[e] # CloudId[d]
  BY <1>1 DEF DeletedOnce
<1>4. DeletedOnce'
  BY <1>1, <1>3 DEF DeletedOnce, HostTypeOK
<1>5. QED
  BY <1>2, <1>4

LEMMA StopStep ==
  ASSUME IInv, NEW d \in Deletes, StopDone(d) \/ RequestFails(d)
  PROVE HostTypeOK' /\ pc' \in [Deletes -> PCs] /\ DeletedOnce'
<1> USE CloudIdType DEF IInv, TypeOK
<1>1. Stop(CloudId[d]) \/ Delete(CloudId[d]) \/ UNCHANGED hostVars
  BY DEF StopDone, RequestFails, hostVars
<1>2. HostTypeOK' /\ GoneStays
  BY <1>1, HostTypes
<1>3. PICK l \in {"delete", "internal"} : pc' = [pc EXCEPT ![d] = l]
  BY DEF StopDone, RequestFails, Goto
<1>4. pc' \in [Deletes -> PCs]
  BY <1>3 DEF PCs, Answers
<1>5. \A e \in Deletes : pc'[e] = "deleted" => pc[e] = "deleted"
  BY <1>3
<1>6. QED
  BY <1>2, <1>4, <1>5, DeletedKept

LEMMA DeleteStepInv ==
  ASSUME IInv, NEW d \in Deletes, DeleteStep(d)
  PROVE IInv'
<1> USE DEF IInv
<1> DEFINE FoundOK == found' \in [Deletes -> Hosts \cup {NoHost}]
           TargetsOK == targets' \in [Deletes -> SUBSET Hosts]
           Rest == HostTypeOK' /\ pc' \in [Deletes -> PCs] /\ DeletedOnce'
           QueriedOK == queried' \in [Deletes -> SUBSET Hosts]
           Context == ContextInv'
<1>1. d \in Holders /\ d \in Callers
  BY DEF Holders, Callers
<1>2. ASSUME Rest, Context, FoundOK, TargetsOK, QueriedOK, Located' PROVE IInv'
  BY <1>2 DEF TypeOK, ContextInv
<1>3. ASSUME NEW hosts \in SUBSET Hosts, AskAll(d, hosts)
      PROVE IInv'
  <2>1. UseStep(d, CHOOSE h \in Hosts : h \in hosts) /\ (CHOOSE h \in Hosts : h \in hosts) \in Hosts
    BY <1>3 DEF AskAll, UseStep
  <2>2. Context
    BY <1>1, <2>1, UseInv DEF TypeOK, ContextInv
  <2>3. Rest
    BY <1>3, QuietStep DEF AskAll, PCs, Answers
  <2>4. FoundOK /\ TargetsOK /\ QueriedOK /\ Located'
    BY <1>3 DEF AskAll, Goto, Located, TypeOK
  <2>5. QED
    BY <1>2, <2>2, <2>3, <2>4
<1>4. ASSUME NEW hosts \in SUBSET Hosts, NEW h \in Hosts, AskCached(d, hosts, h)
      PROVE IInv'
  <2>1. UseStep(d, h)
    BY <1>4 DEF AskCached, UseStep
  <2>2. Context
    BY <1>1, <2>1, UseInv DEF TypeOK, ContextInv
  <2>3. Rest
    BY <1>4, QuietStep DEF AskCached, PCs, Answers
  <2>4. FoundOK /\ TargetsOK /\ QueriedOK /\ Located'
    BY <1>4 DEF AskCached, Goto, Located, TypeOK
  <2>5. QED
    BY <1>2, <2>2, <2>3, <2>4
<1>5. ASSUME Reject(d) \/ Found(d) \/ NotFound(d)
      PROVE IInv'
  <2>1. Context
    BY <1>5 DEF Reject, Found, NotFound, contextVars, TypeOK, ContextInv, ContextTypeOK,
                MutexPattern, AllocationsUncut
  <2>2. Rest
    BY <1>5, QuietStep DEF Reject, Found, NotFound, PCs, Answers
  <2>3. FoundOK /\ TargetsOK /\ QueriedOK /\ Located'
    BY <1>5 DEF Reject, Found, NotFound, Goto, Located, TypeOK
  <2>4. QED
    BY <1>2, <2>1, <2>2, <2>3
<1>6. ASSUME NEW h \in Hosts,
             \/ LockHost(d, h) \/ Query(d, h) \/ Release(d, h)
             \/ AnswerFound(d, h) \/ AnswerAbsent(d, h) \/ AnswerLate(d, h)
             \/ AnswerFails(d, h)
      PROVE IInv'
  <2> USE DEF LockHost, Query, Release, AnswerFound, AnswerAbsent, AnswerLate,
              AnswerFails, Ignore
  <2>1. UseStep(d, h)
    BY <1>6 DEF UseStep
  <2>2. Context
    BY <1>1, <2>1, UseInv DEF TypeOK, ContextInv
  <2>3. UNCHANGED pc /\ UNCHANGED hostVars
    BY <1>6 DEF handlerVars
  <2>4. Rest
    BY <2>3, QuietStep DEF PCs
  <2>5. FoundOK /\ TargetsOK /\ QueriedOK /\ Located'
    BY <1>6 DEF handlerVars, Located, TypeOK
  <2>6. QED
    BY <1>2, <2>2, <2>4, <2>5
<1>7. ASSUME Request(d)
      PROVE IInv'
  <2>1. PICK g \in Hosts : StartCall(d, g)
    BY <1>7 DEF Request, Located
  <2>2. Context
    BY <1>1, <2>1, CallInv DEF TypeOK, ContextInv
  <2>3. UNCHANGED <<hostVars, handlerVars>>
    BY <1>7 DEF Request
  <2>4. Rest
    BY <2>3, QuietStep DEF handlerVars, PCs
  <2>5. FoundOK /\ TargetsOK /\ QueriedOK /\ Located'
    BY <2>3 DEF handlerVars, Located, TypeOK
  <2>6. QED
    BY <1>2, <2>2, <2>4, <2>5
<1>8. ASSUME StopDone(d) \/ DeleteDone(d) \/ RequestFails(d)
      PROVE IInv'
  <2>1. Context
    <3>1. found[d] \in Hosts
      BY <1>8 DEF StopDone, DeleteDone, RequestFails, Located
    <3>2. EndCall(d)
      BY <1>8 DEF StopDone, DeleteDone, RequestFails
    <3>3. QED
      BY <1>1, <3>1, <3>2, CallInv DEF TypeOK, ContextInv
  <2>2. Rest
    BY <1>8, DeleteDoneStep, StopStep
  <2>3. FoundOK /\ TargetsOK /\ QueriedOK /\ Located'
    BY <1>8 DEF StopDone, DeleteDone, RequestFails, Goto, Located, TypeOK
  <2>4. QED
    BY <1>2, <2>1, <2>2, <2>3
<1>9. QED
  BY <1>3, <1>4, <1>5, <1>6, <1>7, <1>8 DEF DeleteStep

LEMMA InvStep == IInv /\ [Next]_vars => IInv'
<1> SUFFICES ASSUME IInv, [Next]_vars PROVE IInv'
  OBVIOUS
<1> USE DEF IInv
<1>1. ASSUME UNCHANGED <<hostVars, handlerVars>>, ContextInv'
      PROVE IInv'
  <2>1. HostTypeOK' /\ GoneStays
    BY <1>1 DEF hostVars, TypeOK, HostTypeOK, GoneStays
  <2>2. DeletedOnce'
    BY <1>1, <2>1, DeletedKept DEF handlerVars
  <2>3. QED
    BY <1>1, <2>1, <2>2 DEF handlerVars, TypeOK, Located, ContextInv
<1>2. ASSUME NEW d \in Deletes, DeleteStep(d)
      PROVE IInv'
  BY <1>2, DeleteStepInv
<1>3. ASSUME NEW s \in Scrapers, NEW h \in Hosts, OtherUse(s, h)
      PROVE IInv'
  <2>1. UseStep(s, h) /\ s \in Holders
    BY <1>3 DEF OtherUse, UseStep, Holders
  <2>2. QED
    BY <1>1, <1>3, <2>1, UseInv DEF OtherUse, TypeOK, ContextInv
<1>4. ASSUME NEW a \in Setups, NEW h \in Hosts, OtherCall(a, h)
      PROVE IInv'
  BY <1>1, <1>4, CallInv, AllocInv DEF OtherCall, Callers, TypeOK, ContextInv
<1>5. ASSUME Deadline
      PROVE IInv'
  <2>1. PICK x \in Holders, h \in Hosts : Expire(x, h)
    BY <1>5 DEF Deadline
  <2>2. QED
    BY <1>1, <1>5, <2>1, UseInv DEF Deadline, UseStep, TypeOK, ContextInv
<1>6. ASSUME JobEnds
      PROVE IInv'
  <2>1. HostTypeOK' /\ GoneStays
    BY <1>6, HostTypes DEF JobEnds, TypeOK
  <2>2. UNCHANGED <<contextVars, handlerVars>>
    BY <1>6 DEF JobEnds
  <2>3. DeletedOnce'
    BY <2>1, <2>2, DeletedKept DEF handlerVars
  <2>4. QED
    BY <2>1, <2>2, <2>3 DEF handlerVars, contextVars, TypeOK, ContextTypeOK,
                            MutexPattern, AllocationsUncut, Located
<1>7. CASE UNCHANGED vars
  <2>1. ContextInv'
    BY <1>7 DEF vars, contextVars, TypeOK, ContextInv, ContextTypeOK, MutexPattern,
                AllocationsUncut
  <2>2. QED
    BY <1>1, <1>7, <2>1 DEF vars
<1>8. QED
  BY <1>2, <1>3, <1>4, <1>5, <1>6, <1>7 DEF Next

THEOREM DeleteInvariant == Spec => []IInv
  BY InitIInv, InvStep, PTL DEF Spec

(* The types are kept. *)
THEOREM TypeCorrect == Spec => []TypeOK
<1>1. IInv => TypeOK
  BY DEF IInv
<1>2. QED
  BY <1>1, DeleteInvariant, PTL

(* A deadline is on the client of a host only while the one that set it      *)
(* holds the mutex, who calls LXD under it has its own context there, and an  *)
(* allocation under the mutex is cut off by nobody: for any number of         *)
(* goroutines, whatever times out (isExistInstanceWithTimeout,                *)
(* GetResourceFromLXD, scrapeLXDHost, allocateInstance).                       *)
THEOREM ContextStaysWithHolder == Spec => []ContextIsTheHolders
<1>1. IInv => ContextIsTheHolders
  BY PatternGivesContext DEF IInv, TypeOK, ContextInv
<1>2. QED
  BY <1>1, DeleteInvariant, PTL

(* However many deletions of an instance run, one at most says that it has   *)
(* deleted it, and then it is gone (DeleteInstance).                         *)
THEOREM OneDeletionSucceeds == Spec => []DeletedOnce
<1>1. IInv => DeletedOnce
  BY DEF IInv
<1>2. QED
  BY <1>1, DeleteInvariant, PTL
============================================================================
