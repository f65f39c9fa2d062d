--------------------------- MODULE ClientContext ---------------------------
(***************************************************************************)
(* The one LXD client of a host and its context.  WithContext of the LXD    *)
(* client sets the context of the client in place, so while a goroutine     *)
(* that holds the APICallMutex works with a deadline                        *)
(* (isExistInstanceWithTimeout, GetResourceFromLXD, scrapeLXDHost), every   *)
(* call that another goroutine starts without the mutex (AddInstance from   *)
(* the thaw on, DeleteInstance from the stop on) carries that context, and  *)
(* ends when it expires or is cancelled.                                    *)
(***************************************************************************)
EXTENDS LXDHost

CONSTANTS
  Deletes,    \* DeleteInstance calls: first with, then without the mutex
  Scrapers,   \* other goroutines that set a deadline under the mutex
  Setups,     \* AddInstance calls: with the mutex to allocate, then without
  Free,       \* an unlocked mutex
  Background, \* context.Background()
  NoCall,     \* no call under way
  Cut         \* the context that a running call carries has ended

Holders == Deletes \cup Scrapers
Callers == Deletes \cup Setups

ASSUME HoldersDisjoint ==
  /\ Deletes \cap Scrapers = {}
  /\ Setups \cap Holders = {}
ASSUME FreshUsers == {Free, Background} \cap (Holders \cup Setups) = {}
ASSUME FreshCalls ==
  /\ NoCall # Cut
  /\ {NoCall, Cut} \cap ((Holders \cup {Background}) \X Hosts) = {}

VARIABLES
  lock,       \* holder of APICallMutex, per host
  ctx,        \* whose context the client has, per host
  using,      \* per holder and host: where its use of the client is
  expired,    \* <<x, h>>: the deadline of the use of h by x has passed
  carries     \* per caller: whose context its call carries

contextVars == <<lock, ctx, using, expired, carries>>

(* What a use does next: ask for the mutex, set the context, wait for LXD,  *)
(* unlock the mutex, cancel the context.                                    *)
Uses == {"no", "wait", "set", "call", "unlock", "cancel"}

ContextTypeOK ==
  /\ lock \in [Hosts -> Holders \cup Setups \cup {Free}]
  /\ ctx \in [Hosts -> Holders \cup {Background}]
  /\ using \in [Holders -> [Hosts -> Uses]]
  /\ expired \in SUBSET (Holders \X Hosts)
  /\ carries \in [Callers -> ((Holders \cup {Background}) \X Hosts) \cup {NoCall, Cut}]

ContextInit ==
  /\ lock = [h \in Hosts |-> Free]
  /\ ctx = [h \in Hosts |-> Background]
  /\ using = [x \in Holders |-> [h \in Hosts |-> "no"]]
  /\ expired = {}
  /\ carries = [c \in Callers |-> NoCall]

(* The calls to h that carry the context of x end with an error. *)
CutCalls(x, h) ==
  carries' = [c \in Callers |-> IF carries[c] = <<x, h>> THEN Cut ELSE carries[c]]

Use(x, h, from, to) ==
  /\ using[x][h] = from
  /\ using' = [using EXCEPT ![x][h] = to]
----------------------------------------------------------------------------
(* context.WithTimeout: the deadline starts before the mutex is asked for. *)
StartUse(x, hosts) ==
  /\ \A h \in hosts : using[x][h] = "no"
  /\ using' = [using EXCEPT ![x] = [h \in Hosts |-> IF h \in hosts THEN "wait" ELSE @[h]]]
  /\ UNCHANGED <<lock, ctx, expired, carries>>

(* APICallMutex.Lock. *)
Lock(x, h) ==
  /\ lock[h] = Free
  /\ Use(x, h, "wait", "set")
  /\ lock' = [lock EXCEPT ![h] = x]
  /\ UNCHANGED <<ctx, expired, carries>>

(* TryLock of the scrape fails; it is skipped and its context cancelled. *)
GiveUpUse(x, h) ==
  /\ lock[h] # Free
  /\ Use(x, h, "wait", "no")
  /\ expired' = expired \ {<<x, h>>}
  /\ UNCHANGED <<lock, ctx, carries>>

(* Client.WithContext, and the first call with it. *)
SetContext(x, h) ==
  /\ Use(x, h, "set", "call")
  /\ ctx' = [ctx EXCEPT ![h] = x]
  /\ UNCHANGED <<lock, expired, carries>>

(* A deadline of seconds passes while the goroutine waits: for a mutex that *)
(* another one holds, or for LXD.                                           *)
Expire(x, h) ==
  /\ using[x][h] = "call" \/ (using[x][h] = "wait" /\ lock[h] # Free)
  /\ <<x, h>> \notin expired
  /\ expired' = expired \cup {<<x, h>>}
  /\ CutCalls(x, h)
  /\ UNCHANGED <<lock, ctx, using>>

(* Mutants of the deferred calls: the context is left on the client, the    *)
(* mutex is left locked.                                                    *)
ResetForgotten(x, h) ==
  /\ Use(x, h, "call", "unlock")
  /\ UNCHANGED <<lock, ctx, expired, carries>>

UnlockForgotten(x, h) ==
  /\ Use(x, h, "unlock", "cancel")
  /\ UNCHANGED <<lock, ctx, expired, carries>>

(* The deferred calls, last first: WithContext(Background), Unlock, cancel. *)
ResetContext(x, h) ==
  /\ Use(x, h, "call", "unlock")
  /\ ctx' = [ctx EXCEPT ![h] = Background]
  /\ UNCHANGED <<lock, expired, carries>>

Unlock(x, h) ==
  /\ Use(x, h, "unlock", "cancel")
  /\ lock' = [lock EXCEPT ![h] = Free]
  /\ UNCHANGED <<ctx, expired, carries>>

Cancel(x, h) ==
  /\ Use(x, h, "cancel", "no")
  /\ CutCalls(x, h)
  /\ expired' = expired \ {<<x, h>>}
  /\ UNCHANGED <<lock, ctx>>
----------------------------------------------------------------------------
(* allocateInstance holds the mutex, but sets no context. *)
AllocLock(a, h) ==
  /\ lock[h] = Free
  /\ carries[a] = NoCall
  /\ \A g \in Hosts : lock[g] # a
  /\ lock' = [lock EXCEPT ![h] = a]
  /\ UNCHANGED <<ctx, using, expired, carries>>

AllocUnlock(a, h) ==
  /\ lock[h] = a
  /\ carries[a] = NoCall
  /\ lock' = [lock EXCEPT ![h] = Free]
  /\ UNCHANGED <<ctx, using, expired, carries>>

(* A call of LXD, with the mutex (allocateInstance) or without it, carries  *)
(* the context that the client has now; it fails at once if that one has    *)
(* expired.                                                                 *)
StartCall(c, h) ==
  /\ carries[c] = NoCall
  /\ \A g \in Hosts : lock[g] = c => g = h
  /\ carries' = [carries EXCEPT ![c] =
                   IF <<ctx[h], h>> \in expired THEN Cut ELSE <<ctx[h], h>>]
  /\ UNCHANGED <<lock, ctx, using, expired>>

(* Mutant of EndCall: the entry of the call is not removed. *)
CallStays(c) ==
  /\ carries[c] # NoCall
  /\ carries' = [carries EXCEPT ![c] = Background]
  /\ UNCHANGED <<lock, ctx, using, expired>>

EndCall(c) ==
  /\ carries[c] # NoCall
  /\ carries' = [carries EXCEPT ![c] = NoCall]
  /\ UNCHANGED <<lock, ctx, using, expired>>
============================================================================
