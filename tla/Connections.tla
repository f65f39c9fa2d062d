---------------------------- MODULE Connections ----------------------------
(***************************************************************************)
(* The connection table of the server (server/pkg/lxdclient/connect.go):   *)
(* connectedInstances maps a host to the one LXDHost object, with the LXD  *)
(* client and the APICallMutex, that everybody is to share.                *)
(*                                                                         *)
(* ConnectLXDs looks a host up and dials if it is not there, one goroutine *)
(* per host, and no lock spans the two: goroutines that miss together make *)
(* an object each.  Those that fail append to errLXDHosts without a lock,  *)
(* and then their caller deletes the entries of the hosts it finds there,  *)
(* also one that somebody else has stored meanwhile.                       *)
(***************************************************************************)
EXTENDS Naturals

CONSTANTS
  Hosts,      \* the hosts of the server's configuration
  Users,      \* goroutines of requests, of the ticker and of the scrape
  MaxConns,   \* bound: LXDHost objects alive at one time
  MaxCrashes, \* bound: how often the server ends
  NoConn,     \* no entry, or no object got
  Free        \* an unlocked mutex

Conns == 1..MaxConns

ASSUME MaxConnsType == MaxConns \in Nat
ASSUME MaxCrashesType == MaxCrashes \in Nat
ASSUME NoConnFresh == NoConn \notin Conns
ASSUME FreeFresh == Free \notin Users

VARIABLES
  table,      \* connectedInstances
  pc,         \* what a user is doing
  at,         \* where its goroutine for a host is
  seen,       \* errLXDHosts as the append of that goroutine has read it
  errs,       \* errLXDHosts
  got,        \* targetLXDHosts, by host
  section,    \* hosts between whose Lock and Unlock the user is
  lock,       \* holder of the APICallMutex of an object
  crashes     \* how often the server ended

goroutineVars == <<pc, at, seen, errs>>
vars == <<table, goroutineVars, got, section, lock, crashes>>

TypeOK ==
  /\ table \in [Hosts -> Conns \cup {NoConn}]
  /\ pc \in [Users -> {"idle", "connect", "ask", "clean", "work", "end"}]
  /\ at \in [Users -> [Hosts -> {"off", "load", "dial", "append"}]]
  /\ seen \in [Users -> [Hosts -> SUBSET Hosts]]
  /\ errs \in [Users -> SUBSET Hosts]
  /\ got \in [Users -> [Hosts -> Conns \cup {NoConn}]]
  /\ section \in [Users -> SUBSET Hosts]
  /\ lock \in [Conns -> Users \cup {Free}]
  /\ crashes \in 0..MaxCrashes

NothingGot == [h \in Hosts |-> NoConn]
NothingSeen == [h \in Hosts |-> {}]
AllOff == [h \in Hosts |-> "off"]

(* The server has just started: nobody is connected. *)
Init ==
  /\ table = NothingGot
  /\ pc = [u \in Users |-> "idle"]
  /\ at = [u \in Users |-> AllOff]
  /\ seen = [u \in Users |-> NothingSeen]
  /\ errs = [u \in Users |-> {}]
  /\ got = [u \in Users |-> NothingGot]
  /\ section = [u \in Users |-> {}]
  /\ lock = [c \in Conns |-> Free]
  /\ crashes = 0

Goto(u, l) == pc' = [pc EXCEPT ![u] = l]
GoroutineTo(u, h, l) == at' = [at EXCEPT ![u][h] = l]

(* Nothing refers to the object; the names of such objects are used again,  *)
(* the least one first.                                                     *)
Unused(c) ==
  /\ \A h \in Hosts : table[h] # c
  /\ \A u \in Users, h \in Hosts : got[u][h] # c
----------------------------------------------------------------------------
(* ConnectLXDs, of requests, of the ticker and of the scrape, starts a      *)
(* goroutine per host.  GetResourceFromLXD asks for one host, without it.   *)
Connect(u, hosts, how) ==
  /\ pc[u] = "idle"
  /\ hosts # {}
  /\ how = "connect" \/ (how = "ask" /\ \E h \in Hosts : hosts = {h})
  /\ Goto(u, how)
  /\ at' = [at EXCEPT ![u] = [h \in Hosts |-> IF h \in hosts THEN "load" ELSE "off"]]
  /\ UNCHANGED <<table, seen, errs, got, section, lock, crashes>>

(* loadConnectedInstance *)
Hit(u, h) ==
  /\ at[u][h] = "load"
  /\ table[h] # NoConn
  /\ got' = [got EXCEPT ![u][h] = table[h]]
  /\ GoroutineTo(u, h, "off")
  /\ UNCHANGED <<table, pc, seen, errs, section, lock, crashes>>

(* Mutant of Miss: the entry is not used. *)
MissAlways(u, h) ==
  /\ at[u][h] = "load"
  /\ GoroutineTo(u, h, "dial")
  /\ UNCHANGED <<table, pc, seen, errs, got, section, lock, crashes>>

Miss(u, h) ==
  /\ at[u][h] = "load"
  /\ table[h] = NoConn
  /\ GoroutineTo(u, h, "dial")
  /\ UNCHANGED <<table, pc, seen, errs, got, section, lock, crashes>>

(* Mutant of Dialed: the new object is not stored. *)
DialedUnstored(u, h) ==
  /\ at[u][h] = "dial"
  /\ \E c \in Conns :
       /\ Unused(c) /\ \A d \in Conns : Unused(d) => c <= d
       /\ got' = [got EXCEPT ![u][h] = c]
  /\ GoroutineTo(u, h, "off")
  /\ UNCHANGED <<table, pc, seen, errs, section, lock, crashes>>

(* The dial works: a new object is stored, whatever the table has by now,   *)
(* and returned.                                                            *)
Dialed(u, h) ==
  /\ at[u][h] = "dial"
  /\ \E c \in Conns :
       /\ Unused(c) /\ \A d \in Conns : Unused(d) => c <= d
       /\ table' = [table EXCEPT ![h] = c]
       /\ got' = [got EXCEPT ![u][h] = c]
  /\ GoroutineTo(u, h, "off")
  /\ UNCHANGED <<pc, seen, errs, section, lock, crashes>>

(* Mutant of DialFails: the goroutine tries again until it works. *)
DialAgain(u, h) ==
  /\ at[u][h] = "dial"
  /\ GoroutineTo(u, h, "load")
  /\ UNCHANGED <<table, pc, seen, errs, got, section, lock, crashes>>

(* The dial fails or takes more than two seconds.  GetResourceFromLXD has   *)
(* its error; a goroutine of ConnectLXDs begins to append, and reads        *)
(* errLXDHosts.                                                             *)
DialFails(u, h) ==
  /\ at[u][h] = "dial"
  /\ GoroutineTo(u, h, IF pc[u] = "ask" THEN "off" ELSE "append")
  /\ seen' = [seen EXCEPT ![u][h] = errs[u]]
  /\ UNCHANGED <<table, pc, errs, got, section, lock, crashes>>

(* The append is written: what others have appended since is lost.  (Other  *)
(* outcomes of the race are to lose an entry the other way round, which is  *)
(* this action in the other order, and a torn slice, which ends the server.)*)
Append(u, h) ==
  /\ at[u][h] = "append"
  /\ errs' = [errs EXCEPT ![u] = seen[u][h] \cup {h}]
  /\ seen' = [seen EXCEPT ![u][h] = {}]
  /\ GoroutineTo(u, h, "off")
  /\ UNCHANGED <<table, pc, got, section, lock, crashes>>

(* eg.Wait returns, or ConnectLXDWithTimeout does. *)
Joined(u) ==
  /\ pc[u] \in {"connect", "ask"}
  /\ at[u] = AllOff
  /\ Goto(u, "clean")
  /\ UNCHANGED <<table, at, seen, errs, got, section, lock, crashes>>

(* Mutant of DeleteEntry: the entry stays, and is a nil pointer. *)
EntryToNil(u, h) ==
  /\ pc[u] = "clean"
  /\ h \in errs[u]
  /\ table' = [table EXCEPT ![h] = 0]
  /\ errs' = [errs EXCEPT ![u] = @ \ {h}]
  /\ UNCHANGED <<pc, at, seen, got, section, lock, crashes>>

(* deleteConnectedInstance for each entry of errLXDHosts. *)
DeleteEntry(u, h) ==
  /\ pc[u] = "clean"
  /\ h \in errs[u]
  /\ table' = [table EXCEPT ![h] = NoConn]
  /\ errs' = [errs EXCEPT ![u] = @ \ {h}]
  /\ UNCHANGED <<pc, at, seen, got, section, lock, crashes>>

(* ConnectLXDs returns; with no host at all its caller gives up. *)
Connected(u) ==
  /\ pc[u] = "clean"
  /\ errs[u] = {}
  /\ Goto(u, IF got[u] = NothingGot THEN "idle" ELSE "work")
  /\ UNCHANGED <<table, at, seen, errs, got, section, lock, crashes>>
----------------------------------------------------------------------------
(* Mutant of Unlocked: the APICallMutex is not asked. *)
NotAsked(c) == TRUE

Unlocked(c) == lock[c] = Free

(* What needs the host to itself happens under the mutex of the object that *)
(* the user got: listing, searching, allocating.                            *)
Enter(u, h) ==
  /\ pc[u] = "work"
  /\ got[u][h] # NoConn
  /\ h \notin section[u]
  /\ Unlocked(got[u][h])
  /\ lock' = [lock EXCEPT ![got[u][h]] = u]
  /\ section' = [section EXCEPT ![u] = @ \cup {h}]
  /\ UNCHANGED <<table, goroutineVars, got, crashes>>

Leave(u, h) ==
  /\ h \in section[u]
  /\ lock' = [lock EXCEPT ![got[u][h]] = Free]
  /\ section' = [section EXCEPT ![u] = @ \ {h}]
  /\ UNCHANGED <<table, goroutineVars, got, crashes>>

(* The user has nothing more to do, and returns when its sections end. *)
Done(u) ==
  /\ pc[u] = "work"
  /\ Goto(u, "end")
  /\ UNCHANGED <<table, at, seen, errs, got, section, lock, crashes>>

Return(u) ==
  /\ pc[u] = "end"
  /\ section[u] = {}
  /\ Goto(u, "idle")
  /\ got' = [got EXCEPT ![u] = NothingGot]
  /\ UNCHANGED <<table, at, seen, errs, section, lock, crashes>>

(* The server ends, by a torn slice for one, and is started again. *)
Crash ==
  /\ crashes < MaxCrashes
  /\ crashes' = crashes + 1
  /\ table' = NothingGot
  /\ pc' = [u \in Users |-> "idle"]
  /\ at' = [u \in Users |-> AllOff]
  /\ seen' = [u \in Users |-> NothingSeen]
  /\ errs' = [u \in Users |-> {}]
  /\ got' = [u \in Users |-> NothingGot]
  /\ section' = [u \in Users |-> {}]
  /\ lock' = [c \in Conns |-> Free]
----------------------------------------------------------------------------
Goroutine(u, h) == Hit(u, h) \/ Miss(u, h) \/ Dialed(u, h) \/ DialFails(u, h) \/ Append(u, h)

Finish(u) == Joined(u) \/ Connected(u) \/ \E h \in Hosts : DeleteEntry(u, h)

UserStep(u) ==
  \/ \E hosts \in SUBSET Hosts, how \in {"connect", "ask"} : Connect(u, hosts, how)
  \/ \E h \in Hosts : Goroutine(u, h) \/ Enter(u, h) \/ Leave(u, h)
  \/ Finish(u)
  \/ Done(u) \/ Return(u)

Next == Crash \/ \E u \in Users : UserStep(u)

Spec == Init /\ [][Next]_vars

(* Goroutines run, a dial has a deadline, sections end and so does the work *)
(* of a user; that a dial works, or that anybody connects, is left open.    *)
Fairness ==
  \A u \in Users :
    /\ WF_vars(Finish(u))
    /\ WF_vars(Done(u)) /\ WF_vars(Return(u))
    /\ \A h \in Hosts : WF_vars(Goroutine(u, h)) /\ WF_vars(Leave(u, h))

FairSpec == Spec /\ Fairness
----------------------------------------------------------------------------
(* u may still store an object for h, or delete the entry of h. *)
Pending(u, h) ==
  \/ at[u][h] \in {"dial", "append"}
  \/ h \in errs[u]
  \/ \E g \in Hosts : at[u][g] = "append" /\ h \in seen[u][g]

(* h has an entry, which nobody is about to replace or delete, and nobody   *)
(* works with another object.                                               *)
Settled(h) ==
  /\ table[h] # NoConn
  /\ \A u \in Users : ~Pending(u, h) /\ got[u][h] \in {NoConn, table[h]}

(* A settled host stays settled, with the same object, as long as the       *)
(* server runs: new requests, listings, failures on other hosts and their   *)
(* racing cleanups cannot split its mutex any more (connect.go, and what    *)
(* AddInstance assumes as OneMutexPerHost).                                 *)
SettledForGood ==
  [][\A h \in Hosts : Settled(h) /\ crashes' = crashes
       => Settled(h)' /\ table'[h] = table[h]]_vars

(* On a settled host at most one user is between Lock and Unlock, although  *)
(* the users got their objects at different times and from different calls. *)
SettledExcludes ==
  \A h \in Hosts : Settled(h) =>
    \A u, v \in Users : h \in section[u] \cap section[v] => u = v

(* Every ConnectLXDs returns, whichever of its dials fail (connect.go, the  *)
(* deadline of two seconds and eg.Wait).                                    *)
EveryConnectReturns ==
  \A u \in Users : pc[u] \in {"connect", "ask"} ~> pc[u] \in {"work", "idle"}

(* A host that is connected to again and again, and whose dials fail no     *)
(* more, settles in the end: simultaneous connects and cleanups of entries  *)
(* that others have stored split its mutex for a while only.                *)
DialsWork ==
  /\ crashes' = crashes
  /\ \A u \in Users, h \in Hosts :
       at[u][h] = "dial" /\ at'[u][h] # "dial" => got'[u][h] # NoConn

TableSettles ==
  \A h \in Hosts :
    <>[][DialsWork]_vars /\ []<>(\E u \in Users : at[u][h] = "load")
      => <>[]Settled(h)
============================================================================
