------------------------- MODULE ConnectionsProofs -------------------------
(***************************************************************************)
(* Theorems about Connections, for any hosts, users and numbers of objects *)
(* and of restarts: what a settled host is worth.                          *)
(***************************************************************************)
EXTENDS Connections, TLAPS

(* An object belongs to one host, wherever it is referred to. *)
ObjectsOfOneHost ==
  /\ \A g, h \in Hosts : table[g] = table[h] /\ table[g] # NoConn => g = h
  /\ \A u \in Users, g, h \in Hosts :
       got[u][g] = table[h] /\ table[h] # NoConn => g = h
  /\ \A u, v \in Users, g, h \in Hosts :
       got[u][g] = got[v][h] /\ got[u][g] # NoConn => g = h

(* Goroutines run in ConnectLXDs only, sections only after it. *)
Phases ==
  \A u \in Users :
    /\ pc[u] \notin {"connect", "ask"} => at[u] = AllOff
    /\ pc[u] \notin {"work", "end"} => section[u] = {}

(* Who is in a section has the mutex of its object. *)
SectionsLocked ==
  \A u \in Users : \A h \in section[u] :
    got[u][h] # NoConn /\ lock[got[u][h]] = u

IInv == TypeOK /\ ObjectsOfOneHost /\ Phases /\ SectionsLocked

(* The initial state fits. *)
LEMMA InitIInv == Init => IInv
<1> SUFFICES ASSUME Init PROVE IInv
  OBVIOUS
<1>1. TypeOK
  BY MaxConnsType, MaxCrashesType
  DEF Init, TypeOK, NothingGot, NothingSeen, AllOff, Conns
<1>2. ObjectsOfOneHost
  BY DEF Init, ObjectsOfOneHost, NothingGot
<1>3. Phases /\ SectionsLocked
  BY DEF Init, Phases, SectionsLocked
<1> QED
  BY <1>1, <1>2, <1>3 DEF IInv

(* Types, action by action. *)
LEMMA TypeStep == TypeOK /\ [Next]_vars => TypeOK'
<1> SUFFICES ASSUME TypeOK, [Next]_vars PROVE TypeOK'
  OBVIOUS
<1> USE DEF TypeOK
<1>1. CASE UNCHANGED vars
  BY <1>1 DEF vars, goroutineVars
<1>2. CASE Crash
  BY <1>2, MaxCrashesType
  DEF Crash, NothingGot, NothingSeen, AllOff
<1>3. ASSUME NEW u \in Users, UserStep(u) PROVE TypeOK'
  <2>1. ASSUME NEW hosts \in SUBSET Hosts, NEW how \in {"connect", "ask"},
               Connect(u, hosts, how)
        PROVE  TypeOK'
    BY <2>1 DEF Connect, Goto
  <2>2. ASSUME NEW h \in Hosts, Hit(u, h) PROVE TypeOK'
    BY <2>2 DEF Hit, GoroutineTo
  <2>3. ASSUME NEW h \in Hosts, Miss(u, h) PROVE TypeOK'
    BY <2>3 DEF Miss, GoroutineTo
  <2>4. ASSUME NEW h \in Hosts, Dialed(u, h) PROVE TypeOK'
    BY <2>4 DEF Dialed, GoroutineTo
  <2>5. ASSUME NEW h \in Hosts, DialFails(u, h) PROVE TypeOK'
    BY <2>5 DEF DialFails, GoroutineTo
  <2>6. ASSUME NEW h \in Hosts, Append(u, h) PROVE TypeOK'
    BY <2>6 DEF Append, GoroutineTo
  <2>7. CASE Joined(u)
    BY <2>7 DEF Joined, Goto
  <2>8. ASSUME NEW h \in Hosts, DeleteEntry(u, h) PROVE TypeOK'
    BY <2>8 DEF DeleteEntry
  <2>9. CASE Connected(u)
    BY <2>9 DEF Connected, Goto
  <2>10. ASSUME NEW h \in Hosts, Enter(u, h) PROVE TypeOK'
    BY <2>10 DEF Enter, goroutineVars
  <2>11. ASSUME NEW h \in Hosts, Leave(u, h) PROVE TypeOK'
    BY <2>11 DEF Leave, goroutineVars
  <2>12. CASE Done(u)
    BY <2>12 DEF Done, Goto
  <2>13. CASE Return(u)
    BY <2>13 DEF Return, Goto, NothingGot
  <2> QED
    BY <1>3, <2>1, <2>2, <2>3, <2>4, <2>5, <2>6, <2>7, <2>8, <2>9, <2>10,
       <2>11, <2>12, <2>13
    DEF UserStep, Goroutine, Finish
<1> QED
  BY <1>1, <1>2, <1>3 DEF Next

(* The invariant, action by action: only Dialed hands out an object, and    *)
(* only one that nothing refers to; only Enter and Leave change a mutex.    *)
LEMMA InvStep == IInv /\ [Next]_vars => IInv'
<1> SUFFICES ASSUME IInv, [Next]_vars PROVE IInv'
  OBVIOUS
<1>0. TypeOK /\ TypeOK'
  BY TypeStep DEF IInv
<1> SUFFICES ObjectsOfOneHost' /\ Phases' /\ SectionsLocked'
  BY <1>0 DEF IInv
<1> USE DEF IInv
<1>1. CASE UNCHANGED vars
  BY <1>1 DEF vars, goroutineVars, ObjectsOfOneHost, Phases, SectionsLocked
<1>2. CASE Crash
  BY <1>2 DEF Crash, NothingGot, AllOff, ObjectsOfOneHost, Phases, SectionsLocked
<1>3. ASSUME NEW u \in Users, UserStep(u)
      PROVE  ObjectsOfOneHost' /\ Phases' /\ SectionsLocked'
  <2>1. ASSUME NEW hosts \in SUBSET Hosts, NEW how \in {"connect", "ask"},
               Connect(u, hosts, how)
        PROVE  ObjectsOfOneHost' /\ Phases' /\ SectionsLocked'
    BY <1>0, <2>1
    DEF TypeOK, Connect, Goto, ObjectsOfOneHost, Phases, SectionsLocked
  <2>2. ASSUME NEW h \in Hosts, Hit(u, h)
        PROVE  ObjectsOfOneHost' /\ Phases' /\ SectionsLocked'
    <3>1. pc[u] \in {"connect", "ask"} /\ section[u] = {}
      BY <1>0, <2>2 DEF Hit, Phases, AllOff
    <3>2. ObjectsOfOneHost'
      BY <1>0, <2>2 DEF TypeOK, Hit, ObjectsOfOneHost
    <3>3. Phases' /\ SectionsLocked'
      BY <1>0, <2>2, <3>1 DEF TypeOK, Hit, GoroutineTo, Phases, SectionsLocked
    <3> QED
      BY <3>2, <3>3
  <2>3. ASSUME NEW h \in Hosts, Miss(u, h)
        PROVE  ObjectsOfOneHost' /\ Phases' /\ SectionsLocked'
    <3>1. pc[u] \in {"connect", "ask"}
      BY <1>0, <2>3 DEF Miss, Phases, AllOff
    <3> QED
      BY <1>0, <2>3, <3>1
      DEF TypeOK, Miss, GoroutineTo, ObjectsOfOneHost, Phases, SectionsLocked
  <2>4. ASSUME NEW h \in Hosts, Dialed(u, h)
        PROVE  ObjectsOfOneHost' /\ Phases' /\ SectionsLocked'
    <3>1. pc[u] \in {"connect", "ask"} /\ section[u] = {}
      BY <1>0, <2>4 DEF Dialed, Phases, AllOff
    <3>2. PICK c \in Conns :
            /\ Unused(c)
            /\ table' = [table EXCEPT ![h] = c]
            /\ got' = [got EXCEPT ![u][h] = c]
      BY <2>4 DEF Dialed
    <3>3. ObjectsOfOneHost'
      <4>1. \A g \in Hosts : table'[g] = IF g = h THEN c ELSE table[g]
        BY <1>0, <3>2 DEF TypeOK
      <4>2. \A v \in Users, g \in Hosts :
              got'[v][g] = IF v = u /\ g = h THEN c ELSE got[v][g]
        BY <1>0, <3>2 DEF TypeOK
      <4>3. c # NoConn /\ (\A g \in Hosts : table[g] # c)
            /\ \A v \in Users, g \in Hosts : got[v][g] # c
        BY <3>2, NoConnFresh DEF Unused
      <4> QED
        BY <4>1, <4>2, <4>3 DEF ObjectsOfOneHost
    <3>4. Phases'
      BY <1>0, <2>4, <3>1 DEF TypeOK, Dialed, GoroutineTo, Phases
    <3>5. SectionsLocked'
      BY <1>0, <2>4, <3>1, <3>2 DEF TypeOK, Dialed, SectionsLocked
    <3> QED
      BY <3>3, <3>4, <3>5
  <2>5. ASSUME NEW h \in Hosts, DialFails(u, h)
        PROVE  ObjectsOfOneHost' /\ Phases' /\ SectionsLocked'
    <3>1. pc[u] \in {"connect", "ask"}
      BY <1>0, <2>5 DEF DialFails, Phases, AllOff
    <3> QED
      BY <1>0, <2>5, <3>1
      DEF TypeOK, DialFails, GoroutineTo, ObjectsOfOneHost, Phases, SectionsLocked
  <2>6. ASSUME NEW h \in Hosts, Append(u, h)
        PROVE  ObjectsOfOneHost' /\ Phases' /\ SectionsLocked'
    <3>1. pc[u] \in {"connect", "ask"}
      BY <1>0, <2>6 DEF Append, Phases, AllOff
    <3> QED
      BY <1>0, <2>6, <3>1
      DEF TypeOK, Append, GoroutineTo, ObjectsOfOneHost, Phases, SectionsLocked
  <2>7. CASE Joined(u)
    BY <1>0, <2>7
    DEF TypeOK, Joined, Goto, ObjectsOfOneHost, Phases, SectionsLocked
  <2>8. ASSUME NEW h \in Hosts, DeleteEntry(u, h)
        PROVE  ObjectsOfOneHost' /\ Phases' /\ SectionsLocked'
    BY <1>0, <2>8
    DEF TypeOK, DeleteEntry, ObjectsOfOneHost, Phases, SectionsLocked
  <2>9. CASE Connected(u)
    BY <1>0, <2>9
    DEF TypeOK, Connected, Goto, ObjectsOfOneHost, Phases, SectionsLocked
  <2>10. ASSUME NEW h \in Hosts, Enter(u, h)
         PROVE  ObjectsOfOneHost' /\ Phases' /\ SectionsLocked'
    <3>1. ObjectsOfOneHost' /\ Phases'
      BY <1>0, <2>10
      DEF TypeOK, Enter, goroutineVars, ObjectsOfOneHost, Phases
    <3>2. ASSUME NEW v \in Users, NEW g \in section'[v]
          PROVE  got'[v][g] # NoConn /\ lock'[got'[v][g]] = v
      <4>1. CASE v = u /\ g = h
        BY <1>0, <2>10, <4>1 DEF TypeOK, Enter
      <4>2. CASE ~(v = u /\ g = h)
        <5>1. g \in section[v] /\ got[v][g] # NoConn /\ lock[got[v][g]] = v
          BY <1>0, <2>10, <3>2, <4>2 DEF TypeOK, Enter, SectionsLocked
        <5>2. got[v][g] # got[u][h]
          BY <2>10, <5>1, FreeFresh DEF Enter, Unlocked
        <5> QED
          BY <1>0, <2>10, <5>1, <5>2 DEF TypeOK, Enter
      <4> QED
        BY <4>1, <4>2
    <3> QED
      BY <3>1, <3>2 DEF SectionsLocked
  <2>11. ASSUME NEW h \in Hosts, Leave(u, h)
         PROVE  ObjectsOfOneHost' /\ Phases' /\ SectionsLocked'
    <3>1. ObjectsOfOneHost' /\ Phases'
      BY <1>0, <2>11
      DEF TypeOK, Leave, goroutineVars, ObjectsOfOneHost, Phases
    <3>2. ASSUME NEW v \in Users, NEW g \in section'[v]
          PROVE  got'[v][g] # NoConn /\ lock'[got'[v][g]] = v
      <4>1. /\ g \in section[v] /\ ~(v = u /\ g = h) /\ g \in Hosts
            /\ got[v][g] # NoConn /\ lock[got[v][g]] = v
            /\ lock[got[u][h]] = u
        BY <1>0, <2>11, <3>2 DEF TypeOK, Leave, SectionsLocked
      <4>2. got[v][g] # got[u][h]
        BY <4>1 DEF ObjectsOfOneHost
      <4> QED
        BY <1>0, <2>11, <4>1, <4>2 DEF TypeOK, Leave
    <3> QED
      BY <3>1, <3>2 DEF SectionsLocked
  <2>12. CASE Done(u)
    BY <1>0, <2>12
    DEF TypeOK, Done, Goto, ObjectsOfOneHost, Phases, SectionsLocked
  <2>13. CASE Return(u)
    BY <1>0, <2>13
    DEF TypeOK, Return, Goto, NothingGot, ObjectsOfOneHost, Phases, SectionsLocked
  <2> QED
    BY <1>3, <2>1, <2>2, <2>3, <2>4, <2>5, <2>6, <2>7, <2>8, <2>9, <2>10,
       <2>11, <2>12, <2>13
    DEF UserStep, Goroutine, Finish
<1> QED
  BY <1>1, <1>2, <1>3 DEF Next

(* The invariant of every behaviour: an object belongs to one host, and who *)
(* is in a section has the mutex of its object (connect.go).                *)
THEOREM ConnectionsInvariant == Spec => []IInv
<1>1. Init => IInv
  BY InitIInv
<1>2. IInv /\ [Next]_vars => IInv'
  BY InvStep
<1> QED
  BY <1>1, <1>2, PTL DEF Spec

(* The types of Connections are kept (connect.go). *)
THEOREM TypeCorrect == Spec => []TypeOK
<1>1. IInv => TypeOK
  BY DEF IInv
<1> QED
  BY <1>1, ConnectionsInvariant, PTL

(* On a settled host at most one user is between Lock and Unlock. *)
THEOREM SettledHostsExclude == Spec => []SettledExcludes
<1>1. IInv => SettledExcludes
  <2> SUFFICES ASSUME IInv, NEW h \in Hosts, Settled(h),
                      NEW u \in Users, NEW v \in Users,
                      h \in section[u] \cap section[v]
               PROVE  u = v
    BY DEF SettledExcludes
  <2>1. got[u][h] = table[h] /\ lock[got[u][h]] = u
    BY DEF IInv, SectionsLocked, Settled
  <2>2. got[v][h] = table[h] /\ lock[got[v][h]] = v
    BY DEF IInv, SectionsLocked, Settled
  <2> QED
    BY <2>1, <2>2
<1> QED
  BY <1>1, ConnectionsInvariant, PTL

(* One step of a server that does not end keeps a settled host settled.     *)
LEMMA SettledStep ==
  ASSUME TypeOK, TypeOK', [Next]_vars, crashes' = crashes,
         NEW h \in Hosts, Settled(h)
  PROVE  Settled(h)' /\ table'[h] = table[h]
<1> DEFINE Kept == Settled(h)' /\ table'[h] = table[h]
<1>1. CASE UNCHANGED vars
  BY <1>1 DEF vars, goroutineVars, Settled, Pending
<1>2. CASE Crash
  BY <1>2, MaxCrashesType DEF Crash, TypeOK
<1>3. ASSUME NEW u \in Users, UserStep(u) PROVE Kept
  <2> USE DEF TypeOK
  <2>0. /\ table[h] # NoConn
        /\ \A v \in Users :
             /\ at[v][h] \notin {"dial", "append"}
             /\ h \notin errs[v]
             /\ \A g \in Hosts : at[v][g] = "append" => h \notin seen[v][g]
             /\ got[v][h] \in {NoConn, table[h]}
    BY DEF Settled, Pending
  <2> SUFFICES /\ table'[h] = table[h]
               /\ \A v \in Users :
                    /\ at'[v][h] \notin {"dial", "append"}
                    /\ h \notin errs'[v]
                    /\ \A g \in Hosts : at'[v][g] = "append" => h \notin seen'[v][g]
                    /\ got'[v][h] \in {NoConn, table[h]}
    BY <2>0 DEF Settled, Pending
  <2>1. ASSUME NEW hosts \in SUBSET Hosts, NEW how \in {"connect", "ask"},
               Connect(u, hosts, how)
        PROVE  Kept
    BY <2>0, <2>1 DEF Connect, Settled, Pending
  <2>2. ASSUME NEW g \in Hosts, Hit(u, g) PROVE Kept
    BY <2>0, <2>2 DEF Hit, GoroutineTo, Settled, Pending
  <2>3. ASSUME NEW g \in Hosts, Miss(u, g) PROVE Kept
    BY <2>0, <2>3 DEF Miss, GoroutineTo, Settled, Pending
  <2>4. ASSUME NEW g \in Hosts, Dialed(u, g) PROVE Kept
    BY <2>0, <2>4 DEF Dialed, GoroutineTo, Settled, Pending
  <2>5. ASSUME NEW g \in Hosts, DialFails(u, g) PROVE Kept
    BY <2>0, <2>5 DEF DialFails, GoroutineTo, Settled, Pending
  <2>6. ASSUME NEW g \in Hosts, Append(u, g) PROVE Kept
    BY <2>0, <2>6 DEF Append, GoroutineTo, Settled, Pending
  <2>7. CASE Joined(u)
    BY <2>0, <2>7 DEF Joined, Settled, Pending
  <2>8. ASSUME NEW g \in Hosts, DeleteEntry(u, g) PROVE Kept
    BY <2>0, <2>8 DEF DeleteEntry, Settled, Pending
  <2>9. CASE Connected(u)
    BY <2>0, <2>9 DEF Connected, Settled, Pending
  <2>10. ASSUME NEW g \in Hosts, Enter(u, g) PROVE Kept
    BY <2>0, <2>10 DEF Enter, goroutineVars, Settled, Pending
  <2>11. ASSUME NEW g \in Hosts, Leave(u, g) PROVE Kept
    BY <2>0, <2>11 DEF Leave, goroutineVars, Settled, Pending
  <2>12. CASE Done(u)
    BY <2>0, <2>12 DEF Done, Settled, Pending
  <2>13. CASE Return(u)
    BY <2>0, <2>13 DEF Return, NothingGot, Settled, Pending
  <2> QED
    BY <1>3, <2>1, <2>2, <2>3, <2>4, <2>5, <2>6, <2>7, <2>8, <2>9, <2>10,
       <2>11, <2>12, <2>13
    DEF UserStep, Goroutine, Finish, Settled, Pending
<1> QED
  BY <1>1, <1>2, <1>3 DEF Next

(* A settled host stays settled, with the same object, while the server     *)
(* runs: its mutex is not split any more (connect.go).                      *)
THEOREM SettledStaysSettled == Spec => SettledForGood
<1>1. TypeOK /\ TypeOK' /\ [Next]_vars
        => [\A h \in Hosts : Settled(h) /\ crashes' = crashes
              => Settled(h)' /\ table'[h] = table[h]]_vars
  BY SettledStep
<1> QED
  BY <1>1, TypeCorrect, PTL DEF Spec, SettledForGood
============================================================================
