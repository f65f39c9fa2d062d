--------------------------- MODULE MCAddInstance ---------------------------
(* Small instances of AddInstance for TLC. *)
EXTENDS AddInstance, TLC

CONSTANTS h1, h2, i1, i2, p1, p2, p3, w1, r1, r2, small, large, m1, m2

OneHost == [i \in Instances |-> h1]
OneKind == [i \in Instances |-> small]
WantSmall == [p \in Requests |-> small]
OwnRunner == [p \in Requests |-> IF p = p1 THEN r1 ELSE r2]
(* p3 is the retry of myshoes for the runner of p1. *)
RetriedRunner == [p \in Requests |-> IF p = p2 THEN r2 ELSE r1]
OneMutex == [u \in Users |-> [h \in Hosts |-> m1]]
(* Two goroutines connected at the same time; each kept its own object. *)
MutexPerUser == [u \in Users |-> [h \in Hosts |-> IF u = p1 THEN m1 ELSE m2]]

InstanceSymmetry == Permutations(Instances)
============================================================================
