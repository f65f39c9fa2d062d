---------------------------- MODULE MCPoolAgent ----------------------------
(* Small instances of PoolAgent for TLC: one host, one or two images. *)
EXTENDS PoolAgent, TLC

CONSTANTS h1, i1, i2, i3, r1, jammy, noble, small, m1

OneHost == [i \in Instances |-> h1]
SmallJammy == [i \in Instances |-> <<jammy, small>>]
JammyNoble == [i \in Instances |-> IF i = i1 THEN <<noble, small>> ELSE <<jammy, small>>]
KindsOfConfig == Images \X Types

Count(m, n) == m :> (small :> n)
TwoOrNone == {Count(jammy, 2), Count(jammy, 0)}
(* The second one names an image more; an agent started with the first one *)
(* cannot reload it, but can be started again with it.                     *)
OneOrNoneOfBoth == {Count(jammy, 1), Count(jammy, 0) @@ Count(noble, 0)}
(* A file that has another image under the same key. *)
JammyOrNoble == {Count(jammy, 2), Count(noble, 0)}
OneKey == [m \in Images |-> "ubuntu"]
OwnKeys == [m \in Images |-> m]
NobleAdded == {Count(jammy, 1), Count(jammy, 1) @@ Count(noble, 1)}

InstanceSymmetry == Permutations(Instances)
============================================================================
