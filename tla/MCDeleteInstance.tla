-------------------------- MODULE MCDeleteInstance --------------------------
(* Small instances of DeleteInstance for TLC. *)
EXTENDS DeleteInstance

CONSTANTS h1, h2, i1, d1, d2, s1, a1, small

OnFirstHost == [i \in Instances |-> h1]
OneKind == [i \in Instances |-> small]
SameInstance == [d \in Deletes |-> i1]
============================================================================
