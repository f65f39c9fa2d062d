--------------------------- MODULE MCPoolSearch ---------------------------
(* Small instances of PoolSearch for TLC. *)
EXTENDS PoolSearch, TLC

CONSTANTS h1, h2, i1, i2, i3

FirstHost == [i \in Instances |-> IF i = i3 THEN h2 ELSE h1]
Focal == [type |-> "nano", alias |-> "focal"]
Noble == [type |-> "nano", alias |-> "noble"]
TheKinds == {Focal, Noble}
SomeKinds == [i \in Instances |-> IF i = i2 THEN Noble ELSE Focal]
(* 29 of 100 CPUs is the least share that is rounded to one percent less: a *)
(* limit of 29 admits a host with that share or not, one of 28 never does;  *)
(* the limits.cpu of i3 is a range, which the server cannot read.           *)
SomeCores == [i \in Instances |-> IF i = i3 THEN Malformed ELSE 29]

(* One host may report that it has no CPU. *)
SomeCpus == [h \in Hosts |-> IF h = h1 THEN {100} ELSE {0, 100}]

(* An environment that sets nothing but what it must. *)
Plain ==
  [hosts |-> Hosts, mapping |-> Unset, aliases |-> Unset, alias |-> "focal",
   period |-> Unset, port |-> Unset, overCommit |-> Unset, logLevel |-> Unset]

TheEnvironments ==
  { [Plain EXCEPT !.period = 0, !.overCommit = 28],
    [Plain EXCEPT !.aliases = ("default" :> "f" @@ "f" :> "focal" @@ "n" :> "noble"),
                  !.overCommit = 29],
    [Plain EXCEPT !.aliases = ("default" :> "" @@ "x" :> "n" @@ "n" :> "x"),
                  !.overCommit = 0],
    [Plain EXCEPT !.aliases = ("f" :> "focal")],
    [Plain EXCEPT !.alias = Unset],
    [Plain EXCEPT !.logLevel = "debug"],
    [Plain EXCEPT !.hosts = Malformed] }
============================================================================
