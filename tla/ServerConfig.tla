---------------------------- MODULE ServerConfig ----------------------------
(***************************************************************************)
(* What the server reads from its environment once, at the start           *)
(* (server/pkg/config), and the resolution of image aliases, which depends *)
(* on nothing else (parseImageAliasMap, server_add_instance.go).           *)
(*                                                                         *)
(* An environment is a record with a field per variable; JSON and numbers  *)
(* are the values they stand for, or Malformed.                            *)
(***************************************************************************)
EXTENDS Integers

CONSTANTS
  Unset,      \* the variable is absent or empty
  Malformed   \* its text cannot be parsed, or names a file that is not there

Value(setting, default) == IF setting = Unset THEN default ELSE setting

(* LXD_MULTI_HOSTS has no default; it is malformed also where a certificate  *)
(* or a key of one of the hosts cannot be read.                             *)
HostsLoad(env) == env.hosts \notin {Unset, Malformed}

(* Load refuses the environment otherwise.  An unknown resource type makes  *)
(* its mapping malformed.  LXD_MULTI_LOG_LEVEL must be absent: Load asks    *)
(* whether it is set and never reads it, and an empty level is refused.     *)
Loads(env) ==
  /\ HostsLoad(env)
  /\ \A v \in {"mapping", "aliases", "period", "port", "overCommit"} : env[v] # Malformed
  /\ IF env.aliases = Unset THEN env.alias # Unset ELSE "default" \in DOMAIN env.aliases
  /\ env.logLevel = Unset

(* What Load returns.  The resource type mapping is kept by the server and  *)
(* used nowhere; the listener is bound to the port, in StartServer of PoolSearch. *)
Load(env) ==
  [hosts   |-> env.hosts,
   aliases |-> IF env.aliases = Unset
               THEN [k \in {"default"} |-> env.alias] ELSE env.aliases,
   period  |-> Value(env.period, 10),
   limit   |-> Value(env.overCommit, 100)]
----------------------------------------------------------------------------
(* Mutant of CallsAgain: an alias is not looked up again. *)
CallsOnce(aliases, word) == word = ""

(* parseImageAliasMap, a call at a time: the word it is called with either   *)
(* leads to a call with another word, or to its answer.                      *)
CallsAgain(aliases, word) ==
  word = "" \/ (word \in DOMAIN aliases /\ aliases[word] \in DOMAIN aliases)

(* Mutant of NextWord: what is looked up again is the version. *)
SameWord(aliases, word) == IF word = "" THEN "default" ELSE word

NextWord(aliases, word) == IF word = "" THEN "default" ELSE aliases[word]

Answer(aliases, word) == IF word \in DOMAIN aliases THEN aliases[word] ELSE ""

(* The reference: all words that a version leads to, the empty one to       *)
(* "default", which are in every set that has the version and is closed.    *)
Words(aliases) ==
  DOMAIN aliases \cup {aliases[k] : k \in DOMAIN aliases} \cup {"", "default"}

Closed(aliases, S) ==
  /\ "" \in S => "default" \in S
  /\ \A k \in S \cap DOMAIN aliases : aliases[k] \in S

LeadsTo(aliases, version) ==
  {w \in Words(aliases) \cup {version} :
     \A S \in SUBSET (Words(aliases) \cup {version}) :
       version \in S /\ Closed(aliases, S) => w \in S}

(* The version leads to a word that leads to itself. *)
HasCycle(aliases, version) ==
  \E k \in LeadsTo(aliases, version) :
    \/ k \in DOMAIN aliases /\ k \in LeadsTo(aliases, aliases[k])
    \/ k = "" /\ k \in LeadsTo(aliases, "default")
============================================================================
