------------------------------ MODULE FduStore ------------------------------
(***************************************************************************)
(* The records of FDU instances, the key/value stores that hold them, and  *)
(* the table of life-cycle operations: the constant-level vocabulary of    *)
(* FduLifecycle.                                                           *)
(*                                                                         *)
(* A store is the set of records found under one prefix of the zenoh tree  *)
(* (zconnector/mod.rs for the global one, zconnector/local.rs for the one  *)
(* of a node).  A record lives at a path built from its descriptor's uuid  *)
(* and its own uuid; it is read back with a selector that gives only its   *)
(* own uuid ("*" in place of the descriptor), so a read may match several  *)
(* paths.                                                                  *)
(***************************************************************************)
EXTENDS Naturals, Sequences

CONSTANTS
  Nodes,      \* node uuids; one agent and one hypervisor plugin on each
  Fdus,       \* uuids of FDU descriptors
  Instances,  \* the uuids Uuid::new_v4 may draw for instances (a bound)
  NetNs,      \* the uuids it may draw for network namespaces (a bound)
  None        \* "no value"

ASSUME NoneAssumption ==
  /\ None \notin Nodes
  /\ None \notin Fdus
  /\ None \notin Instances
  /\ None \notin NetNs

(* im/fdu.rs: FDUState.  ERROR(_) is left out: no code in the repository   *)
(* ever writes it.                                                         *)
FDUState == {"DEFINED", "CONFIGURED", "RUNNING"}

(* im/fdu.rs: FDURecord.  The field netns is the content of                *)
(* hypervisor_specific: the namespace that configure_fdu created for the   *)
(* instance, which also stands for the interfaces and connection points    *)
(* created with it.                                                        *)
FDURecord == [uuid     : Instances,
              fdu_uuid : Fdus,
              node     : Nodes,
              status   : FDUState,
              netns    : NetNs \cup {None}]

(* Two records are written to the same path.                               *)
SamePath(r, s) == r.fdu_uuid = s.fdu_uuid /\ r.uuid = s.uuid

(* The records a get_instance selector matches: none (NotFound), one, or   *)
(* several (TooMuchError).                                                 *)
get_instance(store, i) == {r \in store : r.uuid = i}

get_all_fdu_instances(store, f) == {r \in store : r.fdu_uuid = f}

add_instance(store, r) == {s \in store : ~SamePath(s, r)} \cup {r}

remove_instance(store, r) == {s \in store : ~SamePath(s, r)}

(* The outcome of a read that does not match exactly one record.           *)
LookupError(m) == IF m = {} THEN "NotFound" ELSE "TooMuchError"

-----------------------------------------------------------------------------

(* The operations on an existing instance.                                 *)
InstanceOps == {"configure", "start", "stop", "clean", "undefine"}

(* Mutant: an instance can be started without having been configured.      *)
MutRequired(op) ==
  CASE op \in {"configure", "undefine", "start"} -> {"DEFINED", "CONFIGURED"}
    [] op = "clean"                              -> {"CONFIGURED"}
    [] op = "stop"                               -> {"RUNNING"}

(* The states in which the plugin lets an operation proceed; in any other  *)
(* it answers TransitionNotAllowed.                                        *)
Required(op) ==
  CASE op \in {"configure", "undefine"} -> {"DEFINED"}
    [] op \in {"start", "clean"}        -> {"CONFIGURED"}
    [] op = "stop"                      -> {"RUNNING"}

(* Mutant: stopping records a state that FDUState does not have.           *)
MutTargetUnknown(op) ==
  CASE op \in {"define", "clean"} -> "DEFINED"
    [] op = "configure"           -> "CONFIGURED"
    [] op = "stop"                -> "STOPPED"
    [] op = "start"               -> "RUNNING"

(* The state an operation leaves the instance in, which is also the state  *)
(* the agent's handler polls the global store for.                         *)
Target(op) ==
  CASE op \in {"define", "clean"}   -> "DEFINED"
    [] op \in {"configure", "stop"} -> "CONFIGURED"
    [] op = "start"                 -> "RUNNING"

(* The call an agent makes to the owner of an instance that is not its     *)
(* own.  undefine_fdu calls the owner's clean_fdu.                         *)
ForwardedAs(op) == IF op = "undefine" THEN "clean" ELSE op

=============================================================================
