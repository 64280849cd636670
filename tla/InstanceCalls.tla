---------------------------- MODULE InstanceCalls ----------------------------
(***************************************************************************)
(* The calls that hypervisor plugins make while they configure and clean   *)
(* instances are those of NetworkPlugin, where each is one step: the       *)
(* abstract specification that the puts of InstanceNetworking implement.   *)
(***************************************************************************)
EXTENDS InstanceNetworking

(* The puts to a store that are still to be made.  A move that has not yet *)
(* read the list puts what it would find there now.                        *)
Ahead(store) ==
  {q \in Pending : q.store = store} \cup
  {PutOf("namespaces", q.key, BagRemove(namespaces[q.key], q.val)) :
     q \in {r \in Pending : /\ store = "namespaces"
                            /\ r.store = "unlist" /\ Unlistable(r)}}

(* The keys S, and a store f, after the puts P.                            *)
KeysAfter(S, P) ==
  (S \cup {q.key : q \in P}) \ {q.key : q \in {r \in P : r.val = None}}

After(f, P) ==
  [k \in KeysAfter(DOMAIN f, P) |->
     IF \E q \in P : q.key = k THEN (CHOOSE q \in P : q.key = k).val ELSE f[k]]

(* The records as they are once the calls in progress are done.            *)
Net == INSTANCE NetworkPlugin WITH
  ifaces <- After(ifaces, Ahead("ifaces")),
  namespaces <- After(namespaces, Ahead("namespaces")),
  cps <- KeysAfter(cps, Ahead("cps"))

(* Plugin p makes one of the calls of NetworkPlugin that hypervisor plugins *)
(* make, on the records U that it is about to put.                         *)
NetworkCall(p) ==
  LET U == {q.key : q \in ToSet(work'[p].puts)}
  IN /\ work[p].puts = <<>>
     /\ \/ \E n \in U \cap NetNs :
             \/ Net!create_network_namespace(n)
             \/ Net!delete_network_namespace(n)
             \/ \E i, j \in U \cap Ifaces : Net!create_veth_in_namespace(i, j, n)
        \/ \E c \in U \cap Cps :
             \/ Net!create_connection_point(c)
             \/ Net!delete_connection_point(c)
        \/ \E i \in U \cap Ifaces :
             \/ Net!delete_virtual_interface(i)
             \/ Net!move_interface_into_default_namespace(i)
             \/ \E c \in cps : Net!bind_interface_to_connection_point(i, c)

(* The calls of the networking plugin take effect as a whole and one after *)
(* the other, as NetworkPlugin has them, although each reads and puts its  *)
(* records one by one without a lock, next to the calls of another plugin  *)
(* and to calls whose caller has given up and tries again: no put takes    *)
(* back what another call has done.  Only the death of the networking      *)
(* plugin leaves half a call.                                              *)
CallsAtomic ==
  [][NetworkingDies \/ \E p \in Plugins : NetworkCall(p)]_<<vnets, Net!netVars>>
=============================================================================
