---------------------------- MODULE NetworkPlugin ----------------------------
(***************************************************************************)
(* The networking plugin of one node (dummy-network.rs) over the records   *)
(* of the node's local store: virtual networks, connection points, virtual *)
(* interfaces and network namespaces, which refer to each other by uuid.   *)
(*                                                                         *)
(* The plugin keeps no state of its own and takes no lock.  Here one       *)
(* operation is one step; InstanceNetworking has the reads and puts of     *)
(* those that the hypervisor plugins ask for, several at a time, and shows *)
(* that they behave as these steps (CallsAtomic).  A call that is refused  *)
(* changes nothing and is no step.  Names, addresses and the device of an  *)
(* interface are left out: no operation decides anything on them, so       *)
(* renaming an interface or setting its addresses changes nothing here.    *)
(***************************************************************************)
EXTENDS Naturals, BagsExt

CONSTANTS
  Ifaces,     \* the uuids Uuid::new_v4 may draw for interfaces (a bound)
  NetNs,      \* those it may draw for network namespaces (a bound)
  Cps,        \* those it may draw for connection points (a bound)
  Networks,   \* the virtual networks of the global catalog, and the default
  MaxCopies,  \* a bound: how often one list may hold the same uuid
  None        \* "no value"

ASSUME NetworkAssumption ==
  /\ None \notin Ifaces \cup NetNs \cup Cps
  /\ NetNs \cap Cps = {}
  /\ MaxCopies \in Nat

VARIABLES
  vnets,       \* virtual network |-> the connection points bound to it
  cps,         \* connection points
  ifaces,      \* interface |-> its record
  namespaces   \* network namespace |-> the interfaces in it

netVars == <<vnets, cps, ifaces, namespaces>>

(* types.rs: VirtualInterfaceKind.  OTHER stands for VLAN, VXLAN and the   *)
(* GRE kinds, which differ in data only.                                   *)
Kinds == {"VETH", "BRIDGE", "MACVLAN", "OTHER"}

(* Lists of uuids are bags: push adds an occurrence, the removal at the    *)
(* position found takes one away, and nothing reads the order.             *)
Empty == [x \in {} |-> 0]
IsList(B, S) == DOMAIN B \subseteq S /\ \A x \in DOMAIN B : B[x] \in Nat \ {0}

(* types.rs: VirtualInterface, with pair of its VETHKind and childs of its *)
(* BridgeKind.  A connection point draws the uuid of a namespace for       *)
(* itself that nothing else carries: the connection point stands for it.   *)
IsInterface(v) ==
  /\ DOMAIN v = {"kind", "net_ns", "parent", "pair", "childs"}
  /\ v.kind \in Kinds
  /\ v.net_ns \in NetNs \cup Cps \cup {None}
  /\ v.parent \in Ifaces \cup {None}
  /\ v.pair \in Ifaces \cup {None}
  /\ v.pair # None <=> v.kind = "VETH"
  /\ IsList(v.childs, Ifaces)

TypeOK ==
  /\ DOMAIN vnets \subseteq Networks
  /\ \A v \in DOMAIN vnets : IsList(vnets[v], Cps)
  /\ cps \subseteq Cps
  /\ DOMAIN ifaces \subseteq Ifaces
  /\ \A i \in DOMAIN ifaces : IsInterface(ifaces[i])
  /\ DOMAIN namespaces \subseteq NetNs
  /\ \A n \in DOMAIN namespaces : IsList(namespaces[n], Ifaces)

NetInit ==
  /\ vnets = Empty
  /\ cps = {}
  /\ ifaces = Empty
  /\ namespaces = Empty

-----------------------------------------------------------------------------
(* The local store                                                         *)

(* add_*: the record is written at its own path, over what was there.      *)
Put(f, k, v) == [x \in DOMAIN f \cup {k} |-> IF x = k THEN v ELSE f[x]]

(* remove_*: removing what is not there is no error.                       *)
Drop(f, S) == [x \in DOMAIN f \ S |-> f[x]]

(* A uuid is fresh if no record carries it or refers to it.                *)
FreshIface(i) ==
  /\ i \in Ifaces \ DOMAIN ifaces
  /\ \A j \in DOMAIN ifaces :
       /\ i \notin {ifaces[j].parent, ifaces[j].pair}
       /\ i \notin DOMAIN ifaces[j].childs
  /\ \A n \in DOMAIN namespaces : i \notin DOMAIN namespaces[n]

FreshNetNs(n) ==
  /\ n \in NetNs \ DOMAIN namespaces
  /\ \A i \in DOMAIN ifaces : ifaces[i].net_ns # n

FreshCp(c) ==
  /\ c \in Cps \ cps
  /\ \A i \in DOMAIN ifaces : ifaces[i].net_ns # c
  /\ \A v \in DOMAIN vnets : c \notin DOMAIN vnets[v]

(* The bound on a list that an operation pushes to.                        *)
MayPush(B, x) == x \in DOMAIN B => B[x] < MaxCopies

-----------------------------------------------------------------------------
(* Virtual networks and connection points                                  *)

(* The record in the global catalog, which nothing binds connection points *)
(* to, is written over the local one; so is that of the default network,   *)
(* which create_default_virtual_network makes up.                          *)
create_virtual_network(v) ==
  /\ v \in Networks
  /\ vnets' = Put(vnets, v, Empty)
  /\ UNCHANGED <<cps, ifaces, namespaces>>

delete_virtual_network(v) ==
  /\ v \in DOMAIN vnets
  /\ vnets' = Drop(vnets, {v})
  /\ UNCHANGED <<cps, ifaces, namespaces>>

create_connection_point(c) ==
  /\ FreshCp(c)
  /\ cps' = cps \cup {c}
  /\ UNCHANGED <<vnets, ifaces, namespaces>>

delete_connection_point(c) ==
  /\ c \in cps
  /\ cps' = cps \ {c}
  /\ UNCHANGED <<vnets, ifaces, namespaces>>

(* Mutant: the uuids of network and connection point are mixed up.         *)
MutBindNetwork(c, v) ==
  /\ c \in cps
  /\ v \in DOMAIN vnets
  /\ MayPush(vnets[v], v)
  /\ vnets' = Put(vnets, v, BagAdd(vnets[v], v))
  /\ UNCHANGED <<cps, ifaces, namespaces>>

bind_connection_point_to_virtual_network(c, v) ==
  /\ c \in cps
  /\ v \in DOMAIN vnets
  /\ MayPush(vnets[v], c)
  /\ vnets' = Put(vnets, v, BagAdd(vnets[v], c))
  /\ UNCHANGED <<cps, ifaces, namespaces>>

unbind_connection_point_from_virtual_network(c, v) ==
  /\ c \in cps
  /\ v \in DOMAIN vnets
  /\ c \in DOMAIN vnets[v]
  /\ vnets' = Put(vnets, v, BagRemove(vnets[v], c))
  /\ UNCHANGED <<cps, ifaces, namespaces>>

-----------------------------------------------------------------------------
(* Interfaces                                                              *)

Interface(kind, ns, pair) ==
  [kind |-> kind, net_ns |-> ns, parent |-> None, pair |-> pair,
   childs |-> Empty]

(* The two halves of a VETH: i is the internal one, j the external one.    *)
VethPair(i, j, ns) ==
  Put(Put(ifaces, i, Interface("VETH", ns, j)), j, Interface("VETH", ns, i))

(* create_virtual_interface, and with it create_virtual_bridge and         *)
(* create_macvlan_interface.                                               *)
create_virtual_interface(kind, i) ==
  /\ kind # "VETH"
  /\ FreshIface(i)
  /\ ifaces' = Put(ifaces, i, Interface(kind, None, None))
  /\ UNCHANGED <<vnets, cps, namespaces>>

create_veth(i, j) ==
  /\ i # j /\ FreshIface(i) /\ FreshIface(j)
  /\ ifaces' = VethPair(i, j, None)
  /\ UNCHANGED <<vnets, cps, namespaces>>

create_virtual_interface_in_namespace(kind, i, n) ==
  /\ kind # "VETH"
  /\ FreshIface(i)
  /\ n \in DOMAIN namespaces
  /\ namespaces' = Put(namespaces, n, BagAdd(namespaces[n], i))
  /\ ifaces' = Put(ifaces, i, Interface(kind, n, None))
  /\ UNCHANGED <<vnets, cps>>

create_veth_in_namespace(i, j, n) ==
  /\ i # j /\ FreshIface(i) /\ FreshIface(j)
  /\ n \in DOMAIN namespaces
  /\ namespaces' = Put(namespaces, n, BagAdd(BagAdd(namespaces[n], i), j))
  /\ ifaces' = VethPair(i, j, n)
  /\ UNCHANGED <<vnets, cps>>

(* Mutant: only the half that is asked for is removed.                     *)
MutDeleteInterface(i) ==
  /\ i \in DOMAIN ifaces
  /\ ifaces' = Drop(ifaces, {i})
  /\ UNCHANGED <<vnets, cps, namespaces>>

(* An interface goes together with its pair.  Lists that name them stay.   *)
delete_virtual_interface(i) ==
  /\ i \in DOMAIN ifaces
  /\ ifaces' = Drop(ifaces, {i, ifaces[i].pair})
  /\ UNCHANGED <<vnets, cps, namespaces>>

delete_macvan_interface(i) ==
  /\ i \in DOMAIN ifaces
  /\ ifaces[i].kind = "MACVLAN"
  /\ ifaces' = Drop(ifaces, {i})
  /\ UNCHANGED <<vnets, cps, namespaces>>

delete_virtual_interface_in_namespace(i, n) ==
  /\ n \in DOMAIN namespaces
  /\ i \in DOMAIN ifaces
  /\ ifaces[i].net_ns = n
  /\ i \in DOMAIN namespaces[n]
  /\ namespaces' = Put(namespaces, n, BagRemove(namespaces[n], i))
  /\ ifaces' = Drop(ifaces, {i, ifaces[i].pair})
  /\ UNCHANGED <<vnets, cps>>

-----------------------------------------------------------------------------
(* Where an interface is: namespaces, connection points, bridges           *)

create_network_namespace(n) ==
  /\ FreshNetNs(n)
  /\ namespaces' = Put(namespaces, n, Empty)
  /\ UNCHANGED <<vnets, cps, ifaces>>

delete_network_namespace(n) ==
  /\ n \in DOMAIN namespaces
  /\ namespaces' = Drop(namespaces, {n})
  /\ UNCHANGED <<vnets, cps, ifaces>>

SetNetNs(i, n) == ifaces' = [ifaces EXCEPT ![i].net_ns = n]

bind_interface_to_connection_point(i, c) ==
  /\ c \in cps
  /\ i \in DOMAIN ifaces
  /\ SetNetNs(i, c)
  /\ UNCHANGED <<vnets, cps, namespaces>>

unbind_interface_from_connection_point(i, c) ==
  /\ c \in cps
  /\ i \in DOMAIN ifaces
  /\ ifaces[i].net_ns = c
  /\ SetNetNs(i, None)
  /\ UNCHANGED <<vnets, cps, namespaces>>

(* Mutant: the namespace moved into is not told.                           *)
MutMove(i, n) ==
  /\ i \in DOMAIN ifaces
  /\ n \in DOMAIN namespaces
  /\ MayPush(namespaces[n], i)
  /\ SetNetNs(i, n)
  /\ UNCHANGED <<vnets, cps, namespaces>>

(* The namespace the interface leaves keeps it in its list.                *)
move_interface_info_namespace(i, n) ==
  /\ i \in DOMAIN ifaces
  /\ n \in DOMAIN namespaces
  /\ MayPush(namespaces[n], i)
  /\ SetNetNs(i, n)
  /\ namespaces' = Put(namespaces, n, BagAdd(namespaces[n], i))
  /\ UNCHANGED <<vnets, cps>>

(* The interface is moved even if the namespace it leaves is gone, which   *)
(* the call then reports.                                                  *)
move_interface_into_default_namespace(i) ==
  /\ i \in DOMAIN ifaces
  /\ ifaces[i].net_ns # None
  /\ SetNetNs(i, None)
  /\ LET n == ifaces[i].net_ns
     IN namespaces' = IF n \in DOMAIN namespaces
                        THEN Put(namespaces, n, BagRemove(namespaces[n], i))
                        ELSE namespaces
  /\ UNCHANGED <<vnets, cps>>

IsBridge(b) == b \in DOMAIN ifaces /\ ifaces[b].kind = "BRIDGE"

(* The interface is written before the bridge: a bridge attached to itself *)
(* is listed among its childs and has no parent.                           *)
attach_interface_to_bridge(i, b) ==
  /\ i \in DOMAIN ifaces
  /\ IsBridge(b)
  /\ MayPush(ifaces[b].childs, i)
  /\ ifaces' = Put([ifaces EXCEPT ![i].parent = b], b,
                   [ifaces[b] EXCEPT !.childs = BagAdd(@, i)])
  /\ UNCHANGED <<vnets, cps, namespaces>>

(* Mutant: the interface keeps its parent.                                 *)
MutDetach(i) ==
  LET b == ifaces[i].parent
  IN /\ i \in DOMAIN ifaces
     /\ IsBridge(b)
     /\ i \in DOMAIN ifaces[b].childs
     /\ ifaces' = [ifaces EXCEPT ![b].childs = BagRemove(@, i)]
     /\ UNCHANGED <<vnets, cps, namespaces>>

detach_interface_from_bridge(i) ==
  LET b == ifaces[i].parent
  IN /\ i \in DOMAIN ifaces
     /\ IsBridge(b)
     /\ i \in DOMAIN ifaces[b].childs
     /\ ifaces' = [ifaces EXCEPT ![b].childs = BagRemove(@, i),
                                 ![i].parent = None]
     /\ UNCHANGED <<vnets, cps, namespaces>>

-----------------------------------------------------------------------------

Next ==
  \/ \E v \in Networks :
       \/ create_virtual_network(v)
       \/ delete_virtual_network(v)
       \/ \E c \in Cps :
            \/ bind_connection_point_to_virtual_network(c, v)
            \/ unbind_connection_point_from_virtual_network(c, v)
  \/ \E c \in Cps : create_connection_point(c) \/ delete_connection_point(c)
  \/ \E n \in NetNs :
       \/ create_network_namespace(n)
       \/ delete_network_namespace(n)
  \/ \E i \in Ifaces :
       \/ delete_virtual_interface(i)
       \/ delete_macvan_interface(i)
       \/ move_interface_into_default_namespace(i)
       \/ detach_interface_from_bridge(i)
       \/ \E kind \in Kinds :
            \/ create_virtual_interface(kind, i)
            \/ \E n \in NetNs : create_virtual_interface_in_namespace(kind, i, n)
       \/ \E j \in Ifaces :
            \/ create_veth(i, j)
            \/ \E n \in NetNs : create_veth_in_namespace(i, j, n)
            \/ attach_interface_to_bridge(i, j)
       \/ \E n \in NetNs :
            \/ move_interface_info_namespace(i, n)
            \/ delete_virtual_interface_in_namespace(i, n)
       \/ \E c \in Cps :
            \/ bind_interface_to_connection_point(i, c)
            \/ unbind_interface_from_connection_point(i, c)

Spec == NetInit /\ [][Next]_netVars

-----------------------------------------------------------------------------
(* Properties                                                              *)

(* The halves of a VETH exist together and name each other, whatever       *)
(* deleted, moved or bound them: deleting one (dummy-network.rs:382) never *)
(* takes an interface with it that is not its own pair.                    *)
PairsWhole ==
  \A i \in DOMAIN ifaces : ifaces[i].kind = "VETH" =>
    LET j == ifaces[i].pair
    IN j # i /\ j \in DOMAIN ifaces /\ ifaces[j].pair = i

(* An interface in an existing namespace is in its list, so that           *)
(* delete_virtual_interface_in_namespace and                               *)
(* move_interface_into_default_namespace never answer NotConnected for it. *)
(* The lists may name more: interfaces that were deleted, moved or bound   *)
(* elsewhere.                                                              *)
MembersListed ==
  \A i \in DOMAIN ifaces :
    LET n == ifaces[i].net_ns
    IN n \in DOMAIN namespaces => i \in DOMAIN namespaces[n]

(* The parent of an interface, while it exists, is a bridge that has the   *)
(* interface among its childs: detach_interface_from_bridge never answers  *)
(* WrongKind or NotConnected for an attached interface.                    *)
ChildrenListed ==
  \A i \in DOMAIN ifaces :
    LET b == ifaces[i].parent
    IN b \in DOMAIN ifaces => IsBridge(b) /\ i \in DOMAIN ifaces[b].childs

(* plugins.rs:85 says of create_virtual_network that "if the network       *)
(* already exists iun the node does nothing": a network that stays on the  *)
(* node loses connection points only by unbinding them, one at a time.     *)
CreateKeepsBindings ==
  [][\A v \in DOMAIN vnets \cap DOMAIN vnets' :
       \A c, d \in DOMAIN vnets[v] \ DOMAIN vnets'[v] : c = d]_netVars
=============================================================================
