------------------------- MODULE NetworkPluginProofs -------------------------
(***************************************************************************)
(* The records of the networking plugin refer to each other as they        *)
(* should, for any number of interfaces, namespaces, connection points and *)
(* networks and any length of their lists.                                 *)
(*                                                                         *)
(* No property is inductive alone.  That a new interface has no parent     *)
(* needs the types (None is no interface); that the deletion of a pair     *)
(* takes nobody else's half needs PairsWhole; and each of the others needs *)
(* that a uuid is drawn once, so that no record can come to be referred to *)
(* by what it replaces.  Together they are inductive.                      *)
(***************************************************************************)
EXTENDS NetworkPlugin, TLAPS

Inv == TypeOK /\ PairsWhole /\ MembersListed /\ ChildrenListed

LEMMA InvInit == NetInit => Inv
BY DEF NetInit, Inv, TypeOK, PairsWhole, MembersListed, ChildrenListed, Empty

-----------------------------------------------------------------------------
(* Lists                                                                   *)

(* BagAdd: one occurrence more, of one more member at most.                *)
LEMMA AddLists ==
  ASSUME NEW B, NEW S, IsList(B, S), NEW x \in S
  PROVE  /\ IsList(BagAdd(B, x), S)
         /\ DOMAIN BagAdd(B, x) = DOMAIN B \cup {x}
BY DEF IsList, BagAdd

(* BagRemove: one occurrence less, and every other member stays.           *)
LEMMA RemoveLists ==
  ASSUME NEW B, NEW S, IsList(B, S), NEW x
  PROVE  /\ IsList(BagRemove(B, x), S)
         /\ DOMAIN B \ {x} \subseteq DOMAIN BagRemove(B, x)
BY DEF IsList, BagRemove

LEMMA EmptyList == ASSUME NEW S PROVE IsList(Empty, S)
BY DEF IsList, Empty

-----------------------------------------------------------------------------
(* Records                                                                 *)

(* An interface that is made is one, in the namespace it is made in.       *)
LEMMA NewInterface ==
  ASSUME NEW kind \in Kinds, NEW ns \in NetNs \cup {None},
         NEW pair \in Ifaces \cup {None}, pair # None <=> kind = "VETH"
  PROVE  IsInterface(Interface(kind, ns, pair))
BY EmptyList DEF IsInterface, Interface

(* What one field of one record is set to leaves the others alone.         *)
LEMMA NetNsSet ==
  ASSUME NEW f, NEW i \in DOMAIN f, IsInterface(f[i]),
         NEW n \in NetNs \cup Cps \cup {None}, NEW g,
         g = [f EXCEPT ![i].net_ns = n]
  PROVE  /\ DOMAIN g = DOMAIN f
         /\ \A j \in DOMAIN f \ {i} : g[j] = f[j]
         /\ IsInterface(g[i])
         /\ g[i].net_ns = n
         /\ g[i].kind = f[i].kind
         /\ g[i].pair = f[i].pair
         /\ g[i].parent = f[i].parent
         /\ g[i].childs = f[i].childs
<1> DEFINE r == [f[i] EXCEPT !.net_ns = n]
<1>1. /\ DOMAIN g = DOMAIN f
      /\ \A j \in DOMAIN f \ {i} : g[j] = f[j]
      /\ g[i] = r
  OBVIOUS
<1>2. /\ DOMAIN r = DOMAIN f[i]
      /\ r.net_ns = n
      /\ r.kind = f[i].kind
      /\ r.pair = f[i].pair
      /\ r.parent = f[i].parent
      /\ r.childs = f[i].childs
  BY DEF IsInterface
<1> HIDE DEF r
<1>3. IsInterface(r)
  BY <1>2 DEF IsInterface
<1>4. QED BY <1>1, <1>2, <1>3

LEMMA ParentSet ==
  ASSUME NEW f, NEW i \in DOMAIN f, IsInterface(f[i]),
         NEW b \in Ifaces \cup {None}, NEW g,
         g = [f EXCEPT ![i].parent = b]
  PROVE  /\ DOMAIN g = DOMAIN f
         /\ \A j \in DOMAIN f \ {i} : g[j] = f[j]
         /\ IsInterface(g[i])
         /\ g[i].parent = b
         /\ g[i].kind = f[i].kind
         /\ g[i].pair = f[i].pair
         /\ g[i].net_ns = f[i].net_ns
         /\ g[i].childs = f[i].childs
<1> DEFINE r == [f[i] EXCEPT !.parent = b]
<1>1. /\ DOMAIN g = DOMAIN f
      /\ \A j \in DOMAIN f \ {i} : g[j] = f[j]
      /\ g[i] = r
  OBVIOUS
<1>2. /\ DOMAIN r = DOMAIN f[i]
      /\ r.parent = b
      /\ r.kind = f[i].kind
      /\ r.pair = f[i].pair
      /\ r.net_ns = f[i].net_ns
      /\ r.childs = f[i].childs
  BY DEF IsInterface
<1> HIDE DEF r
<1>3. IsInterface(r)
  BY <1>2 DEF IsInterface
<1>4. QED BY <1>1, <1>2, <1>3

LEMMA ChildsSet ==
  ASSUME NEW v, IsInterface(v), NEW B, IsList(B, Ifaces), NEW r,
         r = [v EXCEPT !.childs = B]
  PROVE  /\ IsInterface(r)
         /\ r.childs = B
         /\ r.kind = v.kind
         /\ r.pair = v.pair
         /\ r.net_ns = v.net_ns
         /\ r.parent = v.parent
<1>1. /\ DOMAIN r = DOMAIN v
      /\ r.childs = B
      /\ r.kind = v.kind
      /\ r.pair = v.pair
      /\ r.net_ns = v.net_ns
      /\ r.parent = v.parent
  BY DEF IsInterface
<1>2. QED BY <1>1 DEF IsInterface

-----------------------------------------------------------------------------
(* Networks and connection points: no interface is read or written.        *)

(* The interfaces and the namespaces stay, so the three relations do.      *)
LEMMA RelationsStay ==
  ASSUME Inv, ifaces' = ifaces, namespaces' = namespaces
  PROVE  PairsWhole' /\ MembersListed' /\ ChildrenListed'
BY DEF Inv, PairsWhole, MembersListed, ChildrenListed, IsBridge

LEMMA CatalogKept ==
  ASSUME Inv, NEW v, NEW c,
         \/ create_virtual_network(v)
         \/ delete_virtual_network(v)
         \/ bind_connection_point_to_virtual_network(c, v)
         \/ unbind_connection_point_from_virtual_network(c, v)
         \/ create_connection_point(c)
         \/ delete_connection_point(c)
  PROVE  Inv'
<1> DEFINE Bindings(f) == /\ DOMAIN f \subseteq Networks
                          /\ \A w \in DOMAIN f : IsList(f[w], Cps)
<1>1. ifaces' = ifaces /\ namespaces' = namespaces
  BY DEF create_virtual_network, delete_virtual_network,
         bind_connection_point_to_virtual_network,
         unbind_connection_point_from_virtual_network,
         create_connection_point, delete_connection_point
<1>2. Bindings(vnets) /\ cps \subseteq Cps
  BY DEF Inv, TypeOK
<1>3. ASSUME NEW B, IsList(B, Cps), v \in Networks PROVE Bindings(Put(vnets, v, B))
  BY <1>2, <1>3 DEF Put
<1>4. Bindings(vnets') /\ cps' \subseteq Cps
  <2>1. CASE create_virtual_network(v)
    BY <2>1, <1>2, <1>3, EmptyList DEF create_virtual_network
  <2>2. CASE delete_virtual_network(v)
    BY <2>2, <1>2 DEF delete_virtual_network, Drop
  <2>3. CASE bind_connection_point_to_virtual_network(c, v)
    <3>1. IsList(BagAdd(vnets[v], c), Cps)
      BY <2>3, <1>2, AddLists DEF bind_connection_point_to_virtual_network
    <3>2. QED
      BY <2>3, <1>2, <1>3, <3>1 DEF bind_connection_point_to_virtual_network
  <2>4. CASE unbind_connection_point_from_virtual_network(c, v)
    <3>1. IsList(BagRemove(vnets[v], c), Cps)
      BY <2>4, <1>2, RemoveLists
      DEF unbind_connection_point_from_virtual_network
    <3>2. QED
      BY <2>4, <1>2, <1>3, <3>1
      DEF unbind_connection_point_from_virtual_network
  <2>5. CASE create_connection_point(c)
    BY <2>5, <1>2 DEF create_connection_point, FreshCp
  <2>6. CASE delete_connection_point(c)
    BY <2>6, <1>2 DEF delete_connection_point
  <2>7. QED BY <2>1, <2>2, <2>3, <2>4, <2>5, <2>6
<1>5. TypeOK'
  BY <1>1, <1>4 DEF Inv, TypeOK
<1>6. QED BY <1>1, <1>5, RelationsStay DEF Inv

-----------------------------------------------------------------------------
(* Interfaces that are made                                                *)

(* What TypeOK says of the interfaces, and of the namespaces.              *)
Records(f) == DOMAIN f \subseteq Ifaces /\ \A i \in DOMAIN f : IsInterface(f[i])
Spaces(g) == DOMAIN g \subseteq NetNs /\ \A n \in DOMAIN g : IsList(g[n], Ifaces)

LEMMA TypeParts ==
  ASSUME Inv, Records(ifaces)', Spaces(namespaces)', UNCHANGED <<vnets, cps>>
  PROVE  TypeOK'
BY DEF Inv, TypeOK, Records, Spaces

LEMMA HasTypes == ASSUME Inv PROVE Records(ifaces) /\ Spaces(namespaces)
BY DEF Inv, TypeOK, Records, Spaces

(* A list of a namespace is written.                                       *)
LEMMA SpacePut ==
  ASSUME Spaces(namespaces), NEW n \in NetNs, NEW B, IsList(B, Ifaces),
         namespaces' = Put(namespaces, n, B)
  PROVE  /\ Spaces(namespaces')
         /\ DOMAIN namespaces' = DOMAIN namespaces \cup {n}
         /\ namespaces'[n] = B
         /\ \A m \in DOMAIN namespaces \ {n} : namespaces'[m] = namespaces[m]
BY DEF Spaces, Put

(* A single interface is added, in a namespace that lists it or in none.   *)
LEMMA Added ==
  ASSUME Inv, NEW kind \in Kinds \ {"VETH"}, NEW i, FreshIface(i),
         NEW ns \in NetNs \cup {None},
         ifaces' = Put(ifaces, i, Interface(kind, ns, None)),
         Spaces(namespaces'),
         DOMAIN namespaces' = DOMAIN namespaces,
         \A n \in DOMAIN namespaces : DOMAIN namespaces[n] \subseteq DOMAIN namespaces'[n],
         ns \in DOMAIN namespaces => i \in DOMAIN namespaces'[ns],
         UNCHANGED <<vnets, cps>>
  PROVE  Inv'
<1> DEFINE r == Interface(kind, ns, None)
<1>1. Records(ifaces) /\ Spaces(namespaces)
  BY HasTypes
<1>2. /\ IsInterface(r)
      /\ r.kind = kind /\ r.net_ns = ns /\ r.parent = None /\ r.pair = None
  BY NewInterface DEF Interface
<1> HIDE DEF r
<1>3. /\ DOMAIN ifaces' = DOMAIN ifaces \cup {i}
      /\ ifaces'[i] = r
      /\ \A j \in DOMAIN ifaces : j # i /\ ifaces'[j] = ifaces[j]
  BY DEF Put, r, FreshIface
<1>4. i \in Ifaces /\ None \notin Ifaces
  BY NetworkAssumption DEF FreshIface
<1>5. Records(ifaces')
  BY <1>1, <1>2, <1>3, <1>4 DEF Records
<1>6. PairsWhole'
  BY <1>2, <1>3 DEF Inv, PairsWhole
<1>7. MembersListed'
  BY <1>2, <1>3 DEF Inv, MembersListed
<1>8. ChildrenListed'
  <2> SUFFICES ASSUME NEW j \in DOMAIN ifaces',
                      ifaces'[j].parent \in DOMAIN ifaces'
               PROVE  /\ IsBridge(ifaces[j].parent)'
                      /\ j \in DOMAIN ifaces'[ifaces'[j].parent].childs
    BY DEF ChildrenListed, IsBridge
  <2>1. j \in DOMAIN ifaces /\ ifaces'[j] = ifaces[j]
    BY <1>2, <1>3, <1>4, <1>1 DEF Records
  <2>2. ifaces[j].parent \in DOMAIN ifaces
    BY <2>1, <1>3 DEF FreshIface
  <2>3. QED BY <2>1, <2>2, <1>3 DEF Inv, ChildrenListed, IsBridge
<1>9. QED BY <1>1, <1>5, <1>6, <1>7, <1>8, TypeParts DEF Inv

(* The two halves of a VETH are added, both in the same place.             *)
LEMMA PairAdded ==
  ASSUME Inv, NEW i, NEW j, i # j, FreshIface(i), FreshIface(j),
         NEW ns \in NetNs \cup {None},
         ifaces' = VethPair(i, j, ns),
         Spaces(namespaces'),
         DOMAIN namespaces' = DOMAIN namespaces,
         \A n \in DOMAIN namespaces : DOMAIN namespaces[n] \subseteq DOMAIN namespaces'[n],
         ns \in DOMAIN namespaces => {i, j} \subseteq DOMAIN namespaces'[ns],
         UNCHANGED <<vnets, cps>>
  PROVE  Inv'
<1> DEFINE r == Interface("VETH", ns, j)
           s == Interface("VETH", ns, i)
<1>1. Records(ifaces) /\ Spaces(namespaces)
  BY HasTypes
<1>2. i \in Ifaces /\ j \in Ifaces /\ None \notin Ifaces
  BY NetworkAssumption DEF FreshIface
<1>3. /\ IsInterface(r) /\ IsInterface(s)
      /\ r.kind = "VETH" /\ r.net_ns = ns /\ r.parent = None /\ r.pair = j
      /\ s.kind = "VETH" /\ s.net_ns = ns /\ s.parent = None /\ s.pair = i
  <2>1. "VETH" \in Kinds /\ i # None /\ j # None
    BY <1>2 DEF Kinds
  <2>2. QED BY <1>2, <2>1, NewInterface DEF Interface
<1>4. ifaces' = Put(Put(ifaces, i, r), j, s)
  BY DEF VethPair
<1> HIDE DEF r, s
<1>5. /\ DOMAIN ifaces' = DOMAIN ifaces \cup {i, j}
      /\ ifaces'[i] = r
      /\ ifaces'[j] = s
      /\ \A k \in DOMAIN ifaces : k # i /\ k # j /\ ifaces'[k] = ifaces[k]
  BY <1>4 DEF Put, FreshIface
<1>6. Records(ifaces')
  BY <1>1, <1>2, <1>3, <1>5 DEF Records
<1>7. PairsWhole'
  BY <1>3, <1>5 DEF Inv, PairsWhole
<1>8. MembersListed'
  BY <1>3, <1>5 DEF Inv, MembersListed
<1>9. ChildrenListed'
  <2> SUFFICES ASSUME NEW k \in DOMAIN ifaces',
                      ifaces'[k].parent \in DOMAIN ifaces'
               PROVE  /\ IsBridge(ifaces[k].parent)'
                      /\ k \in DOMAIN ifaces'[ifaces'[k].parent].childs
    BY DEF ChildrenListed, IsBridge
  <2>1. k \in DOMAIN ifaces /\ ifaces'[k] = ifaces[k]
    BY <1>1, <1>2, <1>3, <1>5 DEF Records
  <2>2. ifaces[k].parent \in DOMAIN ifaces
    BY <2>1, <1>5 DEF FreshIface
  <2>3. QED BY <2>1, <2>2, <1>5 DEF Inv, ChildrenListed, IsBridge
<1>10. QED BY <1>1, <1>6, <1>7, <1>8, <1>9, TypeParts DEF Inv

LEMMA InterfaceCreated ==
  ASSUME Inv, NEW kind, NEW i, NEW j, NEW n,
         \/ kind \in Kinds /\ create_virtual_interface(kind, i)
         \/ kind \in Kinds /\ create_virtual_interface_in_namespace(kind, i, n)
         \/ create_veth(i, j)
         \/ create_veth_in_namespace(i, j, n)
  PROVE  Inv'
<1>1. Spaces(namespaces) /\ None \notin NetNs
  BY HasTypes, NetworkAssumption
<1>2. None \notin DOMAIN namespaces
  BY <1>1 DEF Spaces
<1>3. CASE kind \in Kinds /\ create_virtual_interface(kind, i)
  BY <1>1, <1>2, <1>3, Added DEF create_virtual_interface
<1>4. CASE create_veth(i, j)
  BY <1>1, <1>2, <1>4, PairAdded DEF create_veth
<1>5. CASE kind \in Kinds /\ create_virtual_interface_in_namespace(kind, i, n)
  <2>1. /\ n \in DOMAIN namespaces /\ IsList(namespaces[n], Ifaces)
        /\ n \in NetNs /\ i \in Ifaces
    BY <1>1, <1>5 DEF Spaces, create_virtual_interface_in_namespace, FreshIface
  <2>2. /\ IsList(BagAdd(namespaces[n], i), Ifaces)
        /\ DOMAIN BagAdd(namespaces[n], i) = DOMAIN namespaces[n] \cup {i}
    BY <2>1, AddLists
  <2>3. namespaces' = Put(namespaces, n, BagAdd(namespaces[n], i))
    BY <1>5 DEF create_virtual_interface_in_namespace
  <2>4. /\ Spaces(namespaces')
        /\ DOMAIN namespaces' = DOMAIN namespaces
        /\ namespaces'[n] = BagAdd(namespaces[n], i)
        /\ \A m \in DOMAIN namespaces \ {n} : namespaces'[m] = namespaces[m]
    <3>1. Spaces(namespaces) /\ n \in NetNs
      BY <1>1, <2>1
    <3>2. IsList(BagAdd(namespaces[n], i), Ifaces)
      BY <2>2
    <3>3. DOMAIN namespaces \cup {n} = DOMAIN namespaces
      BY <2>1
    <3>4. /\ Spaces(namespaces')
          /\ DOMAIN namespaces' = DOMAIN namespaces \cup {n}
          /\ namespaces'[n] = BagAdd(namespaces[n], i)
          /\ \A m \in DOMAIN namespaces \ {n} : namespaces'[m] = namespaces[m]
      BY <3>1, <3>2, <2>3, SpacePut
    <3>5. QED BY <3>3, <3>4
  <2>5. /\ \A m \in DOMAIN namespaces : DOMAIN namespaces[m] \subseteq DOMAIN namespaces'[m]
        /\ i \in DOMAIN namespaces'[n]
    BY <2>2, <2>4
  <2>6. QED
    BY <1>5, <2>1, <2>4, <2>5, Added DEF create_virtual_interface_in_namespace
<1>6. CASE create_veth_in_namespace(i, j, n)
  <2> DEFINE B == BagAdd(namespaces[n], i)
  <2>1. /\ n \in DOMAIN namespaces /\ IsList(namespaces[n], Ifaces)
        /\ n \in NetNs /\ i \in Ifaces /\ j \in Ifaces
    BY <1>1, <1>6 DEF Spaces, create_veth_in_namespace, FreshIface
  <2>2. /\ IsList(B, Ifaces)
        /\ DOMAIN B = DOMAIN namespaces[n] \cup {i}
    BY <2>1, AddLists
  <2>3. namespaces' = Put(namespaces, n, BagAdd(B, j))
    BY <1>6 DEF create_veth_in_namespace
  <2> HIDE DEF B
  <2>4. /\ IsList(BagAdd(B, j), Ifaces)
        /\ DOMAIN BagAdd(B, j) = DOMAIN namespaces[n] \cup {i, j}
    BY <2>1, <2>2, AddLists
  <2>5. /\ Spaces(namespaces')
        /\ DOMAIN namespaces' = DOMAIN namespaces
        /\ namespaces'[n] = BagAdd(B, j)
        /\ \A m \in DOMAIN namespaces \ {n} : namespaces'[m] = namespaces[m]
    BY <1>1, <2>1, <2>3, <2>4, SpacePut
  <2>6. /\ \A m \in DOMAIN namespaces : DOMAIN namespaces[m] \subseteq DOMAIN namespaces'[m]
        /\ {i, j} \subseteq DOMAIN namespaces'[n]
    BY <2>4, <2>5
  <2>7. QED
    BY <1>6, <2>1, <2>5, <2>6, PairAdded DEF create_veth_in_namespace
<1>7. QED BY <1>3, <1>4, <1>5, <1>6

-----------------------------------------------------------------------------
(* Interfaces that are removed                                             *)

(* An interface goes with its pair, and its name may go from one list.     *)
LEMMA Removed ==
  ASSUME Inv, NEW i \in DOMAIN ifaces,
         ifaces' = Drop(ifaces, {i, ifaces[i].pair}),
         Spaces(namespaces'),
         DOMAIN namespaces' = DOMAIN namespaces,
         \A n \in DOMAIN namespaces : DOMAIN namespaces[n] \ {i} \subseteq DOMAIN namespaces'[n],
         UNCHANGED <<vnets, cps>>
  PROVE  Inv'
<1>1. Records(ifaces) /\ None \notin Ifaces
  BY HasTypes, NetworkAssumption
<1>2. /\ DOMAIN ifaces' = DOMAIN ifaces \ {i, ifaces[i].pair}
      /\ \A k \in DOMAIN ifaces' : k \in DOMAIN ifaces /\ ifaces'[k] = ifaces[k]
  BY DEF Drop
<1>3. Records(ifaces')
  BY <1>1, <1>2 DEF Records
<1>4. PairsWhole'
  <2> SUFFICES ASSUME NEW k \in DOMAIN ifaces', ifaces'[k].kind = "VETH"
               PROVE  /\ ifaces'[k].pair # k
                      /\ ifaces'[k].pair \in DOMAIN ifaces'
                      /\ ifaces'[ifaces'[k].pair].pair = k
    BY DEF PairsWhole
  <2> DEFINE l == ifaces[k].pair
  <2>1. k \in DOMAIN ifaces /\ ifaces'[k] = ifaces[k]
    BY <1>2
  <2>2. l # k /\ l \in DOMAIN ifaces /\ ifaces[l].pair = k
    BY <2>1 DEF Inv, PairsWhole
  <2>3. l # i
    BY <1>2, <2>2
  <2>4. l # ifaces[i].pair
    <3> SUFFICES ASSUME l = ifaces[i].pair PROVE FALSE
      OBVIOUS
    <3>1. ifaces[i].kind = "VETH"
      BY <1>1, <2>2 DEF Records, IsInterface
    <3>2. ifaces[l].pair = i
      BY <3>1 DEF Inv, PairsWhole
    <3>3. QED BY <1>2, <2>2, <3>2
  <2>5. QED BY <1>2, <2>1, <2>2, <2>3, <2>4
<1>5. MembersListed'
  BY <1>2 DEF Inv, MembersListed
<1>6. ChildrenListed'
  BY <1>2 DEF Inv, ChildrenListed, IsBridge
<1>7. QED BY <1>1, <1>3, <1>4, <1>5, <1>6, TypeParts DEF Inv

LEMMA InterfaceDeleted ==
  ASSUME Inv, NEW i, NEW n,
         \/ delete_virtual_interface(i)
         \/ delete_macvan_interface(i)
         \/ delete_virtual_interface_in_namespace(i, n)
  PROVE  Inv'
<1>1. Records(ifaces) /\ Spaces(namespaces) /\ None \notin Ifaces
  BY HasTypes, NetworkAssumption
<1>2. CASE delete_virtual_interface(i)
  BY <1>1, <1>2, Removed DEF delete_virtual_interface
<1>3. CASE delete_macvan_interface(i)
  <2>1. ifaces[i].pair = None /\ None \notin DOMAIN ifaces
    BY <1>1, <1>3 DEF delete_macvan_interface, Records, IsInterface
  <2>2. Drop(ifaces, {i}) = Drop(ifaces, {i, ifaces[i].pair})
    BY <2>1 DEF Drop
  <2>3. QED BY <1>1, <1>3, <2>2, Removed DEF delete_macvan_interface
<1>4. CASE delete_virtual_interface_in_namespace(i, n)
  <2>1. /\ n \in DOMAIN namespaces /\ IsList(namespaces[n], Ifaces)
        /\ n \in NetNs
    BY <1>1, <1>4 DEF Spaces, delete_virtual_interface_in_namespace
  <2>2. /\ IsList(BagRemove(namespaces[n], i), Ifaces)
        /\ DOMAIN namespaces[n] \ {i} \subseteq DOMAIN BagRemove(namespaces[n], i)
    BY <2>1, RemoveLists
  <2>3. namespaces' = Put(namespaces, n, BagRemove(namespaces[n], i))
    BY <1>4 DEF delete_virtual_interface_in_namespace
  <2>4. /\ Spaces(namespaces')
        /\ DOMAIN namespaces' = DOMAIN namespaces
        /\ namespaces'[n] = BagRemove(namespaces[n], i)
        /\ \A m \in DOMAIN namespaces \ {n} : namespaces'[m] = namespaces[m]
    BY <1>1, <2>1, <2>2, <2>3, SpacePut
  <2>5. \A m \in DOMAIN namespaces :
          DOMAIN namespaces[m] \ {i} \subseteq DOMAIN namespaces'[m]
    BY <2>2, <2>4
  <2>6. QED
    BY <1>4, <2>4, <2>5, Removed DEF delete_virtual_interface_in_namespace
<1>5. QED BY <1>2, <1>3, <1>4

-----------------------------------------------------------------------------
(* Interfaces that change their place                                      *)

(* An interface is moved: the place it comes to, if it is a namespace that *)
(* exists, lists it; no list loses another one.                            *)
LEMMA Moved ==
  ASSUME Inv, NEW i \in DOMAIN ifaces, NEW ns \in NetNs \cup Cps \cup {None},
         SetNetNs(i, ns),
         Spaces(namespaces'),
         DOMAIN namespaces' = DOMAIN namespaces,
         \A n \in DOMAIN namespaces : DOMAIN namespaces[n] \ {i} \subseteq DOMAIN namespaces'[n],
         ns \in DOMAIN namespaces => i \in DOMAIN namespaces'[ns],
         UNCHANGED <<vnets, cps>>
  PROVE  Inv'
<1>1. Records(ifaces)
  BY HasTypes
<1>2. /\ DOMAIN ifaces' = DOMAIN ifaces
      /\ \A j \in DOMAIN ifaces \ {i} : ifaces'[j] = ifaces[j]
      /\ IsInterface(ifaces'[i])
      /\ ifaces'[i].net_ns = ns
      /\ ifaces'[i].kind = ifaces[i].kind
      /\ ifaces'[i].pair = ifaces[i].pair
      /\ ifaces'[i].parent = ifaces[i].parent
      /\ ifaces'[i].childs = ifaces[i].childs
  <2>1. IsInterface(ifaces[i])
    BY <1>1 DEF Records
  <2>2. ifaces' = [ifaces EXCEPT ![i].net_ns = ns]
    BY DEF SetNetNs
  <2>3. QED BY <2>1, <2>2, NetNsSet
<1>3. Records(ifaces')
  BY <1>1, <1>2 DEF Records
<1>4. \A j \in DOMAIN ifaces : /\ ifaces'[j].kind = ifaces[j].kind
                               /\ ifaces'[j].pair = ifaces[j].pair
                               /\ ifaces'[j].parent = ifaces[j].parent
                               /\ ifaces'[j].childs = ifaces[j].childs
  BY <1>2
<1>5. PairsWhole'
  BY <1>2, <1>4 DEF Inv, PairsWhole
<1>6. MembersListed'
  BY <1>2 DEF Inv, MembersListed
<1>7. ChildrenListed'
  BY <1>2, <1>4 DEF Inv, ChildrenListed, IsBridge
<1>8. QED BY <1>3, <1>5, <1>6, <1>7, TypeParts DEF Inv

LEMMA PlaceChanged ==
  ASSUME Inv, NEW i, NEW n, NEW c,
         \/ bind_interface_to_connection_point(i, c)
         \/ unbind_interface_from_connection_point(i, c)
         \/ move_interface_info_namespace(i, n)
         \/ move_interface_into_default_namespace(i)
  PROVE  Inv'
<1>1. Records(ifaces) /\ Spaces(namespaces)
  BY HasTypes
<1>2. None \notin DOMAIN namespaces
  BY <1>1, NetworkAssumption DEF Spaces
<1>3. CASE bind_interface_to_connection_point(i, c)
  <2>1. c \in Cps /\ c \notin DOMAIN namespaces
    BY <1>1, <1>3, NetworkAssumption
    DEF bind_interface_to_connection_point, Spaces, Inv, TypeOK
  <2>2. QED BY <1>1, <1>3, <2>1, Moved DEF bind_interface_to_connection_point
<1>4. CASE unbind_interface_from_connection_point(i, c)
  BY <1>1, <1>2, <1>4, Moved DEF unbind_interface_from_connection_point
<1>5. CASE move_interface_info_namespace(i, n)
  <2>1. /\ n \in DOMAIN namespaces /\ IsList(namespaces[n], Ifaces)
        /\ n \in NetNs /\ i \in Ifaces
    BY <1>1, <1>5 DEF Spaces, Records, move_interface_info_namespace
  <2>2. /\ IsList(BagAdd(namespaces[n], i), Ifaces)
        /\ DOMAIN BagAdd(namespaces[n], i) = DOMAIN namespaces[n] \cup {i}
    BY <2>1, AddLists
  <2>3. namespaces' = Put(namespaces, n, BagAdd(namespaces[n], i))
    BY <1>5 DEF move_interface_info_namespace
  <2>4. /\ Spaces(namespaces')
        /\ DOMAIN namespaces' = DOMAIN namespaces
        /\ namespaces'[n] = BagAdd(namespaces[n], i)
        /\ \A m \in DOMAIN namespaces \ {n} : namespaces'[m] = namespaces[m]
    <3>1. Spaces(namespaces) /\ n \in NetNs
      BY <1>1, <2>1
    <3>2. IsList(BagAdd(namespaces[n], i), Ifaces)
      BY <2>2
    <3>3. DOMAIN namespaces \cup {n} = DOMAIN namespaces
      BY <2>1
    <3>4. /\ Spaces(namespaces')
          /\ DOMAIN namespaces' = DOMAIN namespaces \cup {n}
          /\ namespaces'[n] = BagAdd(namespaces[n], i)
          /\ \A m \in DOMAIN namespaces \ {n} : namespaces'[m] = namespaces[m]
      BY <3>1, <3>2, <2>3, SpacePut
    <3>5. QED BY <3>3, <3>4
  <2>5. /\ \A m \in DOMAIN namespaces :
             DOMAIN namespaces[m] \ {i} \subseteq DOMAIN namespaces'[m]
        /\ i \in DOMAIN namespaces'[n]
    BY <2>2, <2>4
  <2>6. QED BY <1>5, <2>1, <2>4, <2>5, Moved DEF move_interface_info_namespace
<1>6. CASE move_interface_into_default_namespace(i)
  <2> DEFINE m == ifaces[i].net_ns
  <2>1. i \in DOMAIN ifaces /\ SetNetNs(i, None) /\ UNCHANGED <<vnets, cps>>
    BY <1>6 DEF move_interface_into_default_namespace
  <2>2. CASE m \notin DOMAIN namespaces
    <3>1. namespaces' = namespaces
      BY <1>6, <2>2 DEF move_interface_into_default_namespace
    <3>2. QED BY <1>1, <1>2, <2>1, <3>1, Moved
  <2>3. CASE m \in DOMAIN namespaces
    <3>1. namespaces' = Put(namespaces, m, BagRemove(namespaces[m], i))
      BY <1>6, <2>3 DEF move_interface_into_default_namespace
    <3>2. m \in NetNs /\ IsList(namespaces[m], Ifaces)
      BY <1>1, <2>3 DEF Spaces
    <3> HIDE DEF m
    <3>3. /\ IsList(BagRemove(namespaces[m], i), Ifaces)
          /\ DOMAIN namespaces[m] \ {i} \subseteq DOMAIN BagRemove(namespaces[m], i)
      BY <3>2, RemoveLists
    <3>4. /\ Spaces(namespaces')
          /\ DOMAIN namespaces' = DOMAIN namespaces
          /\ namespaces'[m] = BagRemove(namespaces[m], i)
          /\ \A k \in DOMAIN namespaces \ {m} : namespaces'[k] = namespaces[k]
      BY <1>1, <2>3, <3>1, <3>2, <3>3, SpacePut
    <3>5. \A k \in DOMAIN namespaces :
            DOMAIN namespaces[k] \ {i} \subseteq DOMAIN namespaces'[k]
      BY <3>3, <3>4
    <3>6. QED BY <1>2, <2>1, <3>4, <3>5, Moved
  <2>4. QED BY <2>2, <2>3
<1>7. QED BY <1>3, <1>4, <1>5, <1>6

(* A new namespace is nobody's place yet, and who was in one that is gone  *)
(* is in no namespace that must list it.                                   *)
LEMMA NamespacesChanged ==
  ASSUME Inv, NEW n \in NetNs,
         create_network_namespace(n) \/ delete_network_namespace(n)
  PROVE  Inv'
<1>1. Records(ifaces) /\ Spaces(namespaces)
  BY HasTypes
<1>2. ifaces' = ifaces /\ vnets' = vnets /\ cps' = cps
  BY DEF create_network_namespace, delete_network_namespace
<1>3. PairsWhole' /\ ChildrenListed' /\ Records(ifaces')
  BY <1>1, <1>2 DEF Inv, PairsWhole, ChildrenListed, IsBridge
<1>4. CASE create_network_namespace(n)
  <2>1. /\ Spaces(namespaces')
        /\ DOMAIN namespaces' = DOMAIN namespaces \cup {n}
        /\ \A m \in DOMAIN namespaces \ {n} : namespaces'[m] = namespaces[m]
    BY <1>1, <1>4, EmptyList, SpacePut DEF create_network_namespace
  <2>2. n \notin DOMAIN namespaces /\ \A i \in DOMAIN ifaces : ifaces[i].net_ns # n
    BY <1>4 DEF create_network_namespace, FreshNetNs
  <2>3. MembersListed'
    BY <1>2, <2>1, <2>2 DEF Inv, MembersListed
  <2>4. QED BY <1>2, <1>3, <2>1, <2>3, TypeParts DEF Inv
<1>5. CASE delete_network_namespace(n)
  <2>1. /\ DOMAIN namespaces' = DOMAIN namespaces \ {n}
        /\ \A m \in DOMAIN namespaces' : namespaces'[m] = namespaces[m]
    BY <1>5 DEF delete_network_namespace, Drop
  <2>2. Spaces(namespaces')
    BY <1>1, <2>1 DEF Spaces
  <2>3. MembersListed'
    BY <1>2, <2>1 DEF Inv, MembersListed
  <2>4. QED BY <1>2, <1>3, <2>2, <2>3, TypeParts DEF Inv
<1>6. QED BY <1>4, <1>5

-----------------------------------------------------------------------------
(* Bridges                                                                 *)

(* Only parents and childs change: what remains is that they still agree.  *)
LEMMA Relinked ==
  ASSUME Inv, Records(ifaces'), DOMAIN ifaces' = DOMAIN ifaces,
         \A j \in DOMAIN ifaces : /\ ifaces'[j].kind = ifaces[j].kind
                                  /\ ifaces'[j].pair = ifaces[j].pair
                                  /\ ifaces'[j].net_ns = ifaces[j].net_ns,
         ChildrenListed',
         UNCHANGED <<vnets, cps, namespaces>>
  PROVE  Inv'
<1>1. Spaces(namespaces')
  BY HasTypes
<1>2. TypeOK'
  BY <1>1, TypeParts
<1>3. PairsWhole'
  BY DEF Inv, PairsWhole
<1>4. MembersListed'
  BY DEF Inv, MembersListed
<1>5. QED BY <1>2, <1>3, <1>4 DEF Inv

LEMMA Attached ==
  ASSUME Inv, NEW i \in Ifaces, NEW b \in Ifaces,
         attach_interface_to_bridge(i, b)
  PROVE  Inv'
<1> DEFINE f == [ifaces EXCEPT ![i].parent = b]
           r == [ifaces[b] EXCEPT !.childs = BagAdd(ifaces[b].childs, i)]
<1>1. /\ Records(ifaces)
      /\ i \in DOMAIN ifaces
      /\ IsBridge(b) /\ b \in DOMAIN ifaces
      /\ UNCHANGED <<vnets, cps, namespaces>>
  BY HasTypes DEF attach_interface_to_bridge, IsBridge
<1>2. IsInterface(ifaces[i]) /\ IsInterface(ifaces[b])
  BY <1>1 DEF Records
<1>3. /\ IsList(BagAdd(ifaces[b].childs, i), Ifaces)
      /\ DOMAIN BagAdd(ifaces[b].childs, i) = DOMAIN ifaces[b].childs \cup {i}
  <2>1. IsList(ifaces[b].childs, Ifaces)
    BY <1>2 DEF IsInterface
  <2>2. QED BY <2>1, AddLists
<1>4. ifaces' = Put(f, b, r) /\ f = [ifaces EXCEPT ![i].parent = b]
  BY DEF attach_interface_to_bridge
<1> HIDE DEF f
<1>5. /\ DOMAIN f = DOMAIN ifaces
      /\ \A j \in DOMAIN ifaces \ {i} : f[j] = ifaces[j]
      /\ IsInterface(f[i])
      /\ f[i].parent = b
      /\ f[i].kind = ifaces[i].kind
      /\ f[i].pair = ifaces[i].pair
      /\ f[i].net_ns = ifaces[i].net_ns
      /\ f[i].childs = ifaces[i].childs
  BY <1>1, <1>2, <1>4, ParentSet
<1>6. /\ IsInterface(r)
      /\ r.childs = BagAdd(ifaces[b].childs, i)
      /\ r.kind = ifaces[b].kind
      /\ r.pair = ifaces[b].pair
      /\ r.net_ns = ifaces[b].net_ns
      /\ r.parent = ifaces[b].parent
  BY <1>2, <1>3, ChildsSet
<1> HIDE DEF r
<1>7. /\ DOMAIN ifaces' = DOMAIN ifaces
      /\ ifaces'[b] = r
      /\ \A j \in DOMAIN ifaces \ {b} : ifaces'[j] = f[j]
  BY <1>1, <1>4, <1>5 DEF Put
<1>8. Records(ifaces')
  BY <1>1, <1>5, <1>6, <1>7 DEF Records
<1>9. \A j \in DOMAIN ifaces :
        /\ ifaces'[j].kind = ifaces[j].kind
        /\ ifaces'[j].pair = ifaces[j].pair
        /\ ifaces'[j].net_ns = ifaces[j].net_ns
        /\ j # i => ifaces'[j].parent = ifaces[j].parent
        /\ ifaces'[i].parent \in {b, ifaces[i].parent}
        /\ DOMAIN ifaces[j].childs \subseteq DOMAIN ifaces'[j].childs
  BY <1>1, <1>3, <1>5, <1>6, <1>7
<1>10. i \in DOMAIN ifaces'[b].childs /\ ifaces'[b].kind = "BRIDGE"
  BY <1>1, <1>3, <1>6, <1>7 DEF IsBridge
<1>11. ChildrenListed'
  BY <1>1, <1>7, <1>9, <1>10 DEF Inv, ChildrenListed, IsBridge
<1>12. QED BY <1>1, <1>7, <1>8, <1>9, <1>11, Relinked

LEMMA Detached ==
  ASSUME Inv, NEW i \in Ifaces, detach_interface_from_bridge(i)
  PROVE  Inv'
<1> DEFINE b == ifaces[i].parent
           B == BagRemove(ifaces[b].childs, i)
           r == [ifaces[b] EXCEPT !.childs = B]
           f == [ifaces EXCEPT ![b] = r]
<1>1. /\ Records(ifaces)
      /\ i \in DOMAIN ifaces
      /\ IsBridge(b) /\ b \in DOMAIN ifaces
      /\ UNCHANGED <<vnets, cps, namespaces>>
  BY HasTypes DEF detach_interface_from_bridge, IsBridge
<1>2. \A j \in DOMAIN ifaces : IsInterface(ifaces[j])
  BY <1>1 DEF Records
<1>3. /\ IsList(B, Ifaces)
      /\ DOMAIN ifaces[b].childs \ {i} \subseteq DOMAIN B
  <2>1. IsList(ifaces[b].childs, Ifaces)
    BY <1>1, <1>2 DEF IsInterface
  <2>2. QED BY <2>1, RemoveLists
<1>4. ifaces' = [f EXCEPT ![i].parent = None]
  BY Zenon DEF detach_interface_from_bridge
<1> HIDE DEF B
<1>5. /\ IsInterface(r)
      /\ r.childs = B
      /\ r.kind = ifaces[b].kind
      /\ r.pair = ifaces[b].pair
      /\ r.net_ns = ifaces[b].net_ns
      /\ r.parent = ifaces[b].parent
  BY <1>1, <1>2, <1>3, ChildsSet
<1> HIDE DEF r
<1>6. /\ DOMAIN f = DOMAIN ifaces
      /\ f[b] = r
      /\ \A j \in DOMAIN ifaces \ {b} : f[j] = ifaces[j]
  BY <1>1
<1> HIDE DEF f, b
<1>7. /\ DOMAIN ifaces' = DOMAIN f
      /\ \A j \in DOMAIN f \ {i} : ifaces'[j] = f[j]
      /\ IsInterface(ifaces'[i])
      /\ ifaces'[i].parent = None
      /\ ifaces'[i].kind = f[i].kind
      /\ ifaces'[i].pair = f[i].pair
      /\ ifaces'[i].net_ns = f[i].net_ns
      /\ ifaces'[i].childs = f[i].childs
  <2>1. i \in DOMAIN f /\ IsInterface(f[i])
    BY <1>1, <1>2, <1>5, <1>6
  <2>2. QED BY <1>4, <2>1, ParentSet
<1>8. Records(ifaces')
  BY <1>1, <1>2, <1>5, <1>6, <1>7 DEF Records
<1>9. \A j \in DOMAIN ifaces :
        /\ ifaces'[j].kind = ifaces[j].kind
        /\ ifaces'[j].pair = ifaces[j].pair
        /\ ifaces'[j].net_ns = ifaces[j].net_ns
        /\ j # i => ifaces'[j].parent = ifaces[j].parent
        /\ DOMAIN ifaces[j].childs \ {i} \subseteq DOMAIN ifaces'[j].childs
  BY <1>1, <1>3, <1>5, <1>6, <1>7
<1>10. ifaces'[i].parent \notin DOMAIN ifaces'
  BY <1>1, <1>6, <1>7, NetworkAssumption DEF Records
<1>11. ChildrenListed'
  BY <1>6, <1>7, <1>9, <1>10 DEF Inv, ChildrenListed, IsBridge
<1>12. QED BY <1>1, <1>6, <1>7, <1>8, <1>9, <1>11, Relinked

-----------------------------------------------------------------------------
(* The theorems                                                            *)

LEMMA InvStep == ASSUME Inv, [Next]_netVars PROVE Inv'
<1>1. CASE UNCHANGED netVars
  <2>1. ifaces' = ifaces /\ namespaces' = namespaces /\ UNCHANGED <<vnets, cps>>
    BY <1>1 DEF netVars
  <2>2. TypeOK'
    BY <2>1 DEF Inv, TypeOK
  <2>3. QED BY <2>1, <2>2, RelationsStay DEF Inv
<1>2. CASE \E v \in Networks :
             \/ create_virtual_network(v)
             \/ delete_virtual_network(v)
             \/ \E c \in Cps :
                  \/ bind_connection_point_to_virtual_network(c, v)
                  \/ unbind_connection_point_from_virtual_network(c, v)
  BY <1>2, CatalogKept
<1>3. CASE \E c \in Cps : create_connection_point(c) \/ delete_connection_point(c)
  BY <1>3, CatalogKept
<1>4. CASE \E n \in NetNs : create_network_namespace(n) \/ delete_network_namespace(n)
  BY <1>4, NamespacesChanged
<1>5. CASE \E i \in Ifaces :
             \/ delete_virtual_interface(i)
             \/ delete_macvan_interface(i)
             \/ \E n \in NetNs : delete_virtual_interface_in_namespace(i, n)
  BY <1>5, InterfaceDeleted
<1>6. CASE \E i \in Ifaces :
             \/ \E kind \in Kinds :
                  \/ create_virtual_interface(kind, i)
                  \/ \E n \in NetNs : create_virtual_interface_in_namespace(kind, i, n)
             \/ \E j \in Ifaces :
                  \/ create_veth(i, j)
                  \/ \E n \in NetNs : create_veth_in_namespace(i, j, n)
  BY <1>6, InterfaceCreated
<1>7. CASE \E i \in Ifaces :
             \/ move_interface_into_default_namespace(i)
             \/ \E n \in NetNs : move_interface_info_namespace(i, n)
             \/ \E c \in Cps :
                  \/ bind_interface_to_connection_point(i, c)
                  \/ unbind_interface_from_connection_point(i, c)
  BY <1>7, PlaceChanged
<1>8. CASE \E i \in Ifaces :
             \/ detach_interface_from_bridge(i)
             \/ \E j \in Ifaces : attach_interface_to_bridge(i, j)
  BY <1>8, Attached, Detached
<1>9. QED BY <1>1, <1>2, <1>3, <1>4, <1>5, <1>6, <1>7, <1>8 DEF Next

LEMMA InvHolds == Spec => []Inv
BY InvInit, InvStep, PTL DEF Spec

(* Every record of the store is well formed, whatever the calls and        *)
(* however many: a list that a deletion leaves stale still names           *)
(* interfaces, and only a VETH has a pair.                                 *)
THEOREM TypeOKHolds == Spec => []TypeOK
BY InvHolds, PTL DEF Inv

(* The halves of a VETH exist together and name each other, so that a      *)
(* deletion (dummy-network.rs:382) never takes somebody else's interface.  *)
THEOREM PairsWholeHolds == Spec => []PairsWhole
BY InvHolds, PTL DEF Inv

(* A namespace lists the interfaces that are in it: moving one out of it   *)
(* or deleting it in it is never answered NotConnected.                    *)
THEOREM MembersListedHolds == Spec => []MembersListed
BY InvHolds, PTL DEF Inv

(* The parent of an interface, while it exists, is a bridge that lists the *)
(* interface: detaching one is never answered WrongKind or NotConnected.   *)
THEOREM ChildrenListedHolds == Spec => []ChildrenListed
BY InvHolds, PTL DEF Inv
=============================================================================
