------------------------- MODULE InstanceNetworking -------------------------
(***************************************************************************)
(* What configure_fdu and clean_fdu of the hypervisor plugins              *)
(* (dummy-hypervisor.rs) build in the networking plugin of the node: a     *)
(* namespace for the instance, its connection points, and a VETH for each  *)
(* of its interfaces, whose external half is bound to a connection point   *)
(* or moved to the default namespace.  FduLifecycle has each of the two as *)
(* one step and the namespace standing for all of it; here every call of   *)
(* the networking plugin, and every put that such a call makes, is a step. *)
(*                                                                         *)
(* A request reads the record of its instance and checks the status before *)
(* it takes the hypervisor plugin's write lock, and then works on what it  *)
(* has read, whatever has happened to the record meanwhile.  The plugin    *)
(* holds the lock to the end, so it has at most one operation in progress; *)
(* the plugins of a node (one per kind of hypervisor) work at the same     *)
(* time, and the networking plugin takes no lock.  A call reads its        *)
(* records, changes its copies and puts them back one by one.  A caller    *)
(* that gives up - its call has timed out, or its process dies - does not  *)
(* stop a call in progress.  The networking plugin may die halfway through *)
(* its calls.  Nothing that was done is undone.                            *)
(***************************************************************************)
EXTENDS FiniteSets, Functions, NetworkPlugin, SequencesExt

CONSTANTS
  Plugins,      \* the hypervisor plugins of the node
  Instances,    \* FDU instances of the node
  PluginOf,     \* the plugin each instance belongs to
  CpIds,        \* the names descriptors give to connection points
  CpsOf,        \* the connection points of each instance's descriptor, and
  IntfsOf,      \* for each of its interfaces the one it names, or None
  DrawnBy,      \* the plugin whose calls may draw a uuid (uuids differ in
                \* nothing but their names)
  MaxFaults,    \* a bound: how often a caller gives up or a process dies
  MaxOverlaps   \* a bound: how often one asks for an instance that a request
                \* already is for; 0: never two at once for one instance

(* Each interface here is half of a VETH and never attached to a bridge.   *)
VethRecord ==
  [kind : {"VETH"}, net_ns : NetNs \cup Cps \cup {None}, parent : {None},
   pair : Ifaces, childs : {Empty}]

(* None stands for the removal of what is at a key: it is no value itself. *)
ASSUME InstanceAssumption ==
  /\ None \notin CpIds /\ None \notin VethRecord
  /\ \A S \in SUBSET Ifaces : None \notin [S -> Nat \ {0}]
  /\ Ifaces \cap (NetNs \cup Cps) = {}
  /\ PluginOf \in [Instances -> Plugins]
  /\ CpsOf \in [Instances -> Seq(CpIds)]
  /\ IntfsOf \in [Instances -> Seq(CpIds \cup {None})]
  /\ DrawnBy \in [Ifaces \cup NetNs \cup Cps -> Plugins]
  /\ MaxFaults \in Nat
  /\ MaxOverlaps \in Nat

VARIABLES
  rec,      \* the networking part of the record of each instance
  asked,    \* the requests that wait for their plugin's lock
  work,     \* the operation that each plugin has in progress
  strays,   \* calls of the networking plugin whose caller has given up
  faults,   \* the number of faults so far
  failed,   \* has an operation failed so far? (history)
  overlaps, \* the number of requests that found another one at work
  stale     \* has one begun with a record that had changed? (history)

askVars == <<asked, overlaps, stale>>
vars == <<netVars, rec, work, strays, faults, failed, askVars>>

(* im/fdu.rs: FDURecord: status, hypervisor_specific, interfaces (intf_uuid *)
(* of each) and connection_points.  Starting and stopping an instance does *)
(* not touch its network: CONFIGURED stands for RUNNING as well.  A record *)
(* that has been cleaned still has the name of its namespace, which nobody *)
(* reads: None stands for it.                                              *)
NewRecord == [status |-> "DEFINED", netns |-> None, intfs |-> <<>>, cps |-> {}]

(* A request that waits: it has read the record of its instance.  A bound: *)
(* of those that have read the same one waits, and the next one may read   *)
(* it while the first one works.                                           *)
Request(i, r) == [inst |-> i, copy |-> r]

(* The operation: the instance, the namespace and connection points made   *)
(* so far (cps, by name), the interfaces made or to be deleted (intfs),    *)
(* the external half of the last one made (pair), the position in the list *)
(* it walks (k), the connection points left to delete (rest), and what its *)
(* call still has to put (puts): the operation goes on when that is done.  *)
Idle == [pc |-> "idle", inst |-> None, netns |-> None, cps |-> Empty,
         intfs |-> <<>>, pair |-> None, k |-> 0, rest |-> {}, puts |-> <<>>]

(* A put of the value val at key, or the removal of key (None).  "unlist"  *)
(* is the second half of move_interface_into_default_namespace, which      *)
(* reads namespace key to take interface val from its list.                *)
PutOf(store, key, val) == [store |-> store, key |-> key, val |-> val]

IsPut(q) ==
  \/ q.store = "ifaces" /\ q.key \in Ifaces /\ q.val \in VethRecord \cup {None}
  \/ /\ q.store = "namespaces" /\ q.key \in NetNs
     /\ \/ q.val = None
        \/ q.val \in [DOMAIN q.val -> Nat \ {0}] /\ DOMAIN q.val \subseteq Ifaces
  \/ q.store = "cps" /\ q.key \in Cps /\ q.val \in {q.key, None}
  \/ q.store = "unlist" /\ q.key \in NetNs /\ q.val \in Ifaces

Pending == UNION {ToSet(s) : s \in strays \cup {work[p].puts : p \in Plugins}}

(* Types; only an operation in progress has a call in progress, and only a *)
(* request next to another one for its instance begins with an old record. *)
NetworkingTypeOK ==
  /\ TypeOK
  /\ \A i \in Instances :
       /\ rec[i].status \in {"DEFINED", "CONFIGURED"}
       /\ rec[i].netns \in NetNs \cup {None}
       /\ rec[i].intfs \in Seq(Ifaces)
       /\ rec[i].cps \subseteq Cps
  /\ \A p \in Plugins :
       /\ work[p].pc = "idle" => work[p] = Idle
       /\ work[p].pc # "idle" => PluginOf[work[p].inst] = p
       /\ DOMAIN work[p].cps \subseteq CpIds
  /\ \A q \in Pending : IsPut(q)
  /\ faults \in 0 .. MaxFaults
  /\ failed \in BOOLEAN
  /\ overlaps \in 0 .. MaxOverlaps
  /\ stale \in BOOLEAN /\ (stale => overlaps > 0)
  /\ \A r \in asked : /\ r.inst \in Instances
                      /\ r.copy.netns \in NetNs \cup {None}
                      /\ r.copy.cps \subseteq Cps

Init ==
  /\ NetInit
  /\ rec = [i \in Instances |-> NewRecord]
  /\ work = [p \in Plugins |-> Idle]
  /\ strays = {}
  /\ faults = 0
  /\ failed = FALSE
  /\ asked = {}
  /\ overlaps = 0
  /\ stale = FALSE

-----------------------------------------------------------------------------
(* Uuids                                                                   *)

IsConfigured(i) == rec[i].status = "CONFIGURED"

(* The interfaces that a record names.                                     *)
Listed(i) == ToSet(rec[i].intfs)

(* What a record of a configured instance names, be it gone or not, also   *)
(* one that a request has read, and what calls and operations in progress  *)
(* have drawn.                                                             *)
Named ==
  (UNION {{rec[i].netns} \cup rec[i].cps \cup Listed(i) :
            i \in {j \in Instances : IsConfigured(j)}})
  \cup (UNION {{r.copy.netns} \cup r.copy.cps \cup ToSet(r.copy.intfs) :
                 r \in {q \in asked : q.copy.status = "CONFIGURED"}})
  \cup {q.key : q \in Pending}
  \cup (UNION {{work[p].netns, work[p].pair} \cup ToSet(work[p].intfs)
                 \cup {work[p].cps[id] : id \in DOMAIN work[p].cps}
                 \cup work[p].rest : p \in Plugins})

Pool(p) == {u \in DOMAIN DrawnBy : DrawnBy[u] = p} \ Named

NewNetNs(p) == {n \in Pool(p) : FreshNetNs(n)}
NewCps(p) == {c \in Pool(p) : FreshCp(c)}
NewIfaces(p) == {x \in Pool(p) : FreshIface(x)}

(* The uuids an operation draws.  Their bound is a guard of its beginning, *)
(* so that no operation stops halfway, and of each draw.                   *)
NextNetNs(p) == CHOOSE n \in NewNetNs(p) : TRUE
NextCp(p) == CHOOSE c \in NewCps(p) : TRUE
NextIface(p) == CHOOSE x \in NewIfaces(p) : TRUE
NextPair(p) == CHOOSE x \in NewIfaces(p) \ {NextIface(p)} : TRUE

UuidsLeft(i) ==
  LET p == PluginOf[i]
  IN /\ NewNetNs(p) # {}
     /\ Cardinality(NewCps(p)) >= Len(CpsOf[i])
     /\ Cardinality(NewIfaces(p)) >= 2 * Len(IntfsOf[i])

-----------------------------------------------------------------------------
(* Calls of the networking plugin                                          *)

callVars == <<netVars, rec, strays, faults, askVars>>

(* Plugin p goes on with w.                                                *)
Advance(p, w) == work' = [work EXCEPT ![p] = w] /\ UNCHANGED failed

(* The call has read its records and is about to put the puts s; p goes on *)
(* with w when it has.                                                     *)
Call(p, s, w) == Advance(p, [w EXCEPT !.puts = s]) /\ UNCHANGED callVars

(* A call is refused, or not possible, and the operation fails.            *)
Refused(p) ==
  /\ work' = [work EXCEPT ![p] = Idle] /\ failed' = TRUE
  /\ UNCHANGED callVars

(* create_virtual_interface_in_namespace, for a VETH.                      *)
VethPuts(i, j, n) ==
  << PutOf("namespaces", n, BagAdd(BagAdd(namespaces[n], i), j)),
     PutOf("ifaces", i, Interface("VETH", n, j)),
     PutOf("ifaces", j, Interface("VETH", n, i)) >>

(* move_interface_into_default_namespace, from a namespace.                *)
MovePuts(i) ==
  << PutOf("ifaces", i, [ifaces[i] EXCEPT !.net_ns = None]),
     PutOf("unlist", ifaces[i].net_ns, i) >>

BindPuts(i, c) == << PutOf("ifaces", i, [ifaces[i] EXCEPT !.net_ns = c]) >>

(* Mutant: the interface that is asked for is removed, and its pair stays. *)
MutDeletePuts(i) == << PutOf("ifaces", i, None) >>

(* delete_virtual_interface, of a VETH.                                    *)
DeletePuts(i) ==
  << PutOf("ifaces", ifaces[i].pair, None), PutOf("ifaces", i, None) >>

Store(f, q) == IF q.val = None THEN Drop(f, {q.key}) ELSE Put(f, q.key, q.val)

Unlistable(q) ==
  q.key \in DOMAIN namespaces /\ q.val \in DOMAIN namespaces[q.key]

(* A call goes on: it makes the first of its puts s, or reads a namespace. *)
Execute(s) ==
  LET q == Head(s)
  IN /\ ifaces' = IF q.store = "ifaces" THEN Store(ifaces, q) ELSE ifaces
     /\ namespaces' = IF q.store = "namespaces" THEN Store(namespaces, q)
                                                ELSE namespaces
     /\ cps' = IF q.store # "cps" THEN cps
               ELSE IF q.val = None THEN cps \ {q.key} ELSE cps \cup {q.key}
     /\ UNCHANGED vnets

Rest(s) ==
  LET q == Head(s)
  IN IF q.store = "unlist" /\ Unlistable(q)
       THEN << PutOf("namespaces", q.key, BagRemove(namespaces[q.key], q.val)) >>
       ELSE Tail(s)

(* A move that does not find the interface in the list answers an error.   *)
Write(p) ==
  LET s == work[p].puts
      w == [work[p] EXCEPT !.puts = Rest(s)]
      error == Head(s).store = "unlist" /\ ~Unlistable(Head(s))
  IN /\ s # <<>>
     /\ Execute(s)
     /\ work' = [work EXCEPT ![p] = IF error THEN Idle ELSE w]
     /\ failed' = (failed \/ error)
     /\ UNCHANGED <<rec, strays, faults, askVars>>

WriteStray(s) ==
  /\ Execute(s)
  /\ strays' = (strays \ {s}) \cup ({Rest(s)} \ {<<>>})
  /\ UNCHANGED <<rec, work, faults, failed, askVars>>

Fault == faults < MaxFaults /\ faults' = faults + 1 /\ failed' = TRUE

(* The call of p is not answered in time, or p's process dies: the request *)
(* has not arrived, the call goes on, or its answer is lost.  The requests *)
(* that wait for p's lock go with its process.                             *)
GiveUp(p) ==
  /\ Fault
  /\ work[p].pc # "idle"
  /\ work' = [work EXCEPT ![p] = Idle]
  /\ strays' = strays \cup ({work[p].puts} \ {<<>>})
  /\ asked' \in {asked, {r \in asked : PluginOf[r.inst] # p}}
  /\ UNCHANGED <<netVars, rec, overlaps, stale>>

(* The networking plugin dies, and another one takes its place.            *)
NetworkingDies ==
  /\ Fault
  /\ Pending # {}
  /\ strays' = {}
  /\ work' = [p \in Plugins |-> IF work[p].puts = <<>> THEN work[p] ELSE Idle]
  /\ UNCHANGED <<netVars, rec, askVars>>

-----------------------------------------------------------------------------
(* The status check, and the lock                                          *)

(* No request for i waits or is worked on.                                 *)
Free(i) ==
  /\ \A r \in asked : r.inst # i
  /\ work[PluginOf[i]].inst # i

Ask(i) ==
  /\ \/ Free(i) /\ UNCHANGED overlaps
     \/ ~Free(i) /\ overlaps < MaxOverlaps /\ overlaps' = overlaps + 1
  /\ asked' = asked \cup {Request(i, rec[i])}
  /\ UNCHANGED <<netVars, rec, work, strays, faults, failed, stale>>

(* Request r gets the lock of plugin p, which begins with w.               *)
Begin(p, r, w) ==
  /\ work[p].pc = "idle"
  /\ Advance(p, w)
  /\ asked' = asked \ {r}
  /\ stale' = (stale \/ r.copy # rec[r.inst])
  /\ UNCHANGED <<netVars, rec, strays, faults, overlaps>>

-----------------------------------------------------------------------------
(* configure_fdu                                                           *)

AskConfigure(i) == rec[i].status = "DEFINED" /\ Ask(i)

At(p, pc) == work[p].pc = pc /\ work[p].puts = <<>>

(* The interface the operation is at, after the connection points.         *)
MadeCps(p) == work[p].k > Len(CpsOf[work[p].inst])
IntfAt(p) == work[p].k - Len(CpsOf[work[p].inst])
MadeIntfs(p) == IntfAt(p) > Len(IntfsOf[work[p].inst])

Configure(r) ==
  /\ r.copy.status = "DEFINED"
  /\ UuidsLeft(r.inst)
  /\ Begin(PluginOf[r.inst], r,
           [Idle EXCEPT !.pc = "namespace", !.inst = r.inst, !.k = 1])

CreateNamespace(p) ==
  /\ At(p, "namespace") /\ NewNetNs(p) # {}
  /\ Call(p, << PutOf("namespaces", NextNetNs(p), Empty) >>,
          [work[p] EXCEPT !.pc = "create", !.netns = NextNetNs(p)])

CreateConnectionPoint(p) ==
  /\ At(p, "create") /\ ~MadeCps(p) /\ NewCps(p) # {}
  /\ Call(p, << PutOf("cps", NextCp(p), NextCp(p)) >>,
          [work[p] EXCEPT !.k = @ + 1,
             !.cps = Put(@, CpsOf[work[p].inst][work[p].k], NextCp(p))])

CreateInterface(p) ==
  /\ At(p, "create") /\ MadeCps(p) /\ ~MadeIntfs(p)
  /\ NewIfaces(p) \ {NextIface(p)} # {}
  /\ IF work[p].netns \in DOMAIN namespaces
       THEN Call(p, VethPuts(NextIface(p), NextPair(p), work[p].netns),
                 [work[p] EXCEPT !.pc = "attach", !.pair = NextPair(p),
                                 !.intfs = Append(@, NextIface(p))])
       ELSE Refused(p)

(* Mutant: the half inside the namespace is bound.                         *)
MutAttach(p) ==
  LET id == IntfsOf[work[p].inst][IntfAt(p)]
      x  == Last(work[p].intfs)
      w  == [work[p] EXCEPT !.pc = "create", !.k = @ + 1]
  IN /\ At(p, "attach")
     /\ IF id = None THEN Call(p, MovePuts(x), w)
        ELSE IF id \in DOMAIN work[p].cps
          THEN Call(p, BindPuts(x, work[p].cps[id]), w)
          ELSE Refused(p)

(* The external half goes to the connection point the interface names, or  *)
(* to the default namespace.                                               *)
Attach(p) ==
  LET id == IntfsOf[work[p].inst][IntfAt(p)]
      y  == work[p].pair
      w  == [work[p] EXCEPT !.pc = "create", !.k = @ + 1]
  IN /\ At(p, "attach")
     /\ \/ /\ id = None
           /\ Call(p, MovePuts(y), w)
        \/ /\ id \in DOMAIN work[p].cps
           /\ Call(p, BindPuts(y, work[p].cps[id]), w)
        \/ /\ id \notin DOMAIN work[p].cps \cup {None}
           /\ Refused(p)

(* Mutant: the record gets the descriptor's names of its connection points. *)
MutConfigured(p) ==
  /\ At(p, "create") /\ MadeCps(p) /\ MadeIntfs(p)
  /\ rec' = [rec EXCEPT ![work[p].inst] =
       [status |-> "CONFIGURED", netns |-> work[p].netns,
        intfs |-> work[p].intfs, cps |-> DOMAIN work[p].cps]]
  /\ Advance(p, Idle)
  /\ UNCHANGED <<netVars, strays, faults, askVars>>

Configured(p) ==
  /\ At(p, "create") /\ MadeCps(p) /\ MadeIntfs(p)
  /\ rec' = [rec EXCEPT ![work[p].inst] =
       [status |-> "CONFIGURED", netns |-> work[p].netns,
        intfs |-> work[p].intfs,
        cps |-> {work[p].cps[id] : id \in DOMAIN work[p].cps}]]
  /\ Advance(p, Idle)
  /\ UNCHANGED <<netVars, strays, faults, askVars>>

-----------------------------------------------------------------------------
(* clean_fdu                                                               *)

AskClean(i) == rec[i].status = "CONFIGURED" /\ Ask(i)

Clean(r) ==
  /\ r.copy.status = "CONFIGURED"
  /\ Begin(PluginOf[r.inst], r,
           [Idle EXCEPT !.pc = "clean", !.inst = r.inst, !.k = 1,
                        !.netns = r.copy.netns, !.intfs = r.copy.intfs,
                        !.rest = r.copy.cps])

DeleteNamespace(p) ==
  /\ At(p, "clean")
  /\ IF work[p].netns \in DOMAIN namespaces
       THEN Call(p, << PutOf("namespaces", work[p].netns, None) >>,
                 [work[p] EXCEPT !.pc = "delete"])
       ELSE Refused(p)

DeleteInterface(p) ==
  LET x == work[p].intfs[work[p].k]
  IN /\ At(p, "delete") /\ work[p].k <= Len(work[p].intfs)
     /\ IF x \in DOMAIN ifaces
          THEN Call(p, DeletePuts(x), [work[p] EXCEPT !.k = @ + 1])
          ELSE Refused(p)

(* The connection points come from a hash map: they go in any order.       *)
DeleteConnectionPoint(p) ==
  /\ At(p, "delete") /\ work[p].k > Len(work[p].intfs)
  /\ \E c \in work[p].rest :
       IF c \in cps
         THEN Call(p, << PutOf("cps", c, None) >>, [work[p] EXCEPT !.rest = @ \ {c}])
         ELSE Refused(p)

(* Mutant: the loop over the connection points is left out.                *)
MutCleaned(p) ==
  /\ At(p, "delete")
  /\ work[p].k > Len(work[p].intfs)
  /\ rec' = [rec EXCEPT ![work[p].inst] = NewRecord]
  /\ Advance(p, Idle)
  /\ UNCHANGED <<netVars, strays, faults, askVars>>

(* What was read is written back, with nothing left of the network.        *)
Cleaned(p) ==
  /\ At(p, "delete")
  /\ work[p].k > Len(work[p].intfs)
  /\ work[p].rest = {}
  /\ rec' = [rec EXCEPT ![work[p].inst] = NewRecord]
  /\ Advance(p, Idle)
  /\ UNCHANGED <<netVars, strays, faults, askVars>>

-----------------------------------------------------------------------------

Step(p) ==
  \/ CreateNamespace(p) \/ CreateConnectionPoint(p)
  \/ CreateInterface(p) \/ Attach(p) \/ Configured(p)
  \/ DeleteNamespace(p) \/ DeleteInterface(p)
  \/ DeleteConnectionPoint(p) \/ Cleaned(p)

InstanceNext ==
  \/ \E p \in Plugins : Step(p) \/ Write(p) \/ GiveUp(p)
  \/ \E i \in Instances : AskConfigure(i) \/ AskClean(i)
  \/ \E r \in asked : Configure(r) \/ Clean(r)
  \/ \E s \in strays : WriteStray(s)
  \/ NetworkingDies

InstanceSpec == Init /\ [][InstanceNext]_vars

-----------------------------------------------------------------------------
(* Properties                                                              *)

(* A configured instance that still has its namespace has all of its       *)
(* network, whatever operations of other instances failed or were left     *)
(* half done: every interface is in the namespace and in its list, its     *)
(* pair is at a connection point of the instance or in the default         *)
(* namespace as the descriptor says, and the connection points exist.      *)
ConfiguredComplete ==
  \A i \in Instances :
    IsConfigured(i) /\ rec[i].netns \in DOMAIN namespaces
                   /\ work[PluginOf[i]].inst # i =>
      LET r == rec[i]
      IN /\ r.cps \subseteq cps
         /\ Cardinality(r.cps) = Cardinality(ToSet(CpsOf[i]))
         /\ DOMAIN r.intfs = DOMAIN IntfsOf[i]
         /\ \A k \in DOMAIN r.intfs :
              /\ r.intfs[k] \in DOMAIN ifaces
              /\ ifaces[r.intfs[k]].net_ns = r.netns
              /\ r.intfs[k] \in DOMAIN namespaces[r.netns]
              /\ LET j == ifaces[r.intfs[k]].pair
                 IN /\ j \in DOMAIN ifaces
                    /\ IF IntfsOf[i][k] = None THEN ifaces[j].net_ns = None
                                              ELSE ifaces[j].net_ns \in r.cps

(* What the networking plugin has is exactly what the records of the       *)
(* configured instances name, and the pairs of their interfaces: as long   *)
(* as no operation fails, and none begins with a record that another one   *)
(* has changed since it was read, configuring and cleaning leak nothing.   *)
NothingLeaked ==
  (\A p \in Plugins : work[p].pc = "idle") /\ ~failed /\ ~stale =>
    LET live == {i \in Instances : IsConfigured(i)}
        own  == UNION {Listed(i) : i \in live}
    IN /\ DOMAIN namespaces = {rec[i].netns : i \in live}
       /\ cps = UNION {rec[i].cps : i \in live}
       /\ own \subseteq DOMAIN ifaces
       /\ DOMAIN ifaces = own \cup {ifaces[x].pair : x \in own}
=============================================================================
