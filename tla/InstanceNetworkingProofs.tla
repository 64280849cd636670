----------------------- MODULE InstanceNetworkingProofs -----------------------
(***************************************************************************)
(* What configure_fdu and clean_fdu build in the networking plugin, for    *)
(* any number of hypervisor plugins and instances, any descriptors and any *)
(* number of callers that give up: the types, an instance that is          *)
(* configured has all of its network, and nothing is leaked.  There are    *)
(* never two requests at once for the same instance (MaxOverlaps = 0), so  *)
(* an operation works on the record as it is (Served).                     *)
(*                                                                         *)
(* Nobody takes a lock, so the argument is one of ownership.  Each         *)
(* instance that is configured or being configured has a Claim: the uuids  *)
(* that its record or its operation names.  Claims are disjoint, and with  *)
(* the other halves of their interfaces, which no one else names either    *)
(* (Matched, Apart), they make up what is the instance's own.  A put makes *)
(* something in the claim of its operation or, when the caller has given   *)
(* up, in nobody's (OwnPuts, StrayPuts); a removal takes from an instance  *)
(* only when it is being cleaned (Removals).  So nobody else writes what   *)
(* Progress says of an operation and Whole of a configured instance.       *)
(***************************************************************************)
EXTENDS InstanceNetworking, NetworkPluginProofs, FiniteSetTheorems

(* The invariant                                                           *)

(* The puts of operations and of strays, and those that make something.    *)
Making(q) == q.val # None
IfacePut(q, z) == q.store = "ifaces" /\ Making(q) /\ q.key = z
ListPut(q, n) == q.store = "namespaces" /\ Making(q) /\ q.key = n
CpPut(q, c) == q.store = "cps" /\ Making(q) /\ q.key = c

Puts(p) == ToSet(work[p].puts)
Strays == UNION {ToSet(s) : s \in strays}

Configuring(p) == work[p].pc \in {"namespace", "create", "attach"}
Cleaning(p) == work[p].pc \in {"clean", "delete"}

(* The lists of interfaces that a namespace may have.                      *)
Lists == UNION {[S -> Nat \ {0}] : S \in SUBSET Ifaces}

(* A sequence of puts: no two at one key, and reading a list comes last.   *)
PutSeq(s) ==
  /\ s \in Seq(ToSet(s))
  /\ \A q \in ToSet(s) : IsPut(q)
  /\ \A j, k \in 1 .. Len(s) : s[j].key = s[k].key => j = k
  /\ \A k \in 1 .. Len(s) : s[k].store = "unlist" => k = Len(s)

WorkTyped(p) ==
  LET w == work[p]
  IN /\ w.pc \in {"idle", "namespace", "create", "attach", "clean", "delete"}
     /\ DOMAIN w = DOMAIN Idle
     /\ w.pc = "idle" => w = Idle
     /\ w.pc # "idle" => w.inst \in Instances /\ PluginOf[w.inst] = p
     /\ w.netns \in NetNs \cup {None}
     /\ DOMAIN w.cps \subseteq CpIds
     /\ \A id \in DOMAIN w.cps : w.cps[id] \in Cps
     /\ w.intfs \in Seq(Ifaces)
     /\ w.pair \in Ifaces \cup {None}
     /\ w.k \in Nat /\ (w.pc # "idle" => w.k >= 1)
     /\ w.rest \subseteq Cps
     /\ PutSeq(w.puts)

RecTyped(i) ==
  LET r == rec[i]
  IN /\ DOMAIN r = DOMAIN NewRecord
     /\ r.status \in {"DEFINED", "CONFIGURED"}
     /\ r.netns \in NetNs \cup {None}
     /\ IsConfigured(i) => r.netns # None
     /\ r.intfs \in Seq(Ifaces)
     /\ r.cps \subseteq Cps

Typed ==
  /\ TypeOK
  /\ \A x \in DOMAIN ifaces : ifaces[x] \in VethRecord
  /\ \A n \in DOMAIN namespaces : namespaces[n] \in Lists
  /\ DOMAIN rec = Instances /\ DOMAIN work = Plugins
  /\ \A i \in Instances : RecTyped(i)
  /\ \A p \in Plugins : WorkTyped(p)
  /\ \A s \in strays : PutSeq(s) /\ s # <<>>
  /\ faults \in 0 .. MaxFaults
  /\ failed \in BOOLEAN

(* What belongs to an instance that is configured or being configured.     *)
Building(i) == Configuring(PluginOf[i]) /\ work[PluginOf[i]].inst = i

Made(p) == {work[p].cps[id] : id \in DOMAIN work[p].cps}

Claim(i) ==
  IF IsConfigured(i) THEN {rec[i].netns} \cup rec[i].cps \cup Listed(i)
  ELSE IF Building(i)
    THEN ({work[PluginOf[i]].netns} \cup Made(PluginOf[i])
            \cup ToSet(work[PluginOf[i]].intfs)) \ {None}
    ELSE {}

(* Interface a says, or is about to say, that b is its pair.               *)
Fact(a, b) ==
  \/ a \in DOMAIN ifaces /\ ifaces[a].pair = b
  \/ \E q \in Pending : IfacePut(q, a) /\ q.val.pair = b

Mates(a, b) == Fact(a, b) \/ Fact(b, a)

Covers(i, z) == z \in Claim(i) \/ \E x \in Claim(i) : Mates(x, z)

Matched ==
  /\ \A a \in Ifaces : ~Mates(a, a)
  /\ \A a, b, c \in Ifaces : Mates(a, b) /\ Mates(a, c) => b = c

Halves ==
  \A q \in Pending : IfacePut(q, q.key) =>
    \/ q.val.pair \in DOMAIN ifaces
    \/ \E r \in Pending : IfacePut(r, q.val.pair)

Disjoint == \A i, j \in Instances : i # j => Claim(i) \cap Claim(j) = {}

Apart ==
  \A i, j \in Instances : \A a \in Claim(i), b \in Claim(j) : ~Mates(a, b)

(* Who puts what.                                                          *)
OwnPuts ==
  \A p \in Plugins : \A q \in Puts(p) :
    /\ Making(q) =>
         /\ Configuring(p)
         /\ \/ q.key \in Claim(work[p].inst)
            \/ IfacePut(q, q.key) /\ q.val.pair \in Claim(work[p].inst)
    /\ ~Making(q) =>
         /\ Cleaning(p)
         /\ q.store = "namespaces" => q.key = rec[work[p].inst].netns

StrayPuts ==
  \A q \in Strays : Making(q) =>
    \A i \in Instances :
      /\ q.key \notin Claim(i)
      /\ IfacePut(q, q.key) => q.val.pair \notin Claim(i)

Removals ==
  \A q \in Pending : ~Making(q) =>
    /\ \A i \in Instances : Covers(i, q.key) =>
         /\ IsConfigured(i)
         /\ q.key = rec[i].netns \/ rec[i].netns \notin DOMAIN namespaces
    /\ \A r \in Pending : IfacePut(r, r.key) => q.key \notin {r.key, r.val.pair}

(* Interfaces f and lists g as they will be once the puts P are done.      *)
Has(f, P, z) == z \in DOMAIN f \/ \E q \in P : IfacePut(q, z)

Val(f, P, z) ==
  IF \E q \in P : IfacePut(q, z) THEN (CHOOSE q \in P : IfacePut(q, z)).val
                                 ELSE f[z]

InList(g, P, n, z) ==
  /\ \A q \in P : ListPut(q, n) => z \in DOMAIN q.val
  /\ \A q \in P : q.store = "unlist" /\ q.key = n => q.val # z
  /\ (\E q \in P : ListPut(q, n)) \/ z \in DOMAIN g[n]

(* Interface x is in namespace n, and its other half exists somewhere.     *)
Linked(f, g, P, x, n) ==
  /\ Has(f, P, x)
  /\ Val(f, P, x).net_ns = n
  /\ InList(g, P, n, x)
  /\ Has(f, P, Val(f, P, x).pair)

Outer(f, P, x) == Val(f, P, Val(f, P, x).pair).net_ns

(* Where the descriptor wants the other half, given the connection points. *)
Ends(id, at, C) == IF id = None THEN at = None ELSE at \in C

Progress(p) ==
  LET w == work[p]
      i == w.inst
      P == Puts(p)
  IN /\ rec[i].status = "DEFINED"
     /\ w.pc = "namespace" =>
          w.netns = None /\ w.cps = Empty /\ w.intfs = <<>> /\ w.k = 1 /\ w.puts = <<>>
     /\ w.pc # "namespace" =>
          w.netns \in NetNs
          /\ (w.netns \in DOMAIN namespaces \/ \E q \in P : ListPut(q, w.netns))
     /\ \A c \in Made(p) : c \in cps \/ \E q \in P : CpPut(q, c)
     /\ \A a, b \in DOMAIN w.cps : w.cps[a] = w.cps[b] => a = b
     /\ DOMAIN w.cps = {CpsOf[i][m] : m \in {n \in 1 .. Len(CpsOf[i]) : n < w.k}}
     /\ w.pc = "attach" =>
          /\ w.k > Len(CpsOf[i]) /\ Len(w.intfs) = w.k - Len(CpsOf[i])
          /\ Len(w.intfs) <= Len(IntfsOf[i])
     /\ w.pc = "create" /\ w.k <= Len(CpsOf[i]) => w.intfs = <<>>
     /\ w.pc = "create" /\ w.k > Len(CpsOf[i]) =>
          /\ Len(w.intfs) = w.k - Len(CpsOf[i]) - 1
          /\ Len(w.intfs) <= Len(IntfsOf[i])
     /\ \A m \in 1 .. Len(w.intfs) :
          Linked(ifaces, namespaces, P, w.intfs[m], w.netns)
     /\ \A m \in 1 .. Len(w.intfs) : w.pc = "create" \/ m # Len(w.intfs) =>
          Ends(IntfsOf[i][m], Outer(ifaces, P, w.intfs[m]), Made(p))
     /\ w.pc = "attach" =>
          /\ Val(ifaces, P, Last(w.intfs)).pair = w.pair
          /\ Outer(ifaces, P, Last(w.intfs)) = w.netns

Removing(p, z) == \E q \in Puts(p) : ~Making(q) /\ q.key = z

Cleanup(p) ==
  LET w == work[p]
      r == rec[w.inst]
  IN /\ IsConfigured(w.inst) /\ w.netns = r.netns /\ w.rest \subseteq r.cps
     /\ w.intfs = r.intfs
     /\ w.pc = "clean" => w.puts = <<>> /\ w.k = 1 /\ w.rest = r.cps
     /\ w.pc = "delete" =>
          /\ r.netns \in DOMAIN namespaces => Removing(p, r.netns)
          /\ \A c \in (r.cps \cap cps) \ w.rest : Removing(p, c)
          /\ \A m \in 1 .. Len(r.intfs) : m < w.k =>
               /\ r.intfs[m] \in DOMAIN ifaces => Removing(p, r.intfs[m])
               /\ \A z \in DOMAIN ifaces :
                    ifaces[z].pair = r.intfs[m] => Removing(p, z)

Whole(i) ==
  IsConfigured(i) =>
    LET r == rec[i]
    IN /\ Cardinality(r.cps) = Cardinality(ToSet(CpsOf[i]))
       /\ Len(r.intfs) = Len(IntfsOf[i])
       /\ r.netns \in DOMAIN namespaces =>
            /\ r.cps \subseteq cps
            /\ \A k \in 1 .. Len(r.intfs) :
                 /\ Linked(ifaces, namespaces, {}, r.intfs[k], r.netns)
                 /\ Ends(IntfsOf[i][k], Outer(ifaces, {}, r.intfs[k]), r.cps)

Claimed == UNION {Claim(i) : i \in Instances}

(* Instance i has its namespace until an operation that cleans it goes on. *)
Standing(i) ==
  IsConfigured(i) =>
    \/ rec[i].netns \in DOMAIN namespaces
    \/ work[PluginOf[i]].pc = "delete" /\ work[PluginOf[i]].inst = i

(* Until an operation fails, all there is is somebody's.                   *)
Ledger ==
  ~failed =>
    /\ strays = {}
    /\ DOMAIN namespaces \subseteq Claimed
    /\ cps \subseteq Claimed
    /\ \A z \in DOMAIN ifaces : z \in Claimed \/ ifaces[z].pair \in Claimed
    /\ \A i \in Instances : Standing(i)

Claims == Matched /\ Halves /\ Disjoint /\ Apart
Calls == OwnPuts /\ StrayPuts /\ Removals
Works ==
  /\ \A p \in Plugins : Configuring(p) => Progress(p)
  /\ \A p \in Plugins : Cleaning(p) => Cleanup(p)
  /\ \A i \in Instances : Whole(i)

IInv == Typed /\ Claims /\ Calls /\ Works

(* Every request that waits has read the record as it is, and is the only  *)
(* one for its instance.                                                   *)
Working(i) == work[PluginOf[i]].pc # "idle" /\ work[PluginOf[i]].inst = i

Served ==
  /\ asked \subseteq [inst : Instances, copy : {rec[i] : i \in Instances}]
  /\ \A r \in asked : r.copy = rec[r.inst] /\ ~Working(r.inst)
  /\ \A r, q \in asked : r.inst = q.inst => r = q
  /\ overlaps = 0 /\ stale = FALSE

(* All that is not of the requests that wait.                              *)
workVars == <<netVars, rec, work, strays, faults, failed>>
-----------------------------------------------------------------------------
(* Sequences of puts                                                       *)

LEMMA SetOfSeq ==
  ASSUME NEW s, s \in Seq(ToSet(s))
  PROVE  \A q : q \in ToSet(s) <=> \E k \in 1 .. Len(s) : s[k] = q
BY DEF ToSet

(* The first put leaves the others.                                        *)
LEMMA TailPuts ==
  ASSUME NEW s, PutSeq(s), s # <<>>
  PROVE  /\ Head(s) \in ToSet(s)
         /\ ToSet(Tail(s)) = ToSet(s) \ {Head(s)}
         /\ PutSeq(Tail(s))
         /\ \A q \in ToSet(s) : q.key = Head(s).key => q = Head(s)
         /\ Head(s).store = "unlist" => ToSet(s) = {Head(s)}
<1> DEFINE S == ToSet(s)  t == Tail(s)
<1>1. s \in Seq(S) /\ Len(s) \in Nat /\ Len(s) >= 1 /\ Head(s) = s[1]
  BY DEF PutSeq
<1>2. /\ t \in Seq(S) /\ Len(t) = Len(s) - 1
      /\ \A k \in 1 .. Len(t) : t[k] = s[k + 1]
  BY <1>1
<1>3. \A q : q \in S <=> \E k \in 1 .. Len(s) : s[k] = q
  BY <1>1, SetOfSeq
<1>4. \A j, k \in 1 .. Len(s) : s[j].key = s[k].key => j = k
  BY DEF PutSeq
<1> HIDE DEF S, t
<1>5. \A q : q \in ToSet(t) <=> \E k \in 1 .. Len(t) : t[k] = q
  BY <1>2 DEF ToSet
<1>6. ToSet(t) = S \ {Head(s)}
  <2>1. ASSUME NEW q \in ToSet(t) PROVE q \in S /\ q # Head(s)
    <3>1. PICK k \in 1 .. Len(t) : t[k] = q
      BY <1>5
    <3>2. k + 1 \in 1 .. Len(s) /\ s[k + 1] = q /\ 1 \in 1 .. Len(s) /\ k + 1 # 1
      BY <1>1, <1>2, <3>1
    <3>3. s[k + 1].key # s[1].key
      BY <1>4, <3>2
    <3>4. QED BY <1>1, <1>3, <3>2, <3>3
  <2>2. ASSUME NEW q \in S, q # Head(s) PROVE q \in ToSet(t)
    <3>1. PICK k \in 1 .. Len(s) : s[k] = q
      BY <1>3, <2>2
    <3>2. k - 1 \in 1 .. Len(t) /\ t[k - 1] = q
      BY <1>1, <1>2, <2>2, <3>1
    <3>3. QED BY <1>5, <3>2
  <2>3. QED BY <2>1, <2>2
<1>7. t \in Seq(ToSet(t))
  <2>1. \A k \in 1 .. Len(t) : t[k] \in ToSet(t)
    BY <1>5
  <2>2. QED BY <1>2, <2>1
<1>8. PutSeq(t)
  <2>1. \A q \in ToSet(t) : IsPut(q)
    BY <1>6 DEF PutSeq, S
  <2>2. \A j, k \in 1 .. Len(t) : t[j].key = t[k].key => j = k
    BY <1>1, <1>2, <1>4
  <2>3. ASSUME NEW k \in 1 .. Len(t), t[k].store = "unlist" PROVE k = Len(t)
    <3>1. s[k + 1].store = "unlist" /\ k + 1 \in 1 .. Len(s)
      BY <1>1, <1>2, <2>3
    <3>2. k + 1 = Len(s)
      BY <3>1 DEF PutSeq
    <3>3. QED BY <1>1, <1>2, <3>2
  <2>4. QED BY <1>7, <2>1, <2>2, <2>3 DEF PutSeq
<1>9. \A q \in S : q.key = Head(s).key => q = Head(s)
  BY <1>1, <1>3, <1>4
<1>10. ASSUME Head(s).store = "unlist" PROVE S = {Head(s)}
  <2>1. Len(s) = 1
    <3>1. 1 \in 1 .. Len(s) /\ s[1].store = "unlist"
      BY <1>1, <1>10
    <3>2. QED BY <3>1 DEF PutSeq
  <2>2. QED BY <1>1, <1>3, <2>1
<1>11. Head(s) \in S
  BY <1>1, <1>3
<1>12. QED BY <1>6, <1>8, <1>9, <1>10, <1>11 DEF S, t

LEMMA NoPuts == PutSeq(<<>>) /\ ToSet(<<>>) = {}
BY DEF PutSeq, ToSet

LEMMA OnePut ==
  ASSUME NEW q, IsPut(q)
  PROVE  PutSeq(<<q>>) /\ ToSet(<<q>>) = {q} /\ <<q>> # <<>>
<1>1. ToSet(<<q>>) = {q}
  BY DEF ToSet
<1>2. QED BY <1>1 DEF PutSeq

LEMMA TwoPuts ==
  ASSUME NEW q, NEW r, IsPut(q), IsPut(r), q.key # r.key, q.store # "unlist"
  PROVE  PutSeq(<<q, r>>) /\ ToSet(<<q, r>>) = {q, r}
<1> DEFINE s == <<q, r>>
<1>1. Len(s) = 2 /\ s[1] = q /\ s[2] = r /\ s \in Seq({q, r}) /\ DOMAIN s = 1 .. 2
  OBVIOUS
<1> HIDE DEF s
<1>2. ToSet(s) = {q, r}
  BY <1>1 DEF ToSet
<1>3. PutSeq(s)
  BY <1>1, <1>2 DEF PutSeq
<1>4. QED BY <1>2, <1>3 DEF s

LEMMA ThreePuts ==
  ASSUME NEW q, NEW r, NEW t, IsPut(q), IsPut(r), IsPut(t),
         q.key # r.key, q.key # t.key, r.key # t.key,
         q.store # "unlist", r.store # "unlist"
  PROVE  PutSeq(<<q, r, t>>) /\ ToSet(<<q, r, t>>) = {q, r, t}
<1> DEFINE s == <<q, r, t>>
<1>1. /\ Len(s) = 3 /\ s[1] = q /\ s[2] = r /\ s[3] = t
      /\ s \in Seq({q, r, t}) /\ DOMAIN s = 1 .. 3
  OBVIOUS
<1> HIDE DEF s
<1>2. ToSet(s) = {q, r, t}
  BY <1>1 DEF ToSet
<1>3. PutSeq(s)
  BY <1>1, <1>2 DEF PutSeq
<1>4. QED BY <1>2, <1>3 DEF s

-----------------------------------------------------------------------------
(* Values, and what a put does to the stores                               *)

LEMMA ListsAre ==
  /\ \A B \in Lists : IsList(B, Ifaces) /\ B # None
  /\ Empty \in Lists /\ Empty # None
<1>1. ASSUME NEW B \in Lists PROVE IsList(B, Ifaces) /\ B # None
  <2>1. PICK S \in SUBSET Ifaces : B \in [S -> Nat \ {0}]
    BY DEF Lists
  <2>2. QED BY <2>1, InstanceAssumption DEF IsList
<1>2. Empty \in Lists
  <2>1. Empty \in [{} -> Nat \ {0}] /\ {} \in SUBSET Ifaces
    BY DEF Empty
  <2>2. QED BY <2>1 DEF Lists
<1>3. QED BY <1>1, <1>2

LEMMA AddList ==
  ASSUME NEW B, IsList(B, Ifaces), NEW x \in Ifaces
  PROVE  /\ BagAdd(B, x) \in Lists
         /\ DOMAIN BagAdd(B, x) = DOMAIN B \cup {x}
<1>1. /\ IsList(BagAdd(B, x), Ifaces)
      /\ DOMAIN BagAdd(B, x) = DOMAIN B \cup {x}
  BY AddLists
<1>2. BagAdd(B, x) \in [DOMAIN BagAdd(B, x) -> Nat \ {0}]
  <2>1. BagAdd(B, x) = [y \in DOMAIN BagAdd(B, x) |-> BagAdd(B, x)[y]]
    BY DEF BagAdd
  <2>2. QED BY <1>1, <2>1 DEF IsList
<1>3. DOMAIN BagAdd(B, x) \in SUBSET Ifaces
  BY <1>1 DEF IsList
<1>4. QED BY <1>1, <1>2, <1>3 DEF Lists

LEMMA RemoveList ==
  ASSUME NEW B, B \in Lists, NEW x
  PROVE  /\ BagRemove(B, x) \in Lists
         /\ DOMAIN B \ {x} \subseteq DOMAIN BagRemove(B, x)
<1>0. IsList(B, Ifaces)
  BY ListsAre
<1>1. /\ IsList(BagRemove(B, x), Ifaces)
      /\ DOMAIN B \ {x} \subseteq DOMAIN BagRemove(B, x)
  BY <1>0, RemoveLists
<1>2. BagRemove(B, x) = [y \in DOMAIN BagRemove(B, x) |-> BagRemove(B, x)[y]]
  <2>1. B = [y \in DOMAIN B |-> B[y]]
    <3>1. PICK S \in SUBSET Ifaces : B \in [S -> Nat \ {0}]
      BY DEF Lists
    <3>2. QED BY <3>1
  <2>2. QED BY <2>1 DEF BagRemove
<1>3. BagRemove(B, x) \in [DOMAIN BagRemove(B, x) -> Nat \ {0}]
  BY <1>1, <1>2 DEF IsList
<1>4. DOMAIN BagRemove(B, x) \in SUBSET Ifaces
  BY <1>1 DEF IsList
<1>5. QED BY <1>1, <1>3, <1>4 DEF Lists

LEMMA VethAre ==
  ASSUME NEW r \in VethRecord
  PROVE  /\ IsInterface(r) /\ r # None
         /\ r.pair \in Ifaces /\ r.pair # None
         /\ r.net_ns \in NetNs \cup Cps \cup {None}
<1>1. None \notin Ifaces /\ r # None
  BY NetworkAssumption, InstanceAssumption
<1>2. QED
  BY <1>1, EmptyList DEF VethRecord, IsInterface, Kinds

LEMMA VethMade ==
  ASSUME NEW n \in NetNs, NEW j \in Ifaces
  PROVE  /\ Interface("VETH", n, j) \in VethRecord
         /\ Interface("VETH", n, j).net_ns = n
         /\ Interface("VETH", n, j).pair = j
BY DEF Interface, VethRecord

LEMMA VethMoved ==
  ASSUME NEW r \in VethRecord, NEW n \in NetNs \cup Cps \cup {None}
  PROVE  /\ [r EXCEPT !.net_ns = n] \in VethRecord
         /\ [r EXCEPT !.net_ns = n].net_ns = n
         /\ [r EXCEPT !.net_ns = n].pair = r.pair
BY DEF VethRecord

(* The kinds of keys do not meet.                                          *)
LEMMA Keys ==
  /\ Ifaces \cap NetNs = {} /\ Ifaces \cap Cps = {} /\ NetNs \cap Cps = {}
  /\ None \notin Ifaces /\ None \notin NetNs /\ None \notin Cps
BY NetworkAssumption, InstanceAssumption

LEMMA ListPuts ==
  ASSUME NEW q, q.store = "namespaces"
  PROVE  IsPut(q) <=> q.key \in NetNs /\ q.val \in Lists \cup {None}
<1>1. ASSUME NEW B, B \in [DOMAIN B -> Nat \ {0}], DOMAIN B \subseteq Ifaces
      PROVE  B \in Lists
  BY <1>1 DEF Lists
<1>2. ASSUME NEW B \in Lists
      PROVE  B \in [DOMAIN B -> Nat \ {0}] /\ DOMAIN B \subseteq Ifaces
  <2>1. PICK S \in SUBSET Ifaces : B \in [S -> Nat \ {0}]
    BY <1>2 DEF Lists
  <2>2. DOMAIN B = S
    BY <2>1
  <2>3. QED BY <2>1, <2>2
<1>3. QED BY <1>1, <1>2 DEF IsPut

LEMMA PutKinds ==
  ASSUME NEW q, IsPut(q)
  PROVE  /\ q.store \in {"ifaces", "namespaces", "cps", "unlist"}
         /\ q.store = "ifaces" => q.key \in Ifaces
         /\ q.store \in {"namespaces", "unlist"} => q.key \in NetNs
         /\ q.store = "cps" => q.key \in Cps
         /\ q.store = "unlist" => q.val \in Ifaces /\ Making(q)
         /\ \A z : IfacePut(q, z) => z \in Ifaces /\ q.val \in VethRecord
         /\ \A n : ListPut(q, n) => n \in NetNs /\ q.val \in Lists
         /\ \A c : CpPut(q, c) => c \in Cps /\ q.val = c
BY Keys, ListPuts DEF IsPut, IfacePut, ListPut, CpPut, Making

(* Record z of a store stays as it is.                                     *)
Kept(f, g, z) ==
  /\ z \in DOMAIN g <=> z \in DOMAIN f
  /\ z \in DOMAIN f => g[z] = f[z]

LEMMA Stored ==
  ASSUME NEW f, NEW q
  PROVE  /\ \A z : z # q.key => Kept(f, Store(f, q), z)
         /\ Making(q) => /\ DOMAIN Store(f, q) = DOMAIN f \cup {q.key}
                         /\ Store(f, q)[q.key] = q.val
         /\ ~Making(q) => DOMAIN Store(f, q) = DOMAIN f \ {q.key}
BY DEF Store, Put, Drop, Kept, Making

LEMMA Executed ==
  ASSUME NEW s, Execute(s), NEW q, q = Head(s)
  PROVE  /\ vnets' = vnets
         /\ \A z : (q.store = "ifaces" /\ q.key = z) \/ Kept(ifaces, ifaces', z)
         /\ q.store = "ifaces" /\ Making(q) =>
              q.key \in DOMAIN ifaces' /\ ifaces'[q.key] = q.val
         /\ q.store = "ifaces" /\ ~Making(q) => q.key \notin DOMAIN ifaces'
         /\ \A n : (q.store = "namespaces" /\ q.key = n)
                     \/ Kept(namespaces, namespaces', n)
         /\ q.store = "namespaces" /\ Making(q) =>
              q.key \in DOMAIN namespaces' /\ namespaces'[q.key] = q.val
         /\ q.store = "namespaces" /\ ~Making(q) => q.key \notin DOMAIN namespaces'
         /\ \A c : (q.store = "cps" /\ q.key = c) \/ (c \in cps' <=> c \in cps)
         /\ q.store = "cps" /\ Making(q) => q.key \in cps'
         /\ q.store = "cps" /\ ~Making(q) => q.key \notin cps'
<1>1. /\ vnets' = vnets
      /\ ifaces' = IF q.store = "ifaces" THEN Store(ifaces, q) ELSE ifaces
      /\ namespaces' = IF q.store = "namespaces" THEN Store(namespaces, q)
                                                 ELSE namespaces
      /\ cps' = IF q.store # "cps" THEN cps
                ELSE IF q.val = None THEN cps \ {q.key} ELSE cps \cup {q.key}
  BY DEF Execute
<1>2. \A f, z : Kept(f, f, z)
  BY DEF Kept
<1>3. CASE q.store = "ifaces"
  BY <1>1, <1>2, <1>3, Stored
<1>4. CASE q.store = "namespaces"
  BY <1>1, <1>2, <1>4, Stored
<1>5. CASE q.store = "cps"
  BY <1>1, <1>2, <1>5 DEF Making
<1>6. CASE q.store \notin {"ifaces", "namespaces", "cps"}
  BY <1>1, <1>2, <1>6
<1>7. QED BY <1>3, <1>4, <1>5, <1>6

-----------------------------------------------------------------------------
(* Who is who                                                              *)

LEMMA PendingIs ==
  /\ \A q : q \in Pending <=> q \in Strays \/ \E p \in Plugins : q \in Puts(p)
  /\ (\A q : q \in Pending <=> q \in Strays \/ \E p \in Plugins : q \in Puts(p))'
  /\ \A q : q \in Strays <=> \E s \in strays : q \in ToSet(s)
  /\ (\A q : q \in Strays <=> \E s \in strays : q \in ToSet(s))'
BY DEF Pending, Strays, Puts

LEMMA PendingTyped ==
  ASSUME Typed
  PROVE  \A q \in Pending : IsPut(q)
<1>1. \A p \in Plugins : \A q \in Puts(p) : IsPut(q)
  BY DEF Typed, WorkTyped, PutSeq, Puts
<1>2. \A s \in strays : \A q \in ToSet(s) : IsPut(q)
  BY DEF Typed, PutSeq
<1>3. QED BY <1>1, <1>2, PendingIs

(* Only interfaces are mates.                                              *)
LEMMA MatesAre ==
  ASSUME Typed, NEW a, NEW b, Mates(a, b)
  PROVE  a \in Ifaces /\ b \in Ifaces
<1>1. ASSUME NEW x, NEW y, Fact(x, y) PROVE x \in Ifaces /\ y \in Ifaces
  <2>1. CASE x \in DOMAIN ifaces /\ ifaces[x].pair = y
    BY <2>1, VethAre DEF Typed, TypeOK
  <2>2. CASE \E q \in Pending : IfacePut(q, x) /\ q.val.pair = y
    BY <2>2, PendingTyped, PutKinds, VethAre
  <2>3. QED BY <1>1, <2>1, <2>2 DEF Fact
<1>2. QED BY <1>1 DEF Mates

LEMMA MatesSym == \A a, b : Mates(a, b) <=> Mates(b, a)
BY DEF Mates

LEMMA WorkOf ==
  ASSUME Typed, NEW p \in Plugins, work[p].pc # "idle"
  PROVE  work[p].inst \in Instances /\ PluginOf[work[p].inst] = p
BY DEF Typed, WorkTyped

LEMMA ClaimOf ==
  ASSUME Typed, NEW p \in Plugins, Configuring(p), Progress(p)
  PROVE  /\ work[p].inst \in Instances /\ PluginOf[work[p].inst] = p
         /\ Building(work[p].inst)
         /\ Claim(work[p].inst) =
              ({work[p].netns} \cup Made(p) \cup ToSet(work[p].intfs)) \ {None}
<1>1. work[p].inst \in Instances /\ PluginOf[work[p].inst] = p
  BY WorkOf DEF Configuring
<1>2. Building(work[p].inst) /\ ~IsConfigured(work[p].inst)
  BY <1>1 DEF Building, Progress, IsConfigured
<1>3. QED BY <1>1, <1>2 DEF Claim

(* What a claim is made of.                                                *)
LEMMA ClaimTyped ==
  ASSUME Typed, NEW i \in Instances, NEW u \in Claim(i)
  PROVE  u \in Ifaces \cup NetNs \cup Cps /\ u \in Named
<1>1. PluginOf[i] \in Plugins
  BY InstanceAssumption
<1>2. CASE IsConfigured(i)
  <2>1. u \in {rec[i].netns} \cup rec[i].cps \cup Listed(i)
    BY <1>2 DEF Claim
  <2>2. rec[i].netns \in NetNs /\ rec[i].cps \subseteq Cps /\ rec[i].intfs \in Seq(Ifaces)
    BY <1>2 DEF Typed, RecTyped
  <2>3. Listed(i) \subseteq Ifaces
    BY <2>2 DEF Listed, ToSet
  <2>4. QED BY <1>2, <2>1, <2>2, <2>3 DEF Named
<1>3. CASE ~IsConfigured(i) /\ Building(i)
  <2> DEFINE p == PluginOf[i]
  <2>1. u \in ({work[p].netns} \cup Made(p) \cup ToSet(work[p].intfs)) \ {None}
    BY <1>3 DEF Claim
  <2>2. /\ work[p].netns \in NetNs \cup {None}
        /\ \A id \in DOMAIN work[p].cps : work[p].cps[id] \in Cps
        /\ work[p].intfs \in Seq(Ifaces)
    BY <1>1 DEF Typed, WorkTyped
  <2>3. Made(p) \subseteq Cps /\ ToSet(work[p].intfs) \subseteq Ifaces
    BY <2>2 DEF Made, ToSet
  <2>4. {work[p].netns} \cup Made(p) \cup ToSet(work[p].intfs) \subseteq Named
    BY <1>1 DEF Named, Made
  <2>5. QED BY <2>1, <2>2, <2>3, <2>4
<1>4. QED BY <1>2, <1>3 DEF Claim

(* A uuid that is drawn is new to everybody.                               *)
LEMMA Drawn ==
  ASSUME Typed, Halves, NEW p \in Plugins
  PROVE  /\ \A u \in Pool(p) : /\ \A i \in Instances : u \notin Claim(i)
                               /\ \A q \in Pending : q.key # u
         /\ \A n \in NewNetNs(p) : n \in Pool(p) /\ n \in NetNs \ DOMAIN namespaces
         /\ \A c \in NewCps(p) : c \in Pool(p) /\ c \in Cps \ cps
         /\ \A x \in NewIfaces(p) : /\ x \in Pool(p) /\ x \in Ifaces \ DOMAIN ifaces
                                    /\ \A a : ~Mates(a, x)
<1>1. ASSUME NEW u \in Pool(p)
      PROVE  /\ \A i \in Instances : u \notin Claim(i)
             /\ \A q \in Pending : q.key # u
  <2>1. u \notin Named
    BY DEF Pool
  <2>2. QED BY <2>1, ClaimTyped DEF Named
<1>2. ASSUME NEW x \in NewIfaces(p), NEW a PROVE ~Mates(a, x)
  <2>1. /\ x \in Ifaces \ DOMAIN ifaces
        /\ \A j \in DOMAIN ifaces : ifaces[j].pair # x
        /\ x \in Pool(p)
    BY DEF NewIfaces, FreshIface
  <2>2. ~Fact(x, a)
    BY <1>1, <2>1 DEF Fact, IfacePut
  <2>3. ASSUME NEW q \in Pending, IfacePut(q, a), q.val.pair = x PROVE FALSE
    <3>1. IfacePut(q, q.key)
      BY <2>3 DEF IfacePut
    <3>2. PICK r \in Pending : IfacePut(r, x)
      BY <2>1, <2>3, <3>1 DEF Halves
    <3>3. QED BY <1>1, <2>1, <3>2 DEF IfacePut
  <2>4. ~Fact(a, x)
    BY <2>1, <2>3 DEF Fact
  <2>5. QED BY <2>2, <2>4 DEF Mates
<1>3. QED
  BY <1>1, <1>2 DEF NewNetNs, NewCps, NewIfaces, FreshNetNs, FreshCp, FreshIface

LEMMA NextOnes ==
  ASSUME NEW p
  PROVE  /\ NewNetNs(p) # {} => NextNetNs(p) \in NewNetNs(p)
         /\ NewCps(p) # {} => NextCp(p) \in NewCps(p)
         /\ NewIfaces(p) \ {NextIface(p)} # {} =>
              /\ NextIface(p) \in NewIfaces(p)
              /\ NextPair(p) \in NewIfaces(p) /\ NextPair(p) # NextIface(p)
<1>1. NewNetNs(p) # {} => NextNetNs(p) \in NewNetNs(p)
  BY DEF NextNetNs
<1>2. NewCps(p) # {} => NextCp(p) \in NewCps(p)
  BY DEF NextCp
<1>3. NewIfaces(p) # {} => NextIface(p) \in NewIfaces(p)
  BY DEF NextIface
<1>4. NewIfaces(p) \ {NextIface(p)} # {} =>
        NextPair(p) \in NewIfaces(p) \ {NextIface(p)}
  BY DEF NextPair
<1>5. QED BY <1>1, <1>2, <1>3, <1>4

-----------------------------------------------------------------------------
(* Claims                                                                  *)

(* Claims and pairs that are given up disturb nobody.                      *)
LEMMA ClaimsShrink ==
  ASSUME Matched, Disjoint, Apart,
         \A a, b : Fact(a, b)' => Fact(a, b),
         \A i \in Instances : Claim(i)' \subseteq Claim(i)
  PROVE  /\ Matched' /\ Disjoint' /\ Apart'
         /\ \A i \in Instances : \A z : Covers(i, z)' => Covers(i, z)
<1>1. \A a, b : Mates(a, b)' => Mates(a, b)
  BY DEF Mates
<1>2. Matched'
  BY <1>1 DEF Matched
<1>3. Disjoint'
  BY DEF Disjoint
<1>4. Apart'
  BY <1>1 DEF Apart
<1>5. \A i \in Instances : \A z : Covers(i, z)' => Covers(i, z)
  BY <1>1 DEF Covers
<1>6. QED BY <1>2, <1>3, <1>4, <1>5

(* Instance i claims the new uuid u, whose other half y is nobody's.       *)
LEMMA ClaimsGrow ==
  ASSUME Matched, Disjoint, Apart, NEW i \in Instances, NEW u, NEW y, u # y,
         \A a : ~Mates(a, u) /\ ~Mates(a, y),
         \A j \in Instances : u \notin Claim(j) /\ y \notin Claim(j),
         \A a, b : Fact(a, b)' =>
           Fact(a, b) \/ (a = u /\ b = y) \/ (a = y /\ b = u),
         \A j \in Instances \ {i} : Claim(j)' \subseteq Claim(j),
         Claim(i)' \subseteq Claim(i) \cup {u}
  PROVE  /\ Matched' /\ Disjoint' /\ Apart'
         /\ \A j \in Instances : \A z : Covers(j, z)' => Covers(j, z) \/ z \in {u, y}
<1>1. \A a, b : Mates(a, b)' =>
        Mates(a, b) \/ (a = u /\ b = y) \/ (a = y /\ b = u)
  BY DEF Mates
<1>2. \A a : ~Mates(u, a) /\ ~Mates(y, a)
  BY MatesSym
<1>3. \A j \in Instances : Claim(j)' \subseteq Claim(j) \cup {u} /\ y \notin Claim(j)'
  OBVIOUS
<1>4. Matched'
  <2>1. \A a \in Ifaces : ~Mates(a, a)'
    BY <1>1 DEF Matched
  <2>2. ASSUME NEW a \in Ifaces, NEW b \in Ifaces, NEW c \in Ifaces,
               Mates(a, b)', Mates(a, c)'
        PROVE  b = c
    BY <1>1, <1>2, <2>2 DEF Matched
  <2>3. QED BY <2>1, <2>2 DEF Matched
<1>5. Disjoint'
  <2>1. ASSUME NEW j \in Instances, NEW k \in Instances, j # k
        PROVE  Claim(j)' \cap Claim(k)' = {}
    <3>1. Claim(j) \cap Claim(k) = {}
      BY <2>1 DEF Disjoint
    <3>2. CASE j = i
      BY <2>1, <3>1, <3>2
    <3>3. CASE k = i
      BY <2>1, <3>1, <3>3
    <3>4. CASE j # i /\ k # i
      BY <2>1, <3>1, <3>4
    <3>5. QED BY <3>2, <3>3, <3>4
  <2>2. QED BY <2>1 DEF Disjoint
<1>6. Apart'
  <2>1. ASSUME NEW j \in Instances, NEW k \in Instances,
               NEW a \in Claim(j)', NEW b \in Claim(k)', Mates(a, b)'
        PROVE  FALSE
    <3>1. a # y /\ b # y
      BY <1>3
    <3>2. Mates(a, b)
      BY <1>1, <2>1, <3>1
    <3>3. a # u /\ b # u
      BY <1>2, <3>2
    <3>4. a \in Claim(j) /\ b \in Claim(k)
      BY <1>3, <3>3
    <3>5. QED BY <3>2, <3>4 DEF Apart
  <2>2. QED BY <2>1 DEF Apart
<1>7. ASSUME NEW j \in Instances, NEW z, Covers(j, z)'
      PROVE  Covers(j, z) \/ z \in {u, y}
  <2>1. CASE z \in Claim(j)'
    BY <1>3, <2>1 DEF Covers
  <2>2. CASE \E x \in Claim(j)' : Mates(x, z)'
    <3>1. PICK x \in Claim(j)' : Mates(x, z)'
      BY <2>2
    <3>2. CASE Mates(x, z)
      BY <1>2, <1>3, <3>1, <3>2 DEF Covers
    <3>3. CASE ~Mates(x, z)
      BY <1>1, <3>1, <3>3
    <3>4. QED BY <3>2, <3>3
  <2>3. QED BY <1>7, <2>1, <2>2 DEF Covers
<1>8. QED BY <1>4, <1>5, <1>6, <1>7

(* A put makes nothing of an instance that its operation is not for.       *)
LEMMA Spared ==
  ASSUME Typed, Claims, Calls, NEW i \in Instances, NEW q \in Pending, Making(q),
         q \in Strays \/ \E p \in Plugins : q \in Puts(p) /\ work[p].inst # i
  PROVE  ~Covers(i, q.key)
<1>1. IsPut(q)
  BY PendingTyped
<1>2. ASSUME NEW x, Mates(x, q.key)
      PROVE  IfacePut(q, q.key) /\ x = q.val.pair
  <2>1. q.key \in Ifaces /\ x \in Ifaces
    BY <1>2, MatesAre
  <2>2. IfacePut(q, q.key)
    BY <1>1, <2>1, PutKinds, Keys DEF IfacePut
  <2>3. Mates(q.key, q.val.pair)
    BY <2>2 DEF Mates, Fact
  <2>4. q.val.pair \in Ifaces /\ Mates(q.key, x)
    BY <1>2, <2>3, MatesAre, MatesSym
  <2>5. QED BY <2>1, <2>2, <2>3, <2>4 DEF Claims, Matched
<1>3. CASE q \in Strays
  <2>1. q.key \notin Claim(i) /\ (IfacePut(q, q.key) => q.val.pair \notin Claim(i))
    BY <1>3 DEF Calls, StrayPuts
  <2>2. QED BY <1>2, <2>1 DEF Covers
<1>4. ASSUME NEW p \in Plugins, q \in Puts(p), work[p].inst # i PROVE ~Covers(i, q.key)
  <2> DEFINE j == work[p].inst
  <2>1. /\ j # i
        /\ Configuring(p)
        /\ q.key \in Claim(j) \/ (IfacePut(q, q.key) /\ q.val.pair \in Claim(j))
    BY <1>4 DEF Calls, OwnPuts
  <2>2. j \in Instances
    BY <2>1, WorkOf DEF Configuring
  <2>3. Claim(i) \cap Claim(j) = {}
    BY <2>1, <2>2 DEF Claims, Disjoint
  <2>4. \A a \in Claim(i), b \in Claim(j) : ~Mates(a, b)
    BY <2>2 DEF Claims, Apart
  <2> HIDE DEF j
  <2>5. CASE q.key \in Claim(j)
    BY <2>3, <2>4, <2>5 DEF Covers
  <2>6. CASE IfacePut(q, q.key) /\ q.val.pair \in Claim(j)
    <3>1. Mates(q.val.pair, q.key)
      BY <2>6 DEF Mates, Fact
    <3>2. q.key \notin Claim(i)
      BY <2>4, <2>6, <3>1, MatesSym
    <3>3. QED BY <1>2, <2>3, <2>6, <3>2 DEF Covers
  <2>7. QED BY <2>1, <2>5, <2>6
<1>5. QED BY <1>3, <1>4

-----------------------------------------------------------------------------
(* What an operation or a record says of the stores stays true as long as  *)
(* nobody else writes what its instance covers.                            *)

LEMMA ValIs ==
  ASSUME NEW f, NEW P, NEW z
  PROVE  /\ ~(\E q \in P : IfacePut(q, z)) => Val(f, P, z) = f[z]
         /\ (\E q \in P : IfacePut(q, z)) =>
              \E q \in P : IfacePut(q, z) /\ Val(f, P, z) = q.val
         /\ Val(f, {}, z) = f[z] /\ (Has(f, {}, z) <=> z \in DOMAIN f)
BY DEF Val, Has

(* The record of an interface says what its pair is.                       *)
LEMMA ValFact ==
  ASSUME Typed, NEW P, P \subseteq Pending, NEW z, Has(ifaces, P, z)
  PROVE  /\ Val(ifaces, P, z) \in VethRecord
         /\ Fact(z, Val(ifaces, P, z).pair)
         /\ z \in Ifaces /\ Val(ifaces, P, z).pair \in Ifaces
<1>1. CASE \E q \in P : IfacePut(q, z)
  <2>1. PICK q \in P : IfacePut(q, z) /\ Val(ifaces, P, z) = q.val
    BY <1>1, ValIs
  <2>2. IsPut(q) /\ q \in Pending
    BY PendingTyped
  <2>3. q.val \in VethRecord /\ z \in Ifaces
    BY <2>1, <2>2, PutKinds
  <2>4. QED BY <2>1, <2>2, <2>3, VethAre DEF Fact
<1>2. CASE ~(\E q \in P : IfacePut(q, z))
  <2>1. z \in DOMAIN ifaces /\ Val(ifaces, P, z) = ifaces[z]
    BY <1>2, ValIs DEF Has
  <2>2. ifaces[z] \in VethRecord /\ z \in Ifaces
    BY <2>1 DEF Typed, TypeOK
  <2>3. QED BY <2>1, <2>2, VethAre DEF Fact
<1>3. QED BY <1>1, <1>2

LEMMA SameVal ==
  ASSUME NEW f, NEW g, NEW P, NEW z, Kept(f, g, z), Has(f, P, z)
  PROVE  Has(g, P, z) /\ Val(g, P, z) = Val(f, P, z)
<1>1. Has(g, P, z)
  BY DEF Kept, Has
<1>2. CASE \E q \in P : IfacePut(q, z)
  BY <1>1, <1>2 DEF Val
<1>3. CASE ~(\E q \in P : IfacePut(q, z))
  BY <1>1, <1>3 DEF Val, Kept, Has
<1>4. QED BY <1>2, <1>3

LEMMA SameLink ==
  ASSUME NEW f, NEW f2, NEW g, NEW g2, NEW P, NEW x, NEW n,
         Linked(f, g, P, x, n),
         Kept(f, f2, x), Kept(f, f2, Val(f, P, x).pair), Kept(g, g2, n),
         n \in DOMAIN g \/ \E q \in P : ListPut(q, n)
  PROVE  /\ Linked(f2, g2, P, x, n)
         /\ Val(f2, P, x) = Val(f, P, x)
         /\ Outer(f2, P, x) = Outer(f, P, x)
<1>1. Has(f2, P, x) /\ Val(f2, P, x) = Val(f, P, x)
  BY SameVal DEF Linked
<1>2. /\ Has(f2, P, Val(f, P, x).pair)
      /\ Val(f2, P, Val(f, P, x).pair) = Val(f, P, Val(f, P, x).pair)
  BY SameVal DEF Linked
<1>3. InList(g2, P, n, x)
  BY DEF Linked, InList, Kept
<1>4. QED BY <1>1, <1>2, <1>3 DEF Linked, Outer

(* Everything that instance i covers stays as it is.                       *)
Untouched(i) ==
  \A z : Covers(i, z) =>
    /\ Kept(ifaces, ifaces', z)
    /\ Kept(namespaces, namespaces', z)
    /\ z \in cps' <=> z \in cps

LEMMA PutsPending ==
  ASSUME NEW p \in Plugins PROVE Puts(p) \subseteq Pending
BY PendingIs

LEMMA ProgressKept ==
  ASSUME Typed, NEW p \in Plugins, Configuring(p), Progress(p),
         work'[p] = work[p], rec'[work[p].inst] = rec[work[p].inst],
         Untouched(work[p].inst)
  PROVE  Configuring(p)' /\ Progress(p)'
<1> DEFINE w == work[p]  i == w.inst  P == Puts(p)
<1>1. /\ Claim(i) = ({w.netns} \cup Made(p) \cup ToSet(w.intfs)) \ {None}
      /\ P \subseteq Pending
      /\ w.intfs \in Seq(Ifaces) /\ Made(p) \subseteq Cps
  <2>1. w.intfs \in Seq(Ifaces) /\ \A id \in DOMAIN w.cps : w.cps[id] \in Cps
    BY DEF Typed, WorkTyped
  <2>2. Made(p) \subseteq Cps
    BY <2>1 DEF Made
  <2>3. QED BY <2>1, <2>2, ClaimOf, PutsPending
<1>2. Puts(p)' = P /\ Made(p)' = Made(p) /\ Configuring(p)'
  BY DEF Puts, Made, Configuring
<1>3. w.pc # "namespace" =>
        /\ w.netns \in NetNs
        /\ w.netns \in DOMAIN namespaces \/ \E q \in P : ListPut(q, w.netns)
        /\ Kept(namespaces, namespaces', w.netns)
  BY <1>1, Keys DEF Progress, Untouched, Covers
<1>4. \A c \in Made(p) : c \in cps' \/ \E q \in P : CpPut(q, c)
  BY <1>1, Keys DEF Progress, Untouched, Covers
<1>5. ASSUME NEW m \in 1 .. Len(w.intfs)
      PROVE  /\ Linked(ifaces', namespaces', P, w.intfs[m], w.netns)
             /\ Val(ifaces', P, w.intfs[m]) = Val(ifaces, P, w.intfs[m])
             /\ Outer(ifaces', P, w.intfs[m]) = Outer(ifaces, P, w.intfs[m])
  <2> DEFINE x == w.intfs[m]  y == Val(ifaces, P, x).pair
  <2>1. Linked(ifaces, namespaces, P, x, w.netns)
    BY DEF Progress
  <2>2. w.pc # "namespace"
    BY <1>1 DEF Progress
  <2>3. x \in Claim(i)
    BY <1>1, Keys DEF ToSet
  <2>4. Mates(x, y)
    BY <1>1, <2>1, ValFact DEF Linked, Mates
  <2>5. Kept(ifaces, ifaces', x) /\ Kept(ifaces, ifaces', y)
    BY <2>3, <2>4 DEF Untouched, Covers
  <2>6. /\ Linked(ifaces', namespaces', P, x, w.netns)
        /\ Val(ifaces', P, x) = Val(ifaces, P, x)
        /\ Outer(ifaces', P, x) = Outer(ifaces, P, x)
    <3> DEFINE n == w.netns
    <3>1. Kept(namespaces, namespaces', n) /\ Linked(ifaces, namespaces, P, x, n)
      BY <1>3, <2>1, <2>2
    <3>2. n \in DOMAIN namespaces \/ \E q \in P : ListPut(q, n)
      BY <1>3, <2>2
    <3>3. Kept(ifaces, ifaces', x) /\ Kept(ifaces, ifaces', Val(ifaces, P, x).pair)
      BY <2>5
    <3> HIDE DEF P, w, x, n
    <3>4. /\ Linked(ifaces', namespaces', P, x, n)
          /\ Val(ifaces', P, x) = Val(ifaces, P, x)
          /\ Outer(ifaces', P, x) = Outer(ifaces, P, x)
      BY <3>1, <3>2, <3>3, SameLink
    <3>5. QED BY <3>4 DEF n
  <2>7. QED BY <2>6
<1>6. w.pc = "attach" => Last(w.intfs) = w.intfs[Len(w.intfs)]
                         /\ Len(w.intfs) \in 1 .. Len(w.intfs)
  <2>1. ASSUME w.pc = "attach" PROVE Len(w.intfs) \in 1 .. Len(w.intfs)
    <3>1. w.k \in Nat /\ w.k > Len(CpsOf[i]) /\ Len(w.intfs) = w.k - Len(CpsOf[i])
      BY <2>1 DEF Progress, Typed, WorkTyped
    <3>2. Len(CpsOf[i]) \in Nat
      BY ClaimOf, InstanceAssumption
    <3>3. QED BY <3>1, <3>2
  <2>2. QED BY <2>1 DEF Last
<1>7. /\ \A m \in 1 .. Len(w.intfs) : w.pc = "create" \/ m # Len(w.intfs) =>
           Ends(IntfsOf[i][m], Outer(ifaces', P, w.intfs[m]), Made(p))
      /\ w.pc = "attach" =>
           /\ Val(ifaces', P, Last(w.intfs)).pair = w.pair
           /\ Outer(ifaces', P, Last(w.intfs)) = w.netns
  <2>1. \A m \in 1 .. Len(w.intfs) : w.pc = "create" \/ m # Len(w.intfs) =>
          Ends(IntfsOf[i][m], Outer(ifaces, P, w.intfs[m]), Made(p))
    BY DEF Progress
  <2>2. w.pc = "attach" =>
          /\ Val(ifaces, P, Last(w.intfs)).pair = w.pair
          /\ Outer(ifaces, P, Last(w.intfs)) = w.netns
    BY DEF Progress
  <2> HIDE DEF w, i, P
  <2>3. QED BY <1>5, <1>6, <2>1, <2>2
<1>8. /\ rec[i].status = "DEFINED"
      /\ w.pc = "namespace" =>
           w.netns = None /\ w.cps = Empty /\ w.intfs = <<>> /\ w.k = 1 /\ w.puts = <<>>
      /\ \A a, b \in DOMAIN w.cps : w.cps[a] = w.cps[b] => a = b
      /\ DOMAIN w.cps = {CpsOf[i][m] : m \in {n \in 1 .. Len(CpsOf[i]) : n < w.k}}
      /\ w.pc = "attach" =>
           /\ w.k > Len(CpsOf[i]) /\ Len(w.intfs) = w.k - Len(CpsOf[i])
           /\ Len(w.intfs) <= Len(IntfsOf[i])
      /\ w.pc = "create" /\ w.k <= Len(CpsOf[i]) => w.intfs = <<>>
      /\ w.pc = "create" /\ w.k > Len(CpsOf[i]) =>
           /\ Len(w.intfs) = w.k - Len(CpsOf[i]) - 1
           /\ Len(w.intfs) <= Len(IntfsOf[i])
  BY DEF Progress
<1>9. w.pc # "namespace" =>
        /\ w.netns \in NetNs
        /\ w.netns \in DOMAIN namespaces' \/ \E q \in P : ListPut(q, w.netns)
  BY <1>3 DEF Kept
<1>10. Progress(p)'
  <2>1. work'[p] = w /\ rec'[i] = rec[i] /\ i = w.inst
    OBVIOUS
  <2> HIDE DEF w, i, P
  <2>2. QED BY <1>2, <1>4, <1>5, <1>7, <1>8, <1>9, <2>1 DEF Progress
<1>11. QED BY <1>2, <1>10

LEMMA WholeKept ==
  ASSUME Typed, NEW i \in Instances, Whole(i), rec'[i] = rec[i],
         IsConfigured(i) => \/ rec[i].netns \notin DOMAIN namespaces'
                            \/ Untouched(i)
  PROVE  Whole(i)'
<1> DEFINE r == rec[i]
<1>1. SUFFICES ASSUME IsConfigured(i) PROVE Whole(i)'
  BY DEF Whole, IsConfigured
<1>2. /\ Cardinality(r.cps) = Cardinality(ToSet(CpsOf[i]))
      /\ Len(r.intfs) = Len(IntfsOf[i])
  BY <1>1 DEF Whole
<1>3. CASE r.netns \notin DOMAIN namespaces'
  BY <1>2, <1>3 DEF Whole
<1>4. CASE r.netns \in DOMAIN namespaces' /\ Untouched(i)
  <2>1. Claim(i) = {r.netns} \cup r.cps \cup ToSet(r.intfs)
    BY <1>1 DEF Claim, Listed
  <2>2. Kept(namespaces, namespaces', r.netns)
    BY <1>4, <2>1 DEF Untouched, Covers
  <2>3. r.netns \in DOMAIN namespaces
    BY <1>4, <2>2 DEF Kept
  <2>4. r.cps \subseteq cps'
    BY <1>1, <1>4, <2>1, <2>3 DEF Whole, Untouched, Covers
  <2>5. ASSUME NEW k \in 1 .. Len(r.intfs)
        PROVE  /\ Linked(ifaces', namespaces', {}, r.intfs[k], r.netns)
               /\ Ends(IntfsOf[i][k], Outer(ifaces', {}, r.intfs[k]), r.cps)
    <3> DEFINE x == r.intfs[k]  y == Val(ifaces, {}, x).pair
    <3>1. /\ Linked(ifaces, namespaces, {}, x, r.netns)
          /\ Ends(IntfsOf[i][k], Outer(ifaces, {}, x), r.cps)
      BY <1>1, <2>3 DEF Whole
    <3>2. x \in Claim(i)
      <4>1. r.intfs \in Seq(Ifaces)
        BY DEF Typed, RecTyped
      <4>2. QED BY <2>1, <4>1 DEF ToSet
    <3>3. Mates(x, y)
      BY <3>1, ValFact DEF Linked, Mates
    <3>4. Kept(ifaces, ifaces', x) /\ Kept(ifaces, ifaces', y)
      BY <1>4, <3>2, <3>3 DEF Untouched, Covers
    <3>5. /\ Linked(ifaces', namespaces', {}, x, r.netns)
          /\ Outer(ifaces', {}, x) = Outer(ifaces, {}, x)
      <4> DEFINE n == r.netns
      <4>1. Kept(namespaces, namespaces', n) /\ Linked(ifaces, namespaces, {}, x, n)
        BY <2>2, <3>1
      <4>2. n \in DOMAIN namespaces
        BY <2>3
      <4>3. Kept(ifaces, ifaces', x) /\ Kept(ifaces, ifaces', Val(ifaces, {}, x).pair)
        BY <3>4
      <4> HIDE DEF r, x, n
      <4>4. /\ Linked(ifaces', namespaces', {}, x, n)
            /\ Outer(ifaces', {}, x) = Outer(ifaces, {}, x)
        BY <4>1, <4>2, <4>3, SameLink
      <4>5. QED BY <4>4 DEF n
    <3>6. QED BY <3>1, <3>5
  <2>6. QED BY <1>2, <2>4, <2>5 DEF Whole
<1>5. QED BY <1>1, <1>3, <1>4

(* A cleanup only minds what comes back.                                   *)
LEMMA CleanupKept ==
  ASSUME NEW p \in Plugins, Cleaning(p), Cleanup(p), NEW i, i = work[p].inst,
         work'[p] = work[p], rec'[i] = rec[i],
         rec[i].netns \in DOMAIN namespaces' => rec[i].netns \in DOMAIN namespaces,
         rec[i].cps \cap cps' \subseteq cps,
         \A z \in DOMAIN ifaces' :
           z \in Listed(i) \/ ifaces'[z].pair \in Listed(i) =>
             z \in DOMAIN ifaces /\ ifaces'[z] = ifaces[z],
         rec[i].intfs \in Seq(Ifaces)
  PROVE  Cleaning(p)' /\ Cleanup(p)'
<1> DEFINE w == work[p]  r == rec[i]
<1>1. \A z : Removing(p, z)' <=> Removing(p, z)
  BY DEF Removing, Puts
<1>2. \A m \in 1 .. Len(r.intfs) : r.intfs[m] \in Listed(i)
  BY DEF Listed, ToSet
<1>3. /\ IsConfigured(i) /\ w.netns = r.netns /\ w.rest \subseteq r.cps
      /\ w.intfs = r.intfs
      /\ w.pc = "clean" => w.puts = <<>> /\ w.k = 1 /\ w.rest = r.cps
  BY DEF Cleanup
<1>4. ASSUME w.pc = "delete"
      PROVE  /\ r.netns \in DOMAIN namespaces' => Removing(p, r.netns)
             /\ \A c \in (r.cps \cap cps') \ w.rest : Removing(p, c)
             /\ \A m \in 1 .. Len(r.intfs) : m < w.k =>
                  /\ r.intfs[m] \in DOMAIN ifaces' => Removing(p, r.intfs[m])
                  /\ \A z \in DOMAIN ifaces' :
                       ifaces'[z].pair = r.intfs[m] => Removing(p, z)
  <2>1. /\ r.netns \in DOMAIN namespaces => Removing(p, r.netns)
        /\ \A c \in (r.cps \cap cps) \ w.rest : Removing(p, c)
        /\ \A m \in 1 .. Len(r.intfs) : m < w.k =>
             /\ r.intfs[m] \in DOMAIN ifaces => Removing(p, r.intfs[m])
             /\ \A z \in DOMAIN ifaces :
                  ifaces[z].pair = r.intfs[m] => Removing(p, z)
    BY <1>4 DEF Cleanup
  <2>2. QED BY <1>2, <2>1
<1>5. Cleaning(p)'
  BY DEF Cleaning
<1>6. QED
  BY <1>1, <1>3, <1>4, <1>5 DEF Cleanup, IsConfigured

-----------------------------------------------------------------------------
(* A put is made                                                           *)

(* The effects of making put q.                                            *)
Effect(q) ==
  /\ \A z : z = q.key \/ /\ Kept(ifaces, ifaces', z)
                         /\ Kept(namespaces, namespaces', z)
                         /\ z \in cps' <=> z \in cps
  /\ q.store # "ifaces" => \A z : Kept(ifaces, ifaces', z)
  /\ q.store = "ifaces" =>
       /\ Making(q) => q.key \in DOMAIN ifaces' /\ ifaces'[q.key] = q.val
       /\ ~Making(q) => q.key \notin DOMAIN ifaces'
  /\ q.store # "namespaces" => \A n : Kept(namespaces, namespaces', n)
  /\ q.store = "namespaces" =>
       /\ Making(q) => q.key \in DOMAIN namespaces' /\ namespaces'[q.key] = q.val
       /\ ~Making(q) => q.key \notin DOMAIN namespaces'
  /\ q.store # "cps" => cps' = cps
  /\ q.store = "cps" => (Making(q) <=> q.key \in cps')

LEMMA Effects ==
  ASSUME NEW s, Execute(s) PROVE Effect(Head(s)) /\ vnets' = vnets
<1> DEFINE q == Head(s)
<1>1. q.store # "cps" => cps' = cps
  BY DEF Execute
<1> HIDE DEF q
<1>2. QED BY <1>1, Executed DEF Effect, q

(* What is left of a call once its first put is made.                      *)
LEMMA Rested ==
  ASSUME NEW s, PutSeq(s), s # <<>>, NEW q, q = Head(s),
         \A n \in DOMAIN namespaces : namespaces[n] \in Lists
  PROVE  /\ PutSeq(Rest(s))
         /\ q.store # "unlist" => ToSet(Rest(s)) = ToSet(s) \ {q}
         /\ q.store = "unlist" /\ ~Unlistable(q) => Rest(s) = <<>>
         /\ q.store = "unlist" /\ Unlistable(q) =>
              \E r : /\ ToSet(Rest(s)) = {r} /\ ListPut(r, q.key)
                     /\ DOMAIN namespaces[q.key] \ {q.val} \subseteq DOMAIN r.val
<1>1. /\ q \in ToSet(s) /\ IsPut(q)
      /\ ToSet(Tail(s)) = ToSet(s) \ {q}
      /\ PutSeq(Tail(s))
      /\ q.store = "unlist" => ToSet(s) = {q}
  BY TailPuts DEF PutSeq
<1>2. CASE ~(q.store = "unlist" /\ Unlistable(q))
  <2>1. Rest(s) = Tail(s)
    BY <1>2 DEF Rest
  <2>2. ASSUME q.store = "unlist" PROVE Tail(s) = <<>>
    <3>1. ToSet(Tail(s)) = {}
      BY <1>1, <2>2
    <3>2. Tail(s) \in Seq(ToSet(Tail(s)))
      BY <1>1 DEF PutSeq
    <3>3. \A k \in 1 .. Len(Tail(s)) : Tail(s)[k] \in ToSet(Tail(s))
      BY <3>2
    <3>4. Len(Tail(s)) = 0
      BY <3>1, <3>2, <3>3
    <3> DEFINE t == Tail(s)
    <3>5. t \in Seq(ToSet(t)) /\ Len(t) = 0
      BY <3>2, <3>4
    <3> HIDE DEF t
    <3>6. t = <<>>
      BY <3>5
    <3>7. QED BY <3>6 DEF t
  <2>3. QED BY <1>1, <1>2, <2>1, <2>2
<1>3. CASE q.store = "unlist" /\ Unlistable(q)
  <2> DEFINE L == BagRemove(namespaces[q.key], q.val)
             r == PutOf("namespaces", q.key, L)
  <2>1. Rest(s) = <<r>>
    BY <1>3 DEF Rest
  <2>2. q.key \in NetNs
    BY <1>1, <1>3, PutKinds
  <2>3. L \in Lists /\ L # None
        /\ DOMAIN namespaces[q.key] \ {q.val} \subseteq DOMAIN L
    BY <1>3, RemoveList, ListsAre DEF Unlistable
  <2> HIDE DEF L
  <2>4. r.store = "namespaces" /\ r.key = q.key /\ r.val = L
    BY DEF PutOf
  <2> HIDE DEF r
  <2>5. IsPut(r) /\ ListPut(r, q.key)
    BY <2>2, <2>3, <2>4, ListPuts DEF ListPut, Making
  <2>6. PutSeq(<<r>>) /\ ToSet(<<r>>) = {r}
    BY <2>5, OnePut
  <2>7. QED BY <1>3, <2>1, <2>3, <2>4, <2>5, <2>6
<1>4. QED BY <1>2, <1>3

LEMMA KeysApart ==
  ASSUME NEW s, PutSeq(s)
  PROVE  \A q, r \in ToSet(s) : q.key = r.key => q = r
BY SetOfSeq DEF PutSeq

(* The first put of P is made, the others Q stay: what P will have made of *)
(* an interface is what Q will have.                                       *)
LEMMA ViewIfaces ==
  ASSUME NEW P, NEW Q, NEW q \in P, Effect(q), Making(q),
         \A r, t \in P : r.key = t.key => r = t,
         \/ Q = P \ {q}
         \/ q.store = "unlist" /\ P = {q} /\ \A r \in Q : r.store = "namespaces",
         NEW z, Has(ifaces, P, z)
  PROVE  Has(ifaces', Q, z) /\ Val(ifaces', Q, z) = Val(ifaces, P, z)
<1>1. CASE IfacePut(q, z)
  <2>1. \A r \in Q : ~IfacePut(r, z)
    BY <1>1 DEF IfacePut
  <2>2. z \in DOMAIN ifaces' /\ ifaces'[z] = q.val
    BY <1>1 DEF Effect, IfacePut
  <2>3. Val(ifaces, P, z) = q.val
    <3>1. PICK r \in P : IfacePut(r, z) /\ Val(ifaces, P, z) = r.val
      BY <1>1, ValIs
    <3>2. r = q
      BY <1>1, <3>1 DEF IfacePut
    <3>3. QED BY <3>1, <3>2
  <2>4. QED BY <2>1, <2>2, <2>3, ValIs DEF Has
<1>2. CASE ~IfacePut(q, z)
  <2>1. \A r : r \in P /\ IfacePut(r, z) <=> r \in Q /\ IfacePut(r, z)
    BY <1>2 DEF IfacePut
  <2>2. Kept(ifaces, ifaces', z)
    BY <1>2 DEF Effect, IfacePut
  <2>3. CASE \E r \in P : IfacePut(r, z)
    <3>1. PICK r \in P : IfacePut(r, z) /\ Val(ifaces, P, z) = r.val
      BY <2>3, ValIs
    <3>2. PICK t \in Q : IfacePut(t, z) /\ Val(ifaces', Q, z) = t.val
      BY <2>1, <2>3, ValIs
    <3>3. t = r
      BY <2>1, <3>1, <3>2 DEF IfacePut
    <3>4. QED BY <3>1, <3>2, <3>3 DEF Has
  <2>4. CASE ~(\E r \in P : IfacePut(r, z))
    <3>1. ~(\E r \in Q : IfacePut(r, z))
      BY <2>1, <2>4
    <3>2. z \in DOMAIN ifaces
      BY <2>4 DEF Has
    <3>3. QED BY <2>2, <2>4, <3>1, <3>2, ValIs DEF Kept, Has
  <2>5. QED BY <2>3, <2>4
<1>3. QED BY <1>1, <1>2

LEMMA ViewList ==
  ASSUME NEW P, NEW Q, NEW q \in P, Effect(q), Making(q),
         \A r, t \in P : r.key = t.key => r = t,
         \/ Q = P \ {q} /\ q.store # "unlist"
         \/ /\ q.store = "unlist" /\ P = {q} /\ Unlistable(q)
            /\ \E r : /\ Q = {r} /\ ListPut(r, q.key)
                      /\ DOMAIN namespaces[q.key] \ {q.val} \subseteq DOMAIN r.val,
         NEW n, n \in DOMAIN namespaces \/ \E r \in P : ListPut(r, n)
  PROVE  /\ n \in DOMAIN namespaces' \/ \E r \in Q : ListPut(r, n)
         /\ \A z : InList(namespaces, P, n, z) => InList(namespaces', Q, n, z)
<1>1. CASE Q = P \ {q} /\ ListPut(q, n)
  <2>1. n \in DOMAIN namespaces' /\ namespaces'[n] = q.val
    BY <1>1 DEF Effect, ListPut
  <2>2. \A r \in Q : r.key # n
    BY <1>1 DEF ListPut
  <2>3. QED BY <1>1, <2>1, <2>2 DEF InList, ListPut
<1>2. CASE Q = P \ {q} /\ q.store # "unlist" /\ ~ListPut(q, n)
  <2>1. Kept(namespaces, namespaces', n)
    BY <1>2 DEF Effect, ListPut
  <2>2. \A r : r \in P /\ ListPut(r, n) <=> r \in Q /\ ListPut(r, n)
    BY <1>2
  <2>3. QED BY <1>2, <2>1, <2>2 DEF InList, Kept
<1>3. CASE q.store = "unlist" /\ P = {q} /\ Unlistable(q)
           /\ \E r : /\ Q = {r} /\ ListPut(r, q.key)
                     /\ DOMAIN namespaces[q.key] \ {q.val} \subseteq DOMAIN r.val
  <2>1. PICK r : /\ Q = {r} /\ ListPut(r, q.key)
                 /\ DOMAIN namespaces[q.key] \ {q.val} \subseteq DOMAIN r.val
    BY <1>3
  <2>2. Kept(namespaces, namespaces', n) /\ n \in DOMAIN namespaces
    BY <1>3 DEF Effect, ListPut
  <2>3. ~ListPut(q, n) /\ r.store = "namespaces"
    BY <1>3, <2>1 DEF ListPut
  <2>4. ASSUME NEW z, InList(namespaces, P, n, z)
        PROVE  InList(namespaces', Q, n, z)
    <3>1. z \in DOMAIN namespaces[n] /\ (q.key = n => q.val # z)
      BY <1>3, <2>3, <2>4 DEF InList
    <3>2. ListPut(r, n) => z \in DOMAIN r.val
      BY <2>1, <3>1 DEF ListPut
    <3>3. z \in DOMAIN namespaces'[n]
      BY <2>2, <3>1 DEF Kept
    <3>4. QED BY <2>1, <2>3, <3>2, <3>3 DEF InList
  <2>5. QED BY <2>2, <2>4 DEF Kept
<1>4. QED BY <1>1, <1>2, <1>3


-----------------------------------------------------------------------------
(* What stays                                                              *)

LEMMA StoresSame ==
  ASSUME UNCHANGED netVars
  PROVE  /\ ifaces' = ifaces /\ namespaces' = namespaces /\ cps' = cps
         /\ vnets' = vnets
         /\ \A i : Untouched(i)
BY DEF netVars, Untouched, Kept

LEMMA IdleIs ==
  /\ Idle.pc = "idle" /\ Idle.inst = None /\ Idle.netns = None
  /\ Idle.cps = Empty /\ Idle.intfs = <<>> /\ Idle.pair = None /\ Idle.k = 0
  /\ Idle.rest = {} /\ Idle.puts = <<>>
  /\ DOMAIN Idle = {"pc", "inst", "netns", "cps", "intfs", "pair", "k", "rest", "puts"}
  /\ DOMAIN Empty = {}
BY DEF Idle, Empty

LEMMA IdleWork ==
  ASSUME NEW p, work'[p] = Idle
  PROVE  WorkTyped(p)' /\ ~Configuring(p)' /\ ~Cleaning(p)' /\ Puts(p)' = {}
<1> DEFINE w == work'[p]
<1>1. /\ w = Idle /\ w.pc = "idle" /\ w.netns = None /\ DOMAIN w.cps = {}
      /\ w.intfs = <<>> /\ w.pair = None /\ w.k = 0 /\ w.rest = {} /\ w.puts = <<>>
      /\ DOMAIN w = DOMAIN Idle
  BY IdleIs
<1> HIDE DEF w
<1>2. /\ PutSeq(w.puts) /\ ToSet(w.puts) = {}
      /\ w.intfs \in Seq(Ifaces) /\ w.k \in Nat
  BY <1>1, NoPuts
<1>3. WorkTyped(p)'
  BY <1>1, <1>2 DEF WorkTyped, w
<1>4. QED
  BY <1>1, <1>2, <1>3 DEF Configuring, Cleaning, Puts, w

LEMMA TypedStays ==
  ASSUME Typed, UNCHANGED netVars, DOMAIN rec' = Instances, DOMAIN work' = Plugins,
         \A i \in Instances : rec'[i] = rec[i] \/ RecTyped(i)',
         \A r \in Plugins : work'[r] \in {work[r], Idle} \/ WorkTyped(r)',
         \A s \in strays' : PutSeq(s) /\ s # <<>>,
         faults' \in 0 .. MaxFaults, failed' \in BOOLEAN
  PROVE  Typed'
<1>1. /\ TypeOK' /\ \A x \in DOMAIN ifaces' : ifaces'[x] \in VethRecord
      /\ \A n \in DOMAIN namespaces' : namespaces'[n] \in Lists
  BY StoresSame DEF Typed, TypeOK
<1>2. ASSUME NEW i \in Instances PROVE RecTyped(i)'
  <2>1. RecTyped(i)
    BY DEF Typed
  <2>2. CASE rec'[i] = rec[i]
    BY <2>1, <2>2 DEF RecTyped, IsConfigured
  <2>3. QED BY <2>2
<1>3. ASSUME NEW r \in Plugins PROVE WorkTyped(r)'
  <2>1. WorkTyped(r)
    BY DEF Typed
  <2>2. CASE work'[r] = work[r]
    BY <2>1, <2>2 DEF WorkTyped
  <2>3. CASE work'[r] = Idle
    BY <2>3, IdleWork
  <2>4. QED BY <2>2, <2>3
<1>4. QED BY <1>1, <1>2, <1>3 DEF Typed

LEMMA ClaimStays ==
  ASSUME NEW i, rec'[i] = rec[i], work'[PluginOf[i]] = work[PluginOf[i]]
  PROVE  Claim(i)' = Claim(i)
BY DEF Claim, IsConfigured, Building, Listed, Made, Configuring

LEMMA ClaimDropped ==
  ASSUME NEW i, rec'[i] = rec[i], ~Building(i)'
  PROVE  /\ Claim(i)' \subseteq Claim(i)
         /\ ~IsConfigured(i) => Claim(i)' = {}
         /\ IsConfigured(i) \/ ~Building(i) => Claim(i)' = Claim(i)
BY DEF Claim, IsConfigured, Listed

LEMMA WorksStay ==
  ASSUME Typed, Works, UNCHANGED netVars,
         \A r \in Plugins :
           \/ work'[r] = Idle
           \/ work'[r] = work[r] /\ rec'[work[r].inst] = rec[work[r].inst]
           \/ (Configuring(r)' => Progress(r)') /\ (Cleaning(r)' => Cleanup(r)'),
         \A i \in Instances : rec'[i] = rec[i] \/ Whole(i)'
  PROVE  Works'
<1>1. ASSUME NEW r \in Plugins
      PROVE  (Configuring(r)' => Progress(r)') /\ (Cleaning(r)' => Cleanup(r)')
  <2>1. CASE work'[r] = Idle
    BY <2>1, IdleWork
  <2>2. CASE work'[r] = work[r] /\ rec'[work[r].inst] = rec[work[r].inst]
    <3>1. ASSUME Configuring(r)' PROVE Progress(r)'
      <4>1. Configuring(r) /\ Progress(r)
        BY <2>2, <3>1 DEF Configuring, Works
      <4>2. QED BY <2>2, <4>1, ProgressKept, StoresSame
    <3>2. ASSUME Cleaning(r)' PROVE Cleanup(r)'
      <4> DEFINE i == work[r].inst
      <4>1. Cleaning(r) /\ Cleanup(r)
        BY <2>2, <3>2 DEF Cleaning, Works
      <4>2. i \in Instances /\ rec[i].intfs \in Seq(Ifaces)
        BY <4>1, WorkOf DEF Cleaning, Typed, RecTyped
      <4>3. i = work[r].inst /\ rec'[i] = rec[i]
        BY <2>2
      <4> HIDE DEF i
      <4>4. QED BY <2>2, <4>1, <4>2, <4>3, StoresSame, CleanupKept
    <3>3. QED BY <3>1, <3>2
  <2>3. QED BY <2>1, <2>2
<1>2. ASSUME NEW i \in Instances PROVE Whole(i)'
  <2>1. CASE rec'[i] = rec[i]
    BY <2>1, WholeKept, StoresSame DEF Works
  <2>2. QED BY <2>1
<1>3. QED BY <1>1, <1>2 DEF Works

-----------------------------------------------------------------------------
(* A put makes nothing of an instance that is not its operation's.         *)

LEMMA SparedBoth ==
  ASSUME Typed, Claims, Calls, NEW i \in Instances, NEW q \in Pending, Making(q),
         q \in Strays \/ \E p \in Plugins : q \in Puts(p) /\ work[p].inst # i
  PROVE  /\ q.key \notin Claim(i)
         /\ IfacePut(q, q.key) => q.val.pair \notin Claim(i)
<1>1. ~Covers(i, q.key)
  BY Spared
<1>2. ASSUME IfacePut(q, q.key) PROVE Mates(q.val.pair, q.key)
  BY <1>2 DEF Mates, Fact
<1>3. QED BY <1>1, <1>2 DEF Covers

(* Of a configured instance nothing is made.                               *)
LEMMA ConfiguredSpared ==
  ASSUME IInv, NEW i \in Instances, IsConfigured(i), NEW q \in Pending, Making(q)
  PROVE  ~Covers(i, q.key)
<1>1. ASSUME NEW p \in Plugins, q \in Puts(p) PROVE work[p].inst # i
  <2>1. Configuring(p)
    BY <1>1 DEF IInv, Calls, OwnPuts
  <2>2. QED BY <2>1 DEF IInv, Works, Progress, IsConfigured
<1>2. QED BY <1>1, PendingIs, Spared DEF IInv

-----------------------------------------------------------------------------
(* Operations are dropped                                                  *)

(* Some operations are over, unfinished, and their calls go on or not.     *)
LEMMA Dropped ==
  ASSUME IInv, UNCHANGED <<netVars, rec>>, DOMAIN work' = Plugins,
         \A r \in Plugins : work'[r] \in {work[r], Idle},
         Pending' \subseteq Pending,
         (\A q \in Pending : IfacePut(q, q.key) => q \in Pending') \/ Pending' = {},
         \A q \in Strays' : q \in Strays \/
           \E r \in Plugins : q \in Puts(r) /\ work'[r] = Idle,
         \A s \in strays' : PutSeq(s) /\ s # <<>>,
         faults' \in 0 .. MaxFaults, failed' \in BOOLEAN
  PROVE  IInv'
<1>0. Typed /\ Claims /\ Calls /\ Works
  BY DEF IInv
<1>a. rec' = rec /\ UNCHANGED netVars
  OBVIOUS
<1>1. Typed'
  <2>1. DOMAIN rec' = Instances
    BY <1>0, <1>a DEF Typed
  <2>2. QED BY <1>0, <1>a, <2>1, TypedStays
<1>2. \A a, b : Fact(a, b)' => Fact(a, b)
  BY StoresSame DEF Fact
<1>3. ASSUME NEW i \in Instances
      PROVE  /\ Claim(i)' \subseteq Claim(i)
             /\ work'[PluginOf[i]] = work[PluginOf[i]] => Claim(i)' = Claim(i)
             /\ ~IsConfigured(i) /\ work'[PluginOf[i]] = Idle => Claim(i)' = {}
  <2>1. PluginOf[i] \in Plugins /\ rec'[i] = rec[i]
    BY InstanceAssumption
  <2>2. CASE work'[PluginOf[i]] = work[PluginOf[i]]
    <3>1. Claim(i)' = Claim(i)
      BY <2>1, <2>2, ClaimStays
    <3>2. ASSUME ~IsConfigured(i), work'[PluginOf[i]] = Idle PROVE Claim(i)' = {}
      BY <2>1, <3>2, IdleWork, ClaimDropped DEF Building
    <3>3. QED BY <3>1, <3>2
  <2>3. CASE work'[PluginOf[i]] = Idle /\ work[PluginOf[i]] # Idle
    BY <2>1, <2>3, IdleWork, ClaimDropped DEF Building
  <2>4. QED BY <2>1, <2>2, <2>3
<1>4. /\ Matched' /\ Disjoint' /\ Apart'
      /\ \A i \in Instances : \A z : Covers(i, z)' => Covers(i, z)
  BY <1>0, <1>2, <1>3, ClaimsShrink DEF Claims
<1>5. Halves'
  <2>1. ASSUME NEW q \in Pending', IfacePut(q, q.key)
        PROVE  q.val.pair \in DOMAIN ifaces' \/ \E r \in Pending' : IfacePut(r, q.val.pair)
    <3>1. CASE q.val.pair \in DOMAIN ifaces
      BY <3>1, StoresSame
    <3>2. CASE \E r \in Pending : IfacePut(r, q.val.pair)
      <4>1. PICK r \in Pending : IfacePut(r, q.val.pair)
        BY <3>2
      <4>2. IfacePut(r, r.key)
        BY <4>1 DEF IfacePut
      <4>3. QED BY <4>1, <4>2
    <3>3. q \in Pending
      OBVIOUS
    <3>4. QED BY <1>0, <2>1, <3>1, <3>2, <3>3 DEF Claims, Halves
  <2>2. QED BY <2>1 DEF Halves
<1>6. OwnPuts'
  <2>1. ASSUME NEW p \in Plugins, NEW q \in Puts(p)'
        PROVE  /\ work'[p] = work[p] /\ q \in Puts(p)
               /\ (Configuring(p)' <=> Configuring(p)) /\ (Cleaning(p)' <=> Cleaning(p))
    <3>1. work'[p] = work[p]
      BY <2>1, IdleWork
    <3>2. QED BY <2>1, <3>1 DEF Puts, Configuring, Cleaning
  <2>2. ASSUME NEW p \in Plugins, NEW q \in Puts(p)', Making(q)
        PROVE  /\ Configuring(p)'
               /\ (\/ q.key \in Claim(work[p].inst)
                   \/ IfacePut(q, q.key) /\ q.val.pair \in Claim(work[p].inst))'
    <3>1. PICK i : i = work[p].inst
      OBVIOUS
    <3>2. /\ Configuring(p) /\ Configuring(p)'
          /\ q.key \in Claim(i) \/ (IfacePut(q, q.key) /\ q.val.pair \in Claim(i))
      BY <1>0, <2>1, <2>2, <3>1 DEF Calls, OwnPuts
    <3>3. i \in Instances /\ PluginOf[i] = p
      BY <1>0, <3>1, <3>2, WorkOf DEF Configuring
    <3>4. Claim(i)' = Claim(i)
      BY <1>3, <2>1, <3>3
    <3>5. (i = work[p].inst)'
      BY <2>1, <3>1
    <3>6. QED BY <3>2, <3>4, <3>5
  <2>3. ASSUME NEW p \in Plugins, NEW q \in Puts(p)', ~Making(q)
        PROVE  /\ Cleaning(p)'
               /\ q.store = "namespaces" => q.key = rec'[work'[p].inst].netns
    <3>1. /\ Cleaning(p)
          /\ q.store = "namespaces" => q.key = rec[work[p].inst].netns
      BY <1>0, <2>1, <2>3 DEF Calls, OwnPuts
    <3>2. QED BY <1>a, <2>1, <3>1
  <2>4. QED BY <2>2, <2>3 DEF OwnPuts
<1>7. StrayPuts'
  <2>1. ASSUME NEW q \in Strays', Making(q), NEW i \in Instances
        PROVE  /\ q.key \notin Claim(i)'
               /\ IfacePut(q, q.key) => q.val.pair \notin Claim(i)'
    <3>1. q \in Pending
      BY PendingIs
    <3>2. CASE Claim(i)' = {}
      BY <3>2
    <3>3. CASE q \in Strays
      BY <1>0, <1>3, <2>1, <3>1, <3>3, SparedBoth
    <3>4. ASSUME NEW r \in Plugins, q \in Puts(r), work'[r] = Idle, Claim(i)' # {}
          PROVE  work[r].inst # i
      <4>1. Configuring(r) /\ Progress(r)
        BY <1>0, <2>1, <3>4 DEF Calls, OwnPuts, Works
      <4>2. ~IsConfigured(work[r].inst) /\ PluginOf[work[r].inst] = r
        BY <1>0, <4>1, WorkOf DEF Progress, IsConfigured, Configuring
      <4>3. QED BY <1>3, <3>4, <4>2
    <3>5. QED BY <1>0, <1>3, <2>1, <3>1, <3>2, <3>3, <3>4, SparedBoth
  <2>2. QED BY <2>1 DEF StrayPuts
<1>8. Removals'
  <2>1. ASSUME NEW q \in Pending', ~Making(q)
        PROVE  /\ \A i \in Instances : Covers(i, q.key)' =>
                    /\ IsConfigured(i)
                    /\ q.key = rec[i].netns \/ rec[i].netns \notin DOMAIN namespaces
               /\ \A r \in Pending' : IfacePut(r, r.key) => q.key \notin {r.key, r.val.pair}
    <3>1. q \in Pending
      OBVIOUS
    <3>2. /\ \A i \in Instances : Covers(i, q.key) =>
               /\ IsConfigured(i)
               /\ q.key = rec[i].netns \/ rec[i].netns \notin DOMAIN namespaces
          /\ \A r \in Pending : IfacePut(r, r.key) => q.key \notin {r.key, r.val.pair}
      BY <1>0, <2>1, <3>1 DEF Calls, Removals
    <3>3. QED BY <1>4, <3>2
  <2>2. \A i : IsConfigured(i)' <=> IsConfigured(i)
    BY DEF IsConfigured
  <2>3. QED BY <2>1, <2>2, StoresSame DEF Removals
<1>9. Works'
  BY <1>0, <1>a, WorksStay
<1>10. QED
  BY <1>1, <1>4, <1>5, <1>6, <1>7, <1>8, <1>9 DEF IInv, Claims, Calls

-----------------------------------------------------------------------------
(* One put of a call is done                                               *)

(* Operation p goes on as before, but for what is left to put.             *)
SamePlan(p) ==
  /\ DOMAIN work'[p] = DOMAIN work[p]
  /\ work'[p].pc = work[p].pc /\ work'[p].inst = work[p].inst
  /\ work'[p].netns = work[p].netns /\ work'[p].cps = work[p].cps
  /\ work'[p].intfs = work[p].intfs /\ work'[p].pair = work[p].pair
  /\ work'[p].k = work[p].k /\ work'[p].rest = work[p].rest

LEMMA PlanIs ==
  ASSUME NEW p, SamePlan(p)
  PROVE  /\ Configuring(p)' <=> Configuring(p)
         /\ Cleaning(p)' <=> Cleaning(p)
         /\ Made(p)' = Made(p)
BY DEF SamePlan, Configuring, Cleaning, Made

LEMMA ClaimPlan ==
  ASSUME NEW i, rec'[i] = rec[i], SamePlan(PluginOf[i])
  PROVE  Claim(i)' = Claim(i)
<1> DEFINE p == PluginOf[i]
<1>1. /\ Configuring(p)' <=> Configuring(p)
      /\ Made(p)' = Made(p)
      /\ work'[p].inst = work[p].inst /\ work'[p].netns = work[p].netns
      /\ work'[p].intfs = work[p].intfs
  BY PlanIs DEF SamePlan
<1>2. /\ Building(i)' <=> Building(i)
      /\ IsConfigured(i)' <=> IsConfigured(i)
      /\ Listed(i)' = Listed(i)
  BY <1>1 DEF Building, IsConfigured, Listed
<1>3. QED BY <1>1, <1>2 DEF Claim

(* Reading a list, q, leaves a put of that list, r.                        *)
Follows(r, q) == q.store = "unlist" /\ ListPut(r, q.key) /\ IsPut(r)

(* Put q of an operation or of a stray is made, and nothing else happens.  *)
Making1(q) ==
  /\ q \in Pending /\ Effect(q) /\ vnets' = vnets /\ rec' = rec
  /\ DOMAIN work' = Plugins
  /\ \A p \in Plugins :
       \/ work'[p] = work[p]
       \/ work[p].pc # "idle" /\ SamePlan(p) /\ PutSeq(work'[p].puts)
  /\ \A s \in strays' : PutSeq(s) /\ s # <<>>
  /\ \A p \in Plugins : \A r \in Puts(p)' :
       r \in Puts(p) \/ (q \in Puts(p) /\ Follows(r, q))
  /\ \A r \in Strays' : r \in Strays \/ (q \in Strays /\ Follows(r, q))
  /\ \A r \in Pending : r \in Pending' \/ r = q
  /\ faults' \in 0 .. MaxFaults /\ failed' \in BOOLEAN

LEMMA MadePlans ==
  ASSUME NEW q, Making1(q)
  PROVE  /\ \A p \in Plugins : SamePlan(p)
         /\ \A i \in Instances : Claim(i)' = Claim(i)
         /\ \A r \in Pending' : r \in Pending \/ Follows(r, q)
<1>1. \A p \in Plugins : SamePlan(p)
  BY DEF Making1, SamePlan
<1>2. ASSUME NEW i \in Instances PROVE Claim(i)' = Claim(i)
  <2>1. PluginOf[i] \in Plugins /\ rec'[i] = rec[i]
    BY InstanceAssumption DEF Making1
  <2>2. QED BY <1>1, <2>1, ClaimPlan
<1>3. \A r \in Pending' : r \in Pending \/ Follows(r, q)
  BY PendingIs DEF Making1
<1>4. QED BY <1>1, <1>2, <1>3

LEMMA MadeTyped ==
  ASSUME Typed, NEW q, Making1(q) PROVE Typed'
<1>0. IsPut(q) /\ Effect(q)
  BY PendingTyped DEF Making1
<1>1. \A x \in DOMAIN ifaces' :
        x \in Ifaces /\ IsInterface(ifaces'[x]) /\ ifaces'[x] \in VethRecord
  <2>1. ASSUME NEW x \in DOMAIN ifaces', Kept(ifaces, ifaces', x)
        PROVE  x \in Ifaces /\ IsInterface(ifaces'[x]) /\ ifaces'[x] \in VethRecord
    <3>1. x \in DOMAIN ifaces /\ ifaces'[x] = ifaces[x]
      BY <2>1 DEF Kept
    <3>2. QED BY <3>1 DEF Typed, TypeOK
  <2>2. ASSUME NEW x \in DOMAIN ifaces', ~Kept(ifaces, ifaces', x)
        PROVE  x \in Ifaces /\ ifaces'[x] \in VethRecord
    <3>1. q.store = "ifaces" /\ x = q.key /\ Making(q) /\ ifaces'[x] = q.val
      BY <1>0, <2>2 DEF Effect
    <3>2. QED BY <1>0, <3>1, PutKinds DEF IfacePut
  <2>3. QED BY <2>1, <2>2, VethAre
<1>2. \A n \in DOMAIN namespaces' :
        n \in NetNs /\ IsList(namespaces'[n], Ifaces) /\ namespaces'[n] \in Lists
  <2>1. ASSUME NEW n \in DOMAIN namespaces', Kept(namespaces, namespaces', n)
        PROVE  n \in NetNs /\ IsList(namespaces'[n], Ifaces) /\ namespaces'[n] \in Lists
    <3>1. n \in DOMAIN namespaces /\ namespaces'[n] = namespaces[n]
      BY <2>1 DEF Kept
    <3>2. QED BY <3>1 DEF Typed, TypeOK
  <2>2. ASSUME NEW n \in DOMAIN namespaces', ~Kept(namespaces, namespaces', n)
        PROVE  n \in NetNs /\ namespaces'[n] \in Lists
    <3>1. q.store = "namespaces" /\ n = q.key /\ Making(q) /\ namespaces'[n] = q.val
      BY <1>0, <2>2 DEF Effect
    <3>2. QED BY <1>0, <3>1, PutKinds DEF ListPut
  <2>3. QED BY <2>1, <2>2, ListsAre
<1>3. cps' \subseteq Cps
  <2>1. cps \subseteq Cps
    BY DEF Typed, TypeOK
  <2>2. q.store = "cps" => q.key \in Cps
    BY <1>0, PutKinds
  <2>3. QED BY <1>0, <2>1, <2>2 DEF Effect
<1>4. TypeOK'
  BY <1>1, <1>2, <1>3 DEF Typed, TypeOK, Making1
<1>5. \A i \in Instances : RecTyped(i)'
  BY DEF Typed, RecTyped, IsConfigured, Making1
<1>6. ASSUME NEW p \in Plugins PROVE WorkTyped(p)'
  <2>1. WorkTyped(p)
    BY DEF Typed
  <2>2. CASE work'[p] = work[p]
    BY <2>1, <2>2 DEF WorkTyped
  <2>3. CASE work[p].pc # "idle" /\ SamePlan(p) /\ PutSeq(work'[p].puts)
    BY <2>1, <2>3 DEF WorkTyped, SamePlan
  <2>4. QED BY <2>2, <2>3 DEF Making1
<1>7. DOMAIN rec' = Instances /\ DOMAIN work' = Plugins
  BY DEF Typed, Making1
<1>8. (\A s \in strays' : PutSeq(s) /\ s # <<>>)
      /\ faults' \in 0 .. MaxFaults /\ failed' \in BOOLEAN
  BY DEF Making1
<1>9. QED BY <1>1, <1>2, <1>4, <1>5, <1>6, <1>7, <1>8 DEF Typed

LEMMA MadeClaims ==
  ASSUME IInv, NEW q, Making1(q)
  PROVE  /\ Claims'
         /\ \A i \in Instances : \A z : Covers(i, z)' => Covers(i, z)
<1>0. Typed /\ Claims /\ Calls
  BY DEF IInv
<1>a. q \in Pending /\ Effect(q) /\ IsPut(q)
  BY <1>0, PendingTyped DEF Making1
<1>1. ASSUME NEW r \in Pending', NEW z, IfacePut(r, z) PROVE r \in Pending
  BY <1>1, MadePlans DEF Follows, ListPut, IfacePut
<1>2. ASSUME NEW a, NEW b, Fact(a, b)' PROVE Fact(a, b)
  <2>1. CASE \E r \in Pending' : IfacePut(r, a) /\ r.val.pair = b
    BY <1>1, <2>1 DEF Fact
  <2>2. CASE a \in DOMAIN ifaces' /\ ifaces'[a].pair = b
    <3>1. CASE Kept(ifaces, ifaces', a)
      BY <2>2, <3>1 DEF Kept, Fact
    <3>2. CASE ~Kept(ifaces, ifaces', a)
      <4>1. IfacePut(q, a) /\ ifaces'[a] = q.val
        BY <1>a, <2>2, <3>2 DEF Effect, IfacePut
      <4>2. QED BY <1>a, <2>2, <4>1 DEF Fact
    <3>3. QED BY <3>1, <3>2
  <2>3. QED BY <1>2, <2>1, <2>2 DEF Fact
<1>3. /\ Matched' /\ Disjoint' /\ Apart'
      /\ \A i \in Instances : \A z : Covers(i, z)' => Covers(i, z)
  BY <1>0, <1>2, ClaimsShrink, MadePlans DEF Claims
<1>4. ASSUME NEW r \in Pending', IfacePut(r, r.key)
      PROVE  r.val.pair \in DOMAIN ifaces' \/ \E t \in Pending' : IfacePut(t, r.val.pair)
  <2> DEFINE b == r.val.pair
  <2>1. r \in Pending
    BY <1>1, <1>4
  <2>2. CASE b \in DOMAIN ifaces
    <3>1. ASSUME ~Making(q) PROVE b # q.key
      BY <1>0, <1>4, <1>a, <2>1, <3>1 DEF Calls, Removals
    <3>2. b \in DOMAIN ifaces'
      BY <1>a, <2>2, <3>1 DEF Effect, Kept
    <3>3. QED BY <3>2
  <2>3. CASE \E t \in Pending : IfacePut(t, b)
    <3>1. PICK t \in Pending : IfacePut(t, b)
      BY <2>3
    <3>2. t = q => b \in DOMAIN ifaces'
      BY <1>a, <3>1 DEF Effect, IfacePut
    <3>3. QED BY <3>1, <3>2 DEF Making1
  <2>4. QED BY <1>0, <1>4, <2>1, <2>2, <2>3 DEF Claims, Halves
<1>5. QED BY <1>3, <1>4 DEF Claims, Halves

(* Nobody makes the namespace of a configured instance again.              *)
LEMMA MadeCalls ==
  ASSUME IInv, NEW q, Making1(q)
  PROVE  Calls'
<1>0. Typed /\ Claims /\ Calls
  BY DEF IInv
<1>a. q \in Pending /\ Effect(q) /\ IsPut(q) /\ rec' = rec
  BY <1>0, PendingTyped DEF Making1
<1>b. ASSUME NEW r, Follows(r, q)
      PROVE  /\ Making(q) /\ Making(r) /\ r.key = q.key /\ ~IfacePut(r, r.key)
             /\ ~IfacePut(q, q.key)
  BY <1>a, <1>b, PutKinds DEF Follows, ListPut, IfacePut
<1>1. OwnPuts'
  <2>1. ASSUME NEW p \in Plugins, NEW r \in Puts(p)', Making(r)
        PROVE  /\ Configuring(p)'
               /\ (\/ r.key \in Claim(work[p].inst)
                   \/ IfacePut(r, r.key) /\ r.val.pair \in Claim(work[p].inst))'
    <3>1. PICK i : i = work[p].inst
      OBVIOUS
    <3>2. /\ Configuring(p)
          /\ r.key \in Claim(i) \/ (IfacePut(r, r.key) /\ r.val.pair \in Claim(i))
      <4>1. CASE r \in Puts(p)
        BY <1>0, <2>1, <3>1, <4>1 DEF Calls, OwnPuts
      <4>2. CASE q \in Puts(p) /\ Follows(r, q)
        <5>1. /\ Configuring(p)
              /\ q.key \in Claim(i) \/ (IfacePut(q, q.key) /\ q.val.pair \in Claim(i))
          BY <1>0, <1>b, <3>1, <4>2 DEF Calls, OwnPuts
        <5>2. QED BY <1>b, <4>2, <5>1
      <4>3. QED BY <4>1, <4>2 DEF Making1
    <3>3. i \in Instances
      BY <1>0, <3>1, <3>2, WorkOf DEF Configuring
    <3>4. Claim(i)' = Claim(i)
      BY <3>3, MadePlans
    <3>5. (i = work[p].inst)' /\ Configuring(p)'
      BY <3>1, <3>2, MadePlans, PlanIs DEF SamePlan
    <3>6. QED BY <3>2, <3>4, <3>5
  <2>2. ASSUME NEW p \in Plugins, NEW r \in Puts(p)', ~Making(r)
        PROVE  /\ Cleaning(p)'
               /\ r.store = "namespaces" => r.key = rec'[work'[p].inst].netns
    <3>1. r \in Puts(p)
      BY <1>b, <2>2 DEF Making1
    <3>2. /\ Cleaning(p)
          /\ r.store = "namespaces" => r.key = rec[work[p].inst].netns
      BY <1>0, <2>2, <3>1 DEF Calls, OwnPuts
    <3>3. QED BY <1>a, <3>2, MadePlans, PlanIs DEF SamePlan
  <2>3. QED BY <2>1, <2>2 DEF OwnPuts
<1>2. StrayPuts'
  <2>1. ASSUME NEW r \in Strays', Making(r), NEW i \in Instances
        PROVE  /\ r.key \notin Claim(i)
               /\ IfacePut(r, r.key) => r.val.pair \notin Claim(i)
    <3>1. CASE r \in Strays
      BY <1>0, <2>1, <3>1 DEF Calls, StrayPuts
    <3>2. CASE q \in Strays /\ Follows(r, q)
      BY <1>0, <1>b, <3>2 DEF Calls, StrayPuts
    <3>3. QED BY <3>1, <3>2 DEF Making1
  <2>2. QED BY <2>1, MadePlans DEF StrayPuts
<1>3. Removals'
  <2>1. ASSUME NEW r \in Pending', ~Making(r)
        PROVE  r \in Pending
    BY <1>b, <2>1, MadePlans
  <2>2. ASSUME NEW r \in Pending', ~Making(r), NEW t \in Pending', IfacePut(t, t.key)
        PROVE  r.key \notin {t.key, t.val.pair}
    <3>1. t \in Pending
      BY <1>b, <2>2, MadePlans
    <3>2. QED BY <1>0, <2>1, <2>2, <3>1 DEF Calls, Removals
  <2>3. ASSUME NEW r \in Pending', ~Making(r), NEW i \in Instances, Covers(i, r.key)'
        PROVE  /\ IsConfigured(i)
               /\ r.key = rec[i].netns \/ rec[i].netns \notin DOMAIN namespaces'
    <3>1. Covers(i, r.key)
      BY <2>3, MadeClaims
    <3>2. /\ IsConfigured(i)
          /\ r.key = rec[i].netns \/ rec[i].netns \notin DOMAIN namespaces
      BY <1>0, <2>1, <2>3, <3>1 DEF Calls, Removals
    <3>3. ASSUME Making(q) PROVE q.key # rec[i].netns
      <4>1. ~Covers(i, q.key)
        BY <1>a, <3>2, <3>3, ConfiguredSpared
      <4>2. rec[i].netns \in Claim(i)
        BY <3>2 DEF Claim
      <4>3. QED BY <4>1, <4>2 DEF Covers
    <3>4. rec[i].netns \notin DOMAIN namespaces => rec[i].netns \notin DOMAIN namespaces'
      BY <1>a, <3>3 DEF Effect, Kept
    <3>5. QED BY <3>2, <3>4
  <2>4. \A i : IsConfigured(i)' <=> IsConfigured(i)
    BY <1>a DEF IsConfigured
  <2>5. QED BY <1>a, <2>2, <2>3, <2>4 DEF Removals
<1>4. QED BY <1>1, <1>2, <1>3 DEF Calls

-----------------------------------------------------------------------------
(* Who minds that a put is made                                            *)

LEMMA NotCovered ==
  ASSUME NEW q, Effect(q), NEW i, ~Covers(i, q.key) PROVE Untouched(i)
BY DEF Effect, Untouched

(* The operations of other instances do not.                               *)
LEMMA Foreign ==
  ASSUME Typed, Claims, Calls, NEW q \in Pending, Effect(q),
         NEW i \in Instances, ~IsConfigured(i),
         q \in Strays \/ \E p \in Plugins : q \in Puts(p) /\ work[p].inst # i
  PROVE  Untouched(i)
<1>1. CASE Making(q)
  BY <1>1, Spared, NotCovered
<1>2. CASE ~Making(q)
  BY <1>2, NotCovered DEF Calls, Removals
<1>3. QED BY <1>1, <1>2

(* Making q, one of P, leaves Q to be put.                                 *)
Leaves(P, Q, q) ==
  \/ Q = P \ {q} /\ q.store # "unlist"
  \/ /\ q.store = "unlist" /\ P = {q} /\ Unlistable(q)
     /\ \E r : /\ Q = {r} /\ ListPut(r, q.key)
               /\ DOMAIN namespaces[q.key] \ {q.val} \subseteq DOMAIN r.val

LEMMA LinkMade ==
  ASSUME NEW P, NEW Q, NEW q \in P, Effect(q), Making(q), Leaves(P, Q, q),
         \A r, t \in P : r.key = t.key => r = t,
         NEW n, n \in DOMAIN namespaces \/ \E r \in P : ListPut(r, n),
         NEW x, Linked(ifaces, namespaces, P, x, n)
  PROVE  /\ Linked(ifaces', namespaces', Q, x, n)
         /\ Val(ifaces', Q, x) = Val(ifaces, P, x)
         /\ Outer(ifaces', Q, x) = Outer(ifaces, P, x)
<1>1. \/ Q = P \ {q}
      \/ q.store = "unlist" /\ P = {q} /\ \A r \in Q : r.store = "namespaces"
  BY DEF Leaves, ListPut
<1>2. \A z : Has(ifaces, P, z) =>
               Has(ifaces', Q, z) /\ Val(ifaces', Q, z) = Val(ifaces, P, z)
  BY <1>1, ViewIfaces
<1>3. \A z : InList(namespaces, P, n, z) => InList(namespaces', Q, n, z)
  BY ViewList DEF Leaves
<1>4. QED BY <1>2, <1>3 DEF Linked, Outer

(* The operation itself has what it had.                                   *)
LEMMA ProgressMade ==
  ASSUME Typed, NEW p \in Plugins, Configuring(p), Progress(p),
         NEW q \in Puts(p), Effect(q), Making(q), SamePlan(p), rec' = rec,
         NEW Q, Puts(p)' = Q, Leaves(Puts(p), Q, q)
  PROVE  Progress(p)'
<1> DEFINE w == work[p]  i == w.inst  P == Puts(p)
<1>1. \A r, t \in P : r.key = t.key => r = t
  <2>1. PutSeq(w.puts)
    BY DEF Typed, WorkTyped
  <2>2. QED BY <2>1, KeysApart DEF Puts
<1>2. w.pc # "namespace" /\ w.intfs \in Seq(Ifaces)
  <2>1. w.pc = "namespace" => w.puts = <<>>
    BY DEF Progress
  <2>2. QED BY <2>1, NoPuts DEF Typed, WorkTyped, Puts
<1>3. w.netns \in NetNs /\ (w.netns \in DOMAIN namespaces \/ \E r \in P : ListPut(r, w.netns))
  BY <1>2 DEF Progress
<1>4. w.netns \in DOMAIN namespaces' \/ \E r \in Q : ListPut(r, w.netns)
  BY <1>1, <1>3, ViewList DEF Leaves
<1>5. \A c \in Made(p) : c \in cps' \/ \E r \in Q : CpPut(r, c)
  <2>1. ASSUME NEW c \in Made(p) PROVE c \in cps' \/ \E r \in Q : CpPut(r, c)
    <3>1. CASE c \in cps
      BY <3>1 DEF Effect
    <3>2. CASE \E r \in P : CpPut(r, c)
      <4>1. PICK r \in P : CpPut(r, c)
        BY <3>2
      <4>2. r = q => c \in cps'
        BY <4>1 DEF Effect, CpPut
      <4>3. r # q => r \in Q
        BY <4>1 DEF Leaves
      <4>4. QED BY <4>1, <4>2, <4>3
    <3>3. QED BY <3>1, <3>2 DEF Progress
  <2>2. QED BY <2>1
<1>6. ASSUME NEW m \in 1 .. Len(w.intfs)
      PROVE  /\ Linked(ifaces', namespaces', Q, w.intfs[m], w.netns)
             /\ Val(ifaces', Q, w.intfs[m]) = Val(ifaces, P, w.intfs[m])
             /\ Outer(ifaces', Q, w.intfs[m]) = Outer(ifaces, P, w.intfs[m])
  <2> DEFINE x == w.intfs[m]  n == w.netns
  <2>1. Linked(ifaces, namespaces, P, x, n)
    BY DEF Progress
  <2>2. /\ n \in DOMAIN namespaces \/ \E r \in P : ListPut(r, n)
        /\ Leaves(P, Q, q) /\ q \in P
    BY <1>3
  <2> HIDE DEF P, w, x, n
  <2>3. /\ Linked(ifaces', namespaces', Q, x, n)
        /\ Val(ifaces', Q, x) = Val(ifaces, P, x)
        /\ Outer(ifaces', Q, x) = Outer(ifaces, P, x)
    BY <1>1, <2>1, <2>2, LinkMade
  <2>4. QED BY <2>3 DEF x, n
<1>7. w.pc = "attach" => Last(w.intfs) = w.intfs[Len(w.intfs)]
                         /\ Len(w.intfs) \in 1 .. Len(w.intfs)
  <2>1. ASSUME w.pc = "attach" PROVE Len(w.intfs) \in 1 .. Len(w.intfs)
    <3>1. w.k \in Nat /\ w.k > Len(CpsOf[i]) /\ Len(w.intfs) = w.k - Len(CpsOf[i])
      BY <2>1 DEF Progress, Typed, WorkTyped
    <3>2. Len(CpsOf[i]) \in Nat
      BY ClaimOf, InstanceAssumption
    <3>3. QED BY <3>1, <3>2
  <2>2. QED BY <2>1 DEF Last
<1>8. /\ \A m \in 1 .. Len(w.intfs) : w.pc = "create" \/ m # Len(w.intfs) =>
           Ends(IntfsOf[i][m], Outer(ifaces', Q, w.intfs[m]), Made(p))
      /\ w.pc = "attach" =>
           /\ Val(ifaces', Q, Last(w.intfs)).pair = w.pair
           /\ Outer(ifaces', Q, Last(w.intfs)) = w.netns
  <2>1. \A m \in 1 .. Len(w.intfs) : w.pc = "create" \/ m # Len(w.intfs) =>
          Ends(IntfsOf[i][m], Outer(ifaces, P, w.intfs[m]), Made(p))
    BY DEF Progress
  <2>2. w.pc = "attach" =>
          /\ Val(ifaces, P, Last(w.intfs)).pair = w.pair
          /\ Outer(ifaces, P, Last(w.intfs)) = w.netns
    BY DEF Progress
  <2> HIDE DEF w, i, P
  <2>3. QED BY <1>6, <1>7, <2>1, <2>2
<1>9. /\ rec[i].status = "DEFINED"
      /\ \A a, b \in DOMAIN w.cps : w.cps[a] = w.cps[b] => a = b
      /\ DOMAIN w.cps = {CpsOf[i][m] : m \in {n \in 1 .. Len(CpsOf[i]) : n < w.k}}
      /\ w.pc = "attach" =>
           /\ w.k > Len(CpsOf[i]) /\ Len(w.intfs) = w.k - Len(CpsOf[i])
           /\ Len(w.intfs) <= Len(IntfsOf[i])
      /\ w.pc = "create" /\ w.k <= Len(CpsOf[i]) => w.intfs = <<>>
      /\ w.pc = "create" /\ w.k > Len(CpsOf[i]) =>
           /\ Len(w.intfs) = w.k - Len(CpsOf[i]) - 1
           /\ Len(w.intfs) <= Len(IntfsOf[i])
  BY DEF Progress
<1>10. QED
  <2> DEFINE v == work'[p]
  <2>1. /\ v.pc = w.pc /\ v.inst = i /\ v.netns = w.netns /\ v.cps = w.cps
        /\ v.intfs = w.intfs /\ v.pair = w.pair /\ v.k = w.k
        /\ Made(p)' = Made(p) /\ rec'[v.inst] = rec[i]
    BY PlanIs DEF SamePlan
  <2> HIDE DEF w, i, P, v
  <2>2. QED
    BY <1>2, <1>3, <1>4, <1>5, <1>6, <1>8, <1>9, <2>1 DEF Progress, v

(* A cleanup has less to remove.                                           *)
LEMMA CleanupMade ==
  ASSUME Typed, NEW p \in Plugins, Cleaning(p), Cleanup(p),
         NEW q \in Puts(p), Effect(q), ~Making(q), SamePlan(p), rec' = rec,
         Puts(p)' = Puts(p) \ {q}
  PROVE  Cleanup(p)'
<1>1. PICK w, v, i, r : w = work[p] /\ v = work'[p] /\ i = w.inst /\ r = rec[i]
  OBVIOUS
<1>2. /\ v.pc = w.pc /\ v.inst = i /\ v.netns = w.netns /\ v.k = w.k
      /\ v.rest = w.rest /\ v.intfs = w.intfs
  BY <1>1 DEF SamePlan
<1>3. w.pc = "delete"
  <2>1. w.pc = "clean" => w.puts = <<>>
    BY <1>1 DEF Cleanup
  <2>2. QED BY <1>1, <2>1, NoPuts DEF Cleaning, Puts
<1>4. IsPut(q)
  BY PutsPending, PendingTyped
<1>5. \A z : Removing(p, z) => Removing(p, z)' \/ z = q.key
  BY DEF Removing
<1>6. r.netns \in DOMAIN namespaces' => r.netns \in DOMAIN namespaces /\ r.netns # q.key
  <2>1. r.netns \in DOMAIN namespaces' => r.netns \in DOMAIN namespaces
    BY DEF Effect, Kept
  <2>2. ASSUME r.netns = q.key, r.netns \in DOMAIN namespaces PROVE q.store = "namespaces"
    <3>1. r.netns \in NetNs
      BY <2>2 DEF Typed, TypeOK
    <3>2. QED BY <1>4, <2>2, <3>1, PutKinds, Keys
  <2>3. QED BY <2>1, <2>2 DEF Effect
<1>7. ASSUME NEW c \in r.cps, c \in cps' PROVE c \in cps /\ c # q.key
  <2>1. c \in cps
    BY <1>7 DEF Effect
  <2>2. ASSUME c = q.key PROVE q.store = "cps"
    <3>1. c \in Cps
      BY <2>1 DEF Typed, TypeOK
    <3>2. QED BY <1>4, <2>2, <3>1, PutKinds, Keys
  <2>3. QED BY <1>7, <2>1, <2>2 DEF Effect
<1>8. ASSUME NEW z \in DOMAIN ifaces'
      PROVE  z \in DOMAIN ifaces /\ ifaces'[z] = ifaces[z] /\ z # q.key
  <2>1. z \in DOMAIN ifaces /\ ifaces'[z] = ifaces[z]
    BY <1>8 DEF Effect, Kept
  <2>2. ASSUME z = q.key PROVE q.store = "ifaces"
    <3>1. z \in Ifaces
      BY <2>1 DEF Typed, TypeOK
    <3>2. QED BY <1>4, <2>2, <3>1, PutKinds, Keys
  <2>3. QED BY <1>8, <2>1, <2>2 DEF Effect
<1>9. /\ r.netns \in DOMAIN namespaces' => Removing(p, r.netns)'
      /\ \A c \in (r.cps \cap cps') \ w.rest : Removing(p, c)'
      /\ \A m \in 1 .. Len(r.intfs) : m < w.k =>
           /\ r.intfs[m] \in DOMAIN ifaces' => Removing(p, r.intfs[m])'
           /\ \A z \in DOMAIN ifaces' :
                ifaces'[z].pair = r.intfs[m] => Removing(p, z)'
  <2>1. /\ r.netns \in DOMAIN namespaces => Removing(p, r.netns)
        /\ \A c \in (r.cps \cap cps) \ w.rest : Removing(p, c)
        /\ \A m \in 1 .. Len(r.intfs) : m < w.k =>
             /\ r.intfs[m] \in DOMAIN ifaces => Removing(p, r.intfs[m])
             /\ \A z \in DOMAIN ifaces :
                  ifaces[z].pair = r.intfs[m] => Removing(p, z)
    BY <1>1, <1>3 DEF Cleanup
  <2>2. QED BY <1>5, <1>6, <1>7, <1>8, <2>1
<1>10. /\ IsConfigured(i)' /\ v.netns = r.netns /\ v.rest \subseteq r.cps
       /\ v.intfs = r.intfs
  BY <1>1, <1>2 DEF Cleanup, IsConfigured
<1>11. r = rec'[i] /\ v.pc = "delete"
  BY <1>1, <1>2, <1>3
<1>12. QED BY <1>1, <1>2, <1>9, <1>10, <1>11 DEF Cleanup

(* The cleanup of a configured instance does not mind the puts of others.  *)
LEMMA CleanupForeign ==
  ASSUME IInv, NEW q \in Pending, Effect(q), rec' = rec,
         NEW p \in Plugins, Cleaning(p), work'[p] = work[p]
  PROVE  Cleaning(p)' /\ Cleanup(p)'
<1> DEFINE i == work[p].inst
<1>0. Typed /\ Cleanup(p) /\ i \in Instances /\ IsConfigured(i) /\ IsPut(q)
  BY WorkOf, PendingTyped DEF IInv, Works, Cleanup, Cleaning
<1>1. Claim(i) = {rec[i].netns} \cup rec[i].cps \cup Listed(i)
  BY <1>0 DEF Claim
<1>2. Making(q) => ~Covers(i, q.key)
  BY <1>0, ConfiguredSpared
<1>3. rec[i].netns \in DOMAIN namespaces' => rec[i].netns \in DOMAIN namespaces
  <2>1. CASE Making(q)
    BY <1>1, <1>2, <2>1 DEF Covers, Effect, Kept
  <2>2. CASE ~Making(q)
    BY <2>2 DEF Effect, Kept
  <2>3. QED BY <2>1, <2>2
<1>4. rec[i].cps \cap cps' \subseteq cps
  <2>1. CASE Making(q)
    BY <1>1, <1>2, <2>1 DEF Covers, Effect
  <2>2. CASE ~Making(q)
    BY <2>2 DEF Effect
  <2>3. QED BY <2>1, <2>2
<1>5. ASSUME NEW z \in DOMAIN ifaces', z \in Listed(i) \/ ifaces'[z].pair \in Listed(i)
      PROVE  z \in DOMAIN ifaces /\ ifaces'[z] = ifaces[z]
  <2>1. CASE Kept(ifaces, ifaces', z)
    BY <1>5, <2>1 DEF Kept
  <2>2. CASE ~Kept(ifaces, ifaces', z)
    <3>1. IfacePut(q, z) /\ ifaces'[z] = q.val /\ z = q.key /\ Making(q)
      BY <1>5, <2>2 DEF Effect, IfacePut
    <3>2. Mates(q.val.pair, z)
      BY <3>1 DEF Mates, Fact
    <3>3. QED BY <1>1, <1>2, <1>5, <3>1, <3>2 DEF Covers
  <2>3. QED BY <2>1, <2>2
<1>6. rec[i].intfs \in Seq(Ifaces)
  BY <1>0 DEF Typed, RecTyped
<1>7. i = work[p].inst /\ rec'[i] = rec[i]
  OBVIOUS
<1> HIDE DEF i
<1>8. QED BY <1>0, <1>3, <1>4, <1>5, <1>6, <1>7, CleanupKept

(* What a configured instance has stays until its namespace is removed.    *)
LEMMA WholeMade ==
  ASSUME IInv, NEW q \in Pending, Effect(q), rec' = rec, NEW i \in Instances
  PROVE  Whole(i)'
<1>1. Typed /\ Calls /\ Whole(i) /\ IsPut(q)
  BY PendingTyped DEF IInv, Works
<1>2. CASE ~IsConfigured(i)
  BY <1>1, <1>2, WholeKept
<1>3. CASE IsConfigured(i) /\ ~Covers(i, q.key)
  BY <1>1, <1>3, NotCovered, WholeKept
<1>4. CASE IsConfigured(i) /\ Covers(i, q.key)
  <2>1. ~Making(q)
    BY <1>4, ConfiguredSpared
  <2>2. q.key = rec[i].netns \/ rec[i].netns \notin DOMAIN namespaces
    BY <1>1, <1>4, <2>1 DEF Calls, Removals
  <2>3. CASE rec[i].netns \notin DOMAIN namespaces
    <3>1. rec[i].netns \notin DOMAIN namespaces'
      BY <2>1, <2>3 DEF Effect, Kept
    <3>2. QED BY <1>1, <3>1, WholeKept
  <2>4. CASE q.key = rec[i].netns /\ rec[i].netns \in DOMAIN namespaces
    <3>1. rec[i].netns \in NetNs
      BY <1>1, <2>4 DEF Typed, TypeOK
    <3>2. q.store = "namespaces"
      BY <1>1, <2>1, <2>4, <3>1, PutKinds, Keys
    <3>3. rec[i].netns \notin DOMAIN namespaces'
      BY <2>1, <2>4, <3>2 DEF Effect
    <3>4. QED BY <1>1, <3>3, WholeKept
  <2>5. QED BY <2>2, <2>3, <2>4
<1>5. QED BY <1>2, <1>3, <1>4

(* The plugins that put q go on; the others see nothing.                   *)
LEMMA MadeHolds ==
  ASSUME IInv, NEW q, Making1(q),
         \A r \in Plugins :
           \/ /\ work'[r] = work[r]
              /\ q \in Strays \/ \E p \in Plugins : q \in Puts(p) /\ p # r
           \/ q \in Puts(r) /\ Leaves(Puts(r), Puts(r)', q)
  PROVE  IInv'
<1>0. Typed /\ Claims /\ Calls /\ Works
  BY DEF IInv
<1>a. q \in Pending /\ Effect(q) /\ IsPut(q) /\ rec' = rec
  BY <1>0, PendingTyped DEF Making1
<1>1. ASSUME NEW r \in Plugins,
             work'[r] = work[r],
             q \in Strays \/ \E p \in Plugins : q \in Puts(p) /\ p # r
      PROVE  (Configuring(r)' => Progress(r)') /\ (Cleaning(r)' => Cleanup(r)')
  <2>1. Configuring(r)' <=> Configuring(r)
    BY <1>1 DEF Configuring
  <2>2. Cleaning(r)' <=> Cleaning(r)
    BY <1>1 DEF Cleaning
  <2>3. ASSUME Configuring(r) PROVE Progress(r)'
    <3> DEFINE i == work[r].inst
    <3>1. Progress(r) /\ i \in Instances /\ PluginOf[i] = r /\ ~IsConfigured(i)
      BY <1>0, <2>3, WorkOf DEF Works, Configuring, Progress, IsConfigured
    <3>2. ASSUME NEW p \in Plugins, q \in Puts(p), p # r PROVE work[p].inst # i
      <4>1. work[p].pc # "idle"
        BY <1>0, <3>2, IdleIs, NoPuts DEF Typed, WorkTyped, Puts
      <4>2. QED BY <1>0, <3>1, <3>2, <4>1, WorkOf
    <3>3. Untouched(i)
      BY <1>0, <1>a, <1>1, <3>1, <3>2, Foreign
    <3>4. QED BY <1>0, <1>a, <1>1, <2>3, <3>1, <3>3, ProgressKept
  <2>4. ASSUME Cleaning(r) PROVE Cleanup(r)'
    BY <1>a, <1>1, <2>4, CleanupForeign
  <2>5. QED BY <2>1, <2>2, <2>3, <2>4
<1>2. ASSUME NEW r \in Plugins, q \in Puts(r), Leaves(Puts(r), Puts(r)', q)
      PROVE  (Configuring(r)' => Progress(r)') /\ (Cleaning(r)' => Cleanup(r)')
  <2>1. SamePlan(r)
    BY MadePlans
  <2>2. CASE Making(q)
    <3>1. Configuring(r) /\ Progress(r) /\ ~Cleaning(r)
      BY <1>0, <1>2, <2>2 DEF Calls, OwnPuts, Works, Configuring, Cleaning
    <3>2. PICK Q : Puts(r)' = Q
      OBVIOUS
    <3>3. Leaves(Puts(r), Q, q)
      BY <1>2, <3>2 DEF Leaves
    <3>4. Progress(r)'
      BY <1>0, <1>a, <1>2, <2>1, <2>2, <3>1, <3>2, <3>3, ProgressMade
    <3>5. QED BY <2>1, <3>1, <3>4, PlanIs
  <2>3. CASE ~Making(q)
    <3>1. Cleaning(r) /\ Cleanup(r) /\ ~Configuring(r)
      BY <1>0, <1>2, <2>3 DEF Calls, OwnPuts, Works, Configuring, Cleaning
    <3>2. Puts(r)' = Puts(r) \ {q}
      BY <1>a, <1>2, <2>3, PutKinds DEF Leaves
    <3>3. Cleanup(r)'
      BY <1>0, <1>a, <1>2, <2>1, <2>3, <3>1, <3>2, CleanupMade
    <3>4. QED BY <2>1, <3>1, <3>3, PlanIs
  <2>4. QED BY <2>2, <2>3
<1>3. Works'
  <2>1. \A r \in Plugins : (Configuring(r)' => Progress(r)') /\ (Cleaning(r)' => Cleanup(r)')
    BY <1>1, <1>2
  <2>2. \A i \in Instances : Whole(i)'
    BY <1>a, WholeMade
  <2>3. QED BY <2>1, <2>2 DEF Works
<1>4. QED BY <1>0, <1>3, MadeTyped, MadeClaims, MadeCalls DEF IInv

-----------------------------------------------------------------------------
(* The steps that make a put or fail                                       *)

LEMMA RestLeaves ==
  ASSUME Typed, NEW s, PutSeq(s), s # <<>>, NEW q, q = Head(s),
         ~(q.store = "unlist" /\ ~Unlistable(q))
  PROVE  /\ PutSeq(Rest(s)) /\ q \in ToSet(s)
         /\ Leaves(ToSet(s), ToSet(Rest(s)), q)
         /\ \A r \in ToSet(Rest(s)) : r \in ToSet(s) \/ Follows(r, q)
         /\ \A r \in ToSet(s) : r \in ToSet(Rest(s)) \/ r = q
<1>1. \A n \in DOMAIN namespaces : namespaces[n] \in Lists
  BY DEF Typed
<1>2. /\ PutSeq(Rest(s))
      /\ q.store # "unlist" => ToSet(Rest(s)) = ToSet(s) \ {q}
      /\ q.store = "unlist" /\ Unlistable(q) =>
           \E r : /\ ToSet(Rest(s)) = {r} /\ ListPut(r, q.key)
                  /\ DOMAIN namespaces[q.key] \ {q.val} \subseteq DOMAIN r.val
  BY <1>1, Rested
<1>3. q \in ToSet(s) /\ (q.store = "unlist" => ToSet(s) = {q})
  BY TailPuts
<1>4. CASE q.store # "unlist"
  BY <1>2, <1>3, <1>4 DEF Leaves
<1>5. CASE q.store = "unlist" /\ Unlistable(q)
  <2>1. PICK r : /\ ToSet(Rest(s)) = {r} /\ ListPut(r, q.key)
                 /\ DOMAIN namespaces[q.key] \ {q.val} \subseteq DOMAIN r.val
    BY <1>2, <1>5
  <2>2. IsPut(r)
    BY <1>2, <2>1 DEF PutSeq
  <2>3. Follows(r, q)
    BY <1>5, <2>1, <2>2 DEF Follows
  <2>4. Leaves(ToSet(s), ToSet(Rest(s)), q)
    BY <1>3, <1>5, <2>1 DEF Leaves
  <2>5. QED BY <1>2, <1>3, <1>5, <2>1, <2>3, <2>4
<1>6. QED BY <1>4, <1>5

LEMMA WriteHolds ==
  ASSUME IInv, NEW p \in Plugins, Write(p) PROVE IInv'
<1> DEFINE s == work[p].puts
<1>1. PICK q : q = Head(s)
  OBVIOUS
<1>2. /\ s # <<>> /\ Execute(s) /\ UNCHANGED <<rec, strays, faults>>
      /\ work' = [work EXCEPT ![p] =
           IF q.store = "unlist" /\ ~Unlistable(q) THEN Idle
           ELSE [work[p] EXCEPT !.puts = Rest(s)]]
      /\ failed' = (failed \/ (q.store = "unlist" /\ ~Unlistable(q)))
  BY <1>1 DEF Write
<1>3. /\ Typed /\ DOMAIN work = Plugins /\ WorkTyped(p) /\ PutSeq(s)
      /\ faults' \in 0 .. MaxFaults /\ failed' \in BOOLEAN
      /\ \A t \in strays' : PutSeq(t) /\ t # <<>>
  BY <1>2 DEF IInv, Typed, WorkTyped
<1>4. DOMAIN work' = Plugins /\ \A r \in Plugins \ {p} : work'[r] = work[r] /\ Puts(r)' = Puts(r)
  BY <1>2, <1>3 DEF Puts
<1>5. Strays' = Strays
  BY <1>2 DEF Strays
<1>6. q \in Puts(p) /\ (q.store = "unlist" => Puts(p) = {q})
  BY <1>1, <1>2, <1>3, TailPuts DEF Puts
<1>7. CASE q.store = "unlist" /\ ~Unlistable(q)
  <2>1. work'[p] = Idle /\ Puts(p)' = {}
    BY <1>2, <1>3, <1>7, IdleWork
  <2>2. UNCHANGED netVars
    BY <1>1, <1>2, <1>7 DEF Execute, netVars
  <2>3. \A r \in Plugins : work'[r] \in {work[r], Idle}
    BY <1>4, <2>1
  <2>4. Pending' \subseteq Pending
    BY <1>4, <1>5, <2>1, PendingIs
  <2>5. \A r \in Pending : IfacePut(r, r.key) => r \in Pending'
    BY <1>4, <1>5, <1>6, <1>7, PendingIs DEF IfacePut
  <2>6. QED BY <1>2, <1>3, <1>4, <1>5, <2>2, <2>3, <2>4, <2>5, Dropped
<1>8. CASE ~(q.store = "unlist" /\ ~Unlistable(q))
  <2>1. work'[p] = [work[p] EXCEPT !.puts = Rest(s)]
    BY <1>2, <1>3, <1>8
  <2>2. DOMAIN work[p] = DOMAIN Idle
    BY <1>3 DEF WorkTyped
  <2>3. SamePlan(p) /\ work'[p].puts = Rest(s)
    BY <2>1, <2>2, IdleIs DEF SamePlan
  <2>4. /\ PutSeq(Rest(s)) /\ Leaves(ToSet(s), ToSet(Rest(s)), q)
        /\ \A r \in ToSet(Rest(s)) : r \in ToSet(s) \/ Follows(r, q)
        /\ \A r \in ToSet(s) : r \in ToSet(Rest(s)) \/ r = q
    BY <1>1, <1>2, <1>3, <1>8, RestLeaves
  <2>5. /\ Leaves(Puts(p), Puts(p)', q)
        /\ \A r \in Puts(p)' : r \in Puts(p) \/ Follows(r, q)
        /\ \A r \in Puts(p) : r \in Puts(p)' \/ r = q
    BY <2>3, <2>4 DEF Puts
  <2>6. Effect(q) /\ vnets' = vnets
    BY <1>1, <1>2, Effects
  <2>7. work[p].pc # "idle"
    BY <1>2, <1>3, IdleIs DEF WorkTyped
  <2>8. q \in Pending
    BY <1>6, PendingIs
  <2>9. \A r \in Plugins :
          \/ work'[r] = work[r]
          \/ work[r].pc # "idle" /\ SamePlan(r) /\ PutSeq(work'[r].puts)
    BY <1>4, <2>3, <2>4, <2>7
  <2>10. \A r \in Plugins : \A t \in Puts(r)' :
           t \in Puts(r) \/ (q \in Puts(r) /\ Follows(t, q))
    BY <1>4, <1>6, <2>5
  <2>11. \A r \in Pending : r \in Pending' \/ r = q
    BY <1>4, <1>5, <2>5, PendingIs
  <2>12. Making1(q)
    BY <1>2, <1>3, <1>4, <1>5, <2>6, <2>8, <2>9, <2>10, <2>11 DEF Making1
  <2>13. \A r \in Plugins :
           \/ /\ work'[r] = work[r]
              /\ q \in Strays \/ \E t \in Plugins : q \in Puts(t) /\ t # r
           \/ q \in Puts(r) /\ Leaves(Puts(r), Puts(r)', q)
    BY <1>4, <1>6, <2>5
  <2>14. QED BY <2>12, <2>13, MadeHolds
<1>9. QED BY <1>7, <1>8

LEMMA WriteStrayHolds ==
  ASSUME IInv, NEW s \in strays, WriteStray(s) PROVE IInv'
<1>1. PICK q : q = Head(s)
  OBVIOUS
<1>2. /\ Execute(s)
      /\ strays' = (strays \ {s}) \cup ({Rest(s)} \ {<<>>})
      /\ UNCHANGED <<rec, work, faults, failed>>
  BY DEF WriteStray
<1>3. /\ Typed /\ DOMAIN work = Plugins /\ PutSeq(s) /\ s # <<>>
      /\ \A t \in strays : PutSeq(t) /\ t # <<>>
      /\ \A n \in DOMAIN namespaces : namespaces[n] \in Lists
      /\ faults' \in 0 .. MaxFaults /\ failed' \in BOOLEAN
  BY <1>2 DEF IInv, Typed
<1>4. DOMAIN work' = Plugins /\ \A r \in Plugins : work'[r] = work[r] /\ Puts(r)' = Puts(r)
  BY <1>2, <1>3 DEF Puts
<1>5. q \in ToSet(s) /\ q \in Strays /\ q \in Pending
  BY <1>1, <1>3, TailPuts, PendingIs
<1>6. /\ PutSeq(Rest(s))
      /\ \A r \in ToSet(Rest(s)) : r \in ToSet(s) \/ Follows(r, q)
      /\ \A r \in ToSet(s) : r \in ToSet(Rest(s)) \/ r = q
  <2>1. CASE q.store = "unlist" /\ ~Unlistable(q)
    <3>1. Rest(s) = <<>>
      BY <1>1, <1>3, <2>1, Rested
    <3>2. ToSet(s) = {q}
      BY <1>1, <1>3, <2>1, TailPuts
    <3>3. QED BY <3>1, <3>2, NoPuts
  <2>2. CASE ~(q.store = "unlist" /\ ~Unlistable(q))
    BY <1>1, <1>3, <2>2, RestLeaves
  <2>3. QED BY <2>1, <2>2
<1>7. \A t \in strays' : PutSeq(t) /\ t # <<>>
  BY <1>2, <1>3, <1>6
<1>8. \A r \in Strays' : r \in Strays \/ Follows(r, q)
  <2>1. ASSUME NEW r \in Strays' PROVE r \in Strays \/ Follows(r, q)
    <3>1. PICK t \in strays' : r \in ToSet(t)
      BY PendingIs
    <3>2. t \in strays \/ t = Rest(s)
      BY <1>2
    <3>3. QED BY <1>6, <3>1, <3>2, PendingIs
  <2>2. QED BY <2>1
<1>9. \A r \in Pending : r \in Pending' \/ r = q
  <2>1. ASSUME NEW r \in Strays, r # q PROVE r \in Strays'
    <3>1. PICK t \in strays : r \in ToSet(t)
      BY PendingIs
    <3>2. CASE t # s
      BY <1>2, <3>1, <3>2, PendingIs
    <3>3. CASE t = s
      <4>1. r \in ToSet(Rest(s))
        BY <1>6, <2>1, <3>1, <3>3
      <4>2. Rest(s) # <<>>
        BY <4>1, NoPuts
      <4>3. Rest(s) \in strays'
        BY <1>2, <4>2
      <4>4. QED BY <4>1, <4>3, PendingIs
    <3>4. QED BY <3>2, <3>3
  <2>2. QED BY <1>4, <2>1, PendingIs
<1>10. Effect(q) /\ vnets' = vnets
  BY <1>1, <1>2, Effects
<1>11. Making1(q)
  BY <1>2, <1>3, <1>4, <1>5, <1>7, <1>8, <1>9, <1>10 DEF Making1
<1>12. QED BY <1>4, <1>5, <1>11, MadeHolds

LEMMA GiveUpHolds ==
  ASSUME IInv, NEW p \in Plugins, GiveUp(p) PROVE IInv'
<1>1. /\ faults < MaxFaults /\ faults' = faults + 1 /\ failed' = TRUE
      /\ work' = [work EXCEPT ![p] = Idle]
      /\ strays' = strays \cup ({work[p].puts} \ {<<>>})
      /\ UNCHANGED <<netVars, rec>>
  BY DEF GiveUp, Fault
<1>2. /\ DOMAIN work = Plugins /\ PutSeq(work[p].puts)
      /\ \A t \in strays : PutSeq(t) /\ t # <<>>
      /\ faults \in 0 .. MaxFaults /\ MaxFaults \in Nat
  BY InstanceAssumption DEF IInv, Typed, WorkTyped
<1>3. /\ DOMAIN work' = Plugins /\ work'[p] = Idle /\ Puts(p)' = {}
      /\ \A r \in Plugins \ {p} : work'[r] = work[r] /\ Puts(r)' = Puts(r)
  <2>1. work'[p] = Idle
    BY <1>1, <1>2
  <2>2. QED BY <1>1, <1>2, <2>1, IdleWork DEF Puts
<1>4. \A q : q \in Strays' <=> q \in Strays \/ q \in Puts(p)
  <2>1. ASSUME NEW q, q \in Strays' PROVE q \in Strays \/ q \in Puts(p)
    <3>1. PICK t \in strays' : q \in ToSet(t)
      BY <2>1, PendingIs
    <3>2. QED BY <1>1, <3>1, PendingIs DEF Puts
  <2>2. ASSUME NEW q, q \in Strays PROVE q \in Strays'
    BY <1>1, <2>2, PendingIs
  <2>3. ASSUME NEW q, q \in Puts(p) PROVE q \in Strays'
    <3>1. work[p].puts # <<>>
      BY <2>3, NoPuts DEF Puts
    <3>2. work[p].puts \in strays'
      BY <1>1, <3>1
    <3>3. QED BY <2>3, <3>2, PendingIs DEF Puts
  <2>4. QED BY <2>1, <2>2, <2>3
<1>5. \A q : q \in Pending' <=> q \in Pending
  BY <1>3, <1>4, PendingIs
<1>6. \A t \in strays' : PutSeq(t) /\ t # <<>>
  BY <1>1, <1>2
<1>7. faults' \in 0 .. MaxFaults /\ failed' \in BOOLEAN
  BY <1>1, <1>2
<1>8. \A r \in Plugins : work'[r] \in {work[r], Idle}
  BY <1>3
<1>9. \A q \in Strays' : q \in Strays \/
        \E r \in Plugins : q \in Puts(r) /\ work'[r] = Idle
  BY <1>3, <1>4
<1>10. QED BY <1>1, <1>3, <1>5, <1>6, <1>7, <1>8, <1>9, Dropped

LEMMA NetworkingDiesHolds ==
  ASSUME IInv, NetworkingDies PROVE IInv'
<1>1. /\ faults < MaxFaults /\ faults' = faults + 1 /\ failed' = TRUE
      /\ strays' = {}
      /\ work' = [p \in Plugins |-> IF work[p].puts = <<>> THEN work[p] ELSE Idle]
      /\ UNCHANGED <<netVars, rec>>
  BY DEF NetworkingDies, Fault
<1>2. faults \in 0 .. MaxFaults /\ MaxFaults \in Nat
  BY InstanceAssumption DEF IInv, Typed
<1>3. DOMAIN work' = Plugins /\ \A r \in Plugins : work'[r] \in {work[r], Idle}
  BY <1>1
<1>4. \A r \in Plugins : Puts(r)' = {}
  <2>1. ASSUME NEW r \in Plugins PROVE work'[r].puts = <<>>
    BY <1>1, IdleIs
  <2>2. QED BY <2>1, NoPuts DEF Puts
<1>5. Strays' = {} /\ Pending' = {}
  BY <1>1, <1>4, PendingIs
<1>6. faults' \in 0 .. MaxFaults /\ failed' \in BOOLEAN
  BY <1>1, <1>2
<1>7. QED BY <1>1, <1>3, <1>5, <1>6, Dropped

LEMMA RefusedHolds ==
  ASSUME IInv, NEW p \in Plugins, work[p].puts = <<>>, Refused(p) PROVE IInv'
<1>1. /\ work' = [work EXCEPT ![p] = Idle] /\ failed' = TRUE
      /\ UNCHANGED <<netVars, rec, strays, faults>>
  BY DEF Refused, callVars
<1>2. /\ DOMAIN work = Plugins /\ faults \in 0 .. MaxFaults
      /\ \A t \in strays : PutSeq(t) /\ t # <<>>
  BY DEF IInv, Typed
<1>3. /\ DOMAIN work' = Plugins /\ work'[p] = Idle
      /\ \A r \in Plugins \ {p} : work'[r] = work[r]
  BY <1>1, <1>2
<1>4. \A r \in Plugins : Puts(r)' = Puts(r)
  BY <1>3, IdleIs DEF Puts
<1>5. Strays' = Strays
  BY <1>1 DEF Strays
<1>6. \A q : q \in Pending' <=> q \in Pending
  BY <1>4, <1>5, PendingIs
<1>7. QED BY <1>1, <1>2, <1>3, <1>5, <1>6, Dropped

-----------------------------------------------------------------------------
(* An operation makes a call                                               *)

(* Plugin p, which has nothing left to put, goes on with v.                *)
Issued(p, v) ==
  /\ work[p].puts = <<>>
  /\ work' = [work EXCEPT ![p] = v]
  /\ UNCHANGED netVars /\ rec' = rec /\ strays' = strays
  /\ faults' = faults /\ failed' = failed
  /\ WorkTyped(p)'

LEMMA IssuedIs ==
  ASSUME Typed, NEW p \in Plugins, NEW v, Issued(p, v)
  PROVE  /\ Typed'
         /\ work'[p] = v /\ \A r \in Plugins \ {p} : work'[r] = work[r]
         /\ Puts(p)' = ToSet(v.puts) /\ Puts(p) = {}
         /\ \A r \in Plugins \ {p} : Puts(r)' = Puts(r)
         /\ Strays' = Strays
         /\ \A q : q \in Pending' <=> q \in Pending \/ q \in ToSet(v.puts)
         /\ \A a, b : Fact(a, b) => Fact(a, b)'
         /\ \A a, b : Fact(a, b)' =>
              Fact(a, b) \/ \E q \in ToSet(v.puts) : IfacePut(q, a) /\ q.val.pair = b
         /\ \A i \in Instances : PluginOf[i] # p => Claim(i)' = Claim(i)
<1>1. /\ DOMAIN work' = Plugins /\ work'[p] = v
      /\ \A r \in Plugins \ {p} : work'[r] = work[r]
  BY DEF Issued, Typed
<1>2. /\ Puts(p)' = ToSet(v.puts) /\ Puts(p) = {}
      /\ \A r \in Plugins \ {p} : Puts(r)' = Puts(r)
  BY <1>1, NoPuts DEF Issued, Puts
<1>3. Strays' = Strays
  BY DEF Issued, Strays
<1>4. \A q : q \in Pending' <=> q \in Pending \/ q \in ToSet(v.puts)
  BY <1>2, <1>3, PendingIs
<1>5. Typed'
  <2>1. /\ DOMAIN rec' = Instances /\ \A i \in Instances : rec'[i] = rec[i]
        /\ \A s \in strays' : PutSeq(s) /\ s # <<>>
        /\ faults' \in 0 .. MaxFaults /\ failed' \in BOOLEAN
        /\ UNCHANGED netVars
    BY DEF Typed, Issued
  <2>2. \A r \in Plugins : work'[r] \in {work[r], Idle} \/ WorkTyped(r)'
    BY <1>1 DEF Issued
  <2>3. QED BY <1>1, <2>1, <2>2, TypedStays
<1>6. /\ \A a, b : Fact(a, b) => Fact(a, b)'
      /\ \A a, b : Fact(a, b)' =>
           Fact(a, b) \/ \E q \in ToSet(v.puts) : IfacePut(q, a) /\ q.val.pair = b
  <2>1. ifaces' = ifaces
    BY StoresSame DEF Issued
  <2>2. QED BY <1>4, <2>1 DEF Fact
<1>7. ASSUME NEW i \in Instances, PluginOf[i] # p PROVE Claim(i)' = Claim(i)
  <2>1. PluginOf[i] \in Plugins
    BY InstanceAssumption
  <2>2. QED BY <1>1, <1>7, <2>1, ClaimStays DEF Issued
<1>8. QED BY <1>1, <1>2, <1>3, <1>4, <1>5, <1>6, <1>7

(* What the others have to put is as before; p minds its own.              *)
LEMMA CallHolds ==
  ASSUME IInv, NEW p \in Plugins, NEW v, Issued(p, v), Claims',
         \A i \in Instances : PluginOf[i] = p /\ i = v.inst =>
           \A q \in ToSet(v.puts) :
             /\ Making(q) =>
                  /\ Configuring(p)'
                  /\ q.key \in Claim(i)' \/ (IfacePut(q, q.key) /\ q.val.pair \in Claim(i)')
             /\ ~Making(q) =>
                  /\ Cleaning(p)'
                  /\ q.store = "namespaces" => q.key = rec[i].netns,
         v.pc # "idle",
         \A q \in Strays : Making(q) =>
           \A i \in Instances :
             /\ q.key \notin Claim(i)'
             /\ IfacePut(q, q.key) => q.val.pair \notin Claim(i)',
         \A q \in Pending : ~Making(q) =>
           /\ \A i \in Instances : Covers(i, q.key)' => Covers(i, q.key)
           /\ \A r \in ToSet(v.puts) : IfacePut(r, r.key) => q.key \notin {r.key, r.val.pair},
         \A q \in ToSet(v.puts) : ~Making(q) =>
           /\ \A i \in Instances : Covers(i, q.key)' =>
                /\ IsConfigured(i)
                /\ q.key = rec[i].netns \/ rec[i].netns \notin DOMAIN namespaces
           /\ \A r \in Pending' : IfacePut(r, r.key) => q.key \notin {r.key, r.val.pair},
         Configuring(p)' => Progress(p)',
         Cleaning(p)' => Cleanup(p)'
  PROVE  IInv'
<1>0. Typed /\ Claims /\ Calls /\ Works
  BY DEF IInv
<1>a. rec' = rec /\ UNCHANGED netVars
  BY DEF Issued
<1>1. /\ Typed' /\ work'[p] = v /\ \A r \in Plugins \ {p} : work'[r] = work[r]
      /\ Puts(p)' = ToSet(v.puts)
      /\ \A r \in Plugins \ {p} : Puts(r)' = Puts(r)
      /\ Strays' = Strays
      /\ \A q : q \in Pending' <=> q \in Pending \/ q \in ToSet(v.puts)
      /\ \A i \in Instances : PluginOf[i] # p => Claim(i)' = Claim(i)
  BY <1>0, IssuedIs
<1>2. v.inst \in Instances /\ PluginOf[v.inst] = p
  BY <1>1 DEF Typed, WorkTyped
<1>3. OwnPuts'
  <2>1. ASSUME NEW r \in Plugins, NEW q \in Puts(r)', Making(q)
        PROVE  /\ Configuring(r)'
               /\ (\/ q.key \in Claim(work[r].inst)
                   \/ IfacePut(q, q.key) /\ q.val.pair \in Claim(work[r].inst))'
    <3>1. PICK i : i = work'[r].inst
      OBVIOUS
    <3>2. (i = work[r].inst)'
      BY <3>1
    <3>3. CASE r = p
      <4>1. i = v.inst /\ q \in ToSet(v.puts)
        BY <1>1, <2>1, <3>1, <3>3
      <4>2. Configuring(p)' /\ (q.key \in Claim(i)' \/ (IfacePut(q, q.key) /\ q.val.pair \in Claim(i)'))
        BY <1>2, <2>1, <4>1
      <4>3. QED BY <3>2, <3>3, <4>2
    <3>4. CASE r # p
      <4>1. work'[r] = work[r] /\ q \in Puts(r)
        BY <1>1, <2>1, <3>4
      <4>2. Configuring(r) /\ (q.key \in Claim(i) \/ (IfacePut(q, q.key) /\ q.val.pair \in Claim(i)))
        BY <1>0, <2>1, <3>1, <4>1 DEF Calls, OwnPuts
      <4>3. i \in Instances /\ PluginOf[i] = r
        BY <1>0, <3>1, <4>1, <4>2, WorkOf DEF Configuring
      <4>4. Claim(i)' = Claim(i) /\ Configuring(r)'
        BY <1>1, <3>4, <4>1, <4>2, <4>3 DEF Configuring
      <4>5. QED BY <3>2, <4>2, <4>4
    <3>5. QED BY <3>3, <3>4
  <2>2. ASSUME NEW r \in Plugins, NEW q \in Puts(r)', ~Making(q)
        PROVE  /\ Cleaning(r)'
               /\ q.store = "namespaces" => q.key = rec'[work'[r].inst].netns
    <3>1. CASE r = p
      BY <1>a, <1>1, <1>2, <2>2, <3>1
    <3>2. CASE r # p
      <4>1. work'[r] = work[r] /\ q \in Puts(r)
        BY <1>1, <2>2, <3>2
      <4>2. Cleaning(r) /\ (q.store = "namespaces" => q.key = rec[work[r].inst].netns)
        BY <1>0, <2>2, <4>1 DEF Calls, OwnPuts
      <4>3. QED BY <1>a, <4>1, <4>2 DEF Cleaning
    <3>3. QED BY <3>1, <3>2
  <2>3. QED BY <2>1, <2>2 DEF OwnPuts
<1>4. StrayPuts'
  BY <1>1 DEF StrayPuts
<1>5. Removals'
  <2>1. ASSUME NEW q \in Pending', ~Making(q), NEW i \in Instances, Covers(i, q.key)'
        PROVE  /\ IsConfigured(i)
               /\ q.key = rec[i].netns \/ rec[i].netns \notin DOMAIN namespaces
    <3>1. CASE q \in Pending
      BY <1>0, <2>1, <3>1 DEF Calls, Removals
    <3>2. CASE q \in ToSet(v.puts)
      BY <2>1, <3>2
    <3>3. QED BY <1>1, <3>1, <3>2
  <2>2. ASSUME NEW q \in Pending', ~Making(q), NEW r \in Pending', IfacePut(r, r.key)
        PROVE  q.key \notin {r.key, r.val.pair}
    <3>1. CASE q \in Pending /\ r \in Pending
      BY <1>0, <2>2, <3>1 DEF Calls, Removals
    <3>2. CASE q \in Pending /\ r \in ToSet(v.puts)
      BY <2>2, <3>2
    <3>3. CASE q \in ToSet(v.puts)
      BY <2>2, <3>3
    <3>4. QED BY <1>1, <3>1, <3>2, <3>3
  <2>3. namespaces' = namespaces /\ \A i : IsConfigured(i)' <=> IsConfigured(i)
    BY <1>a, StoresSame DEF IsConfigured
  <2>4. QED BY <1>a, <2>1, <2>2, <2>3 DEF Removals
<1>6. Works'
  <2>1. \A r \in Plugins :
          \/ work'[r] = Idle
          \/ work'[r] = work[r] /\ rec'[work[r].inst] = rec[work[r].inst]
          \/ (Configuring(r)' => Progress(r)') /\ (Cleaning(r)' => Cleanup(r)')
    BY <1>a, <1>1
  <2>2. QED BY <1>0, <1>a, <2>1, WorksStay
<1>7. QED BY <1>1, <1>3, <1>4, <1>5, <1>6 DEF IInv, Calls

(* Nobody knows of u, nor of its other half y if it is to have one.        *)
NewTo(u, y) ==
  /\ u # y /\ \A a : ~Mates(a, u) /\ ~Mates(a, y)
  /\ \A j \in Instances : u \notin Claim(j) /\ y \notin Claim(j)
  /\ \A q \in Pending : q.key \notin {u, y}

(* The puts of v make u and y, and belong to i.                            *)
MakesFor(v, i, u, y) ==
  /\ Claim(i)' \subseteq Claim(i) \cup {u}
  /\ \A q \in ToSet(v.puts) :
       /\ Making(q)
       /\ q.key \in Claim(i)' \/ (IfacePut(q, q.key) /\ q.val.pair \in Claim(i)')
       /\ IfacePut(q, q.key) =>
            /\ (q.key = u /\ q.val.pair = y) \/ (q.key = y /\ q.val.pair = u)
            /\ \E r \in ToSet(v.puts) : IfacePut(r, q.val.pair)

LEMMA Created ==
  ASSUME IInv, NEW p \in Plugins, NEW v, Issued(p, v), Configuring(p),
         NEW i, i = work[p].inst, i = v.inst, v.pc \in {"create", "attach"},
         NEW u, NEW y, NewTo(u, y), MakesFor(v, i, u, y), Progress(p)'
  PROVE  IInv'
<1>0. Typed /\ Claims /\ Calls /\ Works
  BY DEF IInv
<1>a. /\ u # y /\ \A a : ~Mates(a, u) /\ ~Mates(a, y)
      /\ \A j \in Instances : u \notin Claim(j) /\ y \notin Claim(j)
      /\ \A q \in Pending : q.key \notin {u, y}
  BY DEF NewTo
<1>b. /\ Claim(i)' \subseteq Claim(i) \cup {u}
      /\ \A q \in ToSet(v.puts) :
           /\ Making(q)
           /\ q.key \in Claim(i)' \/ (IfacePut(q, q.key) /\ q.val.pair \in Claim(i)')
           /\ IfacePut(q, q.key) =>
                /\ (q.key = u /\ q.val.pair = y) \/ (q.key = y /\ q.val.pair = u)
                /\ \E r \in ToSet(v.puts) : IfacePut(r, q.val.pair)
  BY DEF MakesFor
<1>1. /\ Typed' /\ work'[p] = v
      /\ \A q : q \in Pending' <=> q \in Pending \/ q \in ToSet(v.puts)
      /\ \A a, b : Fact(a, b)' =>
           Fact(a, b) \/ \E q \in ToSet(v.puts) : IfacePut(q, a) /\ q.val.pair = b
      /\ \A j \in Instances : PluginOf[j] # p => Claim(j)' = Claim(j)
  BY <1>0, IssuedIs
<1>2. i \in Instances /\ PluginOf[i] = p
  BY <1>0, WorkOf DEF Configuring
<1>3. \A j \in Instances \ {i} : Claim(j)' \subseteq Claim(j)
  <2>1. ASSUME NEW j \in Instances \ {i}, PluginOf[j] = p PROVE Claim(j)' \subseteq Claim(j)
    <3>1. ~Building(j)'
      BY <1>1, <2>1 DEF Building
    <3>2. rec'[j] = rec[j]
      BY DEF Issued
    <3>3. QED BY <3>1, <3>2, ClaimDropped
  <2>2. QED BY <1>1, <2>1
<1>4. \A a, b : Fact(a, b)' => Fact(a, b) \/ (a = u /\ b = y) \/ (a = y /\ b = u)
  <2>1. \A q, a : IfacePut(q, a) => IfacePut(q, q.key) /\ q.key = a
    BY DEF IfacePut
  <2>2. QED BY <1>1, <1>b, <2>1
<1>5. /\ Matched' /\ Disjoint' /\ Apart'
      /\ \A j \in Instances : \A z : Covers(j, z)' => Covers(j, z) \/ z \in {u, y}
  BY <1>0, <1>2, <1>3, <1>4, <1>a, <1>b, ClaimsGrow DEF Claims
<1>6. Halves'
  <2>1. ifaces' = ifaces
    BY StoresSame DEF Issued
  <2>2. QED BY <1>0, <1>1, <1>b, <2>1 DEF Claims, Halves
<1>7. ASSUME NEW q \in Strays, Making(q), NEW j \in Instances
      PROVE  /\ q.key \notin Claim(j)'
             /\ IfacePut(q, q.key) => q.val.pair \notin Claim(j)'
  <2>1. q \in Pending
    BY PendingIs
  <2>2. /\ q.key \notin Claim(j)
        /\ IfacePut(q, q.key) => q.val.pair \notin Claim(j)
    BY <1>0, <1>7 DEF Calls, StrayPuts
  <2>3. IfacePut(q, q.key) => Mates(q.key, q.val.pair)
    BY <2>1 DEF Mates, Fact
  <2>4. Claim(j)' \subseteq Claim(j) \cup {u}
    BY <1>3, <1>b
  <2>5. QED BY <1>a, <2>1, <2>2, <2>3, <2>4
<1>8. Configuring(p)' /\ ~Cleaning(p)'
  BY <1>1 DEF Configuring, Cleaning
<1>9. \A q \in Pending : ~Making(q) =>
        /\ \A j \in Instances : Covers(j, q.key)' => Covers(j, q.key)
        /\ \A r \in ToSet(v.puts) : IfacePut(r, r.key) => q.key \notin {r.key, r.val.pair}
  BY <1>5, <1>a, <1>b
<1>10. Claims'
  BY <1>5, <1>6 DEF Claims
<1>11. v.pc # "idle"
  OBVIOUS
<1>12. QED BY <1>2, <1>b, <1>7, <1>8, <1>9, <1>10, <1>11, CallHolds

-----------------------------------------------------------------------------
(* Configuring: the namespace and the connection points                    *)

LEMMA ClaimNow ==
  ASSUME NEW i, ~IsConfigured(i), rec'[i] = rec[i],
         NEW p, p = PluginOf[i], NEW v, v = work'[p], v.inst = i,
         v.pc \in {"namespace", "create", "attach"}
  PROVE  /\ Claim(i)' = ({v.netns} \cup Made(p)' \cup ToSet(v.intfs)) \ {None}
         /\ Configuring(p)' /\ ~Cleaning(p)'
<1>1. Configuring(p)' /\ ~Cleaning(p)'
  BY DEF Configuring, Cleaning
<1>2. Building(i)' /\ ~IsConfigured(i)'
  BY <1>1 DEF Building, IsConfigured
<1>3. QED BY <1>1, <1>2 DEF Claim

(* None, and what is no interface, is nobody's half.                       *)
LEMMA NoMates ==
  ASSUME Typed
  PROVE  /\ \A u : u \notin Ifaces => \A a : ~Mates(a, u)
         /\ \A j \in Instances : None \notin Claim(j)
         /\ \A q \in Pending : q.key # None
<1>1. \A u : u \notin Ifaces => \A a : ~Mates(a, u)
  BY MatesAre
<1>2. \A j \in Instances : None \notin Claim(j)
  BY ClaimTyped, Keys
<1>3. \A q \in Pending : q.key # None
  BY PendingTyped, PutKinds, Keys
<1>4. QED BY <1>1, <1>2, <1>3

(* The sizes of the descriptor of an instance.                             *)
LEMMA Sizes ==
  ASSUME NEW i \in Instances
  PROVE  /\ Len(CpsOf[i]) \in Nat /\ Len(IntfsOf[i]) \in Nat
         /\ \A m \in 1 .. Len(CpsOf[i]) : CpsOf[i][m] \in CpIds
         /\ \A m \in 1 .. Len(IntfsOf[i]) : IntfsOf[i][m] \in CpIds \cup {None}
         /\ CpsOf[i] \in Seq(CpIds) /\ IntfsOf[i] \in Seq(CpIds \cup {None})
<1>1. CpsOf[i] \in Seq(CpIds) /\ IntfsOf[i] \in Seq(CpIds \cup {None})
  BY InstanceAssumption
<1>2. QED BY <1>1

(* What holds when an operation that configures makes its next call.       *)
LEMMA Before ==
  ASSUME IInv, NEW p \in Plugins, work[p].puts = <<>>,
         work[p].pc \in {"namespace", "create", "attach"}
  PROVE  /\ Typed /\ Halves /\ Configuring(p) /\ Progress(p) /\ WorkTyped(p)
         /\ work[p].inst \in Instances /\ PluginOf[work[p].inst] = p
         /\ ~IsConfigured(work[p].inst)
         /\ Puts(p) = {}
         /\ Claim(work[p].inst) =
              ({work[p].netns} \cup Made(p) \cup ToSet(work[p].intfs)) \ {None}
<1>1. Typed /\ Halves /\ Configuring(p) /\ Progress(p) /\ WorkTyped(p)
  BY DEF IInv, Claims, Works, Configuring, Typed
<1>2. QED BY <1>1, ClaimOf, NoPuts DEF Progress, IsConfigured, Puts

LEMMA CreateNamespaceHolds ==
  ASSUME IInv, NEW p \in Plugins, CreateNamespace(p) PROVE IInv'
<1>1. PICK w, n, q, v, i :
        /\ w = work[p] /\ n = NextNetNs(p) /\ q = PutOf("namespaces", n, Empty)
        /\ v = [[w EXCEPT !.pc = "create", !.netns = n] EXCEPT !.puts = <<q>>]
        /\ i = w.inst
  OBVIOUS
<1>2. /\ w.pc = "namespace" /\ w.puts = <<>> /\ NewNetNs(p) # {}
      /\ work' = [work EXCEPT ![p] = v]
      /\ UNCHANGED <<failed, netVars, rec, strays, faults>>
  BY <1>1 DEF CreateNamespace, At, Call, Advance, callVars
<1>3. /\ Typed /\ Halves /\ Configuring(p) /\ Progress(p) /\ WorkTyped(p)
      /\ i \in Instances /\ PluginOf[i] = p /\ ~IsConfigured(i)
  BY <1>1, <1>2, Before
<1>4. /\ v.pc = "create" /\ v.inst = i /\ v.netns = n /\ v.cps = w.cps
      /\ v.intfs = w.intfs /\ v.pair = w.pair /\ v.k = w.k /\ v.rest = w.rest
      /\ v.puts = <<q>> /\ DOMAIN v = DOMAIN Idle
  BY <1>1, <1>3, IdleIs DEF WorkTyped
<1>5. /\ w.netns = None /\ w.cps = Empty /\ w.intfs = <<>> /\ w.k = 1
      /\ rec[i].status = "DEFINED"
  BY <1>1, <1>2, <1>3 DEF Progress
<1>6. /\ n \in Pool(p) /\ n \in NetNs /\ n # None /\ n \notin Ifaces
      /\ (\A j \in Instances : n \notin Claim(j))
      /\ \A r \in Pending : r.key # n
  BY <1>1, <1>2, <1>3, NextOnes, Drawn, Keys
<1>7. /\ q.store = "namespaces" /\ q.key = n /\ q.val = Empty /\ Making(q)
      /\ ListPut(q, n) /\ IsPut(q) /\ ~IfacePut(q, q.key)
  BY <1>1, <1>6, ListsAre, ListPuts DEF PutOf, Making, ListPut, IfacePut
<1>8. PutSeq(<<q>>) /\ ToSet(<<q>>) = {q}
  BY <1>7, OnePut
<1>9. DOMAIN work = Plugins /\ work'[p] = v
  BY <1>2, <1>3 DEF Typed
<1>10. WorkTyped(p)'
  <2>0. /\ w.netns \in NetNs \cup {None}
        /\ w.intfs \in Seq(Ifaces) /\ w.pair \in Ifaces \cup {None}
        /\ w.k \in Nat /\ w.rest \subseteq Cps
    BY <1>1, <1>3 DEF WorkTyped
  <2>1. /\ v.netns \in NetNs \cup {None}
        /\ DOMAIN v.cps \subseteq CpIds /\ \A id \in DOMAIN v.cps : v.cps[id] \in Cps
        /\ v.intfs \in Seq(Ifaces) /\ v.pair \in Ifaces \cup {None}
        /\ v.k \in Nat /\ v.k >= 1 /\ v.rest \subseteq Cps /\ PutSeq(v.puts)
    BY <1>4, <1>5, <1>6, <1>8, <2>0, IdleIs
  <2>2. QED BY <1>3, <1>4, <1>9, <2>1 DEF WorkTyped
<1>11. Issued(p, v)
  BY <1>1, <1>2, <1>10 DEF Issued
<1>12. Made(p)' = {} /\ ToSet(v.intfs) = {} /\ Puts(p)' = {q}
  BY <1>4, <1>5, <1>8, <1>9, IdleIs, NoPuts DEF Made, Puts
<1>13. Claim(i)' = {n} /\ Configuring(p)'
  BY <1>2, <1>3, <1>4, <1>6, <1>9, <1>12, ClaimNow
<1>14. Progress(p)'
  <2>1. Len(CpsOf[i]) \in Nat /\ Len(IntfsOf[i]) \in Nat
    BY <1>3, Sizes
  <2>2. /\ rec'[i].status = "DEFINED"
        /\ v.netns \in NetNs /\ ListPut(q, v.netns)
        /\ DOMAIN v.cps = {} /\ v.intfs = <<>> /\ Len(v.intfs) = 0 /\ v.k = 1
    BY <1>2, <1>4, <1>5, <1>6, <1>7, IdleIs
  <2>3. DOMAIN v.cps = {CpsOf[i][m] : m \in {z \in 1 .. Len(CpsOf[i]) : z < v.k}}
    BY <2>1, <2>2
  <2>4. QED BY <1>4, <1>9, <1>12, <2>1, <2>2, <2>3 DEF Progress
<1>15. NewTo(n, None)
  BY <1>3, <1>6, NoMates, Keys DEF NewTo
<1>16. Claim(i)' \subseteq Claim(i) \cup {n} /\ MakesFor(v, i, n, None)
  BY <1>4, <1>7, <1>8, <1>13 DEF MakesFor
<1>17. /\ i = work[p].inst /\ i = v.inst /\ v.pc \in {"create", "attach"}
  BY <1>1, <1>4
<1>18. QED
  BY <1>3, <1>11, <1>14, <1>15, <1>16, <1>17, Created

LEMMA CreateConnectionPointHolds ==
  ASSUME IInv, NEW p \in Plugins, CreateConnectionPoint(p) PROVE IInv'
<1>1. PICK w, c, q, v, i, id, f :
        /\ w = work[p] /\ c = NextCp(p) /\ q = PutOf("cps", c, c)
        /\ i = w.inst /\ id = CpsOf[i][w.k] /\ f = Put(w.cps, id, c)
        /\ v = [[w EXCEPT !.k = @ + 1, !.cps = f] EXCEPT !.puts = <<q>>]
  OBVIOUS
<1>2. /\ w.pc = "create" /\ w.puts = <<>> /\ ~MadeCps(p) /\ NewCps(p) # {}
      /\ work' = [work EXCEPT ![p] = v]
      /\ UNCHANGED <<failed, netVars, rec, strays, faults>>
  BY <1>1 DEF CreateConnectionPoint, At, Call, Advance, callVars
<1>3. /\ Typed /\ Halves /\ Configuring(p) /\ Progress(p) /\ WorkTyped(p)
      /\ i \in Instances /\ PluginOf[i] = p /\ ~IsConfigured(i) /\ Puts(p) = {}
      /\ Claim(i) = ({w.netns} \cup Made(p) \cup ToSet(w.intfs)) \ {None}
  BY <1>1, <1>2, Before
<1>4. /\ v.pc = "create" /\ v.inst = i /\ v.netns = w.netns /\ v.cps = f
      /\ v.intfs = w.intfs /\ v.pair = w.pair /\ v.k = w.k + 1 /\ v.rest = w.rest
      /\ v.puts = <<q>> /\ DOMAIN v = DOMAIN Idle
  BY <1>1, <1>2, <1>3, IdleIs DEF WorkTyped
<1>5. /\ Len(CpsOf[i]) \in Nat /\ Len(IntfsOf[i]) \in Nat
      /\ w.k \in Nat /\ w.k >= 1 /\ w.k <= Len(CpsOf[i]) /\ w.k \in 1 .. Len(CpsOf[i])
      /\ id \in CpIds
  <2>1. /\ Len(CpsOf[i]) \in Nat /\ Len(IntfsOf[i]) \in Nat
        /\ \A m \in 1 .. Len(CpsOf[i]) : CpsOf[i][m] \in CpIds
    BY <1>3, Sizes
  <2>2. w.k \in Nat /\ w.k >= 1
    BY <1>1, <1>2, <1>3 DEF WorkTyped
  <2>3. w.k <= Len(CpsOf[i])
    BY <1>1, <1>2, <2>1, <2>2 DEF MadeCps
  <2>4. QED BY <1>1, <2>1, <2>2, <2>3
<1>6. /\ c \in Pool(p) /\ c \in Cps /\ c # None /\ c \notin Ifaces
      /\ (\A j \in Instances : c \notin Claim(j))
      /\ \A r \in Pending : r.key # c
  BY <1>1, <1>2, <1>3, NextOnes, Drawn, Keys
<1>7. /\ q.store = "cps" /\ q.key = c /\ q.val = c /\ Making(q)
      /\ CpPut(q, c) /\ IsPut(q) /\ ~IfacePut(q, q.key)
  BY <1>1, <1>6 DEF PutOf, Making, CpPut, IsPut, IfacePut
<1>8. PutSeq(<<q>>) /\ ToSet(<<q>>) = {q}
  BY <1>7, OnePut
<1>9. DOMAIN work = Plugins /\ work'[p] = v
  BY <1>2, <1>3 DEF Typed
<1>10. /\ DOMAIN f = DOMAIN w.cps \cup {id} /\ f[id] = c
       /\ \A a \in DOMAIN w.cps : a # id => f[a] = w.cps[a]
  BY <1>1 DEF Put
<1>11. /\ DOMAIN w.cps \subseteq CpIds
       /\ \A a \in DOMAIN w.cps : w.cps[a] \in Cps /\ w.cps[a] \in Made(p) /\ w.cps[a] # c
  <2>1. \A a \in DOMAIN w.cps : w.cps[a] \in Made(p) /\ w.cps[a] \in Cps
    BY <1>1, <1>3 DEF Made, WorkTyped
  <2>2. \A a \in DOMAIN w.cps : w.cps[a] \in Claim(i)
    BY <1>3, <2>1, Keys
  <2>3. QED BY <1>1, <1>3, <1>6, <2>1, <2>2 DEF WorkTyped
<1>12. WorkTyped(p)'
  <2>0. /\ w.netns \in NetNs \cup {None}
        /\ w.intfs \in Seq(Ifaces) /\ w.pair \in Ifaces \cup {None}
        /\ w.k \in Nat /\ w.rest \subseteq Cps
    BY <1>1, <1>3 DEF WorkTyped
  <2>1. /\ v.netns \in NetNs \cup {None}
        /\ DOMAIN v.cps \subseteq CpIds /\ \A a \in DOMAIN v.cps : v.cps[a] \in Cps
        /\ v.intfs \in Seq(Ifaces) /\ v.pair \in Ifaces \cup {None}
        /\ v.k \in Nat /\ v.k >= 1 /\ v.rest \subseteq Cps /\ PutSeq(v.puts)
    BY <1>4, <1>5, <1>6, <1>8, <1>10, <1>11, <2>0
  <2>2. QED BY <1>3, <1>4, <1>9, <2>1 DEF WorkTyped
<1>13. Issued(p, v)
  BY <1>1, <1>2, <1>12 DEF Issued
<1>14. /\ Made(p)' = {f[a] : a \in DOMAIN f} /\ Made(p)' \subseteq Made(p) \cup {c}
       /\ c \in Made(p)' /\ Puts(p)' = {q}
  <2>1. Made(p)' = {f[a] : a \in DOMAIN f} /\ Puts(p)' = {q}
    BY <1>4, <1>8, <1>9 DEF Made, Puts
  <2>2. \A a \in DOMAIN f : f[a] \in Made(p) \cup {c}
    BY <1>10, <1>11
  <2>3. QED BY <1>10, <2>1, <2>2
<1>15. w.netns \in NetNs /\ w.netns \in DOMAIN namespaces /\ w.intfs = <<>>
       /\ rec[i].status = "DEFINED"
  BY <1>1, <1>2, <1>3, <1>5 DEF Progress
<1>16. /\ Claim(i)' = ({v.netns} \cup Made(p)' \cup ToSet(v.intfs)) \ {None}
       /\ Configuring(p)'
  BY <1>2, <1>3, <1>4, <1>9, ClaimNow
<1>17. Claim(i)' \subseteq Claim(i) \cup {c} /\ c \in Claim(i)'
  BY <1>3, <1>4, <1>6, <1>14, <1>16
<1>18. Progress(p)'
  <2>1. rec'[i].status = "DEFINED" /\ namespaces' = namespaces /\ cps' = cps
    BY <1>2, <1>15, StoresSame
  <2>2. \A a \in Made(p)' : a \in cps' \/ \E r \in Puts(p)' : CpPut(r, a)
    <3>1. \A a \in Made(p) : a \in cps
      BY <1>3 DEF Progress
    <3>2. QED BY <1>7, <1>14, <2>1, <3>1
  <2>3. \A a, b \in DOMAIN f : f[a] = f[b] => a = b
    <3>1. \A a, b \in DOMAIN w.cps : w.cps[a] = w.cps[b] => a = b
      BY <1>1, <1>3 DEF Progress
    <3>2. QED BY <1>10, <1>11, <3>1
  <2>4. DOMAIN f = {CpsOf[i][m] : m \in {z \in 1 .. Len(CpsOf[i]) : z < v.k}}
    <3>1. DOMAIN w.cps = {CpsOf[i][m] : m \in {z \in 1 .. Len(CpsOf[i]) : z < w.k}}
      BY <1>1, <1>3 DEF Progress
    <3>2. \A z \in 1 .. Len(CpsOf[i]) : z < v.k <=> z < w.k \/ z = w.k
      BY <1>4, <1>5
    <3>3. ASSUME NEW x PROVE x \in DOMAIN f <=>
            x \in {CpsOf[i][m] : m \in {z \in 1 .. Len(CpsOf[i]) : z < v.k}}
      <4>1. x \in DOMAIN f <=> x \in DOMAIN w.cps \/ x = CpsOf[i][w.k]
        BY <1>1, <1>10
      <4>2. x \in DOMAIN w.cps <=>
              \E m \in 1 .. Len(CpsOf[i]) : m < w.k /\ x = CpsOf[i][m]
        BY <3>1
      <4>3. QED BY <1>5, <3>2, <4>1, <4>2
    <3>4. QED BY <3>3
  <2>5. /\ v.intfs = <<>> /\ Len(v.intfs) = 0
        /\ v.k > Len(CpsOf[i]) => v.k = Len(CpsOf[i]) + 1
    BY <1>4, <1>5, <1>15
  <2>6. QED BY <1>4, <1>5, <1>9, <1>15, <2>1, <2>2, <2>3, <2>4, <2>5 DEF Progress
<1>19. NewTo(c, None)
  BY <1>3, <1>6, NoMates, Keys DEF NewTo
<1>20. Claim(i)' \subseteq Claim(i) \cup {c} /\ MakesFor(v, i, c, None)
  BY <1>4, <1>7, <1>8, <1>17 DEF MakesFor
<1>21. /\ i = work[p].inst /\ i = v.inst /\ v.pc \in {"create", "attach"}
  BY <1>1, <1>4
<1>22. QED
  BY <1>3, <1>13, <1>18, <1>19, <1>20, <1>21, Created

-----------------------------------------------------------------------------
(* Configuring: the interfaces                                             *)

(* Interfaces that are added change nothing of those that are there.       *)
LEMMA LinkAdded ==
  ASSUME NEW P, NEW z, NEW n, Linked(ifaces, namespaces, {}, z, n),
         \A q \in P : \A a : IfacePut(q, a) => a \notin DOMAIN ifaces,
         \A q \in P : ListPut(q, n) => DOMAIN namespaces[n] \subseteq DOMAIN q.val,
         \A q \in P : q.store # "unlist"
  PROVE  /\ Linked(ifaces, namespaces, P, z, n)
         /\ Outer(ifaces, P, z) = Outer(ifaces, {}, z)
<1>1. ASSUME NEW a, Has(ifaces, {}, a)
      PROVE  Has(ifaces, P, a) /\ Val(ifaces, P, a) = Val(ifaces, {}, a)
  BY <1>1, ValIs DEF Has
<1>2. InList(namespaces, P, n, z)
  BY DEF Linked, InList
<1>3. QED BY <1>1, <1>2 DEF Linked, Outer

LEMMA Appended ==
  ASSUME NEW S, NEW s \in Seq(S), NEW x
  PROVE  /\ Len(Append(s, x)) = Len(s) + 1
         /\ Last(Append(s, x)) = x
         /\ \A m \in 1 .. Len(s) : Append(s, x)[m] = s[m]
         /\ Append(s, x)[Len(s) + 1] = x
         /\ ToSet(Append(s, x)) = ToSet(s) \cup {x}
         /\ x \in S => Append(s, x) \in Seq(S)
<1> DEFINE t == Append(s, x)
<1>1. /\ Len(s) \in Nat /\ Len(t) = Len(s) + 1 /\ DOMAIN s = 1 .. Len(s)
      /\ DOMAIN t = 1 .. Len(s) + 1
      /\ \A m \in 1 .. Len(s) : t[m] = s[m]
      /\ t[Len(s) + 1] = x
      /\ x \in S => t \in Seq(S)
  OBVIOUS
<1> HIDE DEF t
<1>2. ToSet(t) = ToSet(s) \cup {x}
  <2>1. \A m \in 1 .. Len(s) + 1 : m \in 1 .. Len(s) \/ m = Len(s) + 1
    BY <1>1
  <2>2. Len(s) + 1 \in 1 .. Len(s) + 1 /\ \A m \in 1 .. Len(s) : m \in 1 .. Len(s) + 1
    BY <1>1
  <2>3. QED BY <1>1, <2>1, <2>2 DEF ToSet
<1>3. Last(t) = x
  BY <1>1 DEF Last
<1>4. QED BY <1>1, <1>2, <1>3 DEF t

LEMMA CreateInterfaceHolds ==
  ASSUME IInv, NEW p \in Plugins, CreateInterface(p) PROVE IInv'
<1>1. PICK w, n, x, y, L, q1, q2, q3, s, v, i :
        /\ w = work[p] /\ n = w.netns /\ i = w.inst
        /\ x = NextIface(p) /\ y = NextPair(p)
        /\ L = BagAdd(BagAdd(namespaces[n], x), y)
        /\ q1 = PutOf("namespaces", n, L)
        /\ q2 = PutOf("ifaces", x, Interface("VETH", n, y))
        /\ q3 = PutOf("ifaces", y, Interface("VETH", n, x))
        /\ s = <<q1, q2, q3>>
        /\ v = [[w EXCEPT !.pc = "attach", !.pair = y, !.intfs = Append(@, x)]
                  EXCEPT !.puts = s]
  OBVIOUS
<1>2. /\ w.pc = "create" /\ w.puts = <<>> /\ MadeCps(p) /\ ~MadeIntfs(p)
      /\ NewIfaces(p) \ {NextIface(p)} # {}
  BY <1>1 DEF CreateInterface, At
<1>3. /\ Typed /\ Halves /\ Configuring(p) /\ Progress(p) /\ WorkTyped(p)
      /\ i \in Instances /\ PluginOf[i] = p /\ ~IsConfigured(i) /\ Puts(p) = {}
      /\ Claim(i) = ({w.netns} \cup Made(p) \cup ToSet(w.intfs)) \ {None}
  BY <1>1, <1>2, Before
<1>4. CASE n \notin DOMAIN namespaces
  <2>1. Refused(p)
    BY <1>1, <1>4 DEF CreateInterface
  <2>2. QED BY <1>1, <1>2, <2>1, RefusedHolds
<1>5. CASE n \in DOMAIN namespaces
  <2>1. /\ work' = [work EXCEPT ![p] = v]
        /\ UNCHANGED <<failed, netVars, rec, strays, faults>>
    BY <1>1, <1>5 DEF CreateInterface, VethPuts, Call, Advance, callVars
  <2>2. /\ v.pc = "attach" /\ v.inst = i /\ v.netns = n /\ v.cps = w.cps
        /\ v.intfs = Append(w.intfs, x) /\ v.pair = y /\ v.k = w.k /\ v.rest = w.rest
        /\ v.puts = s /\ DOMAIN v = DOMAIN Idle
    BY <1>1, <1>3, IdleIs DEF WorkTyped
  <2>3. /\ n \in NetNs /\ n # None
        /\ IsList(namespaces[n], Ifaces)
    BY <1>3, <1>5, Keys DEF Typed, TypeOK
  <2>4. /\ x \in Ifaces /\ y \in Ifaces /\ x # y
        /\ x \notin DOMAIN ifaces /\ y \notin DOMAIN ifaces
        /\ x # n /\ y # n /\ x # None
        /\ NewTo(x, y)
    <3>1. x \in NewIfaces(p) /\ y \in NewIfaces(p) /\ x # y
      BY <1>1, <1>2, NextOnes
    <3>2. /\ x \in Pool(p) /\ x \in Ifaces \ DOMAIN ifaces /\ \A a : ~Mates(a, x)
          /\ y \in Pool(p) /\ y \in Ifaces \ DOMAIN ifaces /\ \A a : ~Mates(a, y)
      BY <1>3, <3>1, Drawn
    <3>3. /\ \A j \in Instances : x \notin Claim(j) /\ y \notin Claim(j)
          /\ \A q \in Pending : q.key # x /\ q.key # y
      BY <1>3, <3>2, Drawn
    <3>4. QED BY <2>3, <3>1, <3>2, <3>3, Keys DEF NewTo
  <2>5. L \in Lists /\ DOMAIN L = DOMAIN namespaces[n] \cup {x, y} /\ L # None
    <3> DEFINE B == BagAdd(namespaces[n], x)
    <3>1. B \in Lists /\ DOMAIN B = DOMAIN namespaces[n] \cup {x}
      BY <2>3, <2>4, AddList
    <3>2. IsList(B, Ifaces)
      BY <3>1, ListsAre
    <3> HIDE DEF B
    <3>3. BagAdd(B, y) \in Lists /\ DOMAIN BagAdd(B, y) = DOMAIN B \cup {y}
      BY <2>4, <3>2, AddList
    <3>4. L = BagAdd(B, y)
      BY <1>1 DEF B
    <3>5. QED BY <3>1, <3>3, <3>4, ListsAre
  <2>6. /\ q1.store = "namespaces" /\ q1.key = n /\ q1.val = L
        /\ Making(q1) /\ IsPut(q1) /\ ListPut(q1, n) /\ \A a : ~IfacePut(q1, a)
    BY <1>1, <2>3, <2>5, ListPuts DEF PutOf, Making, ListPut, IfacePut
  <2>7. /\ q2.store = "ifaces" /\ q2.key = x /\ q2.val \in VethRecord
        /\ q2.val.net_ns = n /\ q2.val.pair = y
        /\ q3.store = "ifaces" /\ q3.key = y /\ q3.val \in VethRecord
        /\ q3.val.net_ns = n /\ q3.val.pair = x
    BY <1>1, <2>3, <2>4, VethMade DEF PutOf
  <2>8. /\ Making(q2) /\ IsPut(q2) /\ IfacePut(q2, x)
        /\ Making(q3) /\ IsPut(q3) /\ IfacePut(q3, y)
        /\ \A a : (IfacePut(q2, a) => a = x) /\ (IfacePut(q3, a) => a = y)
        /\ \A a : ~ListPut(q2, a) /\ ~ListPut(q3, a)
    BY <2>4, <2>7, VethAre DEF Making, IsPut, IfacePut, ListPut
  <2>9. PutSeq(s) /\ ToSet(s) = {q1, q2, q3}
    <3>1. /\ q1.key # q2.key /\ q1.key # q3.key /\ q2.key # q3.key
          /\ q1.store # "unlist" /\ q2.store # "unlist"
      BY <2>4, <2>6, <2>7
    <3>2. QED BY <1>1, <2>6, <2>8, <3>1, ThreePuts
  <2>10. DOMAIN work = Plugins /\ work'[p] = v
    BY <1>3, <2>1 DEF Typed
  <2>11. /\ w.intfs \in Seq(Ifaces) /\ v.intfs \in Seq(Ifaces)
         /\ Len(w.intfs) \in Nat
         /\ Len(v.intfs) = Len(w.intfs) + 1 /\ Last(v.intfs) = x
         /\ \A m \in 1 .. Len(w.intfs) : v.intfs[m] = w.intfs[m]
         /\ v.intfs[Len(w.intfs) + 1] = x
         /\ ToSet(v.intfs) = ToSet(w.intfs) \cup {x}
    <3>1. w.intfs \in Seq(Ifaces)
      BY <1>1, <1>3 DEF WorkTyped
    <3>2. QED BY <2>2, <2>4, <3>1, Appended
  <2>12. WorkTyped(p)'
    <3>1. /\ w.netns \in NetNs \cup {None}
          /\ DOMAIN w.cps \subseteq CpIds /\ \A id \in DOMAIN w.cps : w.cps[id] \in Cps
          /\ w.k \in Nat /\ w.k >= 1 /\ w.rest \subseteq Cps
      BY <1>1, <1>2, <1>3 DEF WorkTyped
    <3>2. QED BY <1>1, <1>3, <2>2, <2>4, <2>9, <2>10, <2>11, <3>1 DEF WorkTyped
  <2>13. Issued(p, v)
    BY <1>1, <1>2, <2>1, <2>12 DEF Issued
  <2>14. Made(p)' = Made(p) /\ Puts(p)' = {q1, q2, q3}
    BY <1>1, <2>2, <2>9, <2>10 DEF Made, Puts
  <2>15. /\ Claim(i)' = ({v.netns} \cup Made(p)' \cup ToSet(v.intfs)) \ {None}
         /\ Configuring(p)'
    <3>1. /\ rec'[i] = rec[i] /\ p = PluginOf[i] /\ v = work'[p]
          /\ v.inst = i /\ v.pc \in {"namespace", "create", "attach"}
      BY <1>3, <2>1, <2>2, <2>10
    <3>2. QED BY <1>3, <3>1, ClaimNow
  <2>16. Claim(i)' \subseteq Claim(i) \cup {x} /\ n \in Claim(i)' /\ x \in Claim(i)'
    BY <1>1, <1>3, <2>2, <2>3, <2>4, <2>11, <2>14, <2>15
  <2>17. MakesFor(v, i, x, y)
    BY <2>2, <2>6, <2>7, <2>8, <2>9, <2>16 DEF MakesFor
  <2>18. /\ Len(CpsOf[i]) \in Nat /\ Len(IntfsOf[i]) \in Nat /\ w.k \in Nat
         /\ w.k > Len(CpsOf[i]) /\ w.k - Len(CpsOf[i]) <= Len(IntfsOf[i])
         /\ Len(w.intfs) = w.k - Len(CpsOf[i]) - 1
    <3>1. Len(CpsOf[i]) \in Nat /\ Len(IntfsOf[i]) \in Nat /\ w.k \in Nat
      BY <1>1, <1>3, Sizes DEF WorkTyped
    <3>2. w.k > Len(CpsOf[i]) /\ ~(w.k - Len(CpsOf[i]) > Len(IntfsOf[i]))
      BY <1>1, <1>2 DEF MadeCps, MadeIntfs, IntfAt
    <3>3. Len(w.intfs) = w.k - Len(CpsOf[i]) - 1
      BY <1>1, <1>2, <1>3, <3>2 DEF Progress
    <3>4. QED BY <3>1, <3>2, <3>3
  <2> DEFINE P == {q1, q2, q3}
  <2>19. /\ \A q \in P : \A a : IfacePut(q, a) => a \notin DOMAIN ifaces
         /\ \A q \in P : ListPut(q, n) => DOMAIN namespaces[n] \subseteq DOMAIN q.val
         /\ \A q \in P : q.store # "unlist"
    BY <2>4, <2>5, <2>6, <2>7, <2>8
  <2>20. /\ Has(ifaces, P, x) /\ Val(ifaces, P, x) = q2.val
         /\ Has(ifaces, P, y) /\ Val(ifaces, P, y) = q3.val
    <3>1. PICK q \in P : IfacePut(q, x) /\ Val(ifaces, P, x) = q.val
      BY <2>8, ValIs
    <3>2. PICK r \in P : IfacePut(r, y) /\ Val(ifaces, P, y) = r.val
      BY <2>8, ValIs
    <3>3. q = q2 /\ r = q3
      BY <2>4, <2>6, <2>8, <3>1, <3>2
    <3>4. QED BY <2>8, <3>1, <3>2, <3>3 DEF Has
  <2>21. Linked(ifaces, namespaces, P, x, n) /\ Outer(ifaces, P, x) = n
    <3>1. \A q \in P : ListPut(q, n) => x \in DOMAIN q.val
      BY <2>5, <2>6, <2>8
    <3>2. InList(namespaces, P, n, x)
      BY <2>6, <2>19, <3>1 DEF InList
    <3>3. QED BY <2>7, <2>20, <3>2 DEF Linked, Outer
  <2>22. ASSUME NEW m \in 1 .. Len(w.intfs)
         PROVE  /\ Linked(ifaces, namespaces, P, w.intfs[m], n)
                /\ Ends(IntfsOf[i][m], Outer(ifaces, P, w.intfs[m]), Made(p))
    <3>1. /\ Linked(ifaces, namespaces, {}, w.intfs[m], n)
          /\ Ends(IntfsOf[i][m], Outer(ifaces, {}, w.intfs[m]), Made(p))
      BY <1>1, <1>2, <1>3 DEF Progress
    <3> HIDE DEF P
    <3>2. QED BY <2>19, <3>1, LinkAdded
  <2>23. Progress(p)'
    <3>1. /\ rec'[i].status = "DEFINED" /\ ifaces' = ifaces
          /\ namespaces' = namespaces /\ cps' = cps
      BY <1>1, <1>3, <2>1, StoresSame DEF Progress
    <3>2. /\ \A c \in Made(p) : c \in cps
          /\ \A a, b \in DOMAIN w.cps : w.cps[a] = w.cps[b] => a = b
          /\ DOMAIN w.cps = {CpsOf[i][m] : m \in {z \in 1 .. Len(CpsOf[i]) : z < w.k}}
      BY <1>1, <1>3 DEF Progress
    <3>3. \A m \in 1 .. Len(v.intfs) : m \in 1 .. Len(w.intfs) \/ m = Len(w.intfs) + 1
      BY <2>11
    <3>4. \A m \in 1 .. Len(v.intfs) : Linked(ifaces', namespaces', P, v.intfs[m], n)
      BY <2>11, <2>21, <2>22, <3>1, <3>3
    <3>5. \A m \in 1 .. Len(v.intfs) : m # Len(v.intfs) =>
            Ends(IntfsOf[i][m], Outer(ifaces', P, v.intfs[m]), Made(p))
      BY <2>11, <2>22, <3>1, <3>3
    <3>6. /\ Val(ifaces', P, Last(v.intfs)).pair = y
          /\ Outer(ifaces', P, Last(v.intfs)) = n
      BY <2>7, <2>11, <2>20, <2>21, <3>1
    <3>7. Len(v.intfs) = v.k - Len(CpsOf[i]) /\ Len(v.intfs) <= Len(IntfsOf[i])
      BY <2>2, <2>11, <2>18
    <3>8. Puts(p)' = P
      BY <2>14
    <3>9. \A m \in 1 .. Len(v.intfs) : m # Len(v.intfs) =>
            Ends(IntfsOf[i][m], Outer(ifaces', P, v.intfs[m]), Made(p)')
      BY <2>14, <3>5
    <3>10. /\ \A c \in Made(p)' : c \in cps'
           /\ \A a, b \in DOMAIN v.cps : v.cps[a] = v.cps[b] => a = b
           /\ DOMAIN v.cps = {CpsOf[i][m] : m \in {z \in 1 .. Len(CpsOf[i]) : z < v.k}}
           /\ v.k > Len(CpsOf[i])
      BY <2>2, <2>14, <2>18, <3>1, <3>2
    <3>11. v.netns = n /\ n \in NetNs /\ n \in DOMAIN namespaces'
           /\ v.pc = "attach" /\ v.inst = i /\ v.pair = y
      BY <1>5, <2>2, <2>3, <3>1
    <3>12. v = work'[p] /\ rec'[i].status = "DEFINED"
      BY <2>10, <3>1
    <3> HIDE DEF P
    <3>13. QED
      BY <3>4, <3>6, <3>7, <3>8, <3>9, <3>10, <3>11, <3>12 DEF Progress
  <2>24. i = work[p].inst /\ i = v.inst /\ v.pc \in {"create", "attach"}
    BY <1>1, <2>2
  <2>25. QED BY <1>3, <2>4, <2>13, <2>17, <2>23, <2>24, Created
<1>6. QED BY <1>4, <1>5

-----------------------------------------------------------------------------
(* Configuring: the other half of the last interface                       *)

(* What an operation knows when it attaches the pair y of its last         *)
(* interface x.                                                            *)
LEMMA Halfway ==
  ASSUME IInv, NEW p \in Plugins, work[p].puts = <<>>, work[p].pc = "attach",
         NEW w, w = work[p], NEW i, i = w.inst, NEW n, n = w.netns,
         NEW x, x = Last(w.intfs), NEW y, y = w.pair
  PROVE  /\ n \in NetNs /\ n \in DOMAIN namespaces /\ n \in Claim(i)
         /\ Len(w.intfs) \in 1 .. Len(w.intfs) /\ x = w.intfs[Len(w.intfs)]
         /\ Len(w.intfs) = IntfAt(p) /\ IntfAt(p) \in 1 .. Len(IntfsOf[i])
         /\ w.k > Len(CpsOf[i])
         /\ x \in Claim(i) /\ y \notin Claim(i)
         /\ x \in Ifaces /\ x \in DOMAIN ifaces /\ y \in Ifaces /\ y \in DOMAIN ifaces
         /\ ifaces[x].pair = y /\ ifaces[y].pair = x /\ ifaces[y].net_ns = n
         /\ ifaces[y] \in VethRecord
         /\ \A m \in 1 .. Len(w.intfs) :
              /\ w.intfs[m] \in Claim(i)
              /\ Linked(ifaces, namespaces, {}, w.intfs[m], n)
              /\ m # Len(w.intfs) =>
                   /\ Ends(IntfsOf[i][m], Outer(ifaces, {}, w.intfs[m]), Made(p))
                   /\ ifaces[w.intfs[m]].pair # y
<1>1. /\ Typed /\ Configuring(p) /\ Progress(p) /\ WorkTyped(p)
      /\ i \in Instances /\ PluginOf[i] = p /\ ~IsConfigured(i) /\ Puts(p) = {}
      /\ Claim(i) = ({n} \cup Made(p) \cup ToSet(w.intfs)) \ {None}
  BY Before
<1>2. /\ n \in NetNs /\ n \in DOMAIN namespaces
      /\ w.k > Len(CpsOf[i]) /\ Len(w.intfs) = w.k - Len(CpsOf[i])
      /\ Len(w.intfs) <= Len(IntfsOf[i])
      /\ \A m \in 1 .. Len(w.intfs) :
           /\ Linked(ifaces, namespaces, {}, w.intfs[m], n)
           /\ m # Len(w.intfs) =>
                Ends(IntfsOf[i][m], Outer(ifaces, {}, w.intfs[m]), Made(p))
      /\ Val(ifaces, {}, x).pair = y /\ Outer(ifaces, {}, x) = n
  BY <1>1 DEF Progress
<1>3. /\ w.intfs \in Seq(Ifaces) /\ w.k \in Nat
      /\ \A id \in DOMAIN w.cps : w.cps[id] \in Cps
  BY <1>1 DEF WorkTyped
<1>4. /\ Len(CpsOf[i]) \in Nat /\ Len(IntfsOf[i]) \in Nat
  BY <1>1, Sizes
<1>5. /\ Len(w.intfs) \in 1 .. Len(w.intfs) /\ x = w.intfs[Len(w.intfs)]
      /\ Len(w.intfs) = IntfAt(p) /\ IntfAt(p) \in 1 .. Len(IntfsOf[i])
  BY <1>2, <1>3, <1>4 DEF IntfAt, Last
<1>6. /\ \A m \in 1 .. Len(w.intfs) : w.intfs[m] \in Ifaces /\ w.intfs[m] \in ToSet(w.intfs)
      /\ \A m \in 1 .. Len(w.intfs) : w.intfs[m] \in Claim(i)
  <2>1. \A m \in 1 .. Len(w.intfs) : w.intfs[m] \in Ifaces /\ w.intfs[m] \in ToSet(w.intfs)
    BY <1>3 DEF ToSet
  <2>2. QED BY <1>1, <2>1, Keys
<1>7. x \in Ifaces /\ x \in Claim(i) /\ Linked(ifaces, namespaces, {}, x, n)
  BY <1>2, <1>5, <1>6
<1>8. /\ x \in DOMAIN ifaces /\ ifaces[x].pair = y /\ y \in DOMAIN ifaces
      /\ ifaces[y].net_ns = n
  BY <1>2, <1>7, ValIs DEF Linked, Outer
<1>9. /\ ifaces[y] \in VethRecord /\ y \in Ifaces /\ ifaces[y].pair \in Ifaces
  BY <1>1, <1>8, VethAre DEF Typed, TypeOK
<1>10. Mates(x, y) /\ Mates(y, x) /\ Mates(y, ifaces[y].pair)
  BY <1>8 DEF Mates, Fact
<1>11. Matched /\ Apart
  BY DEF IInv, Claims
<1>12. ifaces[y].pair = x /\ y \notin Claim(i)
  BY <1>1, <1>7, <1>9, <1>10, <1>11 DEF Matched, Apart
<1>13. ASSUME NEW m \in 1 .. Len(w.intfs), m # Len(w.intfs)
       PROVE  ifaces[w.intfs[m]].pair # y
  <2> DEFINE z == w.intfs[m]
  <2>1. Ends(IntfsOf[i][m], Outer(ifaces, {}, z), Made(p))
    BY <1>2, <1>13
  <2>2. z # x
    <3>1. Made(p) \subseteq Cps
      BY <1>3 DEF Made
    <3>2. ~Ends(IntfsOf[i][m], n, Made(p))
      BY <1>2, <3>1, Keys DEF Ends
    <3>3. QED BY <1>2, <2>1, <3>2
  <2>3. ASSUME ifaces[z].pair = y PROVE FALSE
    <3>1. z \in DOMAIN ifaces /\ z \in Ifaces
      BY <1>2, <1>6, ValIs DEF Linked
    <3>2. Mates(y, z)
      BY <2>3, <3>1 DEF Mates, Fact
    <3>3. QED BY <1>7, <1>9, <1>10, <1>11, <2>2, <3>1, <3>2 DEF Matched
  <2>4. QED BY <2>3
<1>14. n \in Claim(i)
  BY <1>1, <1>2, Keys
<1>15. QED
  BY <1>2, <1>5, <1>6, <1>7, <1>8, <1>9, <1>12, <1>13, <1>14

(* Plugin p goes on with v: the other half y is put at c, and may be taken  *)
(* from the list of the namespace n.                                       *)
PairPut(y, c) == PutOf("ifaces", y, [ifaces[y] EXCEPT !.net_ns = c])

AttachesAt(p, v, c) ==
  LET w == work[p]
  IN /\ c \in NetNs \cup Cps \cup {None}
     /\ Ends(IntfsOf[w.inst][IntfAt(p)], c, Made(p))
     /\ v.pc = "create" /\ v.inst = w.inst /\ v.netns = w.netns /\ v.cps = w.cps
     /\ v.intfs = w.intfs /\ v.pair = w.pair /\ v.k = w.k + 1 /\ v.rest = w.rest
     /\ DOMAIN v = DOMAIN Idle
     /\ PutSeq(v.puts) /\ PairPut(w.pair, c) \in ToSet(v.puts)
     /\ \A r \in ToSet(v.puts) :
          r = PairPut(w.pair, c) \/ r = PutOf("unlist", w.netns, w.pair)
     /\ work' = [work EXCEPT ![p] = v]
     /\ UNCHANGED netVars /\ rec' = rec /\ strays' = strays
     /\ faults' = faults /\ failed' = failed

LEMMA AttachCall ==
  ASSUME IInv, NEW p \in Plugins, work[p].puts = <<>>, work[p].pc = "attach",
         NEW v, NEW c, AttachesAt(p, v, c)
  PROVE  IInv'
<1>a. PICK w, i, n, x, y, q :
        /\ w = work[p] /\ i = w.inst /\ n = w.netns /\ x = Last(w.intfs)
        /\ y = w.pair /\ q = PairPut(y, c)
  OBVIOUS
<1>b. /\ c \in NetNs \cup Cps \cup {None}
      /\ Ends(IntfsOf[i][IntfAt(p)], c, Made(p))
      /\ PutSeq(v.puts) /\ q \in ToSet(v.puts)
      /\ \A r \in ToSet(v.puts) : r = q \/ r = PutOf("unlist", n, y)
      /\ work' = [work EXCEPT ![p] = v]
      /\ UNCHANGED netVars /\ rec' = rec /\ strays' = strays
      /\ faults' = faults /\ failed' = failed
  BY <1>a DEF AttachesAt
<1>0. Typed /\ Claims /\ Calls
  BY DEF IInv
<1>1. /\ n \in NetNs /\ n \in DOMAIN namespaces /\ n \in Claim(i)
      /\ Len(w.intfs) \in 1 .. Len(w.intfs) /\ x = w.intfs[Len(w.intfs)]
      /\ Len(w.intfs) = IntfAt(p) /\ IntfAt(p) \in 1 .. Len(IntfsOf[i])
      /\ w.k > Len(CpsOf[i])
      /\ x \in Claim(i) /\ y \notin Claim(i)
      /\ x \in Ifaces /\ x \in DOMAIN ifaces /\ y \in Ifaces /\ y \in DOMAIN ifaces
      /\ ifaces[x].pair = y /\ ifaces[y].pair = x /\ ifaces[y].net_ns = n
      /\ ifaces[y] \in VethRecord
      /\ \A m \in 1 .. Len(w.intfs) :
           /\ w.intfs[m] \in Claim(i)
           /\ Linked(ifaces, namespaces, {}, w.intfs[m], n)
           /\ m # Len(w.intfs) =>
                /\ Ends(IntfsOf[i][m], Outer(ifaces, {}, w.intfs[m]), Made(p))
                /\ ifaces[w.intfs[m]].pair # y
  BY <1>a, Halfway
<1>2. /\ Configuring(p) /\ Progress(p) /\ WorkTyped(p)
      /\ i \in Instances /\ PluginOf[i] = p /\ ~IsConfigured(i)
      /\ Claim(i) = ({n} \cup Made(p) \cup ToSet(w.intfs)) \ {None}
      /\ Puts(p) = {}
  BY <1>a, Before
<1>3. /\ v.pc = "create" /\ v.inst = i /\ v.netns = n /\ v.cps = w.cps
      /\ v.intfs = w.intfs /\ v.pair = y /\ v.k = w.k + 1 /\ v.rest = w.rest
      /\ DOMAIN v = DOMAIN Idle
  BY <1>a DEF AttachesAt
<1>4. /\ q.store = "ifaces" /\ q.key = y /\ q.val.net_ns = c /\ q.val.pair = x
      /\ q.val \in VethRecord /\ IfacePut(q, y) /\ Making(q)
      /\ \A a : IfacePut(q, a) => a = y
      /\ \A a : ~ListPut(q, a)
  <2>1. /\ q.store = "ifaces" /\ q.key = y /\ q.val = [ifaces[y] EXCEPT !.net_ns = c]
    BY <1>a DEF PutOf, PairPut
  <2>2. q.val.net_ns = c /\ q.val.pair = x /\ q.val \in VethRecord
    <3> DEFINE r == ifaces[y]
    <3>1. r \in VethRecord /\ r.pair = x
      BY <1>1
    <3>2. q.val = [r EXCEPT !.net_ns = c]
      BY <2>1
    <3> HIDE DEF r
    <3>3. QED BY <1>b, <3>1, <3>2, VethMoved
  <2>3. QED BY <2>1, <2>2, VethAre DEF IfacePut, Making, ListPut
<1>5. ASSUME NEW r \in ToSet(v.puts), r # q
      PROVE  /\ r.store = "unlist" /\ r.key = n /\ r.val = y /\ Making(r)
             /\ \A a : ~IfacePut(r, a) /\ ~ListPut(r, a)
  <2>1. r.store = "unlist" /\ r.key = n /\ r.val = y
    BY <1>b, <1>5 DEF PutOf
  <2>2. QED BY <1>1, <2>1, Keys DEF Making, IfacePut, ListPut
<1>6. work'[p] = v
  BY <1>0, <1>b DEF Typed
<1>7. WorkTyped(p)'
  <2>1. /\ w.netns \in NetNs \cup {None} /\ w.intfs \in Seq(Ifaces)
        /\ DOMAIN w.cps \subseteq CpIds /\ \A id \in DOMAIN w.cps : w.cps[id] \in Cps
        /\ w.k \in Nat /\ w.k >= 1 /\ w.rest \subseteq Cps
    BY <1>a, <1>2 DEF WorkTyped
  <2>2. v.k \in Nat /\ v.k >= 1
    BY <1>3, <2>1
  <2>3. QED BY <1>a, <1>b, <1>1, <1>2, <1>3, <1>6, <2>1, <2>2 DEF WorkTyped
<1>8. Issued(p, v)
  BY <1>b, <1>7 DEF Issued
<1>9. /\ Puts(p)' = ToSet(v.puts)
      /\ \A a, b : Fact(a, b)' =>
           Fact(a, b) \/ \E r \in ToSet(v.puts) : IfacePut(r, a) /\ r.val.pair = b
      /\ \A r : r \in Pending' <=> r \in Pending \/ r \in ToSet(v.puts)
      /\ \A j \in Instances : PluginOf[j] # p => Claim(j)' = Claim(j)
  BY <1>0, <1>8, IssuedIs
<1>10. Made(p)' = Made(p)
  BY <1>a, <1>3, <1>6 DEF Made
<1>11. Claim(i)' = Claim(i) /\ Configuring(p)' /\ ~Cleaning(p)'
  <2>1. /\ rec'[i] = rec[i] /\ p = PluginOf[i] /\ v = work'[p]
        /\ v.inst = i /\ v.pc \in {"namespace", "create", "attach"}
    BY <1>b, <1>2, <1>3, <1>6
  <2>2. QED BY <1>2, <1>3, <1>10, <2>1, ClaimNow
<1>12. \A j \in Instances : Claim(j)' \subseteq Claim(j)
  <2>1. ASSUME NEW j \in Instances, PluginOf[j] = p, j # i
        PROVE  Claim(j)' \subseteq Claim(j)
    <3>1. ~Building(j)' /\ rec'[j] = rec[j]
      BY <1>b, <1>3, <1>6, <2>1 DEF Building
    <3>2. QED BY <3>1, ClaimDropped
  <2>2. QED BY <1>9, <1>11, <2>1
<1>13. \A a, b : Fact(a, b)' => Fact(a, b)
  <2>1. Fact(y, x)
    BY <1>1 DEF Fact
  <2>2. QED BY <1>4, <1>5, <1>9, <2>1
<1>14. /\ Matched' /\ Disjoint' /\ Apart'
       /\ \A j \in Instances : \A z : Covers(j, z)' => Covers(j, z)
  BY <1>0, <1>12, <1>13, ClaimsShrink DEF Claims
<1>15. Halves'
  <2>1. ifaces' = ifaces
    BY <1>b, StoresSame
  <2>2. ASSUME NEW r \in Pending', IfacePut(r, r.key)
        PROVE  r.val.pair \in DOMAIN ifaces' \/ \E t \in Pending' : IfacePut(t, r.val.pair)
    <3>1. CASE r \in Pending
      BY <1>0, <1>9, <2>1, <2>2, <3>1 DEF Claims, Halves
    <3>2. CASE r \in ToSet(v.puts)
      BY <1>1, <1>4, <1>5, <2>1, <2>2, <3>2
    <3>3. QED BY <1>9, <3>1, <3>2
  <2>3. QED BY <2>2 DEF Halves
<1>16. \A r \in ToSet(v.puts) :
         Making(r) /\ (r.key \in Claim(i)' \/ (IfacePut(r, r.key) /\ r.val.pair \in Claim(i)'))
  BY <1>1, <1>4, <1>5, <1>11
<1>17. \A r \in Strays : Making(r) =>
         \A j \in Instances :
           /\ r.key \notin Claim(j)'
           /\ IfacePut(r, r.key) => r.val.pair \notin Claim(j)'
  BY <1>0, <1>12 DEF Calls, StrayPuts
<1>18. \A t \in Pending : ~Making(t) =>
         /\ \A j \in Instances : Covers(j, t.key)' => Covers(j, t.key)
         /\ \A r \in ToSet(v.puts) : IfacePut(r, r.key) => t.key \notin {r.key, r.val.pair}
  <2>1. Covers(i, x) /\ Covers(i, y)
    BY <1>1 DEF Covers, Mates, Fact
  <2>2. ASSUME NEW t \in Pending, ~Making(t) PROVE t.key \notin {x, y}
    BY <1>0, <1>2, <2>1, <2>2 DEF Calls, Removals
  <2>3. QED BY <1>4, <1>5, <1>14, <2>2
<1>19. Progress(p)'
  <2> DEFINE P == ToSet(v.puts)
  <2>1. /\ ifaces' = ifaces /\ namespaces' = namespaces /\ cps' = cps
        /\ rec'[i].status = "DEFINED"
    BY <1>a, <1>b, <1>2, StoresSame DEF Progress
  <2>2. /\ Val(ifaces, P, y) = q.val /\ Has(ifaces, P, y)
        /\ \A a : a # y => /\ Val(ifaces, P, a) = ifaces[a]
                           /\ a \in DOMAIN ifaces => Has(ifaces, P, a)
    <3>1. PICK r \in P : IfacePut(r, y) /\ Val(ifaces, P, y) = r.val
      BY <1>b, <1>4, ValIs
    <3>2. r = q
      BY <1>5, <3>1
    <3>3. \A a : a # y => ~(\E t \in P : IfacePut(t, a))
      BY <1>4, <1>5
    <3>4. QED BY <1>1, <3>1, <3>2, <3>3, ValIs DEF Has
  <2>3. ASSUME NEW m \in 1 .. Len(w.intfs)
        PROVE  /\ Linked(ifaces, namespaces, P, w.intfs[m], n)
               /\ Ends(IntfsOf[i][m], Outer(ifaces, P, w.intfs[m]), Made(p))
    <3> DEFINE z == w.intfs[m]
    <3>1. Linked(ifaces, namespaces, {}, z, n) /\ z \in Claim(i)
      BY <1>1
    <3>2. /\ z \in DOMAIN ifaces /\ ifaces[z].net_ns = n /\ ifaces[z].pair \in DOMAIN ifaces
          /\ z \in DOMAIN namespaces[n]
      <4>1. /\ Has(ifaces, {}, z) /\ Val(ifaces, {}, z).net_ns = n
            /\ InList(namespaces, {}, n, z) /\ Has(ifaces, {}, Val(ifaces, {}, z).pair)
        BY <3>1 DEF Linked
      <4>2. Val(ifaces, {}, z) = ifaces[z] /\ \A a : Has(ifaces, {}, a) <=> a \in DOMAIN ifaces
        BY ValIs
      <4>3. z \in DOMAIN namespaces[n]
        BY <4>1 DEF InList
      <4>4. QED BY <4>1, <4>2, <4>3
    <3>3. z # y
      BY <1>1, <3>1
    <3>4. Has(ifaces, P, z) /\ Val(ifaces, P, z) = ifaces[z] /\ Has(ifaces, P, ifaces[z].pair)
      BY <2>2, <3>2, <3>3
    <3>5. InList(namespaces, P, n, z)
      BY <1>4, <1>5, <3>2, <3>3 DEF InList
    <3>6. Linked(ifaces, namespaces, P, z, n)
      BY <3>2, <3>4, <3>5 DEF Linked
    <3>7. CASE m = Len(w.intfs)
      <4>1. z = x /\ m = IntfAt(p)
        BY <1>1, <3>7
      <4>2. ifaces[z].pair = y
        BY <1>1, <4>1
      <4>3. Outer(ifaces, P, z) = q.val.net_ns
        BY <2>2, <3>4, <4>2 DEF Outer
      <4>4. Outer(ifaces, P, z) = c
        BY <1>4, <4>3
      <4>5. QED BY <1>b, <3>6, <4>1, <4>4
    <3>8. CASE m # Len(w.intfs)
      <4>1. ifaces[z].pair # y /\ Ends(IntfsOf[i][m], Outer(ifaces, {}, z), Made(p))
        BY <1>1, <3>8
      <4>2. Outer(ifaces, P, z) = ifaces[ifaces[z].pair].net_ns
        BY <2>2, <3>4, <4>1 DEF Outer
      <4>3. Outer(ifaces, {}, z) = ifaces[ifaces[z].pair].net_ns
        BY ValIs DEF Outer
      <4>4. QED BY <3>6, <4>1, <4>2, <4>3
    <3>9. QED BY <3>7, <3>8
  <2>4. /\ \A a \in Made(p) : a \in cps
        /\ \A a, b \in DOMAIN w.cps : w.cps[a] = w.cps[b] => a = b
        /\ DOMAIN w.cps = {CpsOf[i][m] : m \in {z \in 1 .. Len(CpsOf[i]) : z < w.k}}
        /\ Len(w.intfs) = w.k - Len(CpsOf[i]) /\ Len(w.intfs) <= Len(IntfsOf[i])
    <3>1. \A a \in Made(p) : a \in cps
      BY <1>2 DEF Progress
    <3>2. QED BY <1>a, <1>2, <3>1 DEF Progress
  <2>5. Len(CpsOf[i]) \in Nat /\ Len(IntfsOf[i]) \in Nat /\ w.k \in Nat
    BY <1>a, <1>2, Sizes DEF WorkTyped
  <2>6. \A z \in 1 .. Len(CpsOf[i]) : z < v.k <=> z < w.k
    BY <1>1, <1>3, <2>5
  <2>7. DOMAIN v.cps = {CpsOf[i][m] : m \in {z \in 1 .. Len(CpsOf[i]) : z < v.k}}
    BY <1>3, <2>4, <2>6
  <2>8. /\ v.k > Len(CpsOf[i]) /\ Len(v.intfs) = v.k - Len(CpsOf[i]) - 1
        /\ Len(v.intfs) <= Len(IntfsOf[i]) /\ ~(v.k <= Len(CpsOf[i]))
    <3>1. w.k > Len(CpsOf[i]) /\ v.k = w.k + 1 /\ Len(v.intfs) = Len(w.intfs)
      BY <1>1, <1>3
    <3>2. QED BY <2>4, <2>5, <3>1
  <2>9. /\ \A a \in Made(p)' : a \in cps'
        /\ \A a, b \in DOMAIN v.cps : v.cps[a] = v.cps[b] => a = b
        /\ \A m \in 1 .. Len(v.intfs) :
             /\ Linked(ifaces', namespaces', P, v.intfs[m], n)
             /\ Ends(IntfsOf[i][m], Outer(ifaces', P, v.intfs[m]), Made(p)')
        /\ n \in DOMAIN namespaces' /\ n \in NetNs /\ P = Puts(p)'
    <3>1. /\ \A a \in Made(p)' : a \in cps'
          /\ \A a, b \in DOMAIN v.cps : v.cps[a] = v.cps[b] => a = b
          /\ P = Puts(p)'
      BY <1>3, <1>9, <1>10, <2>1, <2>4
    <3>2. n \in DOMAIN namespaces' /\ n \in NetNs
      BY <1>1, <2>1
    <3>3. \A m \in 1 .. Len(v.intfs) :
            /\ Linked(ifaces', namespaces', P, v.intfs[m], n)
            /\ Ends(IntfsOf[i][m], Outer(ifaces', P, v.intfs[m]), Made(p)')
      BY <1>3, <1>10, <2>1, <2>3
    <3>4. QED BY <3>1, <3>2, <3>3
  <2>10. /\ v = work'[p] /\ rec'[i].status = "DEFINED"
         /\ v.netns = n /\ v.pc = "create" /\ v.inst = i
    BY <1>3, <1>6, <2>1
  <2> HIDE DEF P
  <2>11. QED BY <2>7, <2>8, <2>9, <2>10 DEF Progress
<1>20. Claims'
  BY <1>14, <1>15 DEF Claims
<1>21. v.pc # "idle"
  BY <1>3
<1>22. QED
  BY <1>2, <1>3, <1>8, <1>11, <1>16, <1>17, <1>18, <1>19, <1>20, <1>21, CallHolds

LEMMA AttachHolds ==
  ASSUME IInv, NEW p \in Plugins, Attach(p) PROVE IInv'
<1>1. PICK w, i, n, x, y, id :
        /\ w = work[p] /\ i = w.inst /\ n = w.netns /\ x = Last(w.intfs)
        /\ y = w.pair /\ id = IntfsOf[i][IntfAt(p)]
  OBVIOUS
<1>2. /\ w.pc = "attach" /\ w.puts = <<>> /\ work[p].puts = <<>> /\ work[p].pc = "attach"
  BY <1>1 DEF Attach, At
<1>3. /\ n \in NetNs /\ y \in Ifaces /\ ifaces[y].net_ns = n /\ ifaces[y] \in VethRecord
  BY <1>1, <1>2, Halfway
<1>4. WorkTyped(p) /\ DOMAIN w.cps \subseteq CpIds
      /\ \A a \in DOMAIN w.cps : w.cps[a] \in Cps /\ w.cps[a] \in Made(p)
  <2>1. WorkTyped(p)
    BY <1>2, Before
  <2>2. QED BY <1>1, <2>1 DEF WorkTyped, Made
<1>5. ASSUME NEW c \in NetNs \cup Cps \cup {None}
      PROVE  /\ PairPut(y, c).store = "ifaces" /\ PairPut(y, c).key = y
             /\ IsPut(PairPut(y, c))
  <2> DEFINE q == PairPut(y, c)
  <2>1. /\ q.store = "ifaces" /\ q.key = y /\ q.val = [ifaces[y] EXCEPT !.net_ns = c]
    BY DEF PutOf, PairPut
  <2>2. q.val \in VethRecord
    <3> DEFINE r == ifaces[y]
    <3>1. r \in VethRecord
      BY <1>3
    <3>2. q.val = [r EXCEPT !.net_ns = c]
      BY <2>1
    <3> HIDE DEF r, q
    <3>3. QED BY <3>1, <3>2, VethMoved
  <2> HIDE DEF q
  <2>3. q.store = "ifaces" /\ q.key = y /\ IsPut(q)
    BY <1>3, <2>1, <2>2 DEF IsPut
  <2>4. QED BY <2>3 DEF q
<1>7. CASE id = None
  <2>1. PICK q, t, v :
          /\ q = PairPut(y, None) /\ t = PutOf("unlist", n, y)
          /\ v = [[w EXCEPT !.pc = "create", !.k = @ + 1] EXCEPT !.puts = <<q, t>>]
    OBVIOUS
  <2>2. /\ work' = [work EXCEPT ![p] = v]
        /\ UNCHANGED <<failed, netVars, rec, strays, faults>>
    BY <1>1, <1>3, <1>4, <1>7, <2>1, InstanceAssumption
    DEF Attach, MovePuts, PairPut, Call, Advance, callVars
  <2>3. q.store = "ifaces" /\ q.key = y /\ IsPut(q)
    BY <1>5, <2>1
  <2>4. t.store = "unlist" /\ t.key = n /\ IsPut(t)
    BY <1>3, <2>1 DEF PutOf, IsPut
  <2>5. PutSeq(<<q, t>>) /\ ToSet(<<q, t>>) = {q, t}
    BY <1>3, <2>3, <2>4, TwoPuts, Keys
  <2>6. Ends(IntfsOf[i][IntfAt(p)], None, Made(p))
    BY <1>1, <1>7 DEF Ends
  <2>7. AttachesAt(p, v, None)
    <3>1. /\ v.pc = "create" /\ v.inst = w.inst /\ v.netns = w.netns /\ v.cps = w.cps
          /\ v.intfs = w.intfs /\ v.pair = w.pair /\ v.k = w.k + 1 /\ v.rest = w.rest
          /\ v.puts = <<q, t>> /\ DOMAIN v = DOMAIN Idle
      BY <1>1, <1>4, <2>1, IdleIs DEF WorkTyped
    <3>2. /\ PutSeq(v.puts) /\ PairPut(y, None) \in ToSet(v.puts)
          /\ \A r \in ToSet(v.puts) : r = PairPut(y, None) \/ r = PutOf("unlist", n, y)
      BY <2>1, <2>5, <3>1
    <3>3. /\ UNCHANGED netVars /\ rec' = rec /\ strays' = strays
          /\ faults' = faults /\ failed' = failed
          /\ work' = [work EXCEPT ![p] = v]
      BY <2>2
    <3>4. None \in NetNs \cup Cps \cup {None}
      OBVIOUS
    <3>5. QED BY <1>1, <2>6, <3>1, <3>2, <3>3, <3>4 DEF AttachesAt
  <2>8. QED BY <1>2, <2>7, AttachCall
<1>8. CASE id \in DOMAIN w.cps
  <2>1. PICK c, q, v :
          /\ c = w.cps[id] /\ q = PairPut(y, c)
          /\ v = [[w EXCEPT !.pc = "create", !.k = @ + 1] EXCEPT !.puts = <<q>>]
    OBVIOUS
  <2>2. id # None
    BY <1>4, <1>8, InstanceAssumption
  <2>3. /\ work' = [work EXCEPT ![p] = v]
        /\ UNCHANGED <<failed, netVars, rec, strays, faults>>
    BY <1>1, <1>8, <2>1, <2>2 DEF Attach, BindPuts, PairPut, Call, Advance, callVars
  <2>4. c \in Cps /\ c \in Made(p)
    BY <1>4, <1>8, <2>1
  <2>5. PutSeq(<<q>>) /\ ToSet(<<q>>) = {q}
    BY <1>5, <2>1, <2>4, OnePut
  <2>6. Ends(IntfsOf[i][IntfAt(p)], c, Made(p))
    BY <1>1, <2>2, <2>4 DEF Ends
  <2>7. AttachesAt(p, v, c)
    <3>1. /\ v.pc = "create" /\ v.inst = w.inst /\ v.netns = w.netns /\ v.cps = w.cps
          /\ v.intfs = w.intfs /\ v.pair = w.pair /\ v.k = w.k + 1 /\ v.rest = w.rest
          /\ v.puts = <<q>> /\ DOMAIN v = DOMAIN Idle
      BY <1>1, <1>4, <2>1, IdleIs DEF WorkTyped
    <3>2. /\ PutSeq(v.puts) /\ PairPut(y, c) \in ToSet(v.puts)
          /\ \A r \in ToSet(v.puts) : r = PairPut(y, c) \/ r = PutOf("unlist", n, y)
      BY <2>1, <2>5, <3>1
    <3>3. /\ UNCHANGED netVars /\ rec' = rec /\ strays' = strays
          /\ faults' = faults /\ failed' = failed
          /\ work' = [work EXCEPT ![p] = v]
      BY <2>3
    <3>4. c \in NetNs \cup Cps \cup {None}
      BY <2>4
    <3>5. QED BY <1>1, <2>6, <3>1, <3>2, <3>3, <3>4 DEF AttachesAt
  <2>8. QED BY <1>2, <2>7, AttachCall
<1>9. CASE id \notin DOMAIN w.cps \cup {None}
  <2>1. Refused(p)
    BY <1>1, <1>9 DEF Attach
  <2>2. QED BY <1>2, <2>1, RefusedHolds
<1>10. QED BY <1>7, <1>8, <1>9

-----------------------------------------------------------------------------
(* Cleaning                                                                *)

(* Nothing is of two instances.                                            *)
LEMMA CoversOne ==
  ASSUME Typed, Claims, NEW i \in Instances, NEW j \in Instances, NEW z,
         Covers(i, z), Covers(j, z)
  PROVE  i = j
<1>1. Matched /\ Disjoint /\ Apart
  BY DEF Claims
<1>2. ASSUME NEW x \in Claim(i), NEW y \in Claim(j), Mates(x, z), Mates(y, z)
      PROVE  i = j
  <2>1. Mates(z, x) /\ Mates(z, y) /\ x \in Ifaces /\ y \in Ifaces /\ z \in Ifaces
    BY <1>2, MatesAre, MatesSym
  <2>2. x = y
    BY <1>1, <2>1 DEF Matched
  <2>3. QED BY <1>1, <1>2, <2>2 DEF Disjoint
<1>3. QED BY <1>1, <1>2, MatesSym DEF Covers, Disjoint, Apart

(* What an operation that cleans i knows.                                  *)
LEMMA CleaningIs ==
  ASSUME IInv, NEW p \in Plugins, work[p].pc \in {"clean", "delete"},
         NEW i, i = work[p].inst
  PROVE  /\ Typed /\ Claims /\ Cleaning(p) /\ Cleanup(p) /\ WorkTyped(p)
         /\ i \in Instances /\ PluginOf[i] = p /\ IsConfigured(i)
         /\ Claim(i) = {rec[i].netns} \cup rec[i].cps \cup Listed(i)
         /\ rec[i].netns \in NetNs /\ rec[i].cps \subseteq Cps
         /\ rec[i].intfs \in Seq(Ifaces)
         /\ DOMAIN work = Plugins /\ work[p].netns = rec[i].netns
         /\ work[p].intfs = rec[i].intfs
<1>1. Typed /\ Claims /\ Cleaning(p) /\ Cleanup(p) /\ WorkTyped(p)
  BY DEF IInv, Works, Cleaning, Typed
<1>2. /\ i \in Instances /\ PluginOf[i] = p /\ IsConfigured(i)
      /\ work[p].netns = rec[i].netns /\ work[p].intfs = rec[i].intfs
  BY <1>1, WorkOf DEF Cleanup
<1>3. RecTyped(i) /\ DOMAIN work = Plugins
  BY <1>1, <1>2 DEF Typed
<1>4. QED BY <1>1, <1>2, <1>3, Keys DEF RecTyped, Claim

(* Plugin p goes on with v, whose puts remove what is of its instance.     *)
Removes(p, v) ==
  LET i == work[p].inst
  IN /\ Issued(p, v)
     /\ v.pc = "delete" /\ v.inst = i
     /\ \A r \in ToSet(v.puts) :
          /\ ~Making(r) /\ Covers(i, r.key)
          /\ r.store = "namespaces" => r.key = rec[i].netns
          /\ r.key = rec[i].netns \/ rec[i].netns \notin DOMAIN namespaces

LEMMA RemoveCall ==
  ASSUME IInv, NEW p \in Plugins, work[p].pc \in {"clean", "delete"},
         NEW v, Removes(p, v), Cleanup(p)'
  PROVE  IInv'
<1>0. PICK w, i, R : w = work[p] /\ i = w.inst /\ R = ToSet(v.puts)
  OBVIOUS
<1>1. /\ Typed /\ Claims /\ i \in Instances /\ PluginOf[i] = p /\ IsConfigured(i)
      /\ Matched /\ Disjoint /\ Apart /\ Halves /\ Calls
  BY <1>0, CleaningIs DEF Claims, IInv
<1>2. Issued(p, v) /\ v.pc = "delete" /\ v.inst = i
  BY <1>0 DEF Removes
<1>3. \A r \in R :
        /\ ~Making(r) /\ Covers(i, r.key)
        /\ r.store = "namespaces" => r.key = rec[i].netns
        /\ r.key = rec[i].netns \/ rec[i].netns \notin DOMAIN namespaces
  BY <1>0 DEF Removes
<1>4. /\ work'[p] = v
      /\ \A q : q \in Pending' <=> q \in Pending \/ q \in R
      /\ \A a, b : Fact(a, b)' =>
           Fact(a, b) \/ \E q \in R : IfacePut(q, a) /\ q.val.pair = b
      /\ \A j \in Instances : PluginOf[j] # p => Claim(j)' = Claim(j)
  BY <1>0, <1>1, <1>2, IssuedIs
<1>5. rec' = rec /\ ifaces' = ifaces
  BY <1>2, StoresSame DEF Issued
<1>6. ~Configuring(p)' /\ Cleaning(p)'
  BY <1>2, <1>4 DEF Configuring, Cleaning
<1>7. \A j \in Instances : Claim(j)' \subseteq Claim(j)
  <2>1. ASSUME NEW j \in Instances, PluginOf[j] = p PROVE Claim(j)' \subseteq Claim(j)
    <3>1. ~Building(j)'
      BY <1>6, <2>1 DEF Building
    <3>2. QED BY <1>5, <3>1, ClaimDropped
  <2>2. QED BY <1>4, <2>1
<1>8. \A a, b : Fact(a, b)' => Fact(a, b)
  BY <1>3, <1>4 DEF IfacePut
<1>9. /\ Matched' /\ Disjoint' /\ Apart'
      /\ \A j \in Instances : \A z : Covers(j, z)' => Covers(j, z)
  BY <1>1, <1>7, <1>8, ClaimsShrink
<1>10. Halves'
  BY <1>1, <1>3, <1>4, <1>5 DEF Halves, IfacePut
<1>11. ASSUME NEW r \in Pending', IfacePut(r, r.key), NEW q, Covers(i, q.key)
       PROVE  q.key \notin {r.key, r.val.pair}
  <2>1. r \in Pending /\ Making(r)
    BY <1>3, <1>4, <1>11 DEF IfacePut
  <2>2. ~Covers(i, r.key)
    BY <1>1, <2>1, ConfiguredSpared
  <2>3. ASSUME q.key = r.val.pair PROVE FALSE
    <3>1. Mates(r.key, q.key) /\ Mates(q.key, r.key)
      BY <1>11, <2>1, <2>3 DEF Mates, Fact
    <3>2. q.key \notin Claim(i)
      BY <2>2, <3>1 DEF Covers
    <3>3. PICK x \in Claim(i) : Mates(x, q.key)
      BY <1>11, <3>2 DEF Covers
    <3>4. Mates(q.key, x) /\ x \in Ifaces /\ q.key \in Ifaces /\ r.key \in Ifaces
      BY <1>1, <3>1, <3>3, MatesAre, MatesSym
    <3>5. x = r.key
      BY <1>1, <3>1, <3>4 DEF Matched
    <3>6. QED BY <2>2, <3>3, <3>5 DEF Covers
  <2>4. QED BY <1>11, <2>2, <2>3
<1>12. \A q \in R : ~Making(q) =>
         /\ \A j \in Instances : Covers(j, q.key)' =>
              /\ IsConfigured(j)
              /\ q.key = rec[j].netns \/ rec[j].netns \notin DOMAIN namespaces
         /\ \A r \in Pending' : IfacePut(r, r.key) => q.key \notin {r.key, r.val.pair}
  <2>1. ASSUME NEW q \in R, NEW j \in Instances, Covers(j, q.key)' PROVE j = i
    BY <1>1, <1>3, <1>9, <2>1, CoversOne
  <2>2. QED BY <1>1, <1>3, <1>11, <2>1
<1>13. \A q \in Strays : Making(q) =>
         \A j \in Instances :
           /\ q.key \notin Claim(j)'
           /\ IfacePut(q, q.key) => q.val.pair \notin Claim(j)'
  BY <1>1, <1>7 DEF Calls, StrayPuts
<1>14. \A q \in Pending : ~Making(q) =>
         /\ \A j \in Instances : Covers(j, q.key)' => Covers(j, q.key)
         /\ \A r \in R : IfacePut(r, r.key) => q.key \notin {r.key, r.val.pair}
  BY <1>3, <1>9 DEF IfacePut
<1>15. Claims' /\ v.pc # "idle"
  BY <1>2, <1>9, <1>10 DEF Claims
<1>16. \A j \in Instances : PluginOf[j] = p /\ j = v.inst =>
         \A q \in R :
           /\ Making(q) =>
                /\ Configuring(p)'
                /\ q.key \in Claim(j)' \/ (IfacePut(q, q.key) /\ q.val.pair \in Claim(j)')
           /\ ~Making(q) =>
                /\ Cleaning(p)'
                /\ q.store = "namespaces" => q.key = rec[j].netns
  BY <1>2, <1>3, <1>6
<1>17. QED
  BY <1>0, <1>2, <1>6, <1>12, <1>13, <1>14, <1>15, <1>16, CallHolds

LEMMA DeleteNamespaceHolds ==
  ASSUME IInv, NEW p \in Plugins, DeleteNamespace(p) PROVE IInv'
<1>1. PICK w, i, n, q, v :
        /\ w = work[p] /\ i = w.inst /\ n = w.netns
        /\ q = PutOf("namespaces", n, None)
        /\ v = [[w EXCEPT !.pc = "delete"] EXCEPT !.puts = <<q>>]
  OBVIOUS
<1>2. w.pc = "clean" /\ w.puts = <<>> /\ work[p].puts = <<>> /\ work[p].pc \in {"clean", "delete"}
  BY <1>1 DEF DeleteNamespace, At
<1>3. CASE n \notin DOMAIN namespaces
  <2>1. Refused(p)
    BY <1>1, <1>3 DEF DeleteNamespace
  <2>2. QED BY <1>2, <2>1, RefusedHolds
<1>4. CASE n \in DOMAIN namespaces
  <2>1. /\ work' = [work EXCEPT ![p] = v]
        /\ UNCHANGED <<failed, netVars, rec, strays, faults>>
    BY <1>1, <1>4 DEF DeleteNamespace, Call, Advance, callVars
  <2>2. /\ Typed /\ Cleanup(p) /\ WorkTyped(p) /\ i \in Instances /\ PluginOf[i] = p
        /\ IsConfigured(i)
        /\ Claim(i) = {rec[i].netns} \cup rec[i].cps \cup Listed(i)
        /\ rec[i].cps \subseteq Cps /\ n \in NetNs /\ n = rec[i].netns /\ DOMAIN work = Plugins
        /\ w.intfs = rec[i].intfs
    BY <1>1, <1>2, CleaningIs
  <2>3. /\ v.pc = "delete" /\ v.inst = i /\ v.netns = n /\ v.cps = w.cps
        /\ v.intfs = w.intfs /\ v.pair = w.pair /\ v.k = w.k /\ v.rest = w.rest
        /\ v.puts = <<q>> /\ DOMAIN v = DOMAIN Idle
    BY <1>1, <2>2, IdleIs DEF WorkTyped
  <2>4. q.store = "namespaces" /\ q.key = n /\ ~Making(q) /\ IsPut(q)
    BY <1>1, <2>2 DEF PutOf, Making, IsPut
  <2>5. PutSeq(<<q>>) /\ ToSet(<<q>>) = {q}
    BY <2>4, OnePut
  <2>6. work'[p] = v /\ Puts(p)' = {q} /\ rec' = rec
    BY <2>1, <2>2, <2>3, <2>5 DEF Puts
  <2>7. w.k = 1 /\ w.rest = rec[i].cps
    BY <1>1, <1>2, <2>2 DEF Cleanup
  <2>8. WorkTyped(p)'
    <3>1. /\ w.intfs \in Seq(Ifaces) /\ w.pair \in Ifaces \cup {None}
          /\ DOMAIN w.cps \subseteq CpIds /\ \A id \in DOMAIN w.cps : w.cps[id] \in Cps
      BY <1>1, <2>2 DEF WorkTyped
    <3>2. v.k \in Nat /\ v.k >= 1 /\ v.rest \subseteq Cps /\ v.netns \in NetNs
      BY <2>2, <2>3, <2>7
    <3>3. PutSeq(v.puts)
      BY <2>3, <2>5
    <3>4. QED BY <2>2, <2>3, <2>6, <3>1, <3>2, <3>3 DEF WorkTyped
  <2>9. Issued(p, v)
    BY <1>1, <1>2, <2>1, <2>8 DEF Issued
  <2>10. Covers(i, n)
    BY <2>2 DEF Covers
  <2>11. \A r \in ToSet(v.puts) : r = q
    BY <2>3, <2>5
  <2>12. Removes(p, v)
    BY <1>1, <2>2, <2>3, <2>4, <2>9, <2>10, <2>11 DEF Removes
  <2>13. Cleanup(p)'
    <3>1. Removing(p, n)'
      BY <2>4, <2>6 DEF Removing
    <3>2. IsConfigured(i)' /\ rec'[i] = rec[i]
      BY <2>2, <2>6 DEF IsConfigured
    <3>3. (rec'[i].cps \cap cps') \ v.rest = {} /\ v.rest \subseteq rec'[i].cps
      BY <2>3, <2>7, <3>2
    <3>4. /\ v = work'[p] /\ v.inst = i /\ v.pc = "delete" /\ v.netns = rec'[i].netns
          /\ v.netns = n /\ v.intfs = rec'[i].intfs
      BY <2>2, <2>3, <2>6, <3>2
    <3>5. \A m \in 1 .. Len(rec'[i].intfs) : ~(m < v.k)
      BY <2>3, <2>7
    <3>6. QED BY <3>1, <3>2, <3>3, <3>4, <3>5 DEF Cleanup
  <2>14. QED BY <1>2, <2>12, <2>13, RemoveCall
<1>5. QED BY <1>3, <1>4

(* Of the instance i are gone the namespace, the interfaces before the k-th *)
(* with their other halves, and the connection points other than rest.     *)
GoneSoFar(i, k, rest) ==
  /\ rec[i].netns \notin DOMAIN namespaces
  /\ rec[i].cps \cap cps \subseteq rest /\ rest \subseteq rec[i].cps
  /\ \A m \in 1 .. Len(rec[i].intfs) : m < k =>
       /\ rec[i].intfs[m] \notin DOMAIN ifaces
       /\ \A a \in DOMAIN ifaces : ifaces[a].pair # rec[i].intfs[m]

LEMMA GoneIs ==
  ASSUME IInv, NEW p \in Plugins, work[p].puts = <<>>, work[p].pc = "delete"
  PROVE  GoneSoFar(work[p].inst, work[p].k, work[p].rest)
<1>1. Cleanup(p)
  BY CleaningIs
<1>2. Puts(p) = {}
  BY NoPuts DEF Puts
<1>3. \A z : ~Removing(p, z)
  BY <1>2 DEF Removing
<1>4. QED BY <1>1, <1>3 DEF Cleanup, GoneSoFar

(* How it goes on with v.                                                  *)
LEMMA CleanupIs ==
  ASSUME NEW p, NEW v, v = work'[p], NEW i, i = v.inst, NEW r, r = rec[i],
         rec' = rec, ifaces' = ifaces, cps' = cps, namespaces' = namespaces,
         IsConfigured(i), v.pc = "delete", v.netns = r.netns, v.rest \subseteq r.cps,
         v.intfs = r.intfs, r.netns \notin DOMAIN namespaces,
         \A c \in (r.cps \cap cps) \ v.rest :
           \E q \in ToSet(v.puts) : ~Making(q) /\ q.key = c,
         \A m \in 1 .. Len(r.intfs) : m < v.k =>
           \A a \in DOMAIN ifaces : a = r.intfs[m] \/ ifaces[a].pair = r.intfs[m] =>
             \E q \in ToSet(v.puts) : ~Making(q) /\ q.key = a
  PROVE  Cleanup(p)'
<1>1. rec'[i] = r /\ IsConfigured(i)'
  BY DEF IsConfigured
<1>2. \A a : Removing(p, a)' <=> \E q \in ToSet(v.puts) : ~Making(q) /\ q.key = a
  BY DEF Removing, Puts
<1>3. \A m \in 1 .. Len(r.intfs) : m < v.k =>
        /\ r.intfs[m] \in DOMAIN ifaces =>
             \E q \in ToSet(v.puts) : ~Making(q) /\ q.key = r.intfs[m]
        /\ \A a \in DOMAIN ifaces : ifaces[a].pair = r.intfs[m] =>
             \E q \in ToSet(v.puts) : ~Making(q) /\ q.key = a
  OBVIOUS
<1>4. QED BY <1>1, <1>3 DEF Cleanup, Removing, Puts

LEMMA DeleteInterfaceHolds ==
  ASSUME IInv, NEW p \in Plugins, DeleteInterface(p) PROVE IInv'
<1>1. PICK w, i, z, y, q, t, v :
        /\ w = work[p] /\ i = w.inst /\ z = w.intfs[w.k] /\ y = ifaces[z].pair
        /\ q = PutOf("ifaces", y, None) /\ t = PutOf("ifaces", z, None)
        /\ v = [[w EXCEPT !.k = @ + 1] EXCEPT !.puts = <<q, t>>]
  OBVIOUS
<1>a. w = work[p] /\ i = w.inst
  BY <1>1
<1>2. /\ w.pc = "delete" /\ w.puts = <<>> /\ work[p].puts = <<>> /\ work[p].pc = "delete"
      /\ w.k <= Len(w.intfs)
  BY <1>1 DEF DeleteInterface, At
<1>b. /\ z = rec[i].intfs[w.k] /\ w.k <= Len(rec[i].intfs)
      /\ w.intfs = rec[i].intfs
  <2>1. w.intfs = rec[i].intfs
    BY <1>a, <1>2, CleaningIs
  <2>2. QED BY <1>1, <1>2, <2>1
<1>3. CASE z \notin DOMAIN ifaces
  <2>1. Refused(p)
    BY <1>1, <1>3 DEF DeleteInterface
  <2>2. QED BY <1>2, <2>1, RefusedHolds
<1>4. CASE z \in DOMAIN ifaces
  <2>1. /\ work' = [work EXCEPT ![p] = v]
        /\ UNCHANGED <<failed, netVars, rec, strays, faults>>
    BY <1>1, <1>4 DEF DeleteInterface, DeletePuts, Call, Advance, callVars
  <2>2. /\ Typed /\ Claims /\ Cleanup(p) /\ WorkTyped(p) /\ i \in Instances
        /\ PluginOf[i] = p /\ IsConfigured(i)
        /\ Claim(i) = {rec[i].netns} \cup rec[i].cps \cup Listed(i)
        /\ rec[i].intfs \in Seq(Ifaces) /\ DOMAIN work = Plugins
        /\ rec[i].netns \in NetNs /\ w.netns = rec[i].netns
    BY <1>1, <1>2, CleaningIs
  <2>3. /\ v.pc = "delete" /\ v.inst = i /\ v.netns = w.netns /\ v.cps = w.cps
        /\ v.intfs = w.intfs /\ v.pair = w.pair /\ v.k = w.k + 1 /\ v.rest = w.rest
        /\ v.puts = <<q, t>> /\ DOMAIN v = DOMAIN Idle
    BY <1>1, <1>2, <2>2, IdleIs DEF WorkTyped
  <2>4. w.k \in 1 .. Len(rec[i].intfs) /\ w.k \in Nat
    <3>1. w.k \in Nat /\ w.k >= 1
      BY <1>a, <1>2, <2>2 DEF WorkTyped
    <3>2. Len(rec[i].intfs) \in Nat
      BY <2>2
    <3>3. QED BY <1>b, <3>1, <3>2
  <2>5. z \in Ifaces /\ z \in Listed(i) /\ z \in Claim(i)
    <3>1. z \in Ifaces
      BY <1>b, <2>2, <2>4
    <3>2. z \in Listed(i)
      BY <1>b, <2>2, <2>4 DEF Listed, ToSet
    <3>3. QED BY <2>2, <3>1, <3>2
  <2>6. y \in Ifaces /\ Mates(z, y) /\ y # z
    <3>1. ifaces[z] \in VethRecord
      BY <1>4, <2>2 DEF Typed
    <3>2. y \in Ifaces
      BY <1>1, <3>1, VethAre
    <3>3. Mates(z, y)
      BY <1>1, <1>4 DEF Mates, Fact
    <3>4. QED BY <2>2, <2>5, <3>2, <3>3 DEF Claims, Matched
  <2>7. /\ q.store = "ifaces" /\ q.key = y /\ ~Making(q) /\ IsPut(q)
        /\ t.store = "ifaces" /\ t.key = z /\ ~Making(t) /\ IsPut(t)
    BY <1>1, <2>5, <2>6 DEF PutOf, Making, IsPut
  <2>8. PutSeq(<<q, t>>) /\ ToSet(<<q, t>>) = {q, t}
    BY <2>6, <2>7, TwoPuts
  <2>9. work'[p] = v /\ Puts(p)' = {q, t} /\ rec' = rec
    BY <2>1, <2>2, <2>3, <2>8 DEF Puts
  <2>10. WorkTyped(p)'
    <3>1. /\ w.intfs \in Seq(Ifaces) /\ w.pair \in Ifaces \cup {None}
          /\ DOMAIN w.cps \subseteq CpIds /\ \A id \in DOMAIN w.cps : w.cps[id] \in Cps
          /\ w.rest \subseteq Cps /\ w.netns \in NetNs \cup {None}
      BY <1>1, <2>2 DEF WorkTyped
    <3>2. v.k \in Nat /\ v.k >= 1
      BY <2>3, <2>4
    <3>3. PutSeq(v.puts)
      BY <2>3, <2>8
    <3>4. QED BY <2>2, <2>3, <2>9, <3>1, <3>2, <3>3 DEF WorkTyped
  <2>11. Issued(p, v)
    BY <1>1, <1>2, <2>1, <2>10 DEF Issued
  <2>12. Covers(i, y) /\ Covers(i, z)
    BY <2>5, <2>6 DEF Covers
  <2>13. /\ rec[i].netns \notin DOMAIN namespaces
         /\ rec[i].cps \cap cps \subseteq w.rest /\ w.rest \subseteq rec[i].cps
         /\ \A m \in 1 .. Len(rec[i].intfs) : m < w.k =>
              /\ rec[i].intfs[m] \notin DOMAIN ifaces
              /\ \A a \in DOMAIN ifaces : ifaces[a].pair # rec[i].intfs[m]
    <3>1. GoneSoFar(i, w.k, w.rest)
      BY <1>a, <1>2, GoneIs
    <3>2. QED BY <3>1 DEF GoneSoFar
  <2>14. \A r \in ToSet(v.puts) : r = q \/ r = t
    BY <2>3, <2>8
  <2>15. Removes(p, v)
    BY <1>a, <2>3, <2>7, <2>11, <2>12, <2>13, <2>14 DEF Removes
  <2>16. ASSUME NEW m \in 1 .. Len(rec[i].intfs), m < v.k, NEW a \in DOMAIN ifaces,
                a = rec[i].intfs[m] \/ ifaces[a].pair = rec[i].intfs[m]
         PROVE  a \in {y, z}
    <3>1. m = w.k /\ rec[i].intfs[m] = z
      <4>1. ~(m < w.k)
        BY <2>13, <2>16
      <4>2. m = w.k
        BY <2>3, <2>4, <2>16, <4>1
      <4>3. QED BY <1>b, <4>2
    <3>2. CASE ifaces[a].pair = z
      <4>1. Mates(z, a) /\ a \in Ifaces
        BY <2>2, <2>5, <3>2, MatesAre DEF Mates, Fact
      <4>2. a = y
        BY <2>2, <2>5, <2>6, <4>1 DEF Claims, Matched
      <4>3. QED BY <4>2
    <3>3. QED BY <2>16, <3>1, <3>2
  <2>17. Cleanup(p)'
    <3>1. /\ IsConfigured(i)' /\ rec'[i] = rec[i] /\ ifaces' = ifaces /\ cps' = cps
          /\ namespaces' = namespaces
      BY <2>1, <2>2, <2>9, StoresSame DEF IsConfigured
    <3>2. \A m \in 1 .. Len(rec[i].intfs) : m < v.k =>
            \A a \in DOMAIN ifaces : a = rec[i].intfs[m] \/ ifaces[a].pair = rec[i].intfs[m] =>
              \E r \in ToSet(v.puts) : ~Making(r) /\ r.key = a
      BY <2>3, <2>7, <2>8, <2>16
    <3>3. v = work'[p] /\ v.inst = i /\ v.pc = "delete" /\ v.netns = rec[i].netns
          /\ v.intfs = rec[i].intfs
      BY <1>b, <2>2, <2>3, <2>9
    <3>4. /\ rec[i].netns \notin DOMAIN namespaces /\ v.rest \subseteq rec[i].cps
          /\ (rec[i].cps \cap cps) \ v.rest = {}
      BY <2>3, <2>13
    <3>5. rec' = rec /\ IsConfigured(i)
      BY <2>2, <2>9
    <3>6. QED BY <3>1, <3>2, <3>3, <3>4, <3>5, CleanupIs
  <2>18. QED BY <1>2, <2>15, <2>17, RemoveCall
<1>5. QED BY <1>3, <1>4

LEMMA DeleteConnectionPointHolds ==
  ASSUME IInv, NEW p \in Plugins, DeleteConnectionPoint(p) PROVE IInv'
<1>1. PICK c \in work[p].rest :
        IF c \in cps
          THEN Call(p, << PutOf("cps", c, None) >>, [work[p] EXCEPT !.rest = @ \ {c}])
          ELSE Refused(p)
  BY DEF DeleteConnectionPoint
<1>2. PICK w, i, q, v :
        /\ w = work[p] /\ i = w.inst /\ q = PutOf("cps", c, None)
        /\ v = [[w EXCEPT !.rest = @ \ {c}] EXCEPT !.puts = <<q>>]
  OBVIOUS
<1>3. w.pc = "delete" /\ w.puts = <<>> /\ work[p].puts = <<>> /\ work[p].pc = "delete"
  BY <1>2 DEF DeleteConnectionPoint, At
<1>4. CASE c \notin cps
  <2>1. Refused(p)
    BY <1>1, <1>4
  <2>2. QED BY <1>3, <2>1, RefusedHolds
<1>5. CASE c \in cps
  <2>1. /\ work' = [work EXCEPT ![p] = v]
        /\ UNCHANGED <<failed, netVars, rec, strays, faults>>
    BY <1>1, <1>2, <1>5 DEF Call, Advance, callVars
  <2>2. /\ Typed /\ WorkTyped(p) /\ i \in Instances
        /\ PluginOf[i] = p /\ IsConfigured(i)
        /\ Claim(i) = {rec[i].netns} \cup rec[i].cps \cup Listed(i)
        /\ DOMAIN work = Plugins /\ rec[i].cps \subseteq Cps
        /\ rec[i].netns \in NetNs /\ w.netns = rec[i].netns
        /\ w.intfs = rec[i].intfs
    BY <1>2, <1>3, CleaningIs
  <2>3. /\ v.pc = "delete" /\ v.inst = i /\ v.netns = w.netns /\ v.cps = w.cps
        /\ v.intfs = w.intfs /\ v.pair = w.pair /\ v.k = w.k /\ v.rest = w.rest \ {c}
        /\ v.puts = <<q>> /\ DOMAIN v = DOMAIN Idle
    BY <1>2, <1>3, <2>2, IdleIs DEF WorkTyped
  <2>4. /\ rec[i].netns \notin DOMAIN namespaces
        /\ rec[i].cps \cap cps \subseteq w.rest /\ w.rest \subseteq rec[i].cps
        /\ \A m \in 1 .. Len(rec[i].intfs) : m < w.k =>
             /\ rec[i].intfs[m] \notin DOMAIN ifaces
             /\ \A a \in DOMAIN ifaces : ifaces[a].pair # rec[i].intfs[m]
    <3>1. GoneSoFar(i, w.k, w.rest)
      BY <1>2, <1>3, GoneIs
    <3>2. QED BY <3>1 DEF GoneSoFar
  <2>5. c \in rec[i].cps /\ c \in Cps /\ Covers(i, c)
    BY <1>2, <2>2, <2>4 DEF Covers
  <2>6. q.store = "cps" /\ q.key = c /\ ~Making(q) /\ IsPut(q)
    BY <1>2, <2>5 DEF PutOf, Making, IsPut
  <2>7. PutSeq(<<q>>) /\ ToSet(<<q>>) = {q}
    BY <2>6, OnePut
  <2>8. work'[p] = v /\ Puts(p)' = {q} /\ rec' = rec
    BY <2>1, <2>2, <2>3, <2>7 DEF Puts
  <2>9. WorkTyped(p)'
    <3>1. /\ w.intfs \in Seq(Ifaces) /\ w.pair \in Ifaces \cup {None}
          /\ DOMAIN w.cps \subseteq CpIds /\ \A id \in DOMAIN w.cps : w.cps[id] \in Cps
          /\ w.rest \subseteq Cps /\ w.netns \in NetNs \cup {None}
          /\ w.k \in Nat /\ w.k >= 1
      BY <1>2, <1>3, <2>2 DEF WorkTyped
    <3>2. PutSeq(v.puts) /\ v.rest \subseteq Cps
      BY <2>3, <2>7, <3>1
    <3>3. QED BY <2>2, <2>3, <2>8, <3>1, <3>2 DEF WorkTyped
  <2>10. Issued(p, v)
    BY <1>2, <1>3, <2>1, <2>9 DEF Issued
  <2>11. \A r \in ToSet(v.puts) : r = q
    BY <2>3, <2>7
  <2>12. Removes(p, v)
    BY <1>2, <2>3, <2>4, <2>5, <2>6, <2>10, <2>11 DEF Removes
  <2>13. Cleanup(p)'
    <3>1. /\ IsConfigured(i)' /\ rec'[i] = rec[i] /\ ifaces' = ifaces /\ cps' = cps
          /\ namespaces' = namespaces
      BY <2>1, <2>2, <2>8, StoresSame DEF IsConfigured
    <3>2. \A a \in (rec[i].cps \cap cps) \ v.rest :
            \E r \in ToSet(v.puts) : ~Making(r) /\ r.key = a
      BY <2>3, <2>4, <2>6, <2>7
    <3>3. \A m \in 1 .. Len(rec[i].intfs) : m < v.k =>
            \A a \in DOMAIN ifaces : ~(a = rec[i].intfs[m] \/ ifaces[a].pair = rec[i].intfs[m])
      BY <2>3, <2>4
    <3>4. v = work'[p] /\ v.inst = i /\ v.pc = "delete" /\ v.netns = rec[i].netns
          /\ v.intfs = rec[i].intfs
      BY <2>2, <2>3, <2>8
    <3>5. /\ rec[i].netns \notin DOMAIN namespaces /\ v.rest \subseteq rec[i].cps
          /\ rec' = rec /\ IsConfigured(i)
      BY <2>2, <2>3, <2>4, <2>8
    <3>6. QED BY <3>1, <3>2, <3>3, <3>4, <3>5, CleanupIs
  <2>14. QED BY <1>3, <2>12, <2>13, RemoveCall
<1>6. QED BY <1>4, <1>5

-----------------------------------------------------------------------------
(* Beginning and ending an operation                                       *)

(* Plugin p goes on with v, and calls nobody yet.                          *)
LEMMA Started ==
  ASSUME IInv, NEW p \in Plugins, NEW v, Issued(p, v), v.puts = <<>>, v.pc # "idle",
         \A i \in Instances : Claim(i)' \subseteq Claim(i),
         Configuring(p)' => Progress(p)', Cleaning(p)' => Cleanup(p)'
  PROVE  IInv'
<1>1. Typed /\ Matched /\ Disjoint /\ Apart /\ Halves /\ Calls
  BY DEF IInv, Claims
<1>2. ToSet(v.puts) = {}
  BY NoPuts
<1>3. /\ \A a, b : Fact(a, b)' => Fact(a, b)
      /\ \A q : q \in Pending' <=> q \in Pending
  BY <1>1, <1>2, IssuedIs
<1>4. /\ Matched' /\ Disjoint' /\ Apart'
      /\ \A i \in Instances : \A z : Covers(i, z)' => Covers(i, z)
  BY <1>1, <1>3, ClaimsShrink
<1>5. ifaces' = ifaces
  BY StoresSame DEF Issued
<1>6. Claims'
  BY <1>1, <1>3, <1>4, <1>5 DEF Claims, Halves
<1>7. \A q \in Strays : Making(q) =>
        \A i \in Instances :
          /\ q.key \notin Claim(i)'
          /\ IfacePut(q, q.key) => q.val.pair \notin Claim(i)'
  BY <1>1 DEF Calls, StrayPuts
<1>8. QED BY <1>2, <1>4, <1>6, <1>7, CallHolds

(* A request that waits is for an instance whose record it has.            *)
LEMMA ServedIs ==
  ASSUME Served, NEW r \in asked
  PROVE  r.inst \in Instances /\ r.copy = rec[r.inst]
BY DEF Served

LEMMA ConfigureHolds ==
  ASSUME IInv, Served, NEW r \in asked, Configure(r) PROVE IInv'
<1>0. PICK i : i = r.inst
  OBVIOUS
<1>a. i \in Instances /\ r.copy = rec[i]
  BY <1>0, ServedIs
<1>1. PICK p, v : p = PluginOf[i] /\ v = [Idle EXCEPT !.pc = "namespace", !.inst = i, !.k = 1]
  OBVIOUS
<1>2. /\ work[p].pc = "idle" /\ rec[i].status = "DEFINED" /\ p \in Plugins
      /\ work' = [work EXCEPT ![p] = v]
      /\ UNCHANGED <<failed, netVars, rec, strays, faults>>
  BY <1>0, <1>a, <1>1, InstanceAssumption DEF Configure, Begin, Advance
<1>3. Typed /\ work[p] = Idle /\ work[p].puts = <<>> /\ work'[p] = v
  BY <1>2, IdleIs DEF IInv, Typed, WorkTyped
<1>4. /\ v.pc = "namespace" /\ v.inst = i /\ v.netns = None /\ v.cps = Empty
      /\ v.intfs = <<>> /\ v.pair = None /\ v.k = 1 /\ v.rest = {} /\ v.puts = <<>>
      /\ DOMAIN v = DOMAIN Idle /\ DOMAIN v.cps = {}
  BY <1>1, IdleIs
<1>5. WorkTyped(p)'
  <2>1. v.intfs \in Seq(Ifaces) /\ PutSeq(v.puts) /\ v.k \in Nat /\ v.k >= 1
    BY <1>4, NoPuts
  <2>2. QED BY <1>a, <1>1, <1>3, <1>4, <2>1 DEF WorkTyped
<1>6. Issued(p, v)
  BY <1>2, <1>3, <1>5 DEF Issued
<1>7. ~IsConfigured(i) /\ rec' = rec
  BY <1>2 DEF IsConfigured
<1>8. Made(p)' = {} /\ ToSet(v.intfs) = {} /\ Puts(p)' = {}
  BY <1>3, <1>4, NoPuts DEF Made, Puts
<1>9. Claim(i)' = {} /\ Configuring(p)' /\ ~Cleaning(p)'
  <2>1. /\ rec'[i] = rec[i] /\ p = PluginOf[i] /\ v = work'[p]
        /\ v.inst = i /\ v.pc \in {"namespace", "create", "attach"}
    BY <1>1, <1>3, <1>4, <1>7
  <2>2. /\ Claim(i)' = ({v.netns} \cup Made(p)' \cup ToSet(v.intfs)) \ {None}
        /\ Configuring(p)' /\ ~Cleaning(p)'
    BY <1>7, <2>1, ClaimNow
  <2>3. QED BY <1>4, <1>8, <2>2
<1>10. ASSUME NEW j \in Instances PROVE Claim(j)' \subseteq Claim(j)
  <2>1. CASE PluginOf[j] # p
    BY <1>2, <1>3, <1>6, <2>1, IssuedIs
  <2>2. CASE PluginOf[j] = p /\ j # i
    <3>1. ~Building(j)' /\ rec'[j] = rec[j]
      BY <1>3, <1>4, <1>7, <2>2 DEF Building
    <3>2. QED BY <3>1, ClaimDropped
  <2>3. QED BY <1>9, <2>1, <2>2
<1>11. Progress(p)'
  <2>1. Len(CpsOf[i]) \in Nat /\ Len(IntfsOf[i]) \in Nat
    BY <1>a, Sizes
  <2>2. DOMAIN v.cps = {CpsOf[i][m] : m \in {n \in 1 .. Len(CpsOf[i]) : n < v.k}}
    BY <1>4, <2>1
  <2>3. /\ Made(p)' = {} /\ v.intfs = <<>> /\ Len(v.intfs) = 0 /\ rec'[i].status = "DEFINED"
        /\ \A m : m \notin 1 .. Len(v.intfs)
    BY <1>2, <1>4, <1>8
  <2>4. QED BY <1>3, <1>4, <2>2, <2>3 DEF Progress
<1>12. QED
  BY <1>2, <1>4, <1>6, <1>9, <1>10, <1>11, Started

LEMMA CleanHolds ==
  ASSUME IInv, Served, NEW r \in asked, Clean(r) PROVE IInv'
<1>0. PICK i : i = r.inst
  OBVIOUS
<1>a. i \in Instances /\ r.copy = rec[i]
  BY <1>0, ServedIs
<1>1. PICK p, v :
        /\ p = PluginOf[i]
        /\ v = [Idle EXCEPT !.pc = "clean", !.inst = i, !.k = 1, !.netns = rec[i].netns,
                            !.intfs = rec[i].intfs, !.rest = rec[i].cps]
  OBVIOUS
<1>2. /\ work[p].pc = "idle" /\ rec[i].status = "CONFIGURED" /\ p \in Plugins
      /\ work' = [work EXCEPT ![p] = v]
      /\ UNCHANGED <<failed, netVars, rec, strays, faults>>
  BY <1>0, <1>a, <1>1, InstanceAssumption DEF Clean, Begin, Advance
<1>3. Typed /\ work[p] = Idle /\ work[p].puts = <<>> /\ work'[p] = v /\ RecTyped(i)
  BY <1>a, <1>2, IdleIs DEF IInv, Typed, WorkTyped
<1>4. /\ v.pc = "clean" /\ v.inst = i /\ v.netns = rec[i].netns /\ v.cps = Empty
      /\ v.intfs = rec[i].intfs /\ v.pair = None /\ v.k = 1 /\ v.rest = rec[i].cps /\ v.puts = <<>>
      /\ DOMAIN v = DOMAIN Idle /\ DOMAIN v.cps = {}
  BY <1>1, IdleIs
<1>5. WorkTyped(p)'
  <2>1. /\ v.intfs \in Seq(Ifaces) /\ PutSeq(v.puts) /\ v.k \in Nat /\ v.k >= 1
        /\ v.netns \in NetNs \cup {None} /\ v.rest \subseteq Cps
    BY <1>3, <1>4, NoPuts DEF RecTyped
  <2>2. QED BY <1>a, <1>1, <1>3, <1>4, <2>1 DEF WorkTyped
<1>6. Issued(p, v)
  BY <1>2, <1>3, <1>5 DEF Issued
<1>7. IsConfigured(i) /\ rec' = rec
  BY <1>2 DEF IsConfigured
<1>8. ~Configuring(p)' /\ Puts(p)' = {}
  BY <1>3, <1>4, NoPuts DEF Configuring, Puts
<1>9. ASSUME NEW j \in Instances PROVE Claim(j)' \subseteq Claim(j)
  <2>1. CASE PluginOf[j] # p
    BY <1>2, <1>3, <1>6, <2>1, IssuedIs
  <2>2. CASE PluginOf[j] = p
    <3>1. ~Building(j)' /\ rec'[j] = rec[j]
      BY <1>7, <1>8, <2>2 DEF Building
    <3>2. QED BY <3>1, ClaimDropped
  <2>3. QED BY <2>1, <2>2
<1>10. Cleanup(p)'
  <2>1. IsConfigured(i)' /\ rec'[i] = rec[i]
    BY <1>7 DEF IsConfigured
  <2>2. QED BY <1>3, <1>4, <2>1 DEF Cleanup
<1>11. v.pc # "idle"
  BY <1>4
<1>12. QED
  BY <1>2, <1>4, <1>6, <1>8, <1>9, <1>10, <1>11, Started

(* Plugin p has finished its operation and has written its record.         *)
LEMMA Finished ==
  ASSUME IInv, NEW p \in Plugins, work[p].pc # "idle", work[p].puts = <<>>,
         NEW i, i = work[p].inst,
         work' = [work EXCEPT ![p] = Idle],
         UNCHANGED <<netVars, strays, faults, failed>>,
         DOMAIN rec' = Instances, \A j \in Instances \ {i} : rec'[j] = rec[j],
         RecTyped(i)', Claim(i)' \subseteq Claim(i), Whole(i)',
         \A q \in Pending : ~Making(q) => ~Covers(i, q.key)'
  PROVE  IInv'
<1>0. Typed /\ Matched /\ Disjoint /\ Apart /\ Halves /\ Calls /\ Works
  BY DEF IInv, Claims
<1>1. /\ work'[p] = Idle /\ \A r \in Plugins \ {p} : work'[r] = work[r]
      /\ DOMAIN work = Plugins /\ DOMAIN work' = Plugins
  BY <1>0 DEF Typed
<1>2. i \in Instances /\ PluginOf[i] = p
  BY <1>0, WorkOf
<1>3. Typed'
  <2>1. /\ \A s \in strays' : PutSeq(s) /\ s # <<>>
        /\ faults' \in 0 .. MaxFaults /\ failed' \in BOOLEAN
    BY <1>0 DEF Typed
  <2>2. \A j \in Instances : rec'[j] = rec[j] \/ RecTyped(j)'
    OBVIOUS
  <2>3. \A r \in Plugins : work'[r] \in {work[r], Idle} \/ WorkTyped(r)'
    BY <1>1
  <2>4. QED BY <1>0, <1>1, <2>1, <2>2, <2>3, TypedStays
<1>4. /\ Puts(p)' = {} /\ Puts(p) = {} /\ ~Configuring(p)' /\ ~Cleaning(p)'
      /\ \A r \in Plugins : Puts(r)' = Puts(r)
      /\ Strays' = Strays
  <2>1. Puts(p)' = {} /\ ~Configuring(p)' /\ ~Cleaning(p)'
    BY <1>1, IdleWork
  <2>2. Puts(p) = {}
    BY NoPuts DEF Puts
  <2>3. \A r \in Plugins \ {p} : Puts(r)' = Puts(r)
    BY <1>1 DEF Puts
  <2>4. Strays' = Strays
    BY DEF Strays
  <2>5. QED BY <2>1, <2>2, <2>3, <2>4
<1>5. \A q : q \in Pending' <=> q \in Pending
  BY <1>4, PendingIs
<1>6. ifaces' = ifaces /\ namespaces' = namespaces
  BY StoresSame
<1>7. \A a, b : Fact(a, b)' => Fact(a, b)
  BY <1>5, <1>6 DEF Fact
<1>8. ASSUME NEW j \in Instances, j # i PROVE Claim(j)' = Claim(j)
  <2>1. CASE PluginOf[j] # p
    <3>1. PluginOf[j] \in Plugins
      BY InstanceAssumption
    <3>2. QED BY <1>1, <1>8, <2>1, <3>1, ClaimStays
  <2>2. CASE PluginOf[j] = p
    <3>1. ~Building(j)' /\ ~Building(j) /\ rec'[j] = rec[j]
      BY <1>4, <1>8, <2>2 DEF Building
    <3>2. QED BY <3>1, ClaimDropped
  <2>3. QED BY <2>1, <2>2
<1>9. \A j \in Instances : Claim(j)' \subseteq Claim(j)
  BY <1>8
<1>10. /\ Matched' /\ Disjoint' /\ Apart'
       /\ \A j \in Instances : \A z : Covers(j, z)' => Covers(j, z)
  BY <1>0, <1>7, <1>9, ClaimsShrink
<1>11. Claims'
  BY <1>0, <1>5, <1>6, <1>10 DEF Claims, Halves
<1>12. OwnPuts'
  <2>1. ASSUME NEW r \in Plugins, NEW q \in Puts(r)', NEW j, j = work[r].inst
        PROVE  /\ r # p /\ work'[r] = work[r] /\ q \in Puts(r) /\ (j = work[r].inst)'
               /\ Claim(j)' = Claim(j) /\ rec'[j] = rec[j]
               /\ (Configuring(r)' <=> Configuring(r)) /\ (Cleaning(r)' <=> Cleaning(r))
    <3>1. r # p /\ work'[r] = work[r] /\ q \in Puts(r)
      BY <1>1, <1>4, <2>1
    <3>2. work[r].pc # "idle"
      BY <1>0, <3>1 DEF Calls, OwnPuts, Configuring, Cleaning
    <3>3. j \in Instances /\ PluginOf[j] = r /\ j # i
      BY <1>0, <1>2, <2>1, <3>1, <3>2, WorkOf
    <3>4. Claim(j)' = Claim(j) /\ rec'[j] = rec[j] /\ (j = work[r].inst)'
      BY <1>8, <2>1, <3>1, <3>3
    <3>5. (Configuring(r)' <=> Configuring(r)) /\ (Cleaning(r)' <=> Cleaning(r))
      BY <3>1 DEF Configuring, Cleaning
    <3>6. QED BY <3>1, <3>4, <3>5
  <2>2. ASSUME NEW r \in Plugins, NEW q \in Puts(r)', Making(q)
        PROVE  /\ Configuring(r)'
               /\ (\/ q.key \in Claim(work[r].inst)
                   \/ IfacePut(q, q.key) /\ q.val.pair \in Claim(work[r].inst))'
    <3>1. PICK j : j = work[r].inst
      OBVIOUS
    <3>2. /\ q \in Puts(r) /\ (j = work[r].inst)' /\ Claim(j)' = Claim(j)
          /\ Configuring(r)' <=> Configuring(r)
      BY <2>1, <2>2, <3>1
    <3>3. /\ Configuring(r)
          /\ q.key \in Claim(j) \/ (IfacePut(q, q.key) /\ q.val.pair \in Claim(j))
      BY <1>0, <2>2, <3>1, <3>2 DEF Calls, OwnPuts
    <3>4. QED BY <3>2, <3>3
  <2>3. ASSUME NEW r \in Plugins, NEW q \in Puts(r)', ~Making(q)
        PROVE  /\ Cleaning(r)'
               /\ q.store = "namespaces" => q.key = rec'[work'[r].inst].netns
    <3>1. PICK j : j = work[r].inst
      OBVIOUS
    <3>2. /\ q \in Puts(r) /\ work'[r] = work[r] /\ rec'[j] = rec[j]
          /\ Cleaning(r)' <=> Cleaning(r)
      BY <2>1, <2>3, <3>1
    <3>3. Cleaning(r) /\ (q.store = "namespaces" => q.key = rec[j].netns)
      BY <1>0, <2>3, <3>1, <3>2 DEF Calls, OwnPuts
    <3>4. QED BY <3>1, <3>2, <3>3
  <2>4. QED BY <2>2, <2>3 DEF OwnPuts
<1>13. StrayPuts'
  BY <1>0, <1>4, <1>9 DEF Calls, StrayPuts
<1>14. Removals'
  <2>1. ASSUME NEW q \in Pending, ~Making(q), NEW j \in Instances, Covers(j, q.key)'
        PROVE  /\ IsConfigured(j)'
               /\ q.key = rec'[j].netns \/ rec'[j].netns \notin DOMAIN namespaces'
    <3>1. j # i /\ Covers(j, q.key)
      BY <1>10, <2>1
    <3>2. IsConfigured(j) /\ (q.key = rec[j].netns \/ rec[j].netns \notin DOMAIN namespaces)
      BY <1>0, <2>1, <3>1 DEF Calls, Removals
    <3>3. rec'[j] = rec[j]
      BY <3>1
    <3>4. QED BY <1>6, <3>2, <3>3 DEF IsConfigured
  <2>2. QED BY <1>0, <1>5, <2>1 DEF Calls, Removals
<1>15. Works'
  <2>1. ASSUME NEW r \in Plugins
        PROVE  \/ work'[r] = Idle
               \/ work'[r] = work[r] /\ rec'[work[r].inst] = rec[work[r].inst]
    <3>1. CASE work[r].pc = "idle"
      BY <1>0, <1>1, <3>1 DEF Typed, WorkTyped
    <3>2. CASE r # p /\ work[r].pc # "idle"
      <4>1. work[r].inst \in Instances /\ work[r].inst # i
        BY <1>0, <1>2, <3>2, WorkOf
      <4>2. QED BY <1>1, <3>2, <4>1
    <3>3. QED BY <1>1, <3>1, <3>2
  <2>2. \A j \in Instances : rec'[j] = rec[j] \/ Whole(j)'
    OBVIOUS
  <2>3. QED BY <1>0, <2>1, <2>2, WorksStay
<1>16. QED BY <1>3, <1>11, <1>12, <1>13, <1>14, <1>15 DEF IInv, Calls

(* As many values as keys, when no two keys have the same.                 *)
LEMMA OneToOne ==
  ASSUME NEW S, NEW T, NEW f \in [S -> T], IsFiniteSet(S),
         \A t \in T : \E a \in S : f[a] = t,
         \A a, b \in S : f[a] = f[b] => a = b
  PROVE  Cardinality(T) = Cardinality(S)
<1>1. f \in Surjection(S, T) /\ f \in Injection(S, T)
  BY DEF Surjection, Injection, IsInjective
<1>2. QED BY <1>1, FS_Surjection

LEMMA ListFinite ==
  ASSUME NEW C, NEW s \in Seq(C)
  PROVE  IsFiniteSet(ToSet(s))
<1>1. PICK n, S : n = Len(s) /\ S = 1 .. n /\ DOMAIN s = S /\ n \in Nat
  OBVIOUS
<1>2. IsFiniteSet(S)
  <2>1. n \in Int /\ 1 \in Int
    BY <1>1
  <2>2. IsFiniteSet(1 .. n)
    BY <2>1, FS_Interval
  <2>3. QED BY <1>1, <2>2
<1>3. s \in [S -> ToSet(s)] /\ \A t \in ToSet(s) : \E k \in S : s[k] = t
  BY <1>1 DEF ToSet
<1>4. s \in Surjection(S, ToSet(s))
  BY <1>3 DEF Surjection
<1>5. QED BY <1>2, <1>4, FS_Surjection

(* A list names as many as there are images of its names.                  *)
LEMMA AsMany ==
  ASSUME NEW s, s \in Seq(CpIds), NEW f, DOMAIN f = ToSet(s),
         \A a, b \in DOMAIN f : f[a] = f[b] => a = b,
         NEW T, T = {f[a] : a \in DOMAIN f}
  PROVE  Cardinality(T) = Cardinality(ToSet(s))
<1>1. PICK g, S : S = ToSet(s) /\ g = [a \in S |-> f[a]]
  OBVIOUS
<1>2. IsFiniteSet(S)
  BY <1>1, ListFinite
<1>3. g \in [S -> T] /\ \A a \in S : g[a] = f[a]
  BY <1>1
<1>4. /\ \A t \in T : \E a \in S : g[a] = t
      /\ \A a, b \in S : g[a] = g[b] => a = b
  BY <1>1, <1>3
<1>5. Cardinality(T) = Cardinality(S)
  BY <1>2, <1>3, <1>4, OneToOne
<1>6. QED BY <1>1, <1>5

LEMMA ConfiguredHolds ==
  ASSUME IInv, NEW p \in Plugins, Configured(p) PROVE IInv'
<1>1. PICK w, i, r :
        /\ w = work[p] /\ i = w.inst
        /\ r = [status |-> "CONFIGURED", netns |-> w.netns, intfs |-> w.intfs,
                cps |-> {w.cps[id] : id \in DOMAIN w.cps}]
  OBVIOUS
<1>2. /\ w.pc = "create" /\ work[p].puts = <<>>
      /\ work[p].pc \in {"namespace", "create", "attach"} /\ work[p].pc # "idle"
      /\ MadeCps(p) /\ MadeIntfs(p)
      /\ rec' = [rec EXCEPT ![i] = r] /\ work' = [work EXCEPT ![p] = Idle]
      /\ UNCHANGED <<netVars, strays, faults, failed>>
  BY <1>1 DEF Configured, At, Advance
<1>3. /\ Typed /\ Progress(p) /\ WorkTyped(p)
      /\ i \in Instances /\ PluginOf[i] = p /\ ~IsConfigured(i) /\ Puts(p) = {}
      /\ Claim(i) = ({w.netns} \cup Made(p) \cup ToSet(w.intfs)) \ {None}
  BY <1>1, <1>2, Before
<1>4. /\ DOMAIN rec = Instances /\ DOMAIN work = Plugins
  BY <1>3 DEF Typed
<1>5. /\ rec'[i] = r /\ DOMAIN rec' = Instances /\ work'[p] = Idle
      /\ \A j \in Instances \ {i} : rec'[j] = rec[j]
  BY <1>2, <1>3, <1>4
<1>6. /\ r.status = "CONFIGURED" /\ r.netns = w.netns /\ r.intfs = w.intfs
      /\ r.cps = Made(p) /\ DOMAIN r = DOMAIN NewRecord
  BY <1>1 DEF Made, NewRecord
<1>7. /\ w.netns \in NetNs /\ w.netns # None /\ w.intfs \in Seq(Ifaces)
      /\ Made(p) \subseteq Cps
  BY <1>1, <1>2, <1>3, Keys DEF Progress, WorkTyped, Made
<1>8. RecTyped(i)' /\ IsConfigured(i)'
  BY <1>5, <1>6, <1>7 DEF RecTyped, IsConfigured
<1>9. Claim(i)' = {w.netns} \cup Made(p) \cup ToSet(w.intfs)
  BY <1>5, <1>6, <1>8 DEF Claim, Listed
<1>10. Claim(i)' \subseteq Claim(i)
  <2>1. None \notin Made(p) /\ None \notin ToSet(w.intfs)
    BY <1>7, Keys DEF ToSet
  <2>2. QED BY <1>3, <1>7, <1>9, <2>1
<1>11. \A q \in Pending : ~Making(q) => ~Covers(i, q.key)'
  <2>1. \A q \in Pending : ~Making(q) => ~Covers(i, q.key)
    BY <1>3 DEF IInv, Calls, Removals
  <2>2. \A z : Covers(i, z)' => Covers(i, z)
    <3>1. \A a, b : Mates(a, b)' => Mates(a, b)
      <4>1. \A q : q \in Pending' <=> q \in Pending
        <5>1. \A s \in Plugins \ {p} : Puts(s)' = Puts(s)
          BY <1>2, <1>4 DEF Puts
        <5>2. Puts(p)' = Puts(p)
          BY <1>3, <1>5, IdleWork
        <5>3. Strays' = Strays
          BY <1>2 DEF Strays
        <5>4. QED BY <5>1, <5>2, <5>3, PendingIs
      <4>2. ifaces' = ifaces
        BY <1>2, StoresSame
      <4>3. QED BY <4>1, <4>2 DEF Mates, Fact
    <3>2. QED BY <1>10, <3>1 DEF Covers
  <2>3. QED BY <2>1, <2>2
<1>12. Whole(i)'
  <2>1. /\ w.k > Len(CpsOf[i])
        /\ w.k - Len(CpsOf[i]) > Len(IntfsOf[i])
    BY <1>1, <1>2 DEF MadeCps, MadeIntfs, IntfAt
  <2>2. /\ w.netns \in DOMAIN namespaces
        /\ \A c \in Made(p) : c \in cps
        /\ \A a, b \in DOMAIN w.cps : w.cps[a] = w.cps[b] => a = b
        /\ DOMAIN w.cps = {CpsOf[i][m] : m \in {n \in 1 .. Len(CpsOf[i]) : n < w.k}}
        /\ Len(w.intfs) = w.k - Len(CpsOf[i]) - 1 /\ Len(w.intfs) <= Len(IntfsOf[i])
        /\ \A m \in 1 .. Len(w.intfs) :
             /\ Linked(ifaces, namespaces, {}, w.intfs[m], w.netns)
             /\ Ends(IntfsOf[i][m], Outer(ifaces, {}, w.intfs[m]), Made(p))
    BY <1>1, <1>2, <1>3, <2>1 DEF Progress
  <2>3. /\ Len(CpsOf[i]) \in Nat /\ Len(IntfsOf[i]) \in Nat /\ CpsOf[i] \in Seq(CpIds)
        /\ w.k \in Nat
    BY <1>1, <1>3, Sizes DEF WorkTyped
  <2>4. Len(w.intfs) = Len(IntfsOf[i])
    BY <1>7, <2>1, <2>2, <2>3
  <2>5. DOMAIN w.cps = ToSet(CpsOf[i])
    <3>1. \A n \in 1 .. Len(CpsOf[i]) : n < w.k
      BY <2>1, <2>3
    <3>2. DOMAIN CpsOf[i] = 1 .. Len(CpsOf[i])
      BY <2>3
    <3>3. QED BY <2>2, <3>1, <3>2 DEF ToSet
  <2>6. Cardinality(Made(p)) = Cardinality(ToSet(CpsOf[i]))
    <3>1. PICK f, s : f = w.cps /\ s = CpsOf[i]
      OBVIOUS
    <3>2. s \in Seq(CpIds) /\ DOMAIN f = ToSet(s) /\ \A a, b \in DOMAIN f : f[a] = f[b] => a = b
      BY <2>2, <2>3, <2>5, <3>1
    <3>3. Made(p) = {f[a] : a \in DOMAIN f}
      BY <1>1, <3>1 DEF Made
    <3>4. QED BY <3>1, <3>2, <3>3, AsMany
  <2>7. ifaces' = ifaces /\ namespaces' = namespaces /\ cps' = cps
    BY <1>2, StoresSame
  <2>8. /\ Cardinality(r.cps) = Cardinality(ToSet(CpsOf[i]))
        /\ Len(r.intfs) = Len(IntfsOf[i])
        /\ r.cps \subseteq cps'
        /\ \A k \in 1 .. Len(r.intfs) :
             /\ Linked(ifaces', namespaces', {}, r.intfs[k], r.netns)
             /\ Ends(IntfsOf[i][k], Outer(ifaces', {}, r.intfs[k]), r.cps)
    BY <1>6, <2>2, <2>4, <2>6, <2>7
  <2>9. rec'[i] = r
    BY <1>5
  <2>10. QED BY <2>8, <2>9 DEF Whole
<1>13. QED
  BY <1>1, <1>2, <1>5, <1>8, <1>10, <1>11, <1>12, Finished

LEMMA CleanedHolds ==
  ASSUME IInv, NEW p \in Plugins, Cleaned(p) PROVE IInv'
<1>1. PICK w, i, r :
        /\ w = work[p] /\ i = w.inst
        /\ r = NewRecord
  OBVIOUS
<1>2. /\ work[p].pc \in {"clean", "delete"} /\ work[p].pc # "idle" /\ work[p].puts = <<>>
      /\ work' = [work EXCEPT ![p] = Idle]
      /\ UNCHANGED <<netVars, strays, faults, failed>>
  BY <1>1 DEF Cleaned, At, Advance
<1>3. /\ Typed /\ i \in Instances /\ PluginOf[i] = p /\ DOMAIN work = Plugins
  BY <1>1, <1>2, CleaningIs
<1>4. DOMAIN rec = Instances /\ RecTyped(i)
  BY <1>3 DEF Typed
<1>5. rec' = [rec EXCEPT ![i] = r]
  BY <1>1, <1>3, <1>4 DEF Cleaned
<1>6. /\ rec'[i] = r /\ DOMAIN rec' = Instances /\ work'[p] = Idle
      /\ \A j \in Instances \ {i} : rec'[j] = rec[j]
  BY <1>2, <1>3, <1>4, <1>5
<1>7. /\ r.status = "DEFINED" /\ r.netns = None /\ r.intfs = <<>> /\ r.cps = {}
      /\ DOMAIN r = DOMAIN NewRecord
  BY <1>1, <1>4 DEF RecTyped, NewRecord
<1>8. RecTyped(i)' /\ ~IsConfigured(i)'
  <2>1. r.netns \in NetNs \cup {None} /\ r.intfs \in Seq(Ifaces) /\ r.cps \subseteq Cps
    BY <1>4, <1>7 DEF RecTyped
  <2>2. QED BY <1>6, <1>7, <2>1 DEF RecTyped, IsConfigured
<1>9. ~Building(i)'
  BY <1>3, <1>6, IdleWork DEF Building
<1>10. Claim(i)' = {}
  BY <1>8, <1>9 DEF Claim
<1>11. Whole(i)'
  BY <1>8 DEF Whole
<1>12. \A q \in Pending : ~Making(q) => ~Covers(i, q.key)'
  BY <1>10 DEF Covers
<1>13. Claim(i)' \subseteq Claim(i)
  BY <1>10
<1>14. QED
  BY <1>1, <1>2, <1>6, <1>8, <1>11, <1>12, <1>13, Finished

-----------------------------------------------------------------------------
(* The invariant holds                                                     *)

LEMMA InitHolds == Init => IInv
<1> SUFFICES ASSUME Init PROVE IInv
  OBVIOUS
<1>1. /\ TypeOK /\ ifaces = Empty /\ namespaces = Empty /\ cps = {} /\ DOMAIN Empty = {}
  BY InvInit DEF Init, Inv, NetInit, Empty
<1>2. /\ rec = [i \in Instances |-> NewRecord] /\ work = [p \in Plugins |-> Idle]
      /\ strays = {} /\ faults = 0 /\ failed = FALSE
  BY DEF Init
<1>3. \A p \in Plugins :
        /\ work[p] = Idle /\ WorkTyped(p) /\ ~Configuring(p) /\ ~Cleaning(p) /\ Puts(p) = {}
  <2>1. ASSUME NEW p \in Plugins
        PROVE  /\ work[p] = Idle /\ ~Configuring(p) /\ ~Cleaning(p) /\ Puts(p) = {}
    BY <1>2, IdleIs, NoPuts DEF Configuring, Cleaning, Puts
  <2>2. PutSeq(Idle.puts) /\ Idle.intfs \in Seq(Ifaces) /\ DOMAIN Idle.cps = {} /\ Idle.k \in Nat
    BY IdleIs, NoPuts
  <2>3. ASSUME NEW p \in Plugins PROVE WorkTyped(p)
    BY <2>1, <2>2, IdleIs DEF WorkTyped
  <2>4. QED BY <2>1, <2>3
<1>4. \A i \in Instances : rec[i] = NewRecord /\ RecTyped(i) /\ ~IsConfigured(i)
  <2>1. \A i \in Instances : rec[i] = NewRecord
    BY <1>2
  <2>2. /\ NewRecord.status = "DEFINED" /\ NewRecord.netns = None
        /\ NewRecord.intfs = <<>> /\ NewRecord.cps = {}
    BY DEF NewRecord
  <2>3. ASSUME NEW i \in Instances PROVE RecTyped(i) /\ ~IsConfigured(i)
    <3>1. rec[i] = NewRecord
      BY <2>1
    <3>2. <<>> \in Seq(Ifaces)
      OBVIOUS
    <3>3. QED BY <2>2, <3>1, <3>2 DEF RecTyped, IsConfigured
  <2>4. QED BY <2>1, <2>3
<1>5. \A q : q \notin Pending /\ q \notin Strays
  BY <1>2, <1>3, PendingIs
<1>6. \A i \in Instances : Claim(i) = {}
  BY <1>3, <1>4, InstanceAssumption DEF Claim, Building
<1>7. \A a, b : ~Mates(a, b)
  BY <1>1, <1>5 DEF Mates, Fact
<1>8. Typed
  <2>1. DOMAIN rec = Instances /\ DOMAIN work = Plugins
    BY <1>2
  <2>2. faults \in 0 .. MaxFaults /\ failed \in BOOLEAN
    <3>1. MaxFaults \in Nat
      BY InstanceAssumption
    <3>2. faults = 0
      BY <1>2
    <3>3. faults \in 0 .. MaxFaults
      BY <3>1, <3>2
    <3>4. failed \in BOOLEAN
      BY <1>2, Zenon
    <3>5. QED BY <3>3, <3>4
  <2>3. /\ \A x \in DOMAIN ifaces : ifaces[x] \in VethRecord
        /\ \A n \in DOMAIN namespaces : namespaces[n] \in Lists
    BY <1>1
  <2>4. \A s \in strays : PutSeq(s) /\ s # <<>>
    BY <1>2
  <2>5. QED BY <1>1, <1>3, <1>4, <2>1, <2>2, <2>3, <2>4 DEF Typed
<1>9. Claims
  BY <1>5, <1>6, <1>7 DEF Claims, Matched, Halves, Disjoint, Apart
<1>10. Calls
  BY <1>3, <1>5 DEF Calls, OwnPuts, StrayPuts, Removals
<1>11. Works
  BY <1>3, <1>4 DEF Works, Whole
<1>12. QED BY <1>8, <1>9, <1>10, <1>11 DEF IInv

LEMMA StutterHolds == ASSUME IInv, UNCHANGED workVars PROVE IInv'
<1>1. /\ UNCHANGED <<netVars, rec>> /\ work' = work /\ strays' = strays
      /\ faults' = faults /\ failed' = failed
  BY DEF workVars
<1>2. Typed
  BY DEF IInv
<1>3. Pending' = Pending /\ Strays' = Strays
  BY <1>1 DEF Pending, Strays
<1>4. /\ DOMAIN work' = Plugins /\ \A r \in Plugins : work'[r] \in {work[r], Idle}
      /\ \A s \in strays' : PutSeq(s) /\ s # <<>>
      /\ faults' \in 0 .. MaxFaults /\ failed' \in BOOLEAN
  BY <1>1, <1>2 DEF Typed
<1>5. QED BY <1>1, <1>3, <1>4, Dropped

LEMMA AskIs ==
  ASSUME NEW i \in Instances, AskConfigure(i) \/ AskClean(i)
  PROVE  Ask(i) /\ UNCHANGED workVars
BY DEF AskConfigure, AskClean, Ask, workVars

LEMMA InstanceStep == IInv /\ Served /\ [InstanceNext]_vars => IInv'
<1> SUFFICES ASSUME IInv, Served, [InstanceNext]_vars PROVE IInv'
  OBVIOUS
<1>1. ASSUME NEW p \in Plugins, Step(p) PROVE IInv'
  <2>1. CASE CreateNamespace(p)
    BY <2>1, CreateNamespaceHolds
  <2>2. CASE CreateConnectionPoint(p)
    BY <2>2, CreateConnectionPointHolds
  <2>3. CASE CreateInterface(p)
    BY <2>3, CreateInterfaceHolds
  <2>4. CASE Attach(p)
    BY <2>4, AttachHolds
  <2>5. CASE Configured(p)
    BY <2>5, ConfiguredHolds
  <2>6. CASE DeleteNamespace(p)
    BY <2>6, DeleteNamespaceHolds
  <2>7. CASE DeleteInterface(p)
    BY <2>7, DeleteInterfaceHolds
  <2>8. CASE DeleteConnectionPoint(p)
    BY <2>8, DeleteConnectionPointHolds
  <2>9. CASE Cleaned(p)
    BY <2>9, CleanedHolds
  <2>10. QED
    BY <1>1, <2>1, <2>2, <2>3, <2>4, <2>5, <2>6, <2>7, <2>8, <2>9 DEF Step
<1>2. ASSUME NEW p \in Plugins, Write(p) PROVE IInv'
  BY <1>2, WriteHolds
<1>3. ASSUME NEW p \in Plugins, GiveUp(p) PROVE IInv'
  BY <1>3, GiveUpHolds
<1>4. ASSUME NEW r \in asked, Configure(r) \/ Clean(r) PROVE IInv'
  BY <1>4, ConfigureHolds, CleanHolds
<1>5. ASSUME NEW i \in Instances, AskConfigure(i) \/ AskClean(i) PROVE IInv'
  BY <1>5, AskIs, StutterHolds
<1>6. ASSUME NEW s \in strays, WriteStray(s) PROVE IInv'
  BY <1>6, WriteStrayHolds
<1>7. CASE NetworkingDies
  BY <1>7, NetworkingDiesHolds
<1>8. CASE UNCHANGED vars
  BY <1>8, StutterHolds DEF vars, workVars
<1>9. QED
  BY <1>1, <1>2, <1>3, <1>4, <1>5, <1>6, <1>7, <1>8 DEF InstanceNext

(* Nobody changes the record of an instance that a request waits for.      *)
LEMMA ServedKept ==
  ASSUME Typed, Served, asked' \subseteq asked, overlaps' = overlaps, stale' = stale,
         \A r \in asked' : rec'[r.inst] = rec[r.inst] /\ ~Working(r.inst)'
  PROVE  Served'
<1>1. ASSUME NEW r \in asked'
      PROVE  /\ r \in [inst : Instances, copy : {rec'[i] : i \in Instances}]
             /\ r.copy = rec'[r.inst]
  <2>1. r \in asked /\ r \in [inst : Instances, copy : {rec[i] : i \in Instances}]
    BY <1>1 DEF Served
  <2>2. r.inst \in Instances /\ r.copy = rec'[r.inst]
    BY <1>1, <2>1, ServedIs
  <2>3. QED BY <2>1, <2>2
<1>2. asked' \subseteq [inst : Instances, copy : {rec'[i] : i \in Instances}]
  BY <1>1
<1>3. /\ \A r, q \in asked' : r.inst = q.inst => r = q
      /\ overlaps' = 0 /\ stale' = FALSE
  BY DEF Served
<1>4. QED BY <1>1, <1>2, <1>3 DEF Served

(* Plugin p goes on with v, or has finished: it may have written the       *)
(* record of its instance.                                                 *)
LEMMA ServedOn ==
  ASSUME IInv, Served, NEW p \in Plugins, NEW v, v.pc = "idle" \/ v.inst = work[p].inst,
         work[p].pc # "idle", work' = [work EXCEPT ![p] = v],
         asked' \subseteq asked, overlaps' = overlaps, stale' = stale,
         \A j \in Instances : j # work[p].inst => rec'[j] = rec[j]
  PROVE  Served'
<1>1. Typed /\ DOMAIN work = Plugins
  BY DEF IInv, Typed
<1>2. work[p].inst \in Instances /\ PluginOf[work[p].inst] = p
  BY <1>1, WorkOf
<1>3. work'[p] = v /\ \A r \in Plugins \ {p} : work'[r] = work[r]
  BY <1>1
<1>4. ASSUME NEW r \in asked'
      PROVE  rec'[r.inst] = rec[r.inst] /\ ~Working(r.inst)'
  <2>1. PICK i : i = r.inst
    OBVIOUS
  <2>2. i \in Instances /\ ~Working(i) /\ PluginOf[i] \in Plugins
    BY <1>4, <2>1, InstanceAssumption DEF Served
  <2>3. i # work[p].inst
    BY <1>2, <2>2 DEF Working
  <2>4. rec'[i] = rec[i]
    BY <2>2, <2>3
  <2>5. ~Working(i)'
    BY <1>3, <2>2, <2>3 DEF Working
  <2>6. QED BY <2>1, <2>4, <2>5
<1>5. QED BY <1>1, <1>4, ServedKept

LEMMA ServedInit == Init => Served
<1> SUFFICES ASSUME Init PROVE Served
  OBVIOUS
<1>1. asked = {} /\ overlaps = 0 /\ stale = FALSE
  BY DEF Init
<1>2. QED BY <1>1 DEF Served

(* The call s of plugin p is made, and p goes on with w.                   *)
LEMMA CallServed ==
  ASSUME IInv, Served, NEW p \in Plugins, work[p].pc # "idle", NEW s, NEW w,
         Call(p, s, w), w.inst = work[p].inst, "inst" \in DOMAIN w
  PROVE  Served'
<1>1. PICK v : v = [w EXCEPT !.puts = s]
  OBVIOUS
<1>2. v.inst = work[p].inst
  BY <1>1
<1>3. /\ work' = [work EXCEPT ![p] = v] /\ rec' = rec
      /\ asked' = asked /\ overlaps' = overlaps /\ stale' = stale
  BY <1>1 DEF Call, Advance, callVars, askVars
<1>4. QED BY <1>2, <1>3, ServedOn

LEMMA RefusedServed ==
  ASSUME IInv, Served, NEW p \in Plugins, work[p].pc # "idle", Refused(p)
  PROVE  Served'
<1>1. /\ work' = [work EXCEPT ![p] = Idle] /\ rec' = rec
      /\ asked' = asked /\ overlaps' = overlaps /\ stale' = stale
  BY DEF Refused, callVars, askVars
<1>2. QED BY <1>1, IdleIs, ServedOn

(* The record of the instance is written at the end.                       *)
LEMMA EndServed ==
  ASSUME IInv, Served, NEW p \in Plugins, Configured(p) \/ Cleaned(p)
  PROVE  Served'
<1>1. work[p].pc # "idle"
  BY DEF Configured, Cleaned, At
<1>2. PICK r : rec' = [rec EXCEPT ![work[p].inst] = r]
  BY DEF Configured, Cleaned
<1>3. /\ work' = [work EXCEPT ![p] = Idle]
      /\ asked' = asked /\ overlaps' = overlaps /\ stale' = stale
  BY DEF Configured, Cleaned, Advance, askVars
<1>4. \A j \in Instances : j # work[p].inst => rec'[j] = rec[j]
  BY <1>2 DEF IInv, Typed
<1>5. QED BY <1>1, <1>3, <1>4, IdleIs, ServedOn

LEMMA StepServed ==
  ASSUME IInv, Served, NEW p \in Plugins, Step(p)
  PROVE  Served'
<1>1. work[p].pc # "idle"
  BY DEF Step, At, CreateNamespace, CreateConnectionPoint, CreateInterface, Attach,
         Configured, DeleteNamespace, DeleteInterface, DeleteConnectionPoint, Cleaned
<1>2. "inst" \in DOMAIN work[p]
  BY IdleIs DEF IInv, Typed, WorkTyped
<1>3. CASE CreateNamespace(p)
  <2>1. PICK w, s : w = [work[p] EXCEPT !.pc = "create", !.netns = NextNetNs(p)] /\ Call(p, s, w)
    BY <1>3 DEF CreateNamespace
  <2>2. w.inst = work[p].inst /\ "inst" \in DOMAIN w
    BY <1>2, <2>1
  <2>3. QED BY <1>1, <2>1, <2>2, CallServed
<1>4. CASE CreateConnectionPoint(p)
  <2>1. PICK w, s :
          /\ w = [work[p] EXCEPT !.k = @ + 1,
                    !.cps = Put(@, CpsOf[work[p].inst][work[p].k], NextCp(p))]
          /\ Call(p, s, w)
    BY <1>4 DEF CreateConnectionPoint
  <2>2. w.inst = work[p].inst /\ "inst" \in DOMAIN w
    BY <1>2, <2>1
  <2>3. QED BY <1>1, <2>1, <2>2, CallServed
<1>5. CASE CreateInterface(p)
  <2>1. PICK w, s :
          /\ w = [work[p] EXCEPT !.pc = "attach", !.pair = NextPair(p),
                                 !.intfs = Append(@, NextIface(p))]
          /\ Call(p, s, w) \/ Refused(p)
    BY <1>5 DEF CreateInterface
  <2>2. w.inst = work[p].inst /\ "inst" \in DOMAIN w
    BY <1>2, <2>1
  <2>3. QED BY <1>1, <2>1, <2>2, CallServed, RefusedServed
<1>6. CASE Attach(p)
  <2>1. PICK w, s : /\ w = [work[p] EXCEPT !.pc = "create", !.k = @ + 1]
                    /\ Call(p, s, w) \/ Refused(p)
    BY <1>6 DEF Attach
  <2>2. w.inst = work[p].inst /\ "inst" \in DOMAIN w
    BY <1>2, <2>1
  <2>3. QED BY <1>1, <2>1, <2>2, CallServed, RefusedServed
<1>7. CASE DeleteNamespace(p)
  <2>1. PICK w, s : w = [work[p] EXCEPT !.pc = "delete"] /\ (Call(p, s, w) \/ Refused(p))
    BY <1>7 DEF DeleteNamespace
  <2>2. w.inst = work[p].inst /\ "inst" \in DOMAIN w
    BY <1>2, <2>1
  <2>3. QED BY <1>1, <2>1, <2>2, CallServed, RefusedServed
<1>8. CASE DeleteInterface(p)
  <2>1. PICK w, s : w = [work[p] EXCEPT !.k = @ + 1] /\ (Call(p, s, w) \/ Refused(p))
    BY <1>8 DEF DeleteInterface
  <2>2. w.inst = work[p].inst /\ "inst" \in DOMAIN w
    BY <1>2, <2>1
  <2>3. QED BY <1>1, <2>1, <2>2, CallServed, RefusedServed
<1>9. CASE DeleteConnectionPoint(p)
  <2>1. PICK c \in work[p].rest :
          IF c \in cps
            THEN Call(p, << PutOf("cps", c, None) >>, [work[p] EXCEPT !.rest = @ \ {c}])
            ELSE Refused(p)
    BY <1>9 DEF DeleteConnectionPoint
  <2>2. PICK w, s : w = [work[p] EXCEPT !.rest = @ \ {c}] /\ (Call(p, s, w) \/ Refused(p))
    BY <2>1
  <2>3. w.inst = work[p].inst /\ "inst" \in DOMAIN w
    BY <1>2, <2>2
  <2>4. QED BY <1>1, <2>2, <2>3, CallServed, RefusedServed
<1>10. CASE Configured(p) \/ Cleaned(p)
  BY <1>10, EndServed
<1>11. QED
  BY <1>3, <1>4, <1>5, <1>6, <1>7, <1>8, <1>9, <1>10 DEF Step

LEMMA WriteServed ==
  ASSUME IInv, Served, NEW p \in Plugins, Write(p)
  PROVE  Served'
<1>1. PICK v : /\ v = [work[p] EXCEPT !.puts = Rest(work[p].puts)] \/ v = Idle
               /\ work' = [work EXCEPT ![p] = v]
  BY DEF Write
<1>2. "inst" \in DOMAIN work[p] /\ work[p].puts # <<>>
  BY IdleIs DEF IInv, Typed, WorkTyped, Write
<1>3. work[p].pc # "idle"
  BY <1>2, IdleIs DEF IInv, Typed, WorkTyped
<1>4. v.pc = "idle" \/ v.inst = work[p].inst
  BY <1>1, <1>2, IdleIs
<1>5. rec' = rec /\ asked' = asked /\ overlaps' = overlaps /\ stale' = stale
  BY DEF Write, askVars
<1>6. QED BY <1>1, <1>3, <1>4, <1>5, ServedOn

LEMMA GiveUpServed ==
  ASSUME IInv, Served, NEW p \in Plugins, GiveUp(p)
  PROVE  Served'
<1>1. /\ work[p].pc # "idle" /\ work' = [work EXCEPT ![p] = Idle] /\ rec' = rec
      /\ asked' \subseteq asked /\ overlaps' = overlaps /\ stale' = stale
  BY DEF GiveUp
<1>2. QED BY <1>1, IdleIs, ServedOn

LEMMA NetworkingDiesServed ==
  ASSUME IInv, Served, NetworkingDies
  PROVE  Served'
<1>1. /\ \A p \in Plugins : work'[p] = work[p] \/ work'[p] = Idle
      /\ rec' = rec /\ asked' = asked /\ overlaps' = overlaps /\ stale' = stale
  BY DEF NetworkingDies, askVars
<1>2. ASSUME NEW r \in asked' PROVE ~Working(r.inst)'
  <2>1. ~Working(r.inst) /\ PluginOf[r.inst] \in Plugins
    BY <1>1, <1>2, ServedIs, InstanceAssumption DEF Served
  <2>2. QED BY <1>1, <2>1, IdleIs DEF Working
<1>3. QED BY <1>1, <1>2, ServedKept DEF IInv

(* The one request for its instance is worked on now.                      *)
LEMMA BeginServed ==
  ASSUME IInv, Served, NEW r \in asked, NEW w, Begin(PluginOf[r.inst], r, w),
         w.inst = r.inst
  PROVE  Served'
<1>1. /\ PluginOf[r.inst] \in Plugins /\ r.inst \in Instances /\ r.copy = rec[r.inst]
      /\ DOMAIN work = Plugins
  BY ServedIs, InstanceAssumption DEF IInv, Typed
<1>2. /\ work' = [work EXCEPT ![PluginOf[r.inst]] = w]
      /\ asked' = asked \ {r} /\ rec' = rec /\ overlaps' = overlaps
      /\ stale' = (stale \/ r.copy # rec[r.inst])
  BY DEF Begin, Advance
<1>3. stale' = stale
  <2>1. stale = FALSE
    BY DEF Served
  <2>2. QED BY <1>1, <1>2, <2>1
<1>4. ASSUME NEW q \in asked' PROVE ~Working(q.inst)'
  <2>1. q \in asked /\ q.inst # r.inst
    BY <1>2, <1>4 DEF Served
  <2>2. ~Working(q.inst) /\ PluginOf[q.inst] \in Plugins
    BY <2>1, ServedIs, InstanceAssumption DEF Served
  <2>3. CASE PluginOf[q.inst] = PluginOf[r.inst]
    BY <1>1, <1>2, <2>1, <2>3 DEF Working
  <2>4. CASE PluginOf[q.inst] # PluginOf[r.inst]
    BY <1>1, <1>2, <2>2, <2>4 DEF Working
  <2>5. QED BY <2>3, <2>4
<1>5. QED BY <1>2, <1>3, <1>4, ServedKept DEF IInv

LEMMA StartServed ==
  ASSUME IInv, Served, NEW r \in asked, Configure(r) \/ Clean(r)
  PROVE  Served'
<1>1. CASE Configure(r)
  <2>1. PICK w : /\ w = [Idle EXCEPT !.pc = "namespace", !.inst = r.inst, !.k = 1]
                 /\ Begin(PluginOf[r.inst], r, w)
    BY <1>1 DEF Configure
  <2>2. w.inst = r.inst
    BY <2>1, IdleIs
  <2>3. QED BY <2>1, <2>2, BeginServed
<1>2. CASE Clean(r)
  <2>1. PICK w : /\ w = [Idle EXCEPT !.pc = "clean", !.inst = r.inst, !.k = 1,
                           !.netns = r.copy.netns, !.intfs = r.copy.intfs,
                           !.rest = r.copy.cps]
                 /\ Begin(PluginOf[r.inst], r, w)
    BY <1>2 DEF Clean
  <2>2. w.inst = r.inst
    BY <2>1, IdleIs
  <2>3. QED BY <2>1, <2>2, BeginServed
<1>3. QED BY <1>1, <1>2

(* A request that finds its instance free has the record as it is.         *)
LEMMA AskServed ==
  ASSUME MaxOverlaps = 0, IInv, Served, NEW i \in Instances, Ask(i)
  PROVE  Served'
<1>1. PICK t : t = Request(i, rec[i])
  OBVIOUS
<1>2. t.inst = i /\ t.copy = rec[i] /\ t = [inst |-> i, copy |-> rec[i]]
  BY <1>1 DEF Request
<1>3. /\ asked' = asked \cup {t} /\ rec' = rec /\ work' = work /\ stale' = stale
  BY <1>1 DEF Ask
<1>4. Free(i) /\ overlaps' = overlaps
  BY DEF Ask, Served
<1>5. asked' \subseteq [inst : Instances, copy : {rec'[j] : j \in Instances}]
  <2>1. t \in [inst : Instances, copy : {rec[j] : j \in Instances}]
    BY <1>2
  <2>2. QED BY <1>3, <2>1 DEF Served
<1>6. ASSUME NEW r \in asked' PROVE r.copy = rec'[r.inst] /\ ~Working(r.inst)'
  <2>1. CASE r = t
    BY <1>2, <1>3, <1>4, <2>1 DEF Free, Working
  <2>2. CASE r \in asked
    BY <1>3, <2>2 DEF Served, Working
  <2>3. QED BY <1>3, <1>6, <2>1, <2>2
<1>7. ASSUME NEW r \in asked', NEW q \in asked', r.inst = q.inst PROVE r = q
  BY <1>2, <1>3, <1>4, <1>7 DEF Free, Served
<1>8. overlaps' = 0 /\ stale' = FALSE
  BY <1>3, <1>4 DEF Served
<1>9. QED BY <1>5, <1>6, <1>7, <1>8 DEF Served

LEMMA ServedStep ==
  ASSUME MaxOverlaps = 0 PROVE IInv /\ Served /\ [InstanceNext]_vars => Served'
<1> SUFFICES ASSUME IInv, Served, [InstanceNext]_vars PROVE Served'
  OBVIOUS
<1>1. ASSUME NEW p \in Plugins, Step(p) \/ Write(p) \/ GiveUp(p) PROVE Served'
  BY <1>1, StepServed, WriteServed, GiveUpServed
<1>2. ASSUME NEW i \in Instances, AskConfigure(i) \/ AskClean(i) PROVE Served'
  BY <1>2, AskIs, AskServed
<1>3. ASSUME NEW r \in asked, Configure(r) \/ Clean(r) PROVE Served'
  BY <1>3, StartServed
<1>4. ASSUME NEW s \in strays, WriteStray(s) PROVE Served'
  <2>1. /\ rec' = rec /\ work' = work
        /\ asked' = asked /\ overlaps' = overlaps /\ stale' = stale
    BY <1>4 DEF WriteStray, askVars
  <2>2. \A r \in asked' : ~Working(r.inst)'
    BY <2>1 DEF Served, Working
  <2>3. QED BY <2>1, <2>2, ServedKept DEF IInv
<1>5. CASE NetworkingDies
  BY <1>5, NetworkingDiesServed
<1>6. CASE UNCHANGED vars
  BY <1>6 DEF vars, askVars, Served, Working
<1>7. QED
  BY <1>1, <1>2, <1>3, <1>4, <1>5, <1>6 DEF InstanceNext

LEMMA InstanceInvHolds ==
  ASSUME MaxOverlaps = 0 PROVE InstanceSpec => [](IInv /\ Served)
<1>1. Init => IInv /\ Served
  BY InitHolds, ServedInit
<1>2. IInv /\ Served /\ [InstanceNext]_vars => (IInv /\ Served)'
  BY InstanceStep, ServedStep
<1>3. QED BY <1>1, <1>2, PTL DEF InstanceSpec

(* The records, the operations and the calls are well formed, and only an  *)
(* operation in progress has a call in progress, for any number of plugins *)
(* and instances.                                                          *)
THEOREM NetworkingTypesHold ==
  ASSUME MaxOverlaps = 0 PROVE InstanceSpec => []NetworkingTypeOK
<1>1. ASSUME IInv, Served PROVE NetworkingTypeOK
  <2>1. Typed
    BY <1>1 DEF IInv
  <2>2. /\ TypeOK /\ faults \in 0 .. MaxFaults /\ failed \in BOOLEAN
        /\ \A i \in Instances : RecTyped(i)
        /\ \A p \in Plugins : WorkTyped(p)
    BY <2>1 DEF Typed
  <2>3. \A q \in Pending : IsPut(q)
    BY <2>1, PendingTyped
  <2>4. /\ overlaps \in 0 .. MaxOverlaps
        /\ stale \in BOOLEAN /\ (stale => overlaps > 0)
    <3>1. overlaps = 0 /\ stale = FALSE
      BY <1>1 DEF Served
    <3>2. overlaps \in 0 .. MaxOverlaps
      BY <3>1
    <3>3. stale \in BOOLEAN /\ ~stale
      BY <3>1, Zenon
    <3>4. QED BY <3>2, <3>3
  <2>5. \A r \in asked : /\ r.inst \in Instances
                         /\ r.copy.netns \in NetNs \cup {None}
                         /\ r.copy.cps \subseteq Cps
    BY <1>1, <2>2, ServedIs DEF RecTyped
  <2>6. QED BY <2>2, <2>3, <2>4, <2>5 DEF NetworkingTypeOK, RecTyped, WorkTyped
<1>2. QED BY <1>1, InstanceInvHolds, PTL

(* A configured instance that still has its namespace has all of its       *)
(* network: no failed, abandoned or repeated operation of any other        *)
(* instance takes or moves a part of it, nor does a late put of its own.   *)
THEOREM ConfiguredCompleteHolds ==
  ASSUME MaxOverlaps = 0 PROVE InstanceSpec => []ConfiguredComplete
<1>1. ASSUME IInv PROVE ConfiguredComplete
  <2>1. Typed /\ \A i \in Instances : Whole(i)
    BY <1>1 DEF IInv, Works
  <2>2. ASSUME NEW i \in Instances, IsConfigured(i), rec[i].netns \in DOMAIN namespaces,
               NEW r, r = rec[i]
        PROVE  /\ r.cps \subseteq cps
               /\ Cardinality(r.cps) = Cardinality(ToSet(CpsOf[i]))
               /\ DOMAIN r.intfs = DOMAIN IntfsOf[i]
               /\ \A k \in DOMAIN r.intfs :
                    /\ r.intfs[k] \in DOMAIN ifaces
                    /\ ifaces[r.intfs[k]].net_ns = r.netns
                    /\ r.intfs[k] \in DOMAIN namespaces[r.netns]
                    /\ ifaces[r.intfs[k]].pair \in DOMAIN ifaces
                    /\ IF IntfsOf[i][k] = None
                         THEN ifaces[ifaces[r.intfs[k]].pair].net_ns = None
                         ELSE ifaces[ifaces[r.intfs[k]].pair].net_ns \in r.cps
    <3>1. /\ Cardinality(r.cps) = Cardinality(ToSet(CpsOf[i]))
          /\ Len(r.intfs) = Len(IntfsOf[i]) /\ r.cps \subseteq cps
          /\ \A k \in 1 .. Len(r.intfs) :
               /\ Linked(ifaces, namespaces, {}, r.intfs[k], r.netns)
               /\ Ends(IntfsOf[i][k], Outer(ifaces, {}, r.intfs[k]), r.cps)
      BY <2>1, <2>2 DEF Whole
    <3>2. DOMAIN r.intfs = 1 .. Len(r.intfs) /\ DOMAIN IntfsOf[i] = 1 .. Len(IntfsOf[i])
      <4>1. RecTyped(i) /\ IntfsOf[i] \in Seq(CpIds \cup {None})
        BY <2>1, Sizes DEF Typed
      <4>2. r.intfs \in Seq(Ifaces)
        BY <2>2, <4>1 DEF RecTyped
      <4>3. QED BY <4>1, <4>2
    <3>3. ASSUME NEW k \in 1 .. Len(r.intfs), NEW x, x = r.intfs[k]
          PROVE  /\ x \in DOMAIN ifaces /\ ifaces[x].net_ns = r.netns
                 /\ x \in DOMAIN namespaces[r.netns]
                 /\ ifaces[x].pair \in DOMAIN ifaces
                 /\ IF IntfsOf[i][k] = None THEN ifaces[ifaces[x].pair].net_ns = None
                                            ELSE ifaces[ifaces[x].pair].net_ns \in r.cps
      <4>1. /\ Has(ifaces, {}, x) /\ Val(ifaces, {}, x).net_ns = r.netns
            /\ InList(namespaces, {}, r.netns, x)
            /\ Has(ifaces, {}, Val(ifaces, {}, x).pair)
            /\ Ends(IntfsOf[i][k], Val(ifaces, {}, Val(ifaces, {}, x).pair).net_ns, r.cps)
        BY <3>1, <3>3 DEF Linked, Outer
      <4>2. \A z : Val(ifaces, {}, z) = ifaces[z] /\ (Has(ifaces, {}, z) <=> z \in DOMAIN ifaces)
        BY ValIs
      <4>3. x \in DOMAIN namespaces[r.netns]
        BY <4>1 DEF InList
      <4>4. QED BY <4>1, <4>2, <4>3 DEF Ends
    <3>4. QED BY <3>1, <3>2, <3>3
  <2>3. QED BY <2>2 DEF ConfiguredComplete
<1>2. QED BY <1>1, InstanceInvHolds, PTL

-----------------------------------------------------------------------------
(* Nothing is leaked                                                       *)

(* No two connection points of a descriptor have the same name: the one    *)
(* made first would be forgotten.                                          *)
DistinctNames ==
  \A i \in Instances : \A j, k \in 1 .. Len(CpsOf[i]) :
    CpsOf[i][j] = CpsOf[i][k] => j = k

(* Nothing is put, and nobody gives up what it has.                        *)
LEMMA Booked ==
  ASSUME Ledger, UNCHANGED <<netVars, strays, failed>>,
         \A i \in Instances : Claim(i) \subseteq Claim(i)' /\ (Standing(i) => Standing(i)')
  PROVE  Ledger'
<1>1. ifaces' = ifaces /\ namespaces' = namespaces /\ cps' = cps
  BY StoresSame
<1>2. \A z : z \in Claimed => z \in Claimed'
  BY DEF Claimed
<1>3. QED BY <1>1, <1>2 DEF Ledger

(* Plugin p goes on with v.                                                *)
LEMMA CallBooked ==
  ASSUME Typed, Ledger, NEW p \in Plugins, NEW w, w = work[p], NEW v,
         work' = [work EXCEPT ![p] = v], UNCHANGED <<netVars, strays, failed>>,
         rec' = rec,
         Configuring(p) =>
           /\ v.pc \in {"namespace", "create", "attach"} /\ v.inst = w.inst
           /\ w.netns \in {None, v.netns}
           /\ \A a \in DOMAIN w.cps : \E b \in DOMAIN v.cps : v.cps[b] = w.cps[a]
           /\ ToSet(w.intfs) \subseteq ToSet(v.intfs),
         w.pc = "delete" => v.pc = "delete" /\ v.inst = w.inst
  PROVE  Ledger'
<1>1. work'[p] = v /\ \A r \in Plugins \ {p} : work'[r] = work[r]
  BY DEF Typed
<1>2. ASSUME NEW i \in Instances PROVE Claim(i) \subseteq Claim(i)'
  <2>0. PluginOf[i] \in Plugins /\ rec'[i] = rec[i]
    BY InstanceAssumption
  <2>1. CASE PluginOf[i] # p
    BY <1>1, <2>0, <2>1, ClaimStays
  <2>2. CASE IsConfigured(i)
    BY <2>0, <2>2 DEF Claim, IsConfigured, Listed
  <2>3. CASE ~IsConfigured(i) /\ ~Building(i)
    BY <2>3 DEF Claim
  <2>4. CASE PluginOf[i] = p /\ ~IsConfigured(i) /\ Building(i)
    <3>1. Configuring(p) /\ w.inst = i
      BY <2>4 DEF Building
    <3>2. Claim(i) = ({w.netns} \cup Made(p) \cup ToSet(w.intfs)) \ {None}
      BY <2>4 DEF Claim
    <3>3. /\ rec'[i] = rec[i] /\ p = PluginOf[i] /\ v = work'[p] /\ v.inst = i
          /\ v.pc \in {"namespace", "create", "attach"}
      BY <1>1, <2>0, <2>4, <3>1
    <3>4. Claim(i)' = ({v.netns} \cup Made(p)' \cup ToSet(v.intfs)) \ {None}
      BY <2>4, <3>3, ClaimNow
    <3>5. Made(p) \subseteq Made(p)'
      BY <1>1, <3>1 DEF Made
    <3>6. QED BY <3>1, <3>2, <3>4, <3>5
  <2>5. QED BY <2>1, <2>2, <2>3, <2>4
<1>3. ASSUME NEW i \in Instances, Standing(i) PROVE Standing(i)'
  <2>0. PluginOf[i] \in Plugins /\ rec'[i] = rec[i] /\ namespaces' = namespaces
    BY InstanceAssumption, StoresSame
  <2>1. CASE PluginOf[i] # p
    BY <1>1, <1>3, <2>0, <2>1 DEF Standing, IsConfigured
  <2>2. CASE PluginOf[i] = p
    BY <1>1, <1>3, <2>0, <2>2 DEF Standing, IsConfigured
  <2>3. QED BY <2>1, <2>2
<1>4. QED BY <1>2, <1>3, Booked

LEMMA FailedBooked == ASSUME failed' = TRUE PROVE Ledger'
BY DEF Ledger

LEMMA StartsBooked ==
  ASSUME Typed, Served, Ledger, NEW r \in asked, Configure(r) \/ Clean(r)
  PROVE  Ledger'
<1>1. PICK p : p = PluginOf[r.inst]
  OBVIOUS
<1>2. PICK v : work' = [work EXCEPT ![p] = v]
  BY <1>1 DEF Configure, Clean, Begin, Advance
<1>3. /\ work[p].pc = "idle" /\ UNCHANGED <<netVars, strays, failed>> /\ rec' = rec
  BY <1>1 DEF Configure, Clean, Begin, Advance
<1>4. p \in Plugins
  BY <1>1, ServedIs, InstanceAssumption
<1>5. ~Configuring(p) /\ work[p].pc # "delete"
  BY <1>3 DEF Configuring
<1>6. QED BY <1>2, <1>3, <1>4, <1>5, CallBooked

LEMMA CreateNamespaceBooked ==
  ASSUME IInv, Ledger, NEW p \in Plugins, CreateNamespace(p) PROVE Ledger'
<1>1. PICK w, n, t, v :
        /\ w = work[p] /\ n = NextNetNs(p) /\ t = << PutOf("namespaces", n, Empty) >>
        /\ v = [[w EXCEPT !.pc = "create", !.netns = n] EXCEPT !.puts = t]
  OBVIOUS
<1>2. /\ w.pc = "namespace" /\ work[p].puts = <<>>
      /\ work[p].pc \in {"namespace", "create", "attach"}
      /\ work' = [work EXCEPT ![p] = v]
      /\ UNCHANGED <<netVars, strays, failed>> /\ rec' = rec
  BY <1>1 DEF CreateNamespace, At, Call, Advance, callVars
<1>3. Typed /\ WorkTyped(p) /\ Progress(p)
  BY <1>2, Before
<1>4. /\ v.pc = "create" /\ v.inst = w.inst /\ v.cps = w.cps /\ v.intfs = w.intfs
      /\ w.netns = None
  BY <1>1, <1>2, <1>3, IdleIs DEF WorkTyped, Progress
<1>5. w.pc # "delete"
  BY <1>2
<1>6. QED BY <1>1, <1>2, <1>3, <1>4, <1>5, CallBooked

LEMMA CreateConnectionPointBooked ==
  ASSUME DistinctNames, IInv, Ledger, NEW p \in Plugins, CreateConnectionPoint(p)
  PROVE  Ledger'
<1>1. PICK w, i, c, id, f, t, v :
        /\ w = work[p] /\ i = w.inst /\ c = NextCp(p) /\ id = CpsOf[i][w.k]
        /\ f = Put(w.cps, id, c) /\ t = << PutOf("cps", c, c) >>
        /\ v = [[w EXCEPT !.k = @ + 1, !.cps = f] EXCEPT !.puts = t]
  OBVIOUS
<1>2. /\ w.pc = "create" /\ work[p].puts = <<>> /\ ~MadeCps(p)
      /\ work[p].pc \in {"namespace", "create", "attach"}
      /\ work' = [work EXCEPT ![p] = v]
      /\ UNCHANGED <<netVars, strays, failed>> /\ rec' = rec
  BY <1>1 DEF CreateConnectionPoint, At, Call, Advance, callVars
<1>3. Typed /\ WorkTyped(p) /\ Progress(p) /\ i \in Instances
  BY <1>1, <1>2, Before
<1>4. /\ v.pc = "create" /\ v.inst = w.inst /\ v.cps = f
      /\ v.intfs = w.intfs /\ v.netns = w.netns
  BY <1>1, <1>2, <1>3, IdleIs DEF WorkTyped
<1>5. id \notin DOMAIN w.cps
  <2>1. DOMAIN w.cps = {CpsOf[i][m] : m \in {n \in 1 .. Len(CpsOf[i]) : n < w.k}}
    BY <1>1, <1>3 DEF Progress
  <2>2. w.k \in Nat /\ w.k >= 1 /\ Len(CpsOf[i]) \in Nat
    BY <1>1, <1>2, <1>3, Sizes DEF WorkTyped
  <2>3. w.k \in 1 .. Len(CpsOf[i])
    BY <1>1, <1>2, <2>2 DEF MadeCps
  <2>4. \A m \in 1 .. Len(CpsOf[i]) : m < w.k => CpsOf[i][m] # id
    BY <1>1, <1>3, <2>2, <2>3 DEF DistinctNames
  <2>5. QED BY <2>1, <2>4
<1>6. \A a \in DOMAIN w.cps : \E b \in DOMAIN v.cps : v.cps[b] = w.cps[a]
  <2>1. PICK g : g = w.cps
    OBVIOUS
  <2>2. f = [x \in DOMAIN g \cup {id} |-> IF x = id THEN c ELSE g[x]]
    BY <1>1, <2>1 DEF Put
  <2>3. id \notin DOMAIN g
    BY <1>5, <2>1
  <2>4. \A a \in DOMAIN g : a \in DOMAIN f /\ f[a] = g[a]
    BY <2>2, <2>3
  <2>5. v.cps = f
    BY <1>4
  <2>6. QED BY <2>1, <2>4, <2>5
<1>7. /\ v.pc \in {"namespace", "create", "attach"} /\ v.inst = w.inst
      /\ w.netns \in {None, v.netns}
      /\ ToSet(w.intfs) \subseteq ToSet(v.intfs)
  BY <1>4
<1>8. w = work[p] /\ w.pc # "delete"
  BY <1>1, <1>2
<1>9. Typed /\ UNCHANGED <<netVars, strays, failed>> /\ rec' = rec
      /\ work' = [work EXCEPT ![p] = v]
  BY <1>2, <1>3
<1>10. QED BY <1>6, <1>7, <1>8, <1>9, CallBooked

LEMMA CreateInterfaceBooked ==
  ASSUME IInv, Ledger, NEW p \in Plugins, CreateInterface(p) PROVE Ledger'
<1>1. CASE Refused(p)
  BY <1>1, FailedBooked DEF Refused
<1>2. CASE ~Refused(p)
  <2>1. PICK w, x, y, t, v :
          /\ w = work[p] /\ x = NextIface(p) /\ y = NextPair(p)
          /\ t = VethPuts(x, y, w.netns)
          /\ v = [[w EXCEPT !.pc = "attach", !.pair = y, !.intfs = Append(@, x)]
                    EXCEPT !.puts = t]
    OBVIOUS
  <2>2. /\ w.pc = "create" /\ work[p].puts = <<>>
        /\ work[p].pc \in {"namespace", "create", "attach"}
        /\ work' = [work EXCEPT ![p] = v]
        /\ UNCHANGED <<netVars, strays, failed>> /\ rec' = rec
    BY <1>2, <2>1 DEF CreateInterface, At, Call, Advance, callVars
  <2>3. Typed /\ WorkTyped(p)
    BY <2>2, Before
  <2>4. /\ v.pc = "attach" /\ v.inst = w.inst /\ v.cps = w.cps
        /\ v.intfs = Append(w.intfs, x) /\ v.netns = w.netns
    BY <2>1, <2>3, IdleIs DEF WorkTyped
  <2>5. ToSet(w.intfs) \subseteq ToSet(v.intfs)
    <3>1. PICK s : s = w.intfs
      OBVIOUS
    <3>2. s \in Seq(Ifaces)
      BY <2>1, <2>3, <3>1 DEF WorkTyped
    <3>3. \A m \in DOMAIN s : m \in DOMAIN Append(s, x) /\ Append(s, x)[m] = s[m]
      BY <3>2
    <3>4. QED BY <2>4, <3>1, <3>3 DEF ToSet
  <2>6. w.pc # "delete"
    BY <2>2
  <2>7. QED BY <2>1, <2>2, <2>3, <2>4, <2>5, <2>6, CallBooked
<1>3. QED BY <1>1, <1>2

LEMMA AttachBooked ==
  ASSUME IInv, Ledger, NEW p \in Plugins, Attach(p) PROVE Ledger'
<1>1. CASE Refused(p)
  BY <1>1, FailedBooked DEF Refused
<1>2. CASE ~Refused(p)
  <2>1. PICK w : w = work[p]
    OBVIOUS
  <2>2. PICK t, v :
          /\ v = [[w EXCEPT !.pc = "create", !.k = @ + 1] EXCEPT !.puts = t]
          /\ work' = [work EXCEPT ![p] = v]
          /\ UNCHANGED <<netVars, strays, failed>> /\ rec' = rec
    BY <1>2, <2>1 DEF Attach, Call, Advance, callVars
  <2>3. /\ w.pc = "attach" /\ work[p].puts = <<>>
        /\ work[p].pc \in {"namespace", "create", "attach"}
    BY <2>1 DEF Attach, At
  <2>4. Typed /\ WorkTyped(p)
    BY <2>3, Before
  <2>5. /\ v.pc = "create" /\ v.inst = w.inst /\ v.cps = w.cps
        /\ v.intfs = w.intfs /\ v.netns = w.netns
    BY <2>1, <2>2, <2>4, IdleIs DEF WorkTyped
  <2>6. w.pc # "delete"
    BY <2>3
  <2>7. QED BY <2>1, <2>2, <2>4, <2>5, <2>6, CallBooked
<1>3. QED BY <1>1, <1>2


(* Plugin p, which cleans an instance, goes on with v.                     *)
DeletesOn(p, v) ==
  /\ work[p].pc \in {"clean", "delete"} /\ v.pc = "delete" /\ v.inst = work[p].inst
  /\ work' = [work EXCEPT ![p] = v]
  /\ UNCHANGED <<netVars, strays, failed>> /\ rec' = rec

LEMMA DeleteBooked ==
  ASSUME IInv, Ledger, NEW p \in Plugins, NEW v, DeletesOn(p, v) PROVE Ledger'
<1>1. Typed /\ ~Configuring(p)
  BY DEF IInv, Configuring, DeletesOn
<1>2. /\ v.pc = "delete" /\ v.inst = work[p].inst
      /\ work' = [work EXCEPT ![p] = v]
      /\ UNCHANGED <<netVars, strays, failed>> /\ rec' = rec
  BY DEF DeletesOn
<1>3. QED BY <1>1, <1>2, CallBooked

LEMMA DeleteNamespaceBooked ==
  ASSUME IInv, Ledger, NEW p \in Plugins, DeleteNamespace(p) PROVE Ledger'
<1>1. CASE Refused(p)
  BY <1>1, FailedBooked DEF Refused
<1>2. CASE ~Refused(p)
  <2>1. PICK w, t, v :
          /\ w = work[p] /\ t = << PutOf("namespaces", w.netns, None) >>
          /\ v = [[w EXCEPT !.pc = "delete"] EXCEPT !.puts = t]
    OBVIOUS
  <2>2. /\ work' = [work EXCEPT ![p] = v]
        /\ UNCHANGED <<netVars, strays, failed>> /\ rec' = rec
        /\ work[p].pc \in {"clean", "delete"}
    BY <1>2, <2>1 DEF DeleteNamespace, At, Call, Advance, callVars
  <2>3. WorkTyped(p)
    BY <2>2, CleaningIs
  <2>4. v.pc = "delete" /\ v.inst = work[p].inst
    BY <2>1, <2>3, IdleIs DEF WorkTyped
  <2>5. DeletesOn(p, v)
    BY <2>2, <2>4 DEF DeletesOn
  <2>6. QED BY <2>5, DeleteBooked
<1>3. QED BY <1>1, <1>2

LEMMA DeleteInterfaceBooked ==
  ASSUME IInv, Ledger, NEW p \in Plugins, DeleteInterface(p) PROVE Ledger'
<1>1. CASE Refused(p)
  BY <1>1, FailedBooked DEF Refused
<1>2. CASE ~Refused(p)
  <2>1. PICK w, t, v :
          /\ w = work[p] /\ t = DeletePuts(w.intfs[w.k])
          /\ v = [[w EXCEPT !.k = @ + 1] EXCEPT !.puts = t]
    OBVIOUS
  <2>2. /\ work' = [work EXCEPT ![p] = v]
        /\ UNCHANGED <<netVars, strays, failed>> /\ rec' = rec
        /\ work[p].pc = "delete" /\ w.pc = "delete"
    BY <1>2, <2>1 DEF DeleteInterface, At, Call, Advance, callVars
  <2>3. WorkTyped(p)
    BY <2>2, CleaningIs
  <2>4. v.pc = "delete" /\ v.inst = work[p].inst
    BY <2>1, <2>2, <2>3, IdleIs DEF WorkTyped
  <2>5. DeletesOn(p, v)
    BY <2>2, <2>4 DEF DeletesOn
  <2>6. QED BY <2>5, DeleteBooked
<1>3. QED BY <1>1, <1>2

LEMMA DeleteConnectionPointBooked ==
  ASSUME IInv, Ledger, NEW p \in Plugins, DeleteConnectionPoint(p) PROVE Ledger'
<1>1. CASE Refused(p)
  BY <1>1, FailedBooked DEF Refused
<1>2. CASE ~Refused(p)
  <2>0. PICK c \in work[p].rest :
          Call(p, << PutOf("cps", c, None) >>, [work[p] EXCEPT !.rest = @ \ {c}])
    BY <1>2 DEF DeleteConnectionPoint
  <2>1. PICK w, t, v :
          /\ w = work[p] /\ t = << PutOf("cps", c, None) >>
          /\ v = [[w EXCEPT !.rest = @ \ {c}] EXCEPT !.puts = t]
    OBVIOUS
  <2>2. /\ work' = [work EXCEPT ![p] = v]
        /\ UNCHANGED <<netVars, strays, failed>> /\ rec' = rec
    BY <2>0, <2>1 DEF Call, Advance, callVars
  <2>3. work[p].pc = "delete" /\ w.pc = "delete"
    BY <2>1 DEF DeleteConnectionPoint, At
  <2>4. WorkTyped(p)
    BY <2>3, CleaningIs
  <2>5. v.pc = "delete" /\ v.inst = work[p].inst
    BY <2>1, <2>3, <2>4, IdleIs DEF WorkTyped
  <2>6. DeletesOn(p, v)
    BY <2>2, <2>3, <2>5 DEF DeletesOn
  <2>7. QED BY <2>6, DeleteBooked
<1>3. QED BY <1>1, <1>2

(* A put makes what its operation claims, or its pair; it removes a        *)
(* namespace only of the instance that its operation cleans.               *)
LEMMA WriteBooked ==
  ASSUME IInv, Ledger, NEW p \in Plugins, Write(p) PROVE Ledger'
<1> DEFINE s == work[p].puts
<1>1. PICK q : q = Head(s)
  OBVIOUS
<1>2. /\ s # <<>> /\ Execute(s) /\ UNCHANGED <<rec, strays, faults>>
      /\ work' = [work EXCEPT ![p] =
           IF q.store = "unlist" /\ ~Unlistable(q) THEN Idle
           ELSE [work[p] EXCEPT !.puts = Rest(s)]]
      /\ failed' = (failed \/ (q.store = "unlist" /\ ~Unlistable(q)))
  BY <1>1 DEF Write
<1>3. CASE failed' = TRUE
  BY <1>3, FailedBooked
<1>4. CASE failed' # TRUE
  <2>0. ~failed /\ ~(q.store = "unlist" /\ ~Unlistable(q))
    <3>1. failed \in BOOLEAN
      BY DEF IInv, Typed
    <3>2. QED BY <1>2, <1>4, <3>1, Zenon
  <2>1. /\ Typed /\ Claims /\ DOMAIN work = Plugins /\ WorkTyped(p) /\ PutSeq(s)
        /\ OwnPuts
    BY DEF IInv, Typed, WorkTyped, Calls
  <2>2. /\ work'[p] = [work[p] EXCEPT !.puts = Rest(s)]
        /\ \A r \in Plugins \ {p} : work'[r] = work[r]
    BY <1>2, <2>0, <2>1
  <2>3. SamePlan(p)
    BY <2>1, <2>2, IdleIs DEF SamePlan, WorkTyped
  <2>4. \A r \in Plugins : SamePlan(r)
    BY <2>2, <2>3 DEF SamePlan
  <2>5. \A i \in Instances : /\ PluginOf[i] \in Plugins /\ rec'[i] = rec[i]
                             /\ Claim(i)' = Claim(i)
    BY <1>2, <2>4, ClaimPlan, InstanceAssumption
  <2>6. Claimed' = Claimed
    BY <2>5 DEF Claimed
  <2>7. q \in Puts(p) /\ IsPut(q)
    <3>1. q \in Puts(p)
      BY <1>1, <1>2, <2>1, TailPuts DEF Puts
    <3>2. QED BY <2>1, <3>1 DEF PutSeq, Puts
  <2>8. Effect(q)
    BY <1>1, <1>2, Effects
  <2>9. work[p].pc # "idle" /\ work[p].inst \in Instances /\ PluginOf[work[p].inst] = p
    <3>1. work[p].pc # "idle"
      BY <1>2, <2>1, IdleIs DEF WorkTyped
    <3>2. QED BY <2>1, <3>1, WorkOf
  <2>10. Making(q) => \/ q.key \in Claimed
                      \/ q.store = "ifaces" /\ q.val.pair \in Claimed
    BY <2>1, <2>7, <2>9 DEF OwnPuts, Claimed, IfacePut
  <2>11. /\ strays = {} /\ DOMAIN namespaces \subseteq Claimed /\ cps \subseteq Claimed
         /\ \A z \in DOMAIN ifaces : z \in Claimed \/ ifaces[z].pair \in Claimed
         /\ \A i \in Instances : Standing(i)
    BY <2>0 DEF Ledger
  <2>12. DOMAIN namespaces' \subseteq Claimed
    <3>1. ASSUME NEW n \in DOMAIN namespaces', n \notin DOMAIN namespaces
          PROVE  n = q.key /\ q.store = "namespaces" /\ Making(q)
      BY <2>8, <3>1 DEF Effect, Kept
    <3>2. QED BY <2>10, <2>11, <3>1
  <2>13. cps' \subseteq Claimed
    <3>1. ASSUME NEW c \in cps', c \notin cps
          PROVE  c = q.key /\ q.store = "cps" /\ Making(q)
      BY <2>8, <3>1 DEF Effect
    <3>2. QED BY <2>10, <2>11, <3>1
  <2>14. ASSUME NEW z \in DOMAIN ifaces'
         PROVE  z \in Claimed \/ ifaces'[z].pair \in Claimed
    <3>1. CASE Kept(ifaces, ifaces', z)
      <4>1. z \in DOMAIN ifaces /\ ifaces'[z] = ifaces[z]
        BY <2>14, <3>1 DEF Kept
      <4>2. QED BY <2>11, <4>1
    <3>2. CASE ~Kept(ifaces, ifaces', z)
      <4>1. z = q.key /\ q.store = "ifaces" /\ Making(q) /\ ifaces'[z] = q.val
        BY <2>8, <2>14, <3>2 DEF Effect
      <4>2. QED BY <2>10, <4>1
    <3>3. QED BY <3>1, <3>2
  <2>15. ASSUME NEW i \in Instances PROVE Standing(i)'
    <3>1. /\ IsConfigured(i)' <=> IsConfigured(i)
          /\ rec'[i].netns = rec[i].netns
      BY <2>5 DEF IsConfigured
    <3>2. CASE work[PluginOf[i]].pc = "delete" /\ work[PluginOf[i]].inst = i
      BY <2>4, <2>5, <3>2 DEF Standing, SamePlan
    <3>3. CASE /\ IsConfigured(i) /\ rec[i].netns \in DOMAIN namespaces
               /\ ~(work[PluginOf[i]].pc = "delete" /\ work[PluginOf[i]].inst = i)
      <4>1. SUFFICES ASSUME rec[i].netns \notin DOMAIN namespaces' PROVE FALSE
        BY <3>1 DEF Standing
      <4>2. q.store = "namespaces" /\ ~Making(q) /\ q.key = rec[i].netns
        BY <2>8, <3>3, <4>1 DEF Effect, Kept
      <4>3. PICK j : j = work[p].inst
        OBVIOUS
      <4>4. Cleaning(p) /\ rec[i].netns = rec[j].netns
        BY <2>1, <2>7, <4>2, <4>3 DEF OwnPuts
      <4>5. Cleanup(p)
        BY <4>4 DEF IInv, Works
      <4>6. IsConfigured(j) /\ work[p].pc = "delete"
        BY <1>2, <4>3, <4>4, <4>5 DEF Cleanup, Cleaning
      <4>7. rec[i].netns \in Claim(i) /\ rec[j].netns \in Claim(j)
        BY <3>3, <4>6 DEF Claim
      <4>8. i = j
        BY <2>1, <2>9, <4>3, <4>4, <4>7 DEF Claims, Disjoint
      <4>9. QED BY <2>9, <3>3, <4>3, <4>6, <4>8
    <3>4. CASE ~IsConfigured(i)
      BY <3>1, <3>4 DEF Standing
    <3>5. QED BY <2>11, <3>2, <3>3, <3>4 DEF Standing
  <2>16. strays' = {}
    BY <1>2, <2>11
  <2>17. QED BY <2>6, <2>12, <2>13, <2>14, <2>15, <2>16 DEF Ledger
<1>5. QED BY <1>3, <1>4

(* Plugin p, done with its operation of instance i, is idle again: what    *)
(* belongs to others is as it was.                                         *)
LEMMA OthersKept ==
  ASSUME Typed, NEW p \in Plugins, NEW i, i = work[p].inst,
         work' = [work EXCEPT ![p] = Idle], UNCHANGED netVars,
         NEW j \in Instances, j # i, rec'[j] = rec[j]
  PROVE  Claim(j)' = Claim(j) /\ (Standing(j) => Standing(j)')
<1>1. work'[p] = Idle /\ \A r \in Plugins \ {p} : work'[r] = work[r]
  BY DEF Typed
<1>2. PluginOf[j] \in Plugins /\ namespaces' = namespaces
  BY InstanceAssumption, StoresSame
<1>3. CASE PluginOf[j] # p
  <2>1. work'[PluginOf[j]] = work[PluginOf[j]]
    BY <1>1, <1>2, <1>3
  <2>2. QED BY <1>2, <2>1, ClaimStays DEF Standing, IsConfigured
<1>4. CASE PluginOf[j] = p
  <2>1. ~Building(j) /\ ~Building(j)'
    BY <1>1, <1>4, IdleWork DEF Building
  <2>2. Claim(j)' = Claim(j)
    BY <2>1, ClaimDropped
  <2>3. QED BY <1>2, <1>4, <2>2 DEF Standing, IsConfigured
<1>5. QED BY <1>3, <1>4

LEMMA ConfiguredBooked ==
  ASSUME IInv, Ledger, NEW p \in Plugins, Configured(p) PROVE Ledger'
<1>1. PICK w, i, r :
        /\ w = work[p] /\ i = w.inst
        /\ r = [status |-> "CONFIGURED", netns |-> w.netns, intfs |-> w.intfs,
                cps |-> {w.cps[id] : id \in DOMAIN w.cps}]
  OBVIOUS
<1>2. /\ work[p].pc \in {"namespace", "create", "attach"} /\ work[p].puts = <<>>
      /\ w.pc = "create" /\ i = work[p].inst
      /\ rec' = [rec EXCEPT ![i] = r] /\ work' = [work EXCEPT ![p] = Idle]
      /\ UNCHANGED <<netVars, strays, failed>>
  BY <1>1 DEF Configured, At, Advance
<1>3. /\ Typed /\ Progress(p) /\ i \in Instances /\ Puts(p) = {}
      /\ Claim(i) = ({w.netns} \cup Made(p) \cup ToSet(w.intfs)) \ {None}
  BY <1>1, <1>2, Before
<1>4. rec'[i] = r /\ \A j \in Instances \ {i} : rec'[j] = rec[j]
  BY <1>2, <1>3 DEF Typed
<1>5. /\ r.status = "CONFIGURED" /\ r.netns = w.netns /\ r.intfs = w.intfs
      /\ r.cps = Made(p)
  BY <1>1 DEF Made
<1>6. Claim(i) \subseteq Claim(i)'
  BY <1>3, <1>4, <1>5 DEF Claim, IsConfigured, Listed
<1>7. Standing(i)'
  <2>1. w.netns \in DOMAIN namespaces
    BY <1>1, <1>2, <1>3 DEF Progress
  <2>2. namespaces' = namespaces
    BY <1>2, StoresSame
  <2>3. QED BY <1>4, <1>5, <2>1, <2>2 DEF Standing
<1>8. \A j \in Instances \ {i} : Claim(j)' = Claim(j) /\ (Standing(j) => Standing(j)')
  BY <1>2, <1>3, <1>4, OthersKept
<1>9. \A j \in Instances : Claim(j) \subseteq Claim(j)' /\ (Standing(j) => Standing(j)')
  BY <1>6, <1>7, <1>8
<1>10. QED BY <1>2, <1>9, Booked

(* When the record of instance i is reset, nothing of i is left.           *)
LEMMA CleanedBooked ==
  ASSUME IInv, Ledger, NEW p \in Plugins, Cleaned(p) PROVE Ledger'
<1>1. PICK w, i : w = work[p] /\ i = w.inst
  OBVIOUS
<1>2. /\ work[p].pc = "delete" /\ work[p].pc \in {"clean", "delete"}
      /\ work[p].puts = <<>> /\ i = work[p].inst
      /\ w.k > Len(w.intfs) /\ w.rest = {}
      /\ work' = [work EXCEPT ![p] = Idle]
      /\ UNCHANGED <<netVars, strays, failed>>
  BY <1>1 DEF Cleaned, At, Advance
<1>3. /\ Typed /\ i \in Instances /\ WorkTyped(p)
      /\ Claim(i) = {rec[i].netns} \cup rec[i].cps \cup Listed(i)
      /\ rec[i].netns \in NetNs /\ rec[i].cps \subseteq Cps /\ rec[i].intfs \in Seq(Ifaces)
      /\ w.intfs = rec[i].intfs
  BY <1>1, <1>2, CleaningIs
<1>4. /\ \A j \in Instances \ {i} : rec'[j] = rec[j]
      /\ ~IsConfigured(i)'
  <2>1. DOMAIN rec = Instances
    BY <1>3 DEF Typed
  <2>2. rec' = [rec EXCEPT ![i] = NewRecord]
    BY <1>1 DEF Cleaned
  <2>3. NewRecord.status = "DEFINED"
    BY DEF NewRecord
  <2>4. QED BY <1>3, <2>1, <2>2, <2>3 DEF IsConfigured
<1>5. /\ rec[i].netns \notin DOMAIN namespaces /\ rec[i].cps \cap cps = {}
      /\ \A x \in Listed(i) : /\ x \notin DOMAIN ifaces
                              /\ \A z \in DOMAIN ifaces : ifaces[z].pair # x
  <2>1. GoneSoFar(i, w.k, {})
    BY <1>1, <1>2, GoneIs
  <2>2. \A m \in 1 .. Len(rec[i].intfs) : m < w.k
    <3>1. w.k \in Nat /\ Len(rec[i].intfs) \in Nat
      BY <1>1, <1>3 DEF WorkTyped
    <3>2. QED BY <1>2, <1>3, <3>1
  <2>3. \A x \in Listed(i) : \E m \in 1 .. Len(rec[i].intfs) : x = rec[i].intfs[m]
    BY <1>3 DEF Listed, ToSet
  <2>4. QED BY <2>1, <2>2, <2>3 DEF GoneSoFar
<1>6. Listed(i) \subseteq Ifaces
  BY <1>3 DEF Listed, ToSet
<1>7. ASSUME ~failed PROVE Ledger'
  <2>1. /\ strays = {} /\ DOMAIN namespaces \subseteq Claimed /\ cps \subseteq Claimed
        /\ \A z \in DOMAIN ifaces : z \in Claimed \/ ifaces[z].pair \in Claimed
        /\ \A j \in Instances : Standing(j)
    BY <1>7 DEF Ledger
  <2>2. namespaces' = namespaces /\ cps' = cps /\ ifaces' = ifaces /\ strays' = {}
    BY <1>2, <2>1, StoresSame
  <2>3. /\ DOMAIN namespaces \subseteq NetNs /\ cps \subseteq Cps
        /\ DOMAIN ifaces \subseteq Ifaces
        /\ \A z \in DOMAIN ifaces : ifaces[z].pair \in Ifaces
    <3>1. \A z \in DOMAIN ifaces : ifaces[z] \in VethRecord
      BY <1>3 DEF Typed
    <3>2. QED BY <1>3, <3>1, VethAre DEF Typed, TypeOK
  <2>4. \A j \in Instances \ {i} : Claim(j)' = Claim(j) /\ (Standing(j) => Standing(j)')
    BY <1>2, <1>3, <1>4, OthersKept
  <2>5. \A z : z \in Claimed /\ z \notin Claim(i) => z \in Claimed'
    BY <2>4 DEF Claimed
  <2>6. \A n \in DOMAIN namespaces : n \notin Claim(i)
    BY <1>3, <1>5, <1>6, <2>3, Keys
  <2>7. \A c \in cps : c \notin Claim(i)
    BY <1>3, <1>5, <1>6, <2>3, Keys
  <2>8. \A z \in DOMAIN ifaces : z \notin Claim(i) /\ ifaces[z].pair \notin Claim(i)
    BY <1>3, <1>5, <1>6, <2>3, Keys
  <2>9. \A j \in Instances : Standing(j)'
    BY <1>4, <2>1, <2>4 DEF Standing
  <2>10. QED BY <2>1, <2>2, <2>5, <2>6, <2>7, <2>8, <2>9 DEF Ledger
<1>8. CASE failed
  <2>1. failed' = failed /\ failed \in BOOLEAN
    BY <1>2, <1>3 DEF Typed
  <2>2. failed' = TRUE
    BY <1>8, <2>1, Zenon
  <2>3. QED BY <2>2, FailedBooked
<1>9. QED BY <1>7, <1>8

LEMMA LedgerInit == Init => Ledger
<1> SUFFICES ASSUME Init PROVE Ledger
  OBVIOUS
<1>1. /\ DOMAIN namespaces = {} /\ cps = {} /\ DOMAIN ifaces = {} /\ strays = {}
  BY DEF Init, NetInit, Empty
<1>2. \A i \in Instances : ~IsConfigured(i)
  BY DEF Init, IsConfigured, NewRecord
<1>3. QED BY <1>1, <1>2 DEF Ledger, Standing

LEMMA LedgerStep ==
  ASSUME DistinctNames
  PROVE  IInv /\ Served /\ Ledger /\ [InstanceNext]_vars => Ledger'
<1> SUFFICES ASSUME IInv, Served, Ledger, [InstanceNext]_vars PROVE Ledger'
  OBVIOUS
<1>0. Typed
  BY DEF IInv
<1>1. ASSUME NEW p \in Plugins, Step(p) PROVE Ledger'
  <2>1. CASE CreateNamespace(p)
    BY <2>1, CreateNamespaceBooked
  <2>2. CASE CreateConnectionPoint(p)
    BY <2>2, CreateConnectionPointBooked
  <2>3. CASE CreateInterface(p)
    BY <2>3, CreateInterfaceBooked
  <2>4. CASE Attach(p)
    BY <2>4, AttachBooked
  <2>5. CASE Configured(p)
    BY <2>5, ConfiguredBooked
  <2>6. CASE DeleteNamespace(p)
    BY <2>6, DeleteNamespaceBooked
  <2>7. CASE DeleteInterface(p)
    BY <2>7, DeleteInterfaceBooked
  <2>8. CASE DeleteConnectionPoint(p)
    BY <2>8, DeleteConnectionPointBooked
  <2>9. CASE Cleaned(p)
    BY <2>9, CleanedBooked
  <2>10. QED
    BY <1>1, <2>1, <2>2, <2>3, <2>4, <2>5, <2>6, <2>7, <2>8, <2>9 DEF Step
<1>2. ASSUME NEW p \in Plugins, Write(p) PROVE Ledger'
  BY <1>2, WriteBooked
<1>3. ASSUME NEW p \in Plugins, GiveUp(p) PROVE Ledger'
  BY <1>3, FailedBooked DEF GiveUp, Fault
<1>4. ASSUME NEW r \in asked, Configure(r) \/ Clean(r) PROVE Ledger'
  BY <1>0, <1>4, StartsBooked
<1>5. ASSUME NEW s \in strays, WriteStray(s) PROVE Ledger'
  <2>1. failed' = failed /\ failed \in BOOLEAN
    BY <1>0, <1>5 DEF WriteStray, Typed
  <2>2. failed
    BY <1>5 DEF Ledger
  <2>3. failed' = TRUE
    BY <2>1, <2>2, Zenon
  <2>4. QED BY <2>3, FailedBooked
<1>6. CASE NetworkingDies
  BY <1>6, FailedBooked DEF NetworkingDies, Fault
<1>7. ASSUME UNCHANGED workVars PROVE Ledger'
  <2>1. UNCHANGED <<netVars, strays, failed>> /\ rec' = rec /\ work' = work
    BY <1>7 DEF workVars
  <2>2. namespaces' = namespaces
    BY <2>1, StoresSame
  <2>3. \A i \in Instances : Claim(i)' = Claim(i) /\ (Standing(i) => Standing(i)')
    BY <2>1, <2>2, ClaimStays DEF Standing, IsConfigured
  <2>4. QED BY <2>1, <2>3, Booked
<1>8. ASSUME NEW i \in Instances, AskConfigure(i) \/ AskClean(i) PROVE Ledger'
  BY <1>7, <1>8, AskIs
<1>9. CASE UNCHANGED vars
  BY <1>7, <1>9 DEF vars, workVars
<1>10. QED
  BY <1>1, <1>2, <1>3, <1>4, <1>5, <1>6, <1>8, <1>9 DEF InstanceNext

LEMMA NothingLeft == ASSUME IInv, Ledger PROVE NothingLeaked
<1> SUFFICES ASSUME \A p \in Plugins : work[p].pc = "idle", ~failed,
                    NEW live, live = {i \in Instances : IsConfigured(i)},
                    NEW own, own = UNION {Listed(i) : i \in live}
             PROVE  /\ DOMAIN namespaces = {rec[i].netns : i \in live}
                    /\ cps = UNION {rec[i].cps : i \in live}
                    /\ own \subseteq DOMAIN ifaces
                    /\ DOMAIN ifaces = own \cup {ifaces[x].pair : x \in own}
  BY DEF NothingLeaked
<1>1. Typed /\ Matched /\ \A i \in Instances : Whole(i)
  BY DEF IInv, Claims, Works
<1>2. /\ DOMAIN namespaces \subseteq Claimed /\ cps \subseteq Claimed
      /\ \A z \in DOMAIN ifaces : z \in Claimed \/ ifaces[z].pair \in Claimed
      /\ \A i \in Instances : Standing(i)
  BY DEF Ledger
<1>3. ASSUME NEW i \in live
      PROVE  /\ i \in Instances /\ IsConfigured(i) /\ RecTyped(i)
             /\ rec[i].netns \in NetNs /\ rec[i].cps \subseteq Cps
             /\ rec[i].intfs \in Seq(Ifaces) /\ Listed(i) \subseteq Ifaces
             /\ rec[i].netns \in DOMAIN namespaces
  <2>1. i \in Instances /\ IsConfigured(i)
    OBVIOUS
  <2>2. RecTyped(i)
    BY <1>1, <2>1 DEF Typed
  <2>3. PluginOf[i] \in Plugins
    BY <2>1, InstanceAssumption
  <2>4. rec[i].netns \in DOMAIN namespaces
    BY <1>2, <2>1, <2>3 DEF Standing
  <2>5. rec[i].netns \in NetNs /\ rec[i].cps \subseteq Cps /\ rec[i].intfs \in Seq(Ifaces)
    BY <2>1, <2>2 DEF RecTyped
  <2>6. Listed(i) \subseteq Ifaces
    BY <2>5 DEF Listed, ToSet
  <2>7. QED BY <2>1, <2>2, <2>4, <2>5, <2>6
<1>4. ASSUME NEW u \in Claimed
      PROVE  \E i \in live : u = rec[i].netns \/ u \in rec[i].cps \/ u \in Listed(i)
  <2>1. PICK i \in Instances : u \in Claim(i)
    BY DEF Claimed
  <2>2. ~Building(i)
    BY <2>1, InstanceAssumption DEF Building, Configuring
  <2>3. IsConfigured(i)
    BY <2>1, <2>2 DEF Claim
  <2>4. QED BY <2>1, <2>3 DEF Claim
<1>5. /\ DOMAIN namespaces \subseteq NetNs /\ cps \subseteq Cps
      /\ DOMAIN ifaces \subseteq Ifaces
      /\ \A z \in DOMAIN ifaces : ifaces[z].pair \in Ifaces
  <2>1. \A z \in DOMAIN ifaces : ifaces[z] \in VethRecord
    BY <1>1 DEF Typed
  <2>2. QED BY <1>1, <2>1, VethAre DEF Typed, TypeOK
<1>6. \A u \in Claimed :
        /\ u \in NetNs => \E i \in live : u = rec[i].netns
        /\ u \in Cps => \E i \in live : u \in rec[i].cps
        /\ u \in Ifaces => u \in own
  <2>1. ASSUME NEW u \in Claimed
        PROVE  /\ u \in NetNs => \E i \in live : u = rec[i].netns
               /\ u \in Cps => \E i \in live : u \in rec[i].cps
               /\ u \in Ifaces => \E i \in live : u \in Listed(i)
    <3>1. PICK i \in live : u = rec[i].netns \/ u \in rec[i].cps \/ u \in Listed(i)
      BY <1>4
    <3>2. QED BY <1>3, <3>1, Keys
  <2>2. QED BY <2>1
<1>7. ASSUME NEW i \in live
      PROVE  /\ rec[i].cps \subseteq cps
             /\ \A x \in Listed(i) : x \in DOMAIN ifaces /\ ifaces[x].pair \in DOMAIN ifaces
  <2>1. i \in Instances /\ IsConfigured(i) /\ rec[i].netns \in DOMAIN namespaces
    BY <1>3
  <2>2. /\ rec[i].cps \subseteq cps
        /\ \A k \in 1 .. Len(rec[i].intfs) :
             Linked(ifaces, namespaces, {}, rec[i].intfs[k], rec[i].netns)
    BY <1>1, <2>1 DEF Whole
  <2>3. ASSUME NEW x \in Listed(i)
        PROVE  x \in DOMAIN ifaces /\ ifaces[x].pair \in DOMAIN ifaces
    <3>1. PICK k \in 1 .. Len(rec[i].intfs) : x = rec[i].intfs[k]
      BY <1>3 DEF Listed, ToSet
    <3>2. Linked(ifaces, namespaces, {}, x, rec[i].netns)
      BY <2>2, <3>1
    <3>3. QED BY <3>2, ValIs DEF Linked
  <2>4. QED BY <2>2, <2>3
<1>8. DOMAIN namespaces = {rec[i].netns : i \in live}
  BY <1>2, <1>3, <1>5, <1>6
<1>9. cps = UNION {rec[i].cps : i \in live}
  <2>1. \A c : c \in cps => c \in UNION {rec[i].cps : i \in live}
    BY <1>2, <1>5, <1>6
  <2>2. \A c : c \in UNION {rec[i].cps : i \in live} => c \in cps
    BY <1>7
  <2>3. QED BY <2>1, <2>2
<1>10. \A x \in own : x \in DOMAIN ifaces /\ ifaces[x].pair \in DOMAIN ifaces
  BY <1>7
<1>11. ASSUME NEW z \in DOMAIN ifaces, z \notin own
       PROVE  \E x \in own : z = ifaces[x].pair
  <2>1. PICK y : y = ifaces[z].pair
    OBVIOUS
  <2>2. z \notin Claimed
    BY <1>5, <1>6, <1>11
  <2>3. y \in own /\ y \in DOMAIN ifaces
    BY <1>2, <1>5, <1>6, <1>10, <2>1, <2>2
  <2>4. Mates(y, z) /\ Mates(y, ifaces[y].pair)
    BY <2>1, <2>3 DEF Mates, Fact
  <2>5. y \in Ifaces /\ z \in Ifaces /\ ifaces[y].pair \in Ifaces
    BY <1>5, <2>3
  <2>6. z = ifaces[y].pair
    BY <1>1, <2>4, <2>5 DEF Matched
  <2>7. QED BY <2>3, <2>6
<1>12. DOMAIN ifaces = own \cup {ifaces[x].pair : x \in own}
  <2>1. ASSUME NEW z \in own \cup {ifaces[x].pair : x \in own} PROVE z \in DOMAIN ifaces
    <3>1. z \in own \/ \E x \in own : z = ifaces[x].pair
      OBVIOUS
    <3>2. QED BY <1>10, <3>1
  <2>2. ASSUME NEW z \in DOMAIN ifaces
        PROVE  z \in own \cup {ifaces[x].pair : x \in own}
    BY <1>11
  <2>3. QED BY <2>1, <2>2
<1>13. QED BY <1>8, <1>9, <1>10, <1>12

(* As long as no operation fails, what the networking plugin has while no  *)
(* operation is in progress is exactly what the records of the configured  *)
(* instances name, with the other halves of their interfaces, when there   *)
(* are never two requests at once for the same instance, and for           *)
(* descriptors that name each of their connection points once.             *)
THEOREM NothingLeakedHolds ==
  ASSUME DistinctNames, MaxOverlaps = 0 PROVE InstanceSpec => []NothingLeaked
<1>1. Init => Ledger
  BY LedgerInit
<1>2. IInv /\ Served /\ Ledger /\ [InstanceNext]_vars => Ledger'
  BY LedgerStep
<1>3. IInv /\ Ledger => NothingLeaked
  BY NothingLeft
<1>4. QED BY <1>1, <1>2, <1>3, InstanceInvHolds, PTL DEF InstanceSpec
=============================================================================
