------------------------ MODULE InstanceCallsProofs ------------------------
(***************************************************************************)
(* Every call of the networking plugin takes effect as a whole: the puts   *)
(* of InstanceNetworking add up to the steps of NetworkPlugin, for any     *)
(* number of hypervisor plugins and callers that give up, as long as no    *)
(* two requests for one instance overlap (MaxOverlaps = 0).                *)
(*                                                                         *)
(* The mapping counts the puts ahead as made (After).  To make one of them *)
(* changes nothing there, provided that no two puts disagree about a key   *)
(* (Unique); to begin a call adds its puts, which is the step of           *)
(* NetworkPlugin, provided that the records it has read are as they will   *)
(* be.  Both follow from who owns what (IInv), and from what Calm says     *)
(* besides of the calls that were given up.                                *)
(***************************************************************************)
EXTENDS InstanceCalls, InstanceNetworkingProofs

(* The invariant                                                           *)

(* What has been given up meets nothing that somebody else makes or        *)
(* removes.                                                                *)
StraySolo ==
  \A s, t \in strays : s # t =>
    \A q \in ToSet(s), r \in ToSet(t) : Making(q) /\ Making(r) => q.key # r.key

StrayClear ==
  \A q \in Strays, r \in Pending : Making(q) /\ ~Making(r) => q.key # r.key

(* Where an interface that is put will be: in something that exists, that  *)
(* is the instance's own, and that nobody is about to remove.              *)
Home ==
  \A q \in Pending : IfacePut(q, q.key) =>
    q.val.net_ns \in DOMAIN namespaces \cup cps \cup {None}

HomeOwn ==
  \A p \in Plugins : \A q \in Puts(p) : IfacePut(q, q.key) =>
    q.val.net_ns \in Claim(work[p].inst) \cup {None}

HomeStray ==
  \A q \in Strays : IfacePut(q, q.key) =>
    /\ \A i \in Instances : q.val.net_ns \notin Claim(i)
    /\ \A r \in Pending : ~Making(r) => r.key # q.val.net_ns

(* A list that is put is the first put of its call, and names besides what *)
(* the list has only the interfaces that the call is about to put.         *)
ListsFirst(s) ==
  \A k \in 1 .. Len(s) : ListPut(s[k], s[k].key) =>
    /\ k = 1
    /\ \A z \in DOMAIN s[1].val :
         \/ s[1].key \in DOMAIN namespaces /\ z \in DOMAIN namespaces[s[1].key]
         \/ \E r \in ToSet(s) : r.key = z

ListFirst ==
  /\ \A s \in strays : ListsFirst(s)
  /\ \A p \in Plugins : ListsFirst(work[p].puts)

(* Of two halves, the other one is removed as well, and first.             *)
HalvesGone ==
  \A q \in Pending : q.store = "ifaces" /\ ~Making(q) /\ q.key \in DOMAIN ifaces =>
    \/ ifaces[q.key].pair \notin DOMAIN ifaces
    \/ \E r \in Pending : /\ r.store = "ifaces" /\ ~Making(r)
                          /\ r.key = ifaces[q.key].pair

Calm ==
  /\ StraySolo /\ StrayClear
  /\ Home /\ HomeOwn /\ HomeStray
  /\ ListFirst /\ HalvesGone

-----------------------------------------------------------------------------
(* Stores after puts                                                       *)

(* No two puts disagree about a key.                                       *)
Agree(P) == \A q, r \in P : q.key = r.key => q.val = r.val

LEMMA KeysAfterAre ==
  ASSUME NEW S, NEW P
  PROVE  \A k : k \in KeysAfter(S, P) <=>
           /\ k \in S \/ \E q \in P : q.key = k
           /\ \A q \in P : q.key = k => Making(q)
BY DEF KeysAfter, Making

LEMMA AfterIs ==
  ASSUME NEW f, NEW P, Agree(P)
  PROVE  /\ DOMAIN After(f, P) = KeysAfter(DOMAIN f, P)
         /\ \A q \in P : Making(q) =>
              q.key \in DOMAIN After(f, P) /\ After(f, P)[q.key] = q.val
         /\ \A k \in DOMAIN After(f, P) :
              (\A q \in P : q.key # k) => k \in DOMAIN f /\ After(f, P)[k] = f[k]
<1>1. DOMAIN After(f, P) = KeysAfter(DOMAIN f, P)
  BY DEF After
<1>2. ASSUME NEW q \in P, Making(q)
      PROVE  q.key \in DOMAIN After(f, P) /\ After(f, P)[q.key] = q.val
  <2> DEFINE k == q.key  c == CHOOSE r \in P : r.key = k
  <2>1. c \in P /\ c.key = k
    OBVIOUS
  <2>2. c.val = q.val
    BY <2>1 DEF Agree
  <2>3. k \in KeysAfter(DOMAIN f, P)
    BY <1>2, KeysAfterAre DEF Agree, Making
  <2>4. After(f, P)[k] = c.val
    BY <2>3 DEF After
  <2>5. QED BY <1>1, <2>2, <2>3, <2>4
<1>3. ASSUME NEW k \in DOMAIN After(f, P), \A q \in P : q.key # k
      PROVE  k \in DOMAIN f /\ After(f, P)[k] = f[k]
  <2>1. k \in KeysAfter(DOMAIN f, P)
    BY <1>1
  <2>2. QED BY <1>3, <2>1, KeysAfterAre DEF After
<1>4. QED BY <1>1, <1>2, <1>3

(* Two functions of that form are the same.                                *)
LEMMA SameAfter ==
  ASSUME NEW f, NEW P, NEW g, NEW Q,
         \A k : k \in DOMAIN After(f, P) <=> k \in DOMAIN After(g, Q),
         \A k \in DOMAIN After(f, P) : After(f, P)[k] = After(g, Q)[k]
  PROVE  After(f, P) = After(g, Q)
<1>1. DOMAIN After(f, P) = DOMAIN After(g, Q)
  OBVIOUS
<1>2. After(f, P) = [k \in DOMAIN After(f, P) |-> After(f, P)[k]]
  BY DEF After
<1>3. After(g, Q) = [k \in DOMAIN After(g, Q) |-> After(g, Q)[k]]
  BY DEF After
<1>4. QED BY <1>1, <1>2, <1>3

(* A put of the call that begins is one more thing that will be made, ...  *)
LEMMA AfterMaking ==
  ASSUME NEW f, NEW P, NEW q, Making(q), Agree(P \cup {q})
  PROVE  After(f, P \cup {q}) = Put(After(f, P), q.key, q.val)
<1> DEFINE Q == P \cup {q}  F == After(f, P)  G == After(f, Q)
<1>0. Agree(P)
  BY DEF Agree
<1>1. DOMAIN G = DOMAIN F \cup {q.key}
  <2>1. ASSUME NEW k PROVE k \in KeysAfter(DOMAIN f, Q) <=>
                             k \in KeysAfter(DOMAIN f, P) \cup {q.key}
    <3>1. CASE k = q.key
      BY <3>1, KeysAfterAre DEF Agree, Making
    <3>2. CASE k # q.key
      BY <3>2, KeysAfterAre
    <3>3. QED BY <3>1, <3>2
  <2>2. DOMAIN F = KeysAfter(DOMAIN f, P) /\ DOMAIN G = KeysAfter(DOMAIN f, Q)
    BY <1>0, AfterIs
  <2> HIDE DEF F, G, Q
  <2>3. QED BY <2>1, <2>2
<1>2. ASSUME NEW k \in DOMAIN G
      PROVE  G[k] = IF k = q.key THEN q.val ELSE F[k]
  <2>1. CASE k = q.key
    BY <2>1, AfterIs
  <2>2. CASE k # q.key /\ \E r \in P : r.key = k
    <3>1. PICK r \in P : r.key = k
      BY <2>2
    <3>2. Making(r)
      <4>1. k \in KeysAfter(DOMAIN f, Q)
        BY AfterIs
      <4>2. QED BY <3>1, <4>1, KeysAfterAre
    <3>3. G[k] = r.val
      BY <3>1, <3>2, AfterIs
    <3>4. F[k] = r.val
      BY <1>0, <3>1, <3>2, AfterIs
    <3>5. QED BY <2>2, <3>3, <3>4
  <2>3. CASE k # q.key /\ \A r \in P : r.key # k
    <3>1. k \in DOMAIN F
      BY <1>1, <2>3
    <3>2. G[k] = f[k]
      BY <2>3, AfterIs
    <3>3. F[k] = f[k]
      BY <1>0, <2>3, <3>1, AfterIs
    <3>4. QED BY <2>3, <3>2, <3>3
  <2>4. QED BY <2>1, <2>2, <2>3
<1>3. G = [k \in DOMAIN G |-> G[k]]
  BY DEF After
<1> HIDE DEF F, G
<1>4. G = Put(F, q.key, q.val)
  BY <1>1, <1>2, <1>3 DEF Put
<1>5. QED BY <1>4 DEF F, G, Q

(* ... or one thing less.                                                  *)
LEMMA AfterRemoving ==
  ASSUME NEW f, NEW P, NEW q, ~Making(q), Agree(P \cup {q})
  PROVE  After(f, P \cup {q}) = Drop(After(f, P), {q.key})
<1> DEFINE Q == P \cup {q}  F == After(f, P)  G == After(f, Q)
<1>0. Agree(P)
  BY DEF Agree
<1>1. DOMAIN G = DOMAIN F \ {q.key}
  <2>1. ASSUME NEW k PROVE k \in KeysAfter(DOMAIN f, Q) <=>
                             k \in KeysAfter(DOMAIN f, P) \ {q.key}
    <3>1. CASE k = q.key
      BY <3>1, KeysAfterAre DEF Agree, Making
    <3>2. CASE k # q.key
      BY <3>2, KeysAfterAre
    <3>3. QED BY <3>1, <3>2
  <2>2. DOMAIN F = KeysAfter(DOMAIN f, P) /\ DOMAIN G = KeysAfter(DOMAIN f, Q)
    BY <1>0, AfterIs
  <2> HIDE DEF F, G, Q
  <2>3. QED BY <2>1, <2>2
<1>2. ASSUME NEW k \in DOMAIN G PROVE G[k] = F[k]
  <2>0. k # q.key /\ k \in DOMAIN F
    BY <1>1
  <2>1. CASE \E r \in P : r.key = k
    <3>1. PICK r \in P : r.key = k
      BY <2>1
    <3>2. Making(r)
      <4>1. k \in KeysAfter(DOMAIN f, Q)
        BY AfterIs
      <4>2. QED BY <3>1, <4>1, KeysAfterAre
    <3>3. G[k] = r.val
      BY <3>1, <3>2, AfterIs
    <3>4. F[k] = r.val
      BY <1>0, <3>1, <3>2, AfterIs
    <3>5. QED BY <3>3, <3>4
  <2>2. CASE \A r \in P : r.key # k
    <3>1. G[k] = f[k]
      BY <2>0, <2>2, AfterIs
    <3>2. F[k] = f[k]
      BY <1>0, <2>0, <2>2, AfterIs
    <3>3. QED BY <3>1, <3>2
  <2>3. QED BY <2>1, <2>2
<1>3. G = [k \in DOMAIN G |-> G[k]]
  BY DEF After
<1> HIDE DEF F, G
<1>4. G = Drop(F, {q.key})
  BY <1>1, <1>2, <1>3 DEF Drop
<1>5. QED BY <1>4 DEF F, G, Q

(* To make a put makes no difference.                                      *)
LEMMA AfterMade ==
  ASSUME NEW f, NEW P, NEW Q, NEW q \in P, Agree(P),
         P \ {q} \subseteq Q, Q \subseteq P
  PROVE  After(Store(f, q), Q) = After(f, P)
<1> DEFINE g == Store(f, q)
<1>0. Agree(Q)
  BY DEF Agree
<1>1. /\ \A z : z # q.key => Kept(f, g, z)
      /\ Making(q) => DOMAIN g = DOMAIN f \cup {q.key} /\ g[q.key] = q.val
      /\ ~Making(q) => DOMAIN g = DOMAIN f \ {q.key}
  BY Stored
<1> HIDE DEF g
<1>2. ASSUME NEW k
      PROVE  k \in KeysAfter(DOMAIN g, Q) <=> k \in KeysAfter(DOMAIN f, P)
  <2>1. CASE k # q.key
    <3>1. k \in DOMAIN g <=> k \in DOMAIN f
      BY <1>1, <2>1 DEF Kept
    <3>2. \A r : r \in Q /\ r.key = k <=> r \in P /\ r.key = k
      BY <2>1
    <3>3. QED BY <3>1, <3>2, KeysAfterAre
  <2>2. CASE k = q.key
    <3>1. \A r \in P : r.key = k => (Making(r) <=> Making(q))
      BY <2>2 DEF Agree, Making
    <3>2. k \in KeysAfter(DOMAIN f, P) <=> Making(q)
      BY <2>2, <3>1, KeysAfterAre
    <3>3. k \in KeysAfter(DOMAIN g, Q) <=> Making(q)
      BY <1>1, <2>2, <3>1, KeysAfterAre
    <3>4. QED BY <3>2, <3>3
  <2>3. QED BY <2>1, <2>2
<1>3. ASSUME NEW k \in KeysAfter(DOMAIN f, P)
      PROVE  After(g, Q)[k] = After(f, P)[k]
  <2>0. /\ k \in DOMAIN After(f, P) /\ k \in DOMAIN After(g, Q)
        /\ \A r \in P : r.key = k => Making(r)
    BY <1>0, <1>2, <1>3, AfterIs, KeysAfterAre
  <2>1. CASE \E r \in Q : r.key = k
    <3>1. PICK r \in Q : r.key = k
      BY <2>1
    <3>2. r \in P /\ Making(r)
      BY <2>0, <3>1
    <3>3. After(g, Q)[k] = r.val
      BY <1>0, <3>1, <3>2, AfterIs
    <3>4. After(f, P)[k] = r.val
      BY <3>1, <3>2, AfterIs
    <3>5. QED BY <3>3, <3>4
  <2>2. CASE \A r \in Q : r.key # k
    <3>1. After(g, Q)[k] = g[k]
      BY <1>0, <2>0, <2>2, AfterIs
    <3>2. CASE k = q.key
      <4>1. Making(q) /\ g[k] = q.val
        BY <1>1, <2>0, <3>2
      <4>2. After(f, P)[k] = q.val
        BY <3>2, <4>1, AfterIs
      <4>3. QED BY <3>1, <4>1, <4>2
    <3>3. CASE k # q.key
      <4>1. \A r \in P : r.key # k
        BY <2>2, <3>3
      <4>2. k \in DOMAIN f /\ After(f, P)[k] = f[k]
        BY <2>0, <4>1, AfterIs
      <4>3. g[k] = f[k]
        BY <1>1, <3>3, <4>2 DEF Kept
      <4>4. QED BY <3>1, <4>2, <4>3
    <3>4. QED BY <3>2, <3>3
  <2>3. QED BY <2>1, <2>2
<1>4. QED BY <1>0, <1>2, <1>3, AfterIs, SameAfter DEF g

LEMMA KeysMade ==
  ASSUME NEW S, NEW T, NEW P, NEW Q, NEW q \in P, Agree(P),
         P \ {q} \subseteq Q, Q \subseteq P,
         T = IF q.val = None THEN S \ {q.key} ELSE S \cup {q.key}
  PROVE  KeysAfter(T, Q) = KeysAfter(S, P)
<1>1. ASSUME NEW k PROVE k \in KeysAfter(T, Q) <=> k \in KeysAfter(S, P)
  <2>1. CASE k # q.key
    <3>1. k \in T <=> k \in S
      BY <2>1
    <3>2. \A r : r \in Q /\ r.key = k <=> r \in P /\ r.key = k
      BY <2>1
    <3>3. QED BY <3>1, <3>2, KeysAfterAre
  <2>2. CASE k = q.key
    <3>1. \A r \in P : r.key = k => (Making(r) <=> Making(q))
      BY <2>2 DEF Agree, Making
    <3>2. k \in KeysAfter(S, P) <=> Making(q)
      BY <2>2, <3>1, KeysAfterAre
    <3>3. k \in KeysAfter(T, Q) <=> Making(q)
      BY <2>2, <3>1, KeysAfterAre DEF Making
    <3>4. QED BY <3>2, <3>3
  <2>3. QED BY <2>1, <2>2
<1>2. QED BY <1>1

-----------------------------------------------------------------------------
(* No two puts disagree                                                    *)

(* What an operation makes is its instance's, which nobody cleans.         *)
LEMMA OwnCovers ==
  ASSUME IInv, NEW p \in Plugins, NEW q \in Puts(p), Making(q),
         NEW i, i = work[p].inst
  PROVE  /\ i \in Instances /\ PluginOf[i] = p /\ Configuring(p)
         /\ ~IsConfigured(i)
         /\ Covers(i, q.key) /\ q \in Pending
<1>1. Typed /\ Calls /\ Works /\ q \in Pending
  BY PutsPending DEF IInv
<1>2. /\ Configuring(p)
      /\ \/ q.key \in Claim(i)
         \/ IfacePut(q, q.key) /\ q.val.pair \in Claim(i)
  BY <1>1 DEF Calls, OwnPuts
<1>3. i \in Instances /\ PluginOf[i] = p
  BY <1>1, <1>2, WorkOf DEF Configuring
<1>4. ~IsConfigured(i)
  BY <1>1, <1>2 DEF Works, Progress, IsConfigured
<1>5. Covers(i, q.key)
  <2>1. CASE q.key \in Claim(i)
    BY <2>1 DEF Covers
  <2>2. CASE IfacePut(q, q.key) /\ q.val.pair \in Claim(i)
    <3>1. Fact(q.key, q.val.pair)
      BY <1>1, <2>2 DEF Fact
    <3>2. QED BY <2>2, <3>1 DEF Covers, Mates
  <2>3. QED BY <1>2, <2>1, <2>2
<1>6. QED BY <1>1, <1>2, <1>3, <1>4, <1>5

LEMMA OwnClear ==
  ASSUME IInv, NEW p \in Plugins, NEW q \in Puts(p), Making(q),
         NEW r \in Pending, ~Making(r)
  PROVE  r.key # q.key
<1>1. PICK i : i = work[p].inst
  OBVIOUS
<1>2. i \in Instances /\ ~IsConfigured(i) /\ Covers(i, q.key)
  BY <1>1, OwnCovers
<1>3. Removals
  BY DEF IInv, Calls
<1>4. QED BY <1>2, <1>3 DEF Removals

LEMMA OwnSolo ==
  ASSUME IInv, NEW p \in Plugins, NEW q \in Puts(p), Making(q), NEW r,
         r \in Strays \/ \E t \in Plugins \ {p} : r \in Puts(t)
  PROVE  r.key # q.key
<1>1. PICK i : i = work[p].inst
  OBVIOUS
<1>2. i \in Instances /\ PluginOf[i] = p /\ Covers(i, q.key)
  BY <1>1, OwnCovers
<1>3. r \in Pending
  BY PendingIs
<1>4. CASE ~Making(r)
  BY <1>3, <1>4, OwnClear
<1>5. CASE Making(r)
  <2>1. Typed /\ Claims /\ Calls
    BY DEF IInv
  <2>2. r \in Strays \/ \E t \in Plugins : r \in Puts(t) /\ work[t].inst # i
    <3>1. ASSUME NEW t \in Plugins \ {p}, r \in Puts(t) PROVE work[t].inst # i
      BY <1>2, <1>5, <3>1, OwnCovers
    <3>2. QED BY <3>1
  <2>3. ~Covers(i, r.key)
    BY <1>2, <1>3, <1>5, <2>1, <2>2, Spared
  <2>4. QED BY <1>2, <2>3
<1>6. QED BY <1>4, <1>5

LEMMA Clear ==
  ASSUME IInv, Calm, NEW q \in Pending, Making(q), NEW r \in Pending, ~Making(r)
  PROVE  r.key # q.key
<1>1. CASE q \in Strays
  BY <1>1 DEF Calm, StrayClear
<1>2. CASE \E p \in Plugins : q \in Puts(p)
  BY <1>2, OwnClear
<1>3. QED BY <1>1, <1>2, PendingIs

LEMMA Unique ==
  ASSUME IInv, Calm, NEW q \in Pending, Making(q), NEW r \in Pending, r.key = q.key
  PROVE  r = q
<1>0. Typed
  BY DEF IInv
<1>1. Making(r)
  BY Clear
<1>2. CASE \E p \in Plugins : q \in Puts(p)
  <2>1. PICK p \in Plugins : q \in Puts(p)
    BY <1>2
  <2>2. r \in Puts(p)
    BY <2>1, OwnSolo, PendingIs
  <2>3. PutSeq(work[p].puts)
    BY <1>0 DEF Typed, WorkTyped
  <2>4. QED BY <2>1, <2>2, <2>3, KeysApart DEF Puts
<1>3. CASE q \in Strays /\ \E p \in Plugins : r \in Puts(p)
  BY <1>1, <1>3, OwnSolo
<1>4. CASE q \in Strays /\ r \in Strays
  <2>1. PICK s \in strays : q \in ToSet(s)
    BY <1>4, PendingIs
  <2>2. PICK t \in strays : r \in ToSet(t)
    BY <1>4, PendingIs
  <2>3. s = t
    BY <1>1, <2>1, <2>2 DEF Calm, StraySolo
  <2>4. PutSeq(s)
    BY <1>0 DEF Typed
  <2>5. QED BY <2>1, <2>2, <2>3, <2>4, KeysApart
<1>5. QED BY <1>2, <1>3, <1>4, PendingIs

(* Nobody is about to remove where an interface goes.                      *)
LEMMA HomeSafe ==
  ASSUME IInv, Calm, NEW q \in Pending, IfacePut(q, q.key),
         NEW r \in Pending, ~Making(r)
  PROVE  r.key # q.val.net_ns
<1>0. Typed /\ Making(q)
  BY DEF IInv, IfacePut
<1>1. CASE q \in Strays
  BY <1>1 DEF Calm, HomeStray
<1>2. CASE \E p \in Plugins : q \in Puts(p)
  <2>1. PICK p \in Plugins : q \in Puts(p)
    BY <1>2
  <2>2. PICK i : i = work[p].inst
    OBVIOUS
  <2>3. i \in Instances /\ ~IsConfigured(i)
    BY <1>0, <2>1, <2>2, OwnCovers
  <2>4. q.val.net_ns \in Claim(i) \/ q.val.net_ns = None
    BY <2>1, <2>2 DEF Calm, HomeOwn
  <2>5. r.key # None
    BY <1>0, NoMates
  <2>6. ~Covers(i, r.key)
    BY <2>3 DEF IInv, Calls, Removals
  <2>7. QED BY <2>4, <2>5, <2>6 DEF Covers
<1>3. QED BY <1>1, <1>2, PendingIs

(* What a move that has yet to read the list of u will put there.          *)
Listing(u) == PutOf("namespaces", u.key, BagRemove(namespaces[u.key], u.val))

Reading(u) == u \in Pending /\ u.store = "unlist" /\ Unlistable(u)

LEMMA AheadIs ==
  /\ \A q, store : store \in {"ifaces", "cps"} =>
       (q \in Ahead(store) <=> q \in Pending /\ q.store = store)
  /\ \A q : q \in Ahead("namespaces") <=>
       \/ q \in Pending /\ q.store = "namespaces"
       \/ \E u : Reading(u) /\ q = Listing(u)
BY DEF Ahead, Listing, Reading

LEMMA AheadIsNext ==
  (/\ \A q, store : store \in {"ifaces", "cps"} =>
        (q \in Ahead(store) <=> q \in Pending /\ q.store = store)
   /\ \A q : q \in Ahead("namespaces") <=>
        \/ q \in Pending /\ q.store = "namespaces"
        \/ \E u : Reading(u) /\ q = Listing(u))'
BY DEF Ahead, Listing, Reading

LEMMA ListingIs ==
  ASSUME NEW u
  PROVE  /\ Listing(u).store = "namespaces" /\ Listing(u).key = u.key
         /\ Listing(u).val = BagRemove(namespaces[u.key], u.val)
BY DEF Listing, PutOf

LEMMA AheadAgree ==
  ASSUME IInv, Calm
  PROVE  Agree(Ahead("ifaces")) /\ Agree(Ahead("namespaces")) /\ Agree(Ahead("cps"))
<1>1. ASSUME NEW q \in Pending, NEW r \in Pending, q.key = r.key
      PROVE  q.val = r.val
  <2>1. CASE Making(q) \/ Making(r)
    BY <1>1, <2>1, Unique
  <2>2. CASE ~Making(q) /\ ~Making(r)
    BY <2>2 DEF Making
  <2>3. QED BY <2>1, <2>2
<1>2. ASSUME NEW u, Reading(u) PROVE u \in Pending /\ u.store = "unlist" /\ Making(u)
  BY <1>2, PendingTyped, PutKinds DEF Reading, IInv
<1>3. ASSUME NEW q \in Ahead("namespaces"), NEW r \in Ahead("namespaces"), q.key = r.key
      PROVE  q.val = r.val
  <2>1. CASE q \in Pending /\ r \in Pending
    BY <1>1, <1>3, <2>1
  <2>2. ASSUME NEW u, Reading(u), NEW t \in Pending, t.store = "namespaces",
               t.key = u.key
        PROVE  FALSE
    <3>1. t = u
      BY <1>2, <2>2, Unique
    <3>2. QED BY <1>2, <2>2, <3>1
  <2>3. ASSUME NEW u, Reading(u), NEW v, Reading(v), u.key = v.key
        PROVE  u = v
    BY <1>2, <2>3, Unique
  <2>4. \/ q \in Pending /\ q.store = "namespaces"
        \/ \E u : Reading(u) /\ q = Listing(u)
    BY AheadIs
  <2>5. \/ r \in Pending /\ r.store = "namespaces"
        \/ \E u : Reading(u) /\ r = Listing(u)
    BY AheadIs
  <2>6. CASE (\E u : Reading(u) /\ q = Listing(u)) /\ (\E u : Reading(u) /\ r = Listing(u))
    BY <1>3, <2>3, <2>6, ListingIs
  <2>7. QED BY <1>3, <2>1, <2>2, <2>4, <2>5, <2>6, ListingIs
<1>4. QED BY <1>1, <1>3, AheadIs DEF Agree

-----------------------------------------------------------------------------
(* To make a put changes nothing                                           *)

(* Put q is made, or its list is read; nothing else happens.               *)
Makes(q) ==
  /\ q \in Pending
  /\ ifaces' = IF q.store = "ifaces" THEN Store(ifaces, q) ELSE ifaces
  /\ namespaces' = IF q.store = "namespaces" THEN Store(namespaces, q) ELSE namespaces
  /\ cps' = IF q.store # "cps" THEN cps
            ELSE IF q.val = None THEN cps \ {q.key} ELSE cps \cup {q.key}
  /\ vnets' = vnets
  /\ \A r \in Pending : r \in Pending' \/ r = q
  /\ \A r \in Pending' : r \in Pending \/ (Reading(q) /\ r = Listing(q))
  /\ Reading(q) => Listing(q) \in Pending'

LEMMA RestIs ==
  ASSUME Typed, NEW s, PutSeq(s), s # <<>>, NEW q, q = Head(s)
  PROVE  /\ q \in ToSet(s)
         /\ \A r \in ToSet(s) : r \in ToSet(Rest(s)) \/ r = q
         /\ q.store = "unlist" /\ Unlistable(q) => ToSet(Rest(s)) = {Listing(q)}
         /\ ~(q.store = "unlist" /\ Unlistable(q)) =>
              Rest(s) = Tail(s) /\ ToSet(Rest(s)) \subseteq ToSet(s)
<1>1. /\ q \in ToSet(s) /\ ToSet(Tail(s)) = ToSet(s) \ {q}
      /\ q.store = "unlist" => ToSet(s) = {q}
  BY TailPuts
<1>2. CASE q.store = "unlist" /\ Unlistable(q)
  <2>1. Rest(s) = <<Listing(q)>>
    BY <1>2 DEF Rest, Listing
  <2>2. ToSet(<<Listing(q)>>) = {Listing(q)}
    <3> DEFINE l == Listing(q)
    <3> HIDE DEF l
    <3>1. ToSet(<<l>>) = {l}
      BY DEF ToSet
    <3>2. QED BY <3>1 DEF l
  <2>3. QED BY <1>1, <1>2, <2>1, <2>2
<1>3. CASE ~(q.store = "unlist" /\ Unlistable(q))
  BY <1>1, <1>3 DEF Rest
<1>4. QED BY <1>2, <1>3

LEMMA ExecuteMakes ==
  ASSUME NEW s, Execute(s), NEW q, q = Head(s), q \in Pending,
         \A r \in Pending : r \in Pending' \/ r = q,
         \A r \in Pending' : r \in Pending \/ (Reading(q) /\ r = Listing(q)),
         Reading(q) => Listing(q) \in Pending'
  PROVE  Makes(q)
BY DEF Execute, Makes

LEMMA WriteMakes ==
  ASSUME IInv, NEW p \in Plugins, Write(p), NEW s, s = work[p].puts, NEW q, q = Head(s)
  PROVE  /\ Makes(q) /\ s # <<>> /\ PutSeq(s) /\ q \in Puts(p)
         /\ Strays' = Strays /\ strays' = strays /\ rec' = rec
         /\ \A r \in Plugins \ {p} : work'[r] = work[r] /\ Puts(r)' = Puts(r)
         /\ \/ work'[p] = Idle /\ Puts(p)' = {}
            \/ SamePlan(p) /\ work'[p].puts = Rest(s)
<1>1. /\ s # <<>> /\ Execute(s) /\ UNCHANGED <<rec, strays, faults>>
      /\ work' = [work EXCEPT ![p] =
           IF q.store = "unlist" /\ ~Unlistable(q) THEN Idle
           ELSE [work[p] EXCEPT !.puts = Rest(s)]]
  BY DEF Write
<1>2. Typed /\ DOMAIN work = Plugins /\ DOMAIN work[p] = DOMAIN Idle /\ PutSeq(s)
  BY DEF IInv, Typed, WorkTyped
<1>3. \A r \in Plugins \ {p} : work'[r] = work[r] /\ Puts(r)' = Puts(r)
  BY <1>1, <1>2 DEF Puts
<1>4. Strays' = Strays /\ strays' = strays /\ rec' = rec
  BY <1>1 DEF Strays
<1>5. /\ q \in Puts(p) /\ Puts(p) = ToSet(s)
      /\ q.store = "unlist" => Puts(p) = {q}
  BY <1>1, <1>2, TailPuts DEF Puts
<1>6. q \in Pending
  BY <1>5, PutsPending
<1>7. CASE q.store = "unlist" /\ ~Unlistable(q)
  <2>1. work'[p] = Idle /\ Puts(p)' = {}
    BY <1>1, <1>2, <1>7, IdleWork
  <2>2. \A r \in Pending : r \in Pending' \/ r = q
    BY <1>3, <1>4, <1>5, <1>7, PendingIs
  <2>3. \A r \in Pending' : r \in Pending
    BY <1>3, <1>4, <2>1, PendingIs
  <2>4. ~Reading(q)
    BY <1>7 DEF Reading
  <2>5. Makes(q)
    BY <1>1, <1>6, <2>2, <2>3, <2>4, ExecuteMakes
  <2>6. QED BY <1>1, <1>2, <1>3, <1>4, <1>5, <2>1, <2>5
<1>8. CASE ~(q.store = "unlist" /\ ~Unlistable(q))
  <2>1. work'[p] = [work[p] EXCEPT !.puts = Rest(s)]
    BY <1>1, <1>2, <1>8
  <2>2. SamePlan(p) /\ work'[p].puts = Rest(s)
    BY <1>2, <2>1, IdleIs DEF SamePlan
  <2>3. Puts(p)' = ToSet(Rest(s))
    BY <2>2 DEF Puts
  <2>4. /\ \A r \in ToSet(s) : r \in ToSet(Rest(s)) \/ r = q
        /\ q.store = "unlist" /\ Unlistable(q) => ToSet(Rest(s)) = {Listing(q)}
        /\ ~(q.store = "unlist" /\ Unlistable(q)) => ToSet(Rest(s)) \subseteq ToSet(s)
    BY <1>1, <1>2, RestIs
  <2>5. \A r \in Pending : r \in Pending' \/ r = q
    BY <1>3, <1>4, <1>5, <2>3, <2>4, PendingIs
  <2>6. \A r \in Puts(p)' : r \in Puts(p) \/ (Reading(q) /\ r = Listing(q))
    BY <1>5, <1>6, <2>3, <2>4 DEF Reading
  <2>7. \A r \in Pending' : r \in Pending \/ (Reading(q) /\ r = Listing(q))
    BY <1>3, <1>4, <2>6, PendingIs
  <2>8. Reading(q) => Listing(q) \in Pending'
    BY <2>3, <2>4, PendingIs DEF Reading
  <2>9. Makes(q)
    BY <1>1, <1>6, <2>5, <2>7, <2>8, ExecuteMakes
  <2>10. QED BY <1>1, <1>2, <1>3, <1>4, <1>5, <2>2, <2>9
<1>9. QED BY <1>7, <1>8

LEMMA WriteStrayMakes ==
  ASSUME IInv, NEW s \in strays, WriteStray(s), NEW q, q = Head(s)
  PROVE  /\ Makes(q) /\ s # <<>> /\ PutSeq(s) /\ q \in ToSet(s)
         /\ strays' = (strays \ {s}) \cup ({Rest(s)} \ {<<>>})
         /\ work' = work /\ rec' = rec
         /\ \A r \in Strays' : r \in Strays \/ (Reading(q) /\ r = Listing(q))
<1>1. /\ Execute(s) /\ work' = work /\ rec' = rec
      /\ strays' = (strays \ {s}) \cup ({Rest(s)} \ {<<>>})
  BY DEF WriteStray
<1>2. Typed /\ PutSeq(s) /\ s # <<>>
  BY DEF IInv, Typed
<1>3. \A r : Puts(r)' = Puts(r)
  BY <1>1 DEF Puts
<1>4. /\ q \in ToSet(s)
      /\ \A r \in ToSet(s) : r \in ToSet(Rest(s)) \/ r = q
      /\ q.store = "unlist" /\ Unlistable(q) => ToSet(Rest(s)) = {Listing(q)}
      /\ ~(q.store = "unlist" /\ Unlistable(q)) => ToSet(Rest(s)) \subseteq ToSet(s)
  BY <1>2, RestIs
<1>5. q \in Strays /\ q \in Pending
  BY <1>4, PendingIs
<1>6. \A r \in Strays' : r \in Strays \/ (Reading(q) /\ r = Listing(q))
  <2>1. ASSUME NEW r \in Strays' PROVE r \in Strays \/ (Reading(q) /\ r = Listing(q))
    <3>1. PICK t \in strays' : r \in ToSet(t)
      BY PendingIs
    <3>2. CASE t \in strays
      BY <3>1, <3>2, PendingIs
    <3>3. CASE t = Rest(s)
      BY <1>4, <1>5, <3>1, <3>3, PendingIs DEF Reading
    <3>4. QED BY <1>1, <3>1, <3>2, <3>3
  <2>2. QED BY <2>1
<1>7. \A r \in ToSet(Rest(s)) : r \in Strays'
  <2>1. ASSUME NEW r \in ToSet(Rest(s)) PROVE r \in Strays'
    <3>1. Rest(s) # <<>>
      BY <2>1, NoPuts
    <3>2. Rest(s) \in strays'
      BY <1>1, <3>1
    <3>3. QED BY <3>2, PendingIs
  <2>2. QED BY <2>1
<1>8. \A r \in Strays : r \in Strays' \/ r = q
  <2>1. ASSUME NEW r \in Strays PROVE r \in Strays' \/ r = q
    <3>1. PICK t \in strays : r \in ToSet(t)
      BY PendingIs
    <3>2. CASE t # s
      BY <1>1, <3>1, <3>2, PendingIs
    <3>3. CASE t = s
      BY <1>4, <1>7, <3>1, <3>3
    <3>4. QED BY <3>2, <3>3
  <2>2. QED BY <2>1
<1>9. \A r \in Pending : r \in Pending' \/ r = q
  BY <1>3, <1>8, PendingIs
<1>10. \A r \in Pending' : r \in Pending \/ (Reading(q) /\ r = Listing(q))
  BY <1>3, <1>6, PendingIs
<1>11. Reading(q) => Listing(q) \in Pending'
  <2>1. ASSUME Reading(q) PROVE Listing(q) \in ToSet(Rest(s))
    BY <1>4, <2>1 DEF Reading
  <2>2. QED BY <1>7, <2>1, PendingIs
<1>12. Makes(q)
  BY <1>1, <1>5, <1>9, <1>10, <1>11, ExecuteMakes
<1>13. QED BY <1>1, <1>2, <1>4, <1>6, <1>12

(* The records as they will be do not change.                              *)
AllAfter ==
  << After(ifaces, Ahead("ifaces")), After(namespaces, Ahead("namespaces")),
     KeysAfter(cps, Ahead("cps")) >>

LEMMA MakesNothing ==
  ASSUME IInv, Calm, NEW q, Makes(q)
  PROVE  UNCHANGED AllAfter
<1>0. /\ Typed /\ q \in Pending /\ IsPut(q)
      /\ Agree(Ahead("ifaces")) /\ Agree(Ahead("namespaces")) /\ Agree(Ahead("cps"))
  BY AheadAgree, PendingTyped DEF IInv, Makes
<1>1. /\ \A r \in Pending : r \in Pending' \/ r = q
      /\ \A r \in Pending' : r \in Pending \/ (Reading(q) /\ r = Listing(q))
  BY DEF Makes
<1>2. After(ifaces, Ahead("ifaces"))' = After(ifaces, Ahead("ifaces"))
  <2>1. Ahead("ifaces") \ {q} \subseteq Ahead("ifaces")'
    BY <1>1, AheadIs, AheadIsNext
  <2>2. Ahead("ifaces")' \subseteq Ahead("ifaces")
    BY <1>1, AheadIs, AheadIsNext, ListingIs
  <2>3. CASE q.store = "ifaces"
    <3>1. q \in Ahead("ifaces") /\ ifaces' = Store(ifaces, q)
      BY <1>0, <2>3, AheadIs DEF Makes
    <3>2. After(Store(ifaces, q), Ahead("ifaces")') = After(ifaces, Ahead("ifaces"))
      BY <1>0, <2>1, <2>2, <3>1, AfterMade
    <3>3. QED BY <3>1, <3>2
  <2>4. CASE q.store # "ifaces"
    <3>1. ifaces' = ifaces
      BY <2>4 DEF Makes
    <3>2. q \notin Ahead("ifaces")
      BY <2>4, AheadIs
    <3>3. Ahead("ifaces")' = Ahead("ifaces")
      BY <2>1, <2>2, <3>2
    <3>4. QED BY <3>1, <3>3
  <2>5. QED BY <2>3, <2>4
<1>3. KeysAfter(cps, Ahead("cps"))' = KeysAfter(cps, Ahead("cps"))
  <2>1. Ahead("cps") \ {q} \subseteq Ahead("cps")'
    BY <1>1, AheadIs, AheadIsNext
  <2>2. Ahead("cps")' \subseteq Ahead("cps")
    BY <1>1, AheadIs, AheadIsNext, ListingIs
  <2>3. CASE q.store = "cps"
    <3>1. /\ q \in Ahead("cps")
          /\ cps' = IF q.val = None THEN cps \ {q.key} ELSE cps \cup {q.key}
      BY <1>0, <2>3, AheadIs DEF Makes
    <3>2. QED BY <1>0, <2>1, <2>2, <3>1, KeysMade
  <2>4. CASE q.store # "cps"
    <3>1. cps' = cps
      BY <2>4 DEF Makes
    <3>2. q \notin Ahead("cps")
      BY <2>4, AheadIs
    <3>3. Ahead("cps")' = Ahead("cps")
      BY <2>1, <2>2, <3>2
    <3>4. QED BY <3>1, <3>3
  <2>5. QED BY <2>3, <2>4
<1>4. After(namespaces, Ahead("namespaces"))' = After(namespaces, Ahead("namespaces"))
  <2> DEFINE A == Ahead("namespaces")
  <2>1. CASE q.store = "namespaces"
    <3>1. q \in A /\ namespaces' = Store(namespaces, q) /\ ~Reading(q)
      BY <1>0, <2>1, AheadIs DEF Makes, Reading
    <3>2. ASSUME NEW u, u \in Pending, u.store = "unlist"
          PROVE  /\ u \in Pending' /\ u.key # q.key
                 /\ Reading(u)' <=> Reading(u)
                 /\ Reading(u) => Listing(u)' = Listing(u)
      <4>1. Making(u) /\ u # q
        BY <1>0, <2>1, <3>2, PendingTyped, PutKinds
      <4>2. u.key # q.key
        BY <1>0, <3>2, <4>1, Unique
      <4>3. Kept(namespaces, namespaces', u.key)
        BY <3>1, <4>2, Stored
      <4>4. Unlistable(u)' <=> Unlistable(u)
        BY <4>3 DEF Unlistable, Kept
      <4>5. u \in Pending'
        BY <1>1, <3>2, <4>1
      <4>6. Unlistable(u) => Listing(u)' = Listing(u)
        BY <4>3 DEF Listing, Kept, Unlistable
      <4>7. QED BY <3>2, <4>2, <4>4, <4>5, <4>6 DEF Reading
    <3>3. \A u : Reading(u)' => u \in Pending
      BY <1>1, <3>1 DEF Reading
    <3>4. A \ {q} \subseteq A'
      <4>1. ASSUME NEW r \in A, r # q PROVE r \in A'
        <5>1. CASE r \in Pending /\ r.store = "namespaces"
          BY <1>1, <4>1, <5>1, AheadIsNext
        <5>2. CASE \E u : Reading(u) /\ r = Listing(u)
          <6>1. PICK u : Reading(u) /\ r = Listing(u)
            BY <5>2
          <6>2. Reading(u)' /\ Listing(u)' = r
            BY <3>2, <6>1 DEF Reading
          <6>3. QED BY <6>2, AheadIsNext
        <5>3. QED BY <4>1, <5>1, <5>2, AheadIs
      <4>2. QED BY <4>1
    <3>5. A' \subseteq A
      <4>1. ASSUME NEW r \in A' PROVE r \in A
        <5>1. CASE r \in Pending' /\ r.store = "namespaces"
          BY <1>1, <3>1, <5>1, AheadIs
        <5>2. CASE (\E u : Reading(u) /\ r = Listing(u))'
          <6>1. PICK u : (Reading(u) /\ r = Listing(u))'
            BY <5>2
          <6>2. u \in Pending /\ u.store = "unlist"
            BY <3>3, <6>1 DEF Reading
          <6>3. Reading(u) /\ Listing(u) = r
            BY <3>2, <6>1, <6>2
          <6>4. QED BY <6>3, AheadIs
        <5>3. QED BY <4>1, <5>1, <5>2, AheadIsNext
      <4>2. QED BY <4>1
    <3> HIDE DEF A
    <3>6. Agree(A)
      BY <1>0 DEF A
    <3>7. After(Store(namespaces, q), A') = After(namespaces, A)
      BY <3>1, <3>4, <3>5, <3>6, AfterMade
    <3>8. QED BY <3>1, <3>7 DEF A
  <2>2. CASE q.store # "namespaces"
    <3>1. namespaces' = namespaces
      BY <2>2 DEF Makes
    <3>2. \A u : /\ Unlistable(u)' <=> Unlistable(u)
                 /\ Listing(u)' = Listing(u)
      BY <3>1 DEF Unlistable, Listing
    <3>3. ASSUME NEW r \in A PROVE r \in A'
      <4>1. CASE r \in Pending /\ r.store = "namespaces"
        BY <1>1, <2>2, <4>1, AheadIsNext
      <4>2. CASE \E u : Reading(u) /\ r = Listing(u)
        <5>1. PICK u : Reading(u) /\ r = Listing(u)
          BY <4>2
        <5>2. CASE u \in Pending'
          <6>1. Reading(u)' /\ r = Listing(u)'
            BY <3>2, <5>1, <5>2 DEF Reading
          <6>2. QED BY <6>1, AheadIsNext
        <5>3. CASE u = q
          <6>1. r \in Pending' /\ r.store = "namespaces"
            BY <5>1, <5>3, ListingIs DEF Makes
          <6>2. QED BY <6>1, AheadIsNext
        <5>4. QED BY <1>1, <5>1, <5>2, <5>3 DEF Reading
      <4>3. QED BY <3>3, <4>1, <4>2, AheadIs
    <3>4. ASSUME NEW r \in A' PROVE r \in A
      <4>1. CASE r \in Pending' /\ r.store = "namespaces"
        BY <1>1, <4>1, AheadIs
      <4>2. CASE (\E u : Reading(u) /\ r = Listing(u))'
        <5>1. PICK u : (Reading(u) /\ r = Listing(u))'
          BY <4>2
        <5>2. u \in Pending' /\ u.store = "unlist" /\ Unlistable(u) /\ r = Listing(u)
          BY <3>2, <5>1 DEF Reading
        <5>3. u \in Pending
          BY <1>1, <5>2, ListingIs
        <5>4. Reading(u) /\ r = Listing(u)
          BY <5>2, <5>3 DEF Reading
        <5>5. QED BY <5>4, AheadIs
      <4>3. QED BY <3>4, <4>1, <4>2, AheadIsNext
    <3> HIDE DEF A
    <3>5. A' = A
      BY <3>3, <3>4
    <3>6. QED BY <3>1, <3>5 DEF A
  <2>3. QED BY <2>1, <2>2
<1>5. QED BY <1>2, <1>3, <1>4 DEF AllAfter

-----------------------------------------------------------------------------
(* The calls stay calm when a put is made                                  *)

LEMMA ListingMakes ==
  ASSUME Typed, NEW u, Reading(u)
  PROVE  Making(Listing(u)) /\ u.key \in DOMAIN namespaces /\ Making(u)
<1>1. u.key \in DOMAIN namespaces /\ u \in Pending /\ u.store = "unlist"
  BY DEF Reading, Unlistable
<1>2. BagRemove(namespaces[u.key], u.val) \in Lists
  BY <1>1, RemoveList DEF Typed
<1>3. Making(Listing(u))
  BY <1>2, ListingIs, ListsAre DEF Making
<1>4. QED BY <1>1, <1>3, PendingTyped, PutKinds

LEMMA ShorterList ==
  ASSUME NEW B, NEW x
  PROVE  DOMAIN BagRemove(B, x) \subseteq DOMAIN B
BY DEF BagRemove

LEMMA MakesEffect ==
  ASSUME NEW q, Makes(q)
  PROVE  Effect(q)
<1> PICK f, g, f2, g2 : f = ifaces /\ g = namespaces /\ f2 = ifaces' /\ g2 = namespaces'
  OBVIOUS
<1>1. /\ f2 = IF q.store = "ifaces" THEN Store(f, q) ELSE f
      /\ g2 = IF q.store = "namespaces" THEN Store(g, q) ELSE g
      /\ cps' = IF q.store # "cps" THEN cps
                ELSE IF q.val = None THEN cps \ {q.key} ELSE cps \cup {q.key}
  BY DEF Makes
<1>2. /\ \A z : z # q.key => Kept(f, f2, z)
      /\ q.store # "ifaces" => \A z : Kept(f, f2, z)
      /\ q.store = "ifaces" =>
           /\ Making(q) => q.key \in DOMAIN f2 /\ f2[q.key] = q.val
           /\ ~Making(q) => q.key \notin DOMAIN f2
  <2>1. CASE q.store = "ifaces"
    <3>1. f2 = Store(f, q)
      BY <1>1, <2>1
    <3>2. QED BY <2>1, <3>1, Stored
  <2>2. CASE q.store # "ifaces"
    BY <1>1, <2>2 DEF Kept
  <2>3. QED BY <2>1, <2>2
<1>3. /\ \A z : z # q.key => Kept(g, g2, z)
      /\ q.store # "namespaces" => \A z : Kept(g, g2, z)
      /\ q.store = "namespaces" =>
           /\ Making(q) => q.key \in DOMAIN g2 /\ g2[q.key] = q.val
           /\ ~Making(q) => q.key \notin DOMAIN g2
  <2>1. CASE q.store = "namespaces"
    <3>1. g2 = Store(g, q)
      BY <1>1, <2>1
    <3>2. QED BY <2>1, <3>1, Stored
  <2>2. CASE q.store # "namespaces"
    BY <1>1, <2>2 DEF Kept
  <2>3. QED BY <2>1, <2>2
<1>4. /\ \A z : z # q.key => (z \in cps' <=> z \in cps)
      /\ q.store # "cps" => cps' = cps
      /\ q.store = "cps" => (Making(q) <=> q.key \in cps')
  BY <1>1 DEF Making
<1>5. QED BY <1>2, <1>3, <1>4 DEF Effect

LEMMA ListsFirstKept ==
  ASSUME IInv, Calm, NEW q, Makes(q), NEW s, PutSeq(s), ToSet(s) \subseteq Pending,
         ListsFirst(s)
  PROVE  ListsFirst(s)'
<1>1. ASSUME NEW k \in 1 .. Len(s), ListPut(s[k], s[k].key)
      PROVE  /\ k = 1
             /\ \A z \in DOMAIN s[1].val :
                  \/ s[1].key \in DOMAIN namespaces' /\ z \in DOMAIN namespaces'[s[1].key]
                  \/ \E r \in ToSet(s) : r.key = z
  <2>1. /\ k = 1
        /\ \A z \in DOMAIN s[1].val :
             \/ s[1].key \in DOMAIN namespaces /\ z \in DOMAIN namespaces[s[1].key]
             \/ \E r \in ToSet(s) : r.key = z
    BY <1>1 DEF ListsFirst
  <2>2. s[1] \in Pending /\ Making(s[1]) /\ s[1].store = "namespaces"
    BY <1>1, <2>1, SetOfSeq DEF PutSeq, ListPut
  <2>3. Effect(q)
    BY MakesEffect
  <2>4. CASE q.store = "namespaces" /\ q.key = s[1].key
    <3>1. q = s[1]
      BY <2>2, <2>4, Unique DEF Makes
    <3>2. s[1].key \in DOMAIN namespaces' /\ namespaces'[s[1].key] = s[1].val
      BY <2>2, <2>3, <2>4, <3>1 DEF Effect
    <3>3. QED BY <2>1, <3>2
  <2>5. CASE ~(q.store = "namespaces" /\ q.key = s[1].key)
    <3>1. Kept(namespaces, namespaces', s[1].key)
      BY <2>3, <2>5 DEF Effect
    <3>2. QED BY <2>1, <3>1 DEF Kept
  <2>6. QED BY <2>1, <2>4, <2>5
<1>2. QED BY <1>1 DEF ListsFirst, ListPut, Making

(* What is left of a call after its first put.                             *)
LEMMA ListsFirstRest ==
  ASSUME Typed, NEW s, PutSeq(s), s # <<>>, ListsFirst(s), NEW q, q = Head(s), Makes(q),
         NEW t, t = Rest(s)
  PROVE  ListsFirst(t)'
<1>1. CASE q.store = "unlist" /\ Unlistable(q)
  <2>1. PICK l : l = Listing(q)
    OBVIOUS
  <2>2. t = <<l>>
    BY <1>1, <2>1 DEF Rest, Listing
  <2>3. Len(t) = 1 /\ t[1] = l
    BY <2>2
  <2>4. q.key \in DOMAIN namespaces /\ namespaces' = namespaces
    BY <1>1 DEF Unlistable, Makes
  <2>5. l.key = q.key /\ l.val = BagRemove(namespaces[q.key], q.val)
    BY <2>1, ListingIs
  <2>6. DOMAIN l.val \subseteq DOMAIN namespaces'[l.key] /\ l.key \in DOMAIN namespaces'
    BY <2>4, <2>5, ShorterList
  <2>7. \A k \in 1 .. Len(t) : k = 1
    BY <2>3
  <2>8. \A z \in DOMAIN t[1].val :
          t[1].key \in DOMAIN namespaces' /\ z \in DOMAIN namespaces'[t[1].key]
    BY <2>3, <2>6
  <2>9. QED BY <2>7, <2>8 DEF ListsFirst
<1>2. CASE ~(q.store = "unlist" /\ Unlistable(q))
  <2>1. t = Tail(s)
    BY <1>2 DEF Rest
  <2>2. s \in Seq(ToSet(s))
    BY DEF PutSeq
  <2>3. ASSUME NEW k \in 1 .. Len(t) PROVE ~ListPut(t[k], t[k].key)
    <3>1. Len(t) = Len(s) - 1 /\ t[k] = s[k + 1] /\ k + 1 \in 1 .. Len(s) /\ k + 1 # 1
      BY <2>1, <2>2
    <3>2. QED BY <3>1 DEF ListsFirst
  <2>4. QED BY <2>3 DEF ListsFirst, ListPut, Making
<1>3. QED BY <1>1, <1>2

LEMMA CalmMade ==
  ASSUME IInv, Calm, NEW q, Makes(q),
         \A i \in Instances : Claim(i)' \subseteq Claim(i),
         \A p \in Plugins : \A r \in Puts(p)' : IfacePut(r, r.key) =>
           r \in Puts(p) /\ Claim(work[p].inst) = Claim(work[p].inst)',
         \A r \in Strays' : r \in Strays \/ (q \in Strays /\ Reading(q) /\ r = Listing(q)),
         StraySolo', ListFirst'
  PROVE  Calm'
<1>0. /\ Typed /\ Claims /\ Calls /\ q \in Pending /\ IsPut(q)
      /\ StraySolo /\ StrayClear /\ Home /\ HomeOwn /\ HomeStray /\ HalvesGone
  BY PendingTyped DEF IInv, Calm, Makes
<1>1. /\ \A r \in Pending : r \in Pending' \/ r = q
      /\ \A r \in Pending' : r \in Pending \/ (Reading(q) /\ r = Listing(q))
      /\ Effect(q)
  BY MakesEffect DEF Makes
<1>2. Reading(q) => /\ Making(Listing(q)) /\ Making(q) /\ Listing(q).key = q.key
                    /\ Listing(q).store = "namespaces"
  BY <1>0, ListingMakes, ListingIs
<1>3. ASSUME NEW r \in Pending', ~Making(r) PROVE r \in Pending
  BY <1>1, <1>2, <1>3
<1>4. ASSUME NEW r \in Pending', IfacePut(r, r.key) PROVE r \in Pending
  BY <1>1, <1>2, <1>4 DEF IfacePut
<1>5. ASSUME NEW r \in Strays', IfacePut(r, r.key) PROVE r \in Strays
  BY <1>2, <1>5 DEF IfacePut
<1>6. StrayClear'
  <2>1. ASSUME NEW r \in Strays', NEW t \in Pending', Making(r), ~Making(t)
        PROVE  r.key # t.key
    <3>1. t \in Pending
      BY <1>3, <2>1
    <3>2. CASE r \in Strays
      BY <1>0, <2>1, <3>1, <3>2 DEF StrayClear
    <3>3. CASE q \in Strays /\ Reading(q) /\ r = Listing(q)
      BY <1>0, <1>2, <2>1, <3>1, <3>3 DEF StrayClear
    <3>4. QED BY <3>2, <3>3
  <2>2. QED BY <2>1 DEF StrayClear, Making
<1>7. Home'
  <2>1. ASSUME NEW r \in Pending', IfacePut(r, r.key)
        PROVE  r.val.net_ns \in DOMAIN namespaces' \cup cps' \cup {None}
    <3>1. r \in Pending
      BY <1>4, <2>1
    <3>2. PICK n : n = r.val.net_ns
      OBVIOUS
    <3>3. n \in DOMAIN namespaces \cup cps \cup {None}
      BY <1>0, <2>1, <3>1, <3>2 DEF Home
    <3>4. q.key = n => Making(q)
      BY <1>0, <2>1, <3>1, <3>2, HomeSafe
    <3>5. n \in DOMAIN namespaces => n \in DOMAIN namespaces'
      BY <1>0, <1>1, <3>4, PutKinds, Keys DEF Effect, Kept
    <3>6. n \in cps => n \in cps'
      BY <1>0, <1>1, <3>4, PutKinds, Keys DEF Effect
    <3>7. QED BY <3>2, <3>3, <3>5, <3>6
  <2>2. QED BY <2>1 DEF Home, IfacePut, Making
<1>8. HomeOwn'
  <2>1. ASSUME NEW p \in Plugins, NEW r \in Puts(p)', IfacePut(r, r.key)
        PROVE  r.val.net_ns \in Claim(work[p].inst)' \cup {None}
    BY <1>0, <2>1 DEF HomeOwn
  <2>2. QED BY <2>1 DEF HomeOwn, IfacePut, Making
<1>9. HomeStray'
  <2>1. ASSUME NEW r \in Strays', IfacePut(r, r.key)
        PROVE  /\ \A i \in Instances : r.val.net_ns \notin Claim(i)'
               /\ \A t \in Pending' : ~Making(t) => t.key # r.val.net_ns
    BY <1>0, <1>3, <1>5, <2>1 DEF HomeStray
  <2>2. QED BY <2>1 DEF HomeStray, IfacePut, Making
<1>10. HalvesGone'
  <2>1. ASSUME NEW x \in Pending', x.store = "ifaces", ~Making(x), x.key \in DOMAIN ifaces',
               NEW y, y = ifaces'[x.key].pair, y \in DOMAIN ifaces'
        PROVE  \E r \in Pending' : r.store = "ifaces" /\ ~Making(r) /\ r.key = y
    <3>0. x \in Pending
      BY <1>3, <2>1
    <3>1. CASE q.store # "ifaces"
      <4>1. PICK r \in Pending : r.store = "ifaces" /\ ~Making(r) /\ r.key = y
        BY <1>0, <1>1, <2>1, <3>0, <3>1 DEF HalvesGone, Effect, Kept
      <4>2. QED BY <1>1, <3>1, <4>1
    <3>2. CASE q.store = "ifaces" /\ Making(q)
      <4>1. x.key # q.key
        BY <1>0, <2>1, <3>0, <3>2, Clear
      <4>2. x.key \in DOMAIN ifaces /\ ifaces'[x.key] = ifaces[x.key]
        BY <1>1, <2>1, <3>2, <4>1 DEF Effect, Kept
      <4>3. IfacePut(q, q.key) /\ x.key \notin {q.key, q.val.pair}
        BY <1>0, <2>1, <3>0, <3>2 DEF Calls, Removals, IfacePut
      <4>4. y # q.key
        <5>1. ASSUME y = q.key PROVE FALSE
          <6>1. Mates(y, x.key) /\ Mates(y, q.val.pair)
            BY <1>0, <2>1, <4>2, <4>3, <5>1 DEF Mates, Fact
          <6>2. y \in Ifaces /\ x.key \in Ifaces /\ q.val.pair \in Ifaces
            BY <1>0, <6>1, MatesAre
          <6>3. x.key = q.val.pair
            BY <1>0, <6>1, <6>2 DEF Claims, Matched
          <6>4. QED BY <4>3, <6>3
        <5>2. QED BY <5>1
      <4>5. y \in DOMAIN ifaces
        BY <1>1, <2>1, <3>2, <4>4 DEF Effect, Kept
      <4>6. PICK r \in Pending : r.store = "ifaces" /\ ~Making(r) /\ r.key = y
        BY <1>0, <2>1, <3>0, <4>2, <4>5 DEF HalvesGone
      <4>7. QED BY <1>1, <3>2, <4>6
    <3>3. CASE q.store = "ifaces" /\ ~Making(q)
      <4>1. x.key # q.key /\ y # q.key
        BY <1>1, <2>1, <3>3 DEF Effect
      <4>2. /\ x.key \in DOMAIN ifaces /\ ifaces'[x.key] = ifaces[x.key]
            /\ y \in DOMAIN ifaces
        BY <1>1, <2>1, <3>3, <4>1 DEF Effect, Kept
      <4>3. PICK r \in Pending : r.store = "ifaces" /\ ~Making(r) /\ r.key = y
        BY <1>0, <2>1, <3>0, <4>2 DEF HalvesGone
      <4>4. QED BY <1>1, <4>1, <4>3
    <3>4. QED BY <3>1, <3>2, <3>3
  <2>2. QED BY <2>1 DEF HalvesGone, Making
<1>11. QED BY <1>6, <1>7, <1>8, <1>9, <1>10 DEF Calm

LEMMA StraySeqs ==
  ASSUME Typed, NEW s \in strays
  PROVE  PutSeq(s) /\ s # <<>> /\ ToSet(s) \subseteq Strays /\ ToSet(s) \subseteq Pending
BY PendingIs DEF Typed

LEMMA WriteCalm ==
  ASSUME IInv, Calm, NEW p \in Plugins, Write(p) PROVE Calm'
<1>1. PICK s, q : s = work[p].puts /\ q = Head(s)
  OBVIOUS
<1>2. /\ Makes(q) /\ s # <<>> /\ PutSeq(s) /\ q \in Puts(p)
      /\ Strays' = Strays /\ strays' = strays /\ rec' = rec
      /\ \A r \in Plugins \ {p} : work'[r] = work[r] /\ Puts(r)' = Puts(r)
      /\ \/ work'[p] = Idle /\ Puts(p)' = {}
         \/ SamePlan(p) /\ work'[p].puts = Rest(s)
  BY <1>1, WriteMakes
<1>3. Typed /\ \A i \in Instances : PluginOf[i] \in Plugins
  BY InstanceAssumption DEF IInv
<1>4. \A i \in Instances : PluginOf[i] # p \/ SamePlan(p) => Claim(i)' = Claim(i)
  <2>1. ASSUME NEW i \in Instances, PluginOf[i] # p PROVE Claim(i)' = Claim(i)
    BY <1>2, <1>3, <2>1, ClaimStays
  <2>2. ASSUME NEW i \in Instances, PluginOf[i] = p, SamePlan(p) PROVE Claim(i)' = Claim(i)
    BY <1>2, <2>2, ClaimPlan
  <2>3. QED BY <2>1, <2>2
<1>5. \A i \in Instances : Claim(i)' \subseteq Claim(i)
  <2>1. ASSUME NEW i \in Instances, PluginOf[i] = p, work'[p] = Idle
        PROVE  Claim(i)' \subseteq Claim(i)
    <3>1. ~Building(i)' /\ rec'[i] = rec[i]
      BY <1>2, <2>1, IdleWork DEF Building
    <3>2. QED BY <3>1, ClaimDropped
  <2>2. QED BY <1>2, <1>4, <2>1
<1>6. ASSUME NEW t \in Plugins, NEW r \in Puts(t)', IfacePut(r, r.key)
      PROVE  r \in Puts(t) /\ Claim(work[t].inst) = Claim(work[t].inst)'
  <2>1. CASE t # p
    <3>1. r \in Puts(t) /\ work'[t] = work[t]
      BY <1>2, <1>6, <2>1
    <3>2. work[t].pc # "idle"
      <4>1. ASSUME work[t].pc = "idle" PROVE FALSE
        <5>1. work[t].puts = <<>>
          BY <1>3, <4>1, IdleIs DEF Typed, WorkTyped
        <5>2. QED BY <3>1, <5>1, NoPuts DEF Puts
      <4>2. QED BY <4>1
    <3>3. PICK i : i = work[t].inst
      OBVIOUS
    <3>4. i \in Instances /\ PluginOf[i] = t
      BY <1>3, <3>2, <3>3, WorkOf
    <3>5. Claim(i)' = Claim(i)
      BY <1>4, <2>1, <3>4
    <3>6. work'[t].inst = i
      BY <3>1, <3>3
    <3>7. Claim(work[t].inst)' = Claim(i)'
      BY <3>6
    <3>8. QED BY <3>1, <3>3, <3>5, <3>7
  <2>2. CASE t = p
    <3>1. SamePlan(p) /\ work'[p].puts = Rest(s)
      BY <1>2, <1>6, <2>2
    <3>2. r \in ToSet(Rest(s))
      BY <1>6, <2>2, <3>1 DEF Puts
    <3>3. r \in ToSet(s)
      <4>1. CASE q.store = "unlist" /\ Unlistable(q)
        <5>1. r = Listing(q)
          BY <1>1, <1>2, <1>3, <3>2, <4>1, RestIs
        <5>2. QED BY <1>6, <5>1, ListingIs DEF IfacePut
      <4>2. CASE ~(q.store = "unlist" /\ Unlistable(q))
        BY <1>1, <1>2, <1>3, <3>2, <4>2, RestIs
      <4>3. QED BY <4>1, <4>2
    <3>4. r \in Puts(p)
      BY <1>1, <3>3 DEF Puts
    <3>5. work[p].pc # "idle"
      <4>1. ASSUME work[p].pc = "idle" PROVE FALSE
        BY <1>1, <1>2, <1>3, <4>1, IdleIs DEF Typed, WorkTyped
      <4>2. QED BY <4>1
    <3>6. PICK i : i = work[p].inst
      OBVIOUS
    <3>7. i \in Instances /\ PluginOf[i] = p
      BY <1>3, <3>5, <3>6, WorkOf
    <3>8. Claim(i)' = Claim(i)
      BY <1>4, <3>1, <3>7
    <3>9. work'[p].inst = i
      BY <3>1, <3>6 DEF SamePlan
    <3>10. Claim(work[p].inst)' = Claim(i)'
      BY <3>9
    <3>11. QED BY <2>2, <3>4, <3>6, <3>8, <3>10
  <2>3. QED BY <2>1, <2>2
<1>7. StraySolo'
  BY <1>2 DEF Calm, StraySolo, Making
<1>8. ListFirst'
  <2>1. ASSUME NEW t \in strays PROVE ListsFirst(t)'
    <3>1. ListsFirst(t) /\ PutSeq(t) /\ ToSet(t) \subseteq Pending
      BY <1>3, StraySeqs DEF Calm, ListFirst
    <3>2. QED BY <1>2, <3>1, ListsFirstKept
  <2>2. ASSUME NEW r \in Plugins \ {p} PROVE ListsFirst(work[r].puts)'
    <3>1. PICK t : t = work[r].puts
      OBVIOUS
    <3>2. ListsFirst(t) /\ PutSeq(t)
      BY <1>3, <3>1 DEF Calm, ListFirst, Typed, WorkTyped
    <3>3. ToSet(t) \subseteq Pending
      BY <3>1, PutsPending DEF Puts
    <3>4. ListsFirst(t)'
      BY <1>2, <3>2, <3>3, ListsFirstKept
    <3>5. work'[r].puts = t
      BY <1>2, <3>1
    <3>6. QED BY <3>4, <3>5
  <2>3. ListsFirst(work[p].puts)'
    <3>1. CASE work'[p] = Idle
      <4>1. work'[p].puts = <<>>
        BY <3>1, IdleIs
      <4>2. QED BY <4>1 DEF ListsFirst
    <3>2. CASE work'[p].puts = Rest(s)
      <4>1. PICK t : t = Rest(s)
        OBVIOUS
      <4>2. ListsFirst(s)
        BY <1>1 DEF Calm, ListFirst
      <4>3. ListsFirst(t)'
        BY <1>1, <1>2, <1>3, <4>1, <4>2, ListsFirstRest
      <4>4. work'[p].puts = t
        BY <3>2, <4>1
      <4>5. QED BY <4>3, <4>4
    <3>3. QED BY <1>2, <3>1, <3>2
  <2>4. QED BY <1>2, <2>1, <2>2, <2>3 DEF ListFirst
<1>9. QED BY <1>2, <1>5, <1>6, <1>7, <1>8, CalmMade

LEMMA WriteStrayCalm ==
  ASSUME IInv, Calm, NEW s \in strays, WriteStray(s) PROVE Calm'
<1>1. PICK q, t : q = Head(s) /\ t = Rest(s)
  OBVIOUS
<1>2. /\ Makes(q) /\ s # <<>> /\ PutSeq(s) /\ q \in ToSet(s)
      /\ strays' = (strays \ {s}) \cup ({t} \ {<<>>})
      /\ work' = work /\ rec' = rec
      /\ \A r \in Strays' : r \in Strays \/ (Reading(q) /\ r = Listing(q))
  BY <1>1, WriteStrayMakes
<1>3. Typed /\ q \in Strays
  BY <1>2, StraySeqs DEF IInv
<1>4. \A i \in Instances : Claim(i)' = Claim(i)
  BY <1>2, ClaimStays
<1>5. \A p : Puts(p)' = Puts(p) /\ Claim(work[p].inst)' = Claim(work[p].inst)
  BY <1>2 DEF Puts, Claim, IsConfigured, Building, Configuring, Made, Listed
<1>6. \A r \in ToSet(t) : \E u \in ToSet(s) :
        r.key = u.key /\ (Making(r) => Making(u))
  <2>1. CASE q.store = "unlist" /\ Unlistable(q)
    <3>1. \A r \in ToSet(t) : r = Listing(q)
      BY <1>1, <1>2, <1>3, <2>1, RestIs
    <3>2. Making(q)
      BY <1>2, <1>3, <2>1, PutKinds DEF PutSeq
    <3>3. QED BY <1>2, <3>1, <3>2, ListingIs
  <2>2. CASE ~(q.store = "unlist" /\ Unlistable(q))
    BY <1>1, <1>2, <1>3, <2>2, RestIs
  <2>3. QED BY <2>1, <2>2
<1>7. StraySolo'
  <2>1. StraySolo
    BY DEF Calm
  <2>2. ASSUME NEW a \in strays', NEW b \in strays', a # b,
               NEW x \in ToSet(a), NEW y \in ToSet(b), Making(x), Making(y)
        PROVE  x.key # y.key
    <3>1. CASE a \in strays \ {s} /\ b \in strays \ {s}
      BY <2>1, <2>2, <3>1 DEF StraySolo
    <3>2. CASE a = t /\ b \in strays \ {s}
      <4>1. PICK u \in ToSet(s) : x.key = u.key /\ Making(u)
        BY <1>6, <2>2, <3>2
      <4>2. QED BY <2>1, <2>2, <3>2, <4>1 DEF StraySolo
    <3>3. CASE b = t /\ a \in strays \ {s}
      <4>1. PICK u \in ToSet(s) : y.key = u.key /\ Making(u)
        BY <1>6, <2>2, <3>3
      <4>2. QED BY <2>1, <2>2, <3>3, <4>1 DEF StraySolo
    <3>4. QED BY <1>2, <2>2, <3>1, <3>2, <3>3
  <2>3. QED BY <2>2 DEF StraySolo, Making
<1>8. ListFirst'
  <2>1. ASSUME NEW a \in strays PROVE ListsFirst(a)'
    <3>1. ListsFirst(a) /\ PutSeq(a) /\ ToSet(a) \subseteq Pending
      BY <1>3, StraySeqs DEF Calm, ListFirst
    <3>2. QED BY <1>2, <3>1, ListsFirstKept
  <2>2. ASSUME NEW r \in Plugins PROVE ListsFirst(work[r].puts)'
    <3>1. PICK a : a = work[r].puts
      OBVIOUS
    <3>2. ListsFirst(a) /\ PutSeq(a)
      BY <1>3, <3>1 DEF Calm, ListFirst, Typed, WorkTyped
    <3>3. ToSet(a) \subseteq Pending
      BY <3>1, PutsPending DEF Puts
    <3>4. ListsFirst(a)'
      BY <1>2, <3>2, <3>3, ListsFirstKept
    <3>5. work'[r].puts = a
      BY <1>2, <3>1
    <3>6. QED BY <3>4, <3>5
  <2>3. ListsFirst(t)'
    <3>1. ListsFirst(s)
      BY DEF Calm, ListFirst
    <3>2. QED BY <1>1, <1>2, <1>3, <3>1, ListsFirstRest
  <2>4. \A a \in strays' : ListsFirst(a)'
    BY <1>2, <2>1, <2>3
  <2>5. QED BY <2>2, <2>4 DEF ListFirst
<1>9. QED BY <1>2, <1>3, <1>4, <1>5, <1>7, <1>8, CalmMade

-----------------------------------------------------------------------------
(* The calls stay calm when a caller gives up or the plugin dies           *)

LEMMA GiveUpIs ==
  ASSUME IInv, NEW p \in Plugins, GiveUp(p)
  PROVE  /\ work'[p] = Idle /\ work[p].pc # "idle"
         /\ \A r \in Plugins \ {p} : work'[r] = work[r]
         /\ strays' = strays \cup ({work[p].puts} \ {<<>>})
         /\ UNCHANGED <<netVars, rec>>
         /\ \A q : q \in Strays' <=> q \in Strays \/ q \in Puts(p)
         /\ \A q : q \in Pending' <=> q \in Pending
<1>1. /\ work' = [work EXCEPT ![p] = Idle] /\ work[p].pc # "idle"
      /\ strays' = strays \cup ({work[p].puts} \ {<<>>})
      /\ UNCHANGED <<netVars, rec>>
  BY DEF GiveUp
<1>2. DOMAIN work = Plugins
  BY DEF IInv, Typed
<1>3. work'[p] = Idle /\ \A r \in Plugins \ {p} : work'[r] = work[r]
  BY <1>1, <1>2
<1>4. Puts(p)' = {} /\ \A r \in Plugins \ {p} : Puts(r)' = Puts(r)
  BY <1>3, IdleWork DEF Puts
<1>5. \A q : q \in Strays' <=> q \in Strays \/ q \in Puts(p)
  <2>1. ASSUME NEW q, q \in Strays' PROVE q \in Strays \/ q \in Puts(p)
    <3>1. PICK t \in strays' : q \in ToSet(t)
      BY <2>1, PendingIs
    <3>2. QED BY <1>1, <3>1, PendingIs DEF Puts
  <2>2. ASSUME NEW q, q \in Strays PROVE q \in Strays'
    BY <1>1, <2>2, PendingIs
  <2>3. ASSUME NEW q, q \in Puts(p) PROVE q \in Strays'
    <3>1. work[p].puts # <<>>
      BY <2>3, NoPuts DEF Puts
    <3>2. work[p].puts \in strays'
      BY <1>1, <3>1
    <3>3. QED BY <2>3, <3>2, PendingIs DEF Puts
  <2>4. QED BY <2>1, <2>2, <2>3
<1>6. \A q : q \in Pending' <=> q \in Pending
  BY <1>4, <1>5, PendingIs
<1>7. QED BY <1>1, <1>3, <1>5, <1>6

LEMMA GiveUpCalm ==
  ASSUME IInv, Calm, NEW p \in Plugins, GiveUp(p) PROVE Calm'
<1>1. PICK s, i : s = work[p].puts /\ i = work[p].inst
  OBVIOUS
<1>2. /\ work'[p] = Idle /\ work[p].pc # "idle"
      /\ \A r \in Plugins \ {p} : work'[r] = work[r]
      /\ strays' = strays \cup ({s} \ {<<>>})
      /\ rec' = rec /\ ifaces' = ifaces /\ namespaces' = namespaces /\ cps' = cps
      /\ \A q : q \in Strays' <=> q \in Strays \/ q \in Puts(p)
      /\ \A q : q \in Pending' <=> q \in Pending
  BY <1>1, GiveUpIs, StoresSame
<1>3. /\ Typed /\ Claims /\ Calls
      /\ i \in Instances /\ PluginOf[i] = p /\ Puts(p) = ToSet(s)
  BY <1>1, <1>2, WorkOf DEF IInv, Puts
<1>4. /\ StraySolo /\ StrayClear /\ Home /\ HomeOwn /\ HomeStray /\ ListFirst /\ HalvesGone
  BY DEF Calm
<1>5. ASSUME NEW j \in Instances
      PROVE  /\ Claim(j)' \subseteq Claim(j)
             /\ PluginOf[j] # p => Claim(j)' = Claim(j)
             /\ ~IsConfigured(j) /\ PluginOf[j] = p => Claim(j)' = {}
  <2>1. PluginOf[j] \in Plugins /\ rec'[j] = rec[j]
    BY <1>2, InstanceAssumption
  <2>2. CASE PluginOf[j] # p
    BY <1>2, <2>1, <2>2, ClaimStays
  <2>3. CASE PluginOf[j] = p
    <3>1. ~Building(j)'
      BY <1>2, <2>3, IdleWork DEF Building
    <3>2. QED BY <2>1, <2>3, <3>1, ClaimDropped
  <2>4. QED BY <2>2, <2>3
<1>6. StraySolo'
  <2>1. ASSUME NEW a \in strays', NEW b \in strays', a # b,
               NEW x \in ToSet(a), NEW y \in ToSet(b), Making(x), Making(y)
        PROVE  x.key # y.key
    <3>1. CASE a \in strays /\ b \in strays
      BY <1>4, <2>1, <3>1 DEF StraySolo
    <3>2. CASE a = s /\ b \in strays
      <4>1. y \in Strays
        BY <3>2, PendingIs
      <4>2. QED BY <1>3, <2>1, <3>2, <4>1, OwnSolo
    <3>3. CASE b = s /\ a \in strays
      <4>1. x \in Strays
        BY <3>3, PendingIs
      <4>2. QED BY <1>3, <2>1, <3>3, <4>1, OwnSolo
    <3>4. QED BY <1>2, <2>1, <3>1, <3>2, <3>3
  <2>2. QED BY <2>1 DEF StraySolo, Making
<1>7. StrayClear'
  <2>1. ASSUME NEW r \in Strays', NEW t \in Pending', Making(r), ~Making(t)
        PROVE  r.key # t.key
    <3>1. t \in Pending
      BY <1>2
    <3>2. CASE r \in Strays
      BY <1>4, <2>1, <3>1, <3>2 DEF StrayClear
    <3>3. CASE r \in Puts(p)
      BY <2>1, <3>1, <3>3, OwnClear
    <3>4. QED BY <1>2, <3>2, <3>3
  <2>2. QED BY <2>1 DEF StrayClear, Making
<1>8. Home'
  BY <1>2, <1>4 DEF Home, IfacePut, Making
<1>9. HomeOwn'
  <2>1. ASSUME NEW t \in Plugins, NEW r \in Puts(t)', IfacePut(r, r.key)
        PROVE  r.val.net_ns \in Claim(work[t].inst)' \cup {None}
    <3>1. t # p
      BY <1>2, <2>1, IdleWork
    <3>2. work'[t] = work[t] /\ r \in Puts(t)
      BY <1>2, <2>1, <3>1 DEF Puts
    <3>3. work[t].pc # "idle"
      <4>1. ASSUME work[t].pc = "idle" PROVE FALSE
        <5>1. work[t].puts = <<>>
          BY <1>3, <4>1, IdleIs DEF Typed, WorkTyped
        <5>2. QED BY <3>2, <5>1, NoPuts DEF Puts
      <4>2. QED BY <4>1
    <3>4. PICK j : j = work[t].inst
      OBVIOUS
    <3>5. j \in Instances /\ PluginOf[j] = t
      BY <1>3, <3>3, <3>4, WorkOf
    <3>6. Claim(j)' = Claim(j)
      BY <1>5, <3>1, <3>5
    <3>7. r.val.net_ns \in Claim(j) \cup {None}
      BY <1>4, <2>1, <3>2, <3>4 DEF HomeOwn
    <3>8. work'[t].inst = j
      BY <3>2, <3>4
    <3>9. Claim(work[t].inst)' = Claim(j)'
      BY <3>8
    <3>10. QED BY <3>6, <3>7, <3>9
  <2>2. QED BY <2>1 DEF HomeOwn, IfacePut, Making
<1>10. HomeStray'
  <2>1. ASSUME NEW r \in Strays', IfacePut(r, r.key)
        PROVE  /\ \A j \in Instances : r.val.net_ns \notin Claim(j)'
               /\ \A t \in Pending' : ~Making(t) => t.key # r.val.net_ns
    <3>1. CASE r \in Strays
      BY <1>2, <1>4, <1>5, <2>1, <3>1 DEF HomeStray
    <3>2. CASE r \in Puts(p)
      <4>0. Making(r) /\ r \in Pending
        BY <2>1, <3>2, PutsPending DEF IfacePut
      <4>1. \A t \in Pending' : ~Making(t) => t.key # r.val.net_ns
        BY <1>2, <2>1, <4>0, HomeSafe
      <4>2. ~IsConfigured(i)
        BY <1>1, <3>2, <4>0, OwnCovers
      <4>3. r.val.net_ns \in Claim(i) \cup {None}
        BY <1>1, <1>4, <2>1, <3>2 DEF HomeOwn
      <4>4. ASSUME NEW j \in Instances PROVE r.val.net_ns \notin Claim(j)'
        <5>1. CASE j = i
          BY <1>3, <1>5, <4>2, <5>1
        <5>2. CASE j # i
          <6>1. r.val.net_ns \notin Claim(j)
            BY <1>3, <4>3, <5>2, NoMates DEF Claims, Disjoint
          <6>2. QED BY <1>5, <6>1
        <5>3. QED BY <5>1, <5>2
      <4>5. QED BY <4>1, <4>4
    <3>3. QED BY <1>2, <3>1, <3>2
  <2>2. QED BY <2>1 DEF HomeStray, IfacePut, Making
<1>11. ListFirst'
  <2>1. ASSUME NEW a, ListsFirst(a) PROVE ListsFirst(a)'
    BY <1>2, <2>1 DEF ListsFirst, ListPut, Making
  <2>2. ASSUME NEW a \in strays' PROVE ListsFirst(a)'
    <3>1. ListsFirst(a)
      BY <1>1, <1>2, <1>4 DEF ListFirst
    <3>2. QED BY <2>1, <3>1
  <2>3. ASSUME NEW r \in Plugins PROVE ListsFirst(work[r].puts)'
    <3>1. CASE r = p
      <4>1. work'[r].puts = <<>>
        BY <1>2, <3>1, IdleIs
      <4>2. QED BY <4>1 DEF ListsFirst
    <3>2. CASE r # p
      <4>1. PICK a : a = work[r].puts
        OBVIOUS
      <4>2. ListsFirst(a)'
        BY <1>4, <2>1, <4>1 DEF ListFirst
      <4>3. work'[r].puts = a
        BY <1>2, <3>2, <4>1
      <4>4. QED BY <4>2, <4>3
    <3>3. QED BY <3>1, <3>2
  <2>4. QED BY <2>2, <2>3 DEF ListFirst
<1>12. HalvesGone'
  BY <1>2, <1>4 DEF HalvesGone, Making
<1>13. QED BY <1>6, <1>7, <1>8, <1>9, <1>10, <1>11, <1>12 DEF Calm

(* Where nothing is to be put, the calls are calm.                         *)
LEMMA NothingCalm ==
  ASSUME Pending = {}, strays = {}, \A p \in Plugins : work[p].puts = <<>>
  PROVE  Calm
<1>1. \A q : q \notin Pending /\ q \notin Strays /\ \A p \in Plugins : q \notin Puts(p)
  BY PendingIs
<1>2. ListFirst
  BY DEF ListFirst, ListsFirst
<1>3. QED
  BY <1>1, <1>2
  DEF Calm, StraySolo, StrayClear, Home, HomeOwn, HomeStray, HalvesGone

LEMMA NetworkingDiesCalm ==
  ASSUME IInv, NetworkingDies PROVE Calm'
<1>1. /\ strays' = {}
      /\ work' = [p \in Plugins |-> IF work[p].puts = <<>> THEN work[p] ELSE Idle]
  BY DEF NetworkingDies
<1>2. \A r \in Plugins : work'[r].puts = <<>>
  BY <1>1, IdleIs
<1>3. \A r \in Plugins : Puts(r)' = {}
  BY <1>2, NoPuts DEF Puts
<1>4. Pending' = {} /\ Strays' = {}
  BY <1>1, <1>3, PendingIs
<1>5. \A q : q \notin Pending' /\ q \notin Strays' /\ \A p \in Plugins : q \notin Puts(p)'
  BY <1>3, <1>4
<1>6. ListFirst'
  BY <1>1, <1>2 DEF ListFirst, ListsFirst
<1>7. QED
  BY <1>1, <1>5, <1>6
  DEF Calm, StraySolo, StrayClear, Home, HomeOwn, HomeStray, HalvesGone

LEMMA InitCalm == Init => Calm
<1> SUFFICES ASSUME Init PROVE Calm
  OBVIOUS
<1>1. strays = {} /\ \A p \in Plugins : work[p] = Idle
  BY DEF Init
<1>2. \A p \in Plugins : work[p].puts = <<>> /\ Puts(p) = {}
  BY <1>1, IdleIs, NoPuts DEF Puts
<1>3. Pending = {}
  BY <1>1, <1>2, PendingIs
<1>4. QED BY <1>1, <1>2, <1>3, NothingCalm

-----------------------------------------------------------------------------
(* The calls stay calm when an operation goes on                           *)

(* Plugin p, which has nothing left to put, goes on with v.                *)
GoesOn(p, v) ==
  /\ work[p].puts = <<>>
  /\ work' = [work EXCEPT ![p] = v]
  /\ UNCHANGED netVars /\ strays' = strays

LEMMA GoesOnIs ==
  ASSUME Typed, NEW p \in Plugins, NEW v, GoesOn(p, v)
  PROVE  /\ work'[p] = v /\ \A r \in Plugins \ {p} : work'[r] = work[r]
         /\ Puts(p) = {} /\ Puts(p)' = ToSet(v.puts)
         /\ \A r \in Plugins \ {p} : Puts(r)' = Puts(r)
         /\ Strays' = Strays /\ strays' = strays
         /\ \A q : q \in Pending' <=> q \in Pending \/ q \in ToSet(v.puts)
         /\ ifaces' = ifaces /\ namespaces' = namespaces /\ cps' = cps /\ vnets' = vnets
<1>1. work'[p] = v /\ \A r \in Plugins \ {p} : work'[r] = work[r]
  BY DEF Typed, GoesOn
<1>2. /\ Puts(p) = {} /\ Puts(p)' = ToSet(v.puts)
      /\ \A r \in Plugins \ {p} : Puts(r)' = Puts(r)
  BY <1>1, NoPuts DEF Puts, GoesOn
<1>3. Strays' = Strays /\ strays' = strays
  BY DEF Strays, GoesOn
<1>4. \A q : q \in Pending' <=> q \in Pending \/ q \in ToSet(v.puts)
  BY <1>2, <1>3, PendingIs
<1>5. ifaces' = ifaces /\ namespaces' = namespaces /\ cps' = cps /\ vnets' = vnets
  BY StoresSame DEF GoesOn
<1>6. QED BY <1>1, <1>2, <1>3, <1>4, <1>5

(* Where things are is no interface.                                       *)
LEMMA PlaceIs ==
  ASSUME Typed, NEW n \in DOMAIN namespaces \cup cps \cup {None}
  PROVE  n \notin Ifaces
BY Keys DEF Typed, TypeOK

(* What v puts agrees with what is pending.                                *)
FitsIn(v) ==
  \A r \in ToSet(v.puts) :
    /\ ~Making(r) => \E i \in Instances : Covers(i, r.key)
    /\ IfacePut(r, r.key) =>
         /\ r.val.net_ns \in DOMAIN namespaces \cup cps \cup {None}
         /\ r.val.net_ns \in Claim(v.inst)' \cup {None}
    /\ r.store = "ifaces" /\ ~Making(r) /\ r.key \in DOMAIN ifaces =>
         \/ ifaces[r.key].pair \notin DOMAIN ifaces
         \/ \E t \in ToSet(v.puts) : /\ t.store = "ifaces" /\ ~Making(t)
                                     /\ t.key = ifaces[r.key].pair

LEMMA GoesOnCalm ==
  ASSUME IInv, Calm, NEW p \in Plugins, NEW v, GoesOn(p, v),
         \A i \in Instances :
           /\ PluginOf[i] # p => Claim(i)' = Claim(i)
           /\ \A z \in Claim(i)' :
                z \in Claim(i) \/ z \notin DOMAIN namespaces \cup cps \cup {None},
         FitsIn(v), ListsFirst(v.puts)
  PROVE  Calm'
<1>0. PICK R : R = ToSet(v.puts)
  OBVIOUS
<1>1. /\ work'[p] = v /\ \A r \in Plugins \ {p} : work'[r] = work[r]
      /\ Puts(p)' = R
      /\ \A r \in Plugins \ {p} : Puts(r)' = Puts(r)
      /\ Strays' = Strays /\ strays' = strays
      /\ \A q : q \in Pending' <=> q \in Pending \/ q \in R
      /\ ifaces' = ifaces /\ namespaces' = namespaces /\ cps' = cps
  BY <1>0, GoesOnIs DEF IInv
<1>2. /\ Typed /\ Claims /\ Calls
      /\ StraySolo /\ StrayClear /\ Home /\ HomeOwn /\ HomeStray /\ ListFirst /\ HalvesGone
  BY DEF IInv, Calm
<1>3. \A r \in R :
        /\ ~Making(r) => \E i \in Instances : Covers(i, r.key)
        /\ IfacePut(r, r.key) =>
             /\ r.val.net_ns \in DOMAIN namespaces \cup cps \cup {None}
             /\ r.val.net_ns \in Claim(v.inst)' \cup {None}
        /\ r.store = "ifaces" /\ ~Making(r) /\ r.key \in DOMAIN ifaces =>
             \/ ifaces[r.key].pair \notin DOMAIN ifaces
             \/ \E t \in R : /\ t.store = "ifaces" /\ ~Making(t)
                             /\ t.key = ifaces[r.key].pair
  BY <1>0 DEF FitsIn
<1>4. StraySolo'
  BY <1>1, <1>2 DEF StraySolo, Making
<1>5. StrayClear'
  <2>1. ASSUME NEW q \in Strays', NEW r \in Pending', Making(q), ~Making(r)
        PROVE  q.key # r.key
    <3>1. CASE r \in Pending
      BY <1>1, <1>2, <2>1, <3>1 DEF StrayClear
    <3>2. CASE r \in R
      <4>1. PICK i \in Instances : Covers(i, r.key)
        BY <1>3, <2>1, <3>2
      <4>2. q \in Strays /\ q \in Pending
        BY <1>1, <2>1, PendingIs
      <4>3. ~Covers(i, q.key)
        BY <1>2, <2>1, <4>2, Spared
      <4>4. QED BY <4>1, <4>3
    <3>3. QED BY <1>1, <2>1, <3>1, <3>2
  <2>2. QED BY <2>1 DEF StrayClear, Making
<1>6. Home'
  <2>1. ASSUME NEW q \in Pending', IfacePut(q, q.key)
        PROVE  q.val.net_ns \in DOMAIN namespaces' \cup cps' \cup {None}
    BY <1>1, <1>2, <1>3, <2>1 DEF Home
  <2>2. QED BY <2>1 DEF Home, IfacePut, Making
<1>7. HomeOwn'
  <2>1. ASSUME NEW t \in Plugins, NEW r \in Puts(t)', IfacePut(r, r.key)
        PROVE  r.val.net_ns \in Claim(work[t].inst)' \cup {None}
    <3>1. CASE t = p
      <4>1. r \in R
        BY <1>1, <2>1, <3>1
      <4>2. work'[t].inst = v.inst
        BY <1>1, <3>1
      <4>3. Claim(work[t].inst)' = Claim(v.inst)'
        BY <4>2
      <4>4. QED BY <1>3, <2>1, <4>1, <4>3
    <3>2. CASE t # p
      <4>1. work'[t] = work[t] /\ r \in Puts(t)
        BY <1>1, <2>1, <3>2
      <4>2. work[t].pc # "idle"
        <5>1. ASSUME work[t].pc = "idle" PROVE FALSE
          <6>1. work[t].puts = <<>>
            BY <1>2, <5>1, IdleIs DEF Typed, WorkTyped
          <6>2. QED BY <4>1, <6>1, NoPuts DEF Puts
        <5>2. QED BY <5>1
      <4>3. PICK j : j = work[t].inst
        OBVIOUS
      <4>4. j \in Instances /\ PluginOf[j] = t
        BY <1>2, <4>2, <4>3, WorkOf
      <4>5. Claim(j)' = Claim(j)
        BY <3>2, <4>4
      <4>6. r.val.net_ns \in Claim(j) \cup {None}
        BY <1>2, <2>1, <4>1, <4>3 DEF HomeOwn
      <4>7. work'[t].inst = j
        BY <4>1, <4>3
      <4>8. Claim(work[t].inst)' = Claim(j)'
        BY <4>7
      <4>9. QED BY <4>5, <4>6, <4>8
    <3>3. QED BY <3>1, <3>2
  <2>2. QED BY <2>1 DEF HomeOwn, IfacePut, Making
<1>8. HomeStray'
  <2>1. ASSUME NEW q \in Strays', IfacePut(q, q.key)
        PROVE  /\ \A i \in Instances : q.val.net_ns \notin Claim(i)'
               /\ \A r \in Pending' : ~Making(r) => r.key # q.val.net_ns
    <3>1. q \in Strays /\ q \in Pending
      BY <1>1, <2>1, PendingIs
    <3>2. PICK n : n = q.val.net_ns
      OBVIOUS
    <3>3. /\ \A i \in Instances : n \notin Claim(i)
          /\ \A r \in Pending : ~Making(r) => r.key # n
      BY <1>2, <2>1, <3>1, <3>2 DEF HomeStray
    <3>4. n \in DOMAIN namespaces \cup cps \cup {None}
      BY <1>2, <2>1, <3>1, <3>2 DEF Home
    <3>5. \A i \in Instances : n \notin Claim(i)'
      BY <3>3, <3>4
    <3>6. ASSUME NEW r \in R, ~Making(r) PROVE r.key # n
      <4>1. PICK i \in Instances : Covers(i, r.key)
        BY <1>3, <3>6
      <4>2. n \notin Ifaces
        BY <1>2, <3>4, PlaceIs
      <4>3. ~Covers(i, n)
        BY <1>2, <3>3, <4>2, MatesAre DEF Covers
      <4>4. QED BY <4>1, <4>3
    <3>7. QED BY <1>1, <3>2, <3>3, <3>5, <3>6
  <2>2. QED BY <2>1 DEF HomeStray, IfacePut, Making
<1>9. ListFirst'
  <2>1. ASSUME NEW a, ListsFirst(a) PROVE ListsFirst(a)'
    BY <1>1, <2>1 DEF ListsFirst, ListPut, Making
  <2>2. ASSUME NEW a \in strays' PROVE ListsFirst(a)'
    BY <1>1, <1>2, <2>1 DEF ListFirst
  <2>3. ASSUME NEW r \in Plugins PROVE ListsFirst(work[r].puts)'
    <3>1. PICK a : a = work'[r].puts
      OBVIOUS
    <3>2. a = IF r = p THEN v.puts ELSE work[r].puts
      BY <1>1, <3>1
    <3>3. ListsFirst(a)
      BY <1>2, <3>2 DEF ListFirst
    <3>4. ListsFirst(a)'
      BY <2>1, <3>3
    <3>5. QED BY <3>1, <3>4
  <2>4. QED BY <2>2, <2>3 DEF ListFirst
<1>10. HalvesGone'
  <2>1. ASSUME NEW x \in Pending', x.store = "ifaces", ~Making(x), x.key \in DOMAIN ifaces,
               ifaces[x.key].pair \in DOMAIN ifaces
        PROVE  \E r \in Pending' : /\ r.store = "ifaces" /\ ~Making(r)
                                   /\ r.key = ifaces[x.key].pair
    <3>1. CASE x \in Pending
      BY <1>1, <1>2, <2>1, <3>1 DEF HalvesGone
    <3>2. CASE x \in R
      BY <1>1, <1>3, <2>1, <3>2
    <3>3. QED BY <1>1, <2>1, <3>1, <3>2
  <2>2. QED BY <1>1, <2>1 DEF HalvesGone, Making
<1>11. QED BY <1>4, <1>5, <1>6, <1>7, <1>8, <1>9, <1>10 DEF Calm

(* Nothing is put.                                                         *)
LEMMA QuietCalm ==
  ASSUME IInv, Calm, NEW p \in Plugins, NEW v, GoesOn(p, v), v.puts = <<>>,
         \A i \in Instances :
           /\ PluginOf[i] # p => Claim(i)' = Claim(i)
           /\ Claim(i)' \subseteq Claim(i)
  PROVE  Calm' /\ Pending' = Pending
<1>1. ToSet(v.puts) = {} /\ Typed
  BY NoPuts DEF IInv
<1>2. FitsIn(v) /\ ListsFirst(v.puts)
  BY <1>1 DEF FitsIn, ListsFirst
<1>3. Calm'
  BY <1>2, GoesOnCalm
<1>4. \A q : q \in Pending' <=> q \in Pending
  BY <1>1, GoesOnIs
<1>5. QED BY <1>3, <1>4

-----------------------------------------------------------------------------
(* The records as they will be                                             *)

FI == After(ifaces, Ahead("ifaces"))
FN == After(namespaces, Ahead("namespaces"))
FC == KeysAfter(cps, Ahead("cps"))

LEMMA AgreeNow ==
  IInv /\ Calm =>
    Agree(Ahead("ifaces")) /\ Agree(Ahead("namespaces")) /\ Agree(Ahead("cps"))
BY AheadAgree

LEMMA AgreeNext ==
  (IInv /\ Calm =>
     Agree(Ahead("ifaces")) /\ Agree(Ahead("namespaces")) /\ Agree(Ahead("cps")))'
BY AgreeNow, PTL

(* What is ahead once p goes on with v.                                    *)
LEMMA AheadGoesOn ==
  ASSUME Typed, NEW p \in Plugins, NEW v, GoesOn(p, v), NEW R, R = ToSet(v.puts)
  PROVE  /\ \A store \in {"ifaces", "cps"} :
              Ahead(store)' = Ahead(store) \cup {r \in R : r.store = store}
         /\ Ahead("namespaces")' =
              Ahead("namespaces") \cup {r \in R : r.store = "namespaces"}
                \cup {Listing(u) : u \in {r \in R : r.store = "unlist" /\ Unlistable(r)}}
<1>1. /\ \A q : q \in Pending' <=> q \in Pending \/ q \in R
      /\ namespaces' = namespaces
  BY GoesOnIs
<1>2. ASSUME NEW store \in {"ifaces", "cps"}
      PROVE  Ahead(store)' = Ahead(store) \cup {r \in R : r.store = store}
  <2>1. ASSUME NEW q PROVE q \in Ahead(store)' <=>
                             q \in Ahead(store) \cup {r \in R : r.store = store}
    BY <1>1, AheadIs, AheadIsNext
  <2>2. QED BY <2>1
<1>3. \A u : (Listing(u)' = Listing(u)) /\ (Unlistable(u)' <=> Unlistable(u))
  BY <1>1 DEF Listing, Unlistable
<1>4. \A u : Reading(u)' <=> Reading(u) \/ (u \in R /\ u.store = "unlist" /\ Unlistable(u))
  BY <1>1, <1>3 DEF Reading
<1>5. ASSUME NEW q PROVE q \in Ahead("namespaces")' <=>
        q \in Ahead("namespaces") \cup {r \in R : r.store = "namespaces"}
                \cup {Listing(u) : u \in {r \in R : r.store = "unlist" /\ Unlistable(r)}}
  <2>1. q \in Ahead("namespaces")' <=>
          \/ q \in Pending' /\ q.store = "namespaces"
          \/ \E u : Reading(u)' /\ q = Listing(u)
    BY <1>3, AheadIsNext
  <2>2. q \in Ahead("namespaces") <=>
          \/ q \in Pending /\ q.store = "namespaces"
          \/ \E u : Reading(u) /\ q = Listing(u)
    BY AheadIs
  <2>3. QED BY <1>1, <1>4, <2>1, <2>2
<1>6. QED BY <1>2, <1>5

(* What is at a key where nothing is ahead stays.                          *)
LEMMA AheadKeys ==
  ASSUME NEW z, \A q \in Pending : q.key # z
  PROVE  /\ \A q \in Ahead("ifaces") : q.key # z
         /\ \A q \in Ahead("namespaces") : q.key # z
         /\ \A q \in Ahead("cps") : q.key # z
<1>1. \A u : Reading(u) => Listing(u).key # z
  BY ListingIs DEF Reading
<1>2. QED BY <1>1, AheadIs

LEMMA AfterSame ==
  ASSUME IInv, Calm, NEW z, \A q \in Pending : q.key # z
  PROVE  Kept(ifaces, FI, z) /\ Kept(namespaces, FN, z) /\ (z \in FC <=> z \in cps)
<1>1. /\ \A q \in Ahead("ifaces") : q.key # z
      /\ \A q \in Ahead("namespaces") : q.key # z
      /\ \A q \in Ahead("cps") : q.key # z
  BY AheadKeys
<1>2. Kept(ifaces, FI, z)
  BY <1>1, AgreeNow, AfterIs, KeysAfterAre DEF FI, Kept
<1>3. Kept(namespaces, FN, z)
  BY <1>1, AgreeNow, AfterIs, KeysAfterAre DEF FN, Kept
<1>4. z \in FC <=> z \in cps
  BY <1>1, KeysAfterAre DEF FC
<1>5. QED BY <1>2, <1>3, <1>4

(* What is about to be removed is not there afterwards.                    *)
LEMMA AfterGone ==
  ASSUME IInv, Calm, NEW q \in Pending, ~Making(q)
  PROVE  /\ q.store = "ifaces" => q.key \notin DOMAIN FI
         /\ q.store = "namespaces" => q.key \notin DOMAIN FN
         /\ q.store = "cps" => q.key \notin FC
BY AheadIs, AgreeNow, AfterIs, KeysAfterAre DEF FI, FN, FC

LEMMA IfacesAfter ==
  ASSUME IInv, Calm, NEW z \in DOMAIN FI
  PROVE  /\ z \in Ifaces /\ FI[z] \in VethRecord /\ Fact(z, FI[z].pair)
         /\ \/ z \in DOMAIN ifaces /\ FI[z] = ifaces[z]
            \/ \E q \in Pending : IfacePut(q, z) /\ FI[z] = q.val
<1>1. Typed /\ Agree(Ahead("ifaces"))
  BY AgreeNow DEF IInv
<1>2. CASE \E q \in Ahead("ifaces") : q.key = z
  <2>1. PICK q \in Ahead("ifaces") : q.key = z
    BY <1>2
  <2>2. q \in Pending /\ q.store = "ifaces"
    BY AheadIs
  <2>3. Making(q)
    BY <1>1, <2>1, AfterIs, KeysAfterAre DEF FI
  <2>4. IfacePut(q, z) /\ FI[z] = q.val
    BY <1>1, <2>1, <2>2, <2>3, AfterIs DEF FI, IfacePut
  <2>5. z \in Ifaces /\ q.val \in VethRecord /\ Fact(z, q.val.pair)
    BY <1>1, <2>2, <2>4, PendingTyped, PutKinds DEF Fact
  <2>6. QED BY <2>2, <2>4, <2>5
<1>3. CASE \A q \in Ahead("ifaces") : q.key # z
  <2>1. z \in DOMAIN ifaces /\ FI[z] = ifaces[z]
    BY <1>1, <1>3, AfterIs DEF FI
  <2>2. z \in Ifaces /\ ifaces[z] \in VethRecord /\ Fact(z, ifaces[z].pair)
    BY <1>1, <2>1 DEF Typed, TypeOK, Fact
  <2>3. QED BY <2>1, <2>2
<1>4. QED BY <1>2, <1>3

LEMMA SpacesAfter ==
  ASSUME IInv, Calm, NEW n \in DOMAIN FN
  PROVE  /\ n \in DOMAIN namespaces \/ \E q \in Pending : q.key = n
         /\ \A z \in DOMAIN FN[n] :
              \/ n \in DOMAIN namespaces /\ z \in DOMAIN namespaces[n]
              \/ \E r \in Pending : r.key = z
<1>1. Typed /\ Agree(Ahead("namespaces"))
  BY AgreeNow DEF IInv
<1>2. CASE \A q \in Ahead("namespaces") : q.key # n
  BY <1>1, <1>2, AfterIs DEF FN
<1>3. CASE \E q \in Ahead("namespaces") : q.key = n
  <2>1. PICK q \in Ahead("namespaces") : q.key = n
    BY <1>3
  <2>2. Making(q) /\ FN[n] = q.val
    BY <1>1, <2>1, AfterIs, KeysAfterAre DEF FN
  <2>3. CASE q \in Pending /\ q.store = "namespaces"
    <3>1. \/ \E s \in strays : q \in ToSet(s)
          \/ \E p \in Plugins : q \in ToSet(work[p].puts)
      BY <2>3, PendingIs DEF Puts
    <3>2. PICK s : PutSeq(s) /\ ListsFirst(s) /\ q \in ToSet(s) /\ ToSet(s) \subseteq Pending
      <4>1. CASE \E s \in strays : q \in ToSet(s)
        BY <1>1, <4>1, StraySeqs DEF Calm, ListFirst
      <4>2. CASE \E p \in Plugins : q \in ToSet(work[p].puts)
        BY <1>1, <4>2, PutsPending DEF Calm, ListFirst, Typed, WorkTyped, Puts
      <4>3. QED BY <3>1, <4>1, <4>2
    <3>3. PICK k \in 1 .. Len(s) : s[k] = q
      BY <3>2, SetOfSeq DEF PutSeq
    <3>4. ListPut(s[k], s[k].key)
      BY <2>2, <2>3, <3>3 DEF ListPut
    <3>5. s[1] = q
      BY <3>2, <3>3, <3>4 DEF ListsFirst
    <3>6. \A z \in DOMAIN q.val :
            \/ q.key \in DOMAIN namespaces /\ z \in DOMAIN namespaces[q.key]
            \/ \E r \in ToSet(s) : r.key = z
      BY <3>2, <3>4, <3>5 DEF ListsFirst
    <3>7. QED BY <2>1, <2>2, <2>3, <3>2, <3>6
  <2>4. CASE \E u : Reading(u) /\ q = Listing(u)
    <3>1. PICK u : Reading(u) /\ q = Listing(u)
      BY <2>4
    <3>2. u.key = n /\ q.val = BagRemove(namespaces[n], u.val)
      BY <2>1, <3>1, ListingIs
    <3>3. n \in DOMAIN namespaces
      BY <1>1, <3>1, <3>2, ListingMakes
    <3>4. QED BY <2>2, <3>2, <3>3, ShorterList
  <2>5. QED BY <2>3, <2>4, AheadIs
<1>4. QED BY <1>2, <1>3

(* What p draws is new to the records as they will be.                     *)
LEMMA FreshAfter ==
  ASSUME IInv, Calm, NEW p \in Plugins
  PROVE  /\ \A n \in NewNetNs(p) :
              n \in NetNs \ DOMAIN FN /\ \A z \in DOMAIN FI : FI[z].net_ns # n
         /\ \A c \in NewCps(p) :
              /\ c \in Cps \ FC /\ \A z \in DOMAIN FI : FI[z].net_ns # c
              /\ \A v \in DOMAIN vnets : c \notin DOMAIN vnets[v]
         /\ \A x \in NewIfaces(p) :
              /\ x \in Ifaces \ DOMAIN FI /\ \A z \in DOMAIN FI : FI[z].pair # x
              /\ \A n \in DOMAIN FN : x \notin DOMAIN FN[n]
<1>1. /\ Typed /\ Halves /\ Home
  BY DEF IInv, Claims, Calm
<1>2. /\ \A u \in Pool(p) : \A q \in Pending : q.key # u
      /\ \A n \in NewNetNs(p) : n \in Pool(p) /\ n \in NetNs \ DOMAIN namespaces
      /\ \A c \in NewCps(p) : c \in Pool(p) /\ c \in Cps \ cps
      /\ \A x \in NewIfaces(p) : /\ x \in Pool(p) /\ x \in Ifaces \ DOMAIN ifaces
                                 /\ \A a : ~Mates(a, x)
  BY <1>1, Drawn
<1>3. \A u \in Pool(p) :
        Kept(ifaces, FI, u) /\ Kept(namespaces, FN, u) /\ (u \in FC <=> u \in cps)
  BY <1>2, AfterSame
<1>4. ASSUME NEW u, u \notin DOMAIN namespaces \cup cps \cup {None},
             \A i \in DOMAIN ifaces : ifaces[i].net_ns # u,
             NEW z \in DOMAIN FI
      PROVE  FI[z].net_ns # u
  <2>1. CASE z \in DOMAIN ifaces /\ FI[z] = ifaces[z]
    BY <1>4, <2>1
  <2>2. CASE \E q \in Pending : IfacePut(q, z) /\ FI[z] = q.val
    <3>1. PICK q \in Pending : IfacePut(q, z) /\ FI[z] = q.val
      BY <2>2
    <3>2. IfacePut(q, q.key)
      BY <3>1 DEF IfacePut
    <3>3. QED BY <1>1, <1>4, <3>1, <3>2 DEF Home
  <2>3. QED BY <2>1, <2>2, IfacesAfter
<1>5. ASSUME NEW n \in NewNetNs(p)
      PROVE  n \in NetNs \ DOMAIN FN /\ \A z \in DOMAIN FI : FI[z].net_ns # n
  <2>1. \A i \in DOMAIN ifaces : ifaces[i].net_ns # n
    BY DEF NewNetNs, FreshNetNs
  <2>2. n \notin DOMAIN namespaces \cup cps \cup {None} /\ n \in NetNs /\ n \in Pool(p)
    BY <1>1, <1>2, Keys DEF Typed, TypeOK
  <2>3. n \notin DOMAIN FN
    BY <1>3, <2>2 DEF Kept
  <2>4. QED BY <1>4, <2>1, <2>2, <2>3
<1>6. ASSUME NEW c \in NewCps(p)
      PROVE  /\ c \in Cps \ FC /\ \A z \in DOMAIN FI : FI[z].net_ns # c
             /\ \A v \in DOMAIN vnets : c \notin DOMAIN vnets[v]
  <2>1. /\ \A i \in DOMAIN ifaces : ifaces[i].net_ns # c
        /\ \A v \in DOMAIN vnets : c \notin DOMAIN vnets[v]
    BY DEF NewCps, FreshCp
  <2>2. c \notin DOMAIN namespaces \cup cps \cup {None} /\ c \in Cps /\ c \in Pool(p)
    BY <1>1, <1>2, Keys DEF Typed, TypeOK
  <2>3. c \notin FC
    BY <1>3, <2>2
  <2>4. QED BY <1>4, <2>1, <2>2, <2>3
<1>7. ASSUME NEW x \in NewIfaces(p)
      PROVE  /\ x \in Ifaces \ DOMAIN FI /\ \A z \in DOMAIN FI : FI[z].pair # x
             /\ \A n \in DOMAIN FN : x \notin DOMAIN FN[n]
  <2>1. \A n \in DOMAIN namespaces : x \notin DOMAIN namespaces[n]
    BY DEF NewIfaces, FreshIface
  <2>2. x \notin DOMAIN FI
    BY <1>2, <1>3 DEF Kept
  <2>3. \A z \in DOMAIN FI : FI[z].pair # x
    BY <1>2, IfacesAfter DEF Mates
  <2>4. \A n \in DOMAIN FN : x \notin DOMAIN FN[n]
    BY <1>2, <2>1, SpacesAfter
  <2>5. QED BY <1>2, <2>2, <2>3, <2>4
<1>8. QED BY <1>5, <1>6, <1>7

(* Of what is an instance's that is being configured, nobody else puts.    *)
LEMMA OwnStill ==
  ASSUME IInv, NEW p \in Plugins, Puts(p) = {}, NEW i \in Instances, PluginOf[i] = p,
         ~IsConfigured(i), NEW z, Covers(i, z)
  PROVE  \A q \in Pending : q.key # z
<1>1. Typed /\ Claims /\ Calls
  BY DEF IInv
<1>2. ASSUME NEW q \in Pending, Making(q), q.key = z PROVE FALSE
  <2>1. q \in Strays \/ \E t \in Plugins : q \in Puts(t) /\ work[t].inst # i
    <3>1. ASSUME NEW t \in Plugins, q \in Puts(t) PROVE work[t].inst # i
      <4>1. t # p
        BY <3>1
      <4>2. PluginOf[work[t].inst] = t
        BY <1>2, <3>1, OwnCovers
      <4>3. QED BY <4>1, <4>2
    <3>2. QED BY <3>1, PendingIs
  <2>2. QED BY <1>1, <1>2, <2>1, Spared
<1>3. ASSUME NEW q \in Pending, ~Making(q), q.key = z PROVE FALSE
  BY <1>1, <1>3 DEF Calls, Removals
<1>4. QED BY <1>2, <1>3

-----------------------------------------------------------------------------
(* The calls of NetworkPlugin                                              *)

LEMMA NetCalls ==
  ASSUME vnets' = vnets
  PROVE  /\ \A n \in NetNs \ DOMAIN FN :
              (\A z \in DOMAIN FI : FI[z].net_ns # n)
                /\ FN' = Put(FN, n, Empty) /\ FI' = FI /\ FC' = FC =>
              Net!create_network_namespace(n)
         /\ \A n \in DOMAIN FN :
              FN' = Drop(FN, {n}) /\ FI' = FI /\ FC' = FC =>
              Net!delete_network_namespace(n)
         /\ \A c \in Cps \ FC :
              (\A z \in DOMAIN FI : FI[z].net_ns # c)
                /\ (\A v \in DOMAIN vnets : c \notin DOMAIN vnets[v])
                /\ FC' = FC \cup {c} /\ FI' = FI /\ FN' = FN =>
              Net!create_connection_point(c)
         /\ \A c \in FC :
              FC' = FC \ {c} /\ FI' = FI /\ FN' = FN =>
              Net!delete_connection_point(c)
<1>1. ASSUME NEW n \in NetNs \ DOMAIN FN, \A z \in DOMAIN FI : FI[z].net_ns # n,
             FN' = Put(FN, n, Empty), FI' = FI, FC' = FC
      PROVE  Net!create_network_namespace(n)
  BY <1>1 DEF Net!create_network_namespace, Net!FreshNetNs, Net!Put, Net!Empty,
              Put, Empty, FI, FN, FC
<1>2. ASSUME NEW n \in DOMAIN FN, FN' = Drop(FN, {n}), FI' = FI, FC' = FC
      PROVE  Net!delete_network_namespace(n)
  BY <1>2 DEF Net!delete_network_namespace, Net!Drop, Drop, FI, FN, FC
<1>3. ASSUME NEW c \in Cps \ FC, \A z \in DOMAIN FI : FI[z].net_ns # c,
             \A v \in DOMAIN vnets : c \notin DOMAIN vnets[v],
             FC' = FC \cup {c}, FI' = FI, FN' = FN
      PROVE  Net!create_connection_point(c)
  BY <1>3 DEF Net!create_connection_point, Net!FreshCp, FI, FN, FC
<1>4. ASSUME NEW c \in FC, FC' = FC \ {c}, FI' = FI, FN' = FN
      PROVE  Net!delete_connection_point(c)
  BY <1>4 DEF Net!delete_connection_point, FI, FN, FC
<1>5. QED BY <1>1, <1>2, <1>3, <1>4

LEMMA NetBags ==
  /\ \A B, x : Net!BagAdd(B, x) = BagAdd(B, x)
  /\ \A B, x : Net!BagRemove(B, x) = BagRemove(B, x)
BY DEF Net!BagAdd, BagAdd, Net!BagRemove, BagRemove

LEMMA NetIfaceCalls ==
  ASSUME vnets' = vnets, FC' = FC
  PROVE  /\ \A x \in DOMAIN FI :
              FI' = Drop(FI, {x, FI[x].pair}) /\ FN' = FN =>
              Net!delete_virtual_interface(x)
         /\ \A x \in DOMAIN FI, c \in FC :
              FI' = [FI EXCEPT ![x].net_ns = c] /\ FN' = FN =>
              Net!bind_interface_to_connection_point(x, c)
         /\ \A x \in DOMAIN FI : \A n \in DOMAIN FN :
              FI[x].net_ns = n /\ n # None /\ FI' = [FI EXCEPT ![x].net_ns = None]
                /\ FN' = Put(FN, n, BagRemove(FN[n], x)) =>
              Net!move_interface_into_default_namespace(x)
<1>1. ASSUME NEW x \in DOMAIN FI, FI' = Drop(FI, {x, FI[x].pair}), FN' = FN
      PROVE  Net!delete_virtual_interface(x)
  BY <1>1 DEF Net!delete_virtual_interface, Net!Drop, Drop, FI, FN, FC
<1>2. ASSUME NEW x \in DOMAIN FI, NEW c \in FC,
             FI' = [FI EXCEPT ![x].net_ns = c], FN' = FN
      PROVE  Net!bind_interface_to_connection_point(x, c)
  BY <1>2 DEF Net!bind_interface_to_connection_point, Net!SetNetNs, FI, FN, FC
<1>3. ASSUME NEW x \in DOMAIN FI, NEW n \in DOMAIN FN, FI[x].net_ns = n, n # None,
             FI' = [FI EXCEPT ![x].net_ns = None], FN' = Put(FN, n, BagRemove(FN[n], x))
      PROVE  Net!move_interface_into_default_namespace(x)
  BY <1>3, NetBags DEF Net!move_interface_into_default_namespace, Net!SetNetNs, Net!Put, Put,
              FI, FN, FC
<1>4. QED BY <1>1, <1>2, <1>3

LEMMA NetVethCall ==
  ASSUME vnets' = vnets, FC' = FC, IInv, Calm,
         NEW x \in Ifaces \ DOMAIN FI, NEW y \in Ifaces \ DOMAIN FI, x # y,
         \A z \in DOMAIN FI : FI[z].pair # x /\ FI[z].pair # y,
         \A n \in DOMAIN FN : x \notin DOMAIN FN[n] /\ y \notin DOMAIN FN[n],
         NEW n \in DOMAIN FN,
         FN' = Put(FN, n, BagAdd(BagAdd(FN[n], x), y)),
         FI' = Put(Put(FI, x, Interface("VETH", n, y)), y, Interface("VETH", n, x))
  PROVE  Net!create_veth_in_namespace(x, y, n)
<1>1. \A z \in DOMAIN FI :
        /\ FI[z].parent = None /\ DOMAIN FI[z].childs = {}
  BY IfacesAfter DEF VethRecord, Empty
<1>2. x # None /\ y # None
  BY Keys
<1>3. ASSUME NEW u \in Ifaces \ DOMAIN FI, u # None, \A z \in DOMAIN FI : FI[z].pair # u,
             \A m \in DOMAIN FN : u \notin DOMAIN FN[m]
      PROVE  Net!FreshIface(u)
  BY <1>1, <1>3 DEF Net!FreshIface, FI, FN, FC
<1>4. Net!FreshIface(x) /\ Net!FreshIface(y)
  BY <1>2, <1>3
<1>5. QED BY <1>4, NetBags DEF Net!create_veth_in_namespace, Net!VethPair, Net!Put, Net!Interface,
                      Net!Empty, Put, Interface, Empty, FI, FN, FC

(* A put that is ahead is as good as made.                                 *)
LEMMA AfterPut ==
  ASSUME NEW f, NEW P, NEW q, Agree(P \cup {q})
  PROVE  After(f, P \cup {q}) = Store(After(f, P), q)
BY AfterMaking, AfterRemoving DEF Store, Making

LEMMA KeysPut ==
  ASSUME NEW S, NEW P, NEW q, Agree(P \cup {q})
  PROVE  KeysAfter(S, P \cup {q}) =
           IF Making(q) THEN KeysAfter(S, P) \cup {q.key} ELSE KeysAfter(S, P) \ {q.key}
<1>1. \A r \in P : r.key = q.key => (Making(r) <=> Making(q))
  BY DEF Agree, Making
<1>2. ASSUME NEW k
      PROVE  k \in KeysAfter(S, P \cup {q}) <=>
               IF Making(q) THEN k \in KeysAfter(S, P) \cup {q.key}
                            ELSE k \in KeysAfter(S, P) \ {q.key}
  <2>1. CASE k = q.key
    BY <1>1, <2>1, KeysAfterAre
  <2>2. CASE k # q.key
    BY <2>2, KeysAfterAre
  <2>3. QED BY <2>1, <2>2
<1>3. QED BY <1>2

(* Plugin p goes on with one put.                                          *)
LEMMA OneAhead ==
  ASSUME Typed, IInv', Calm', NEW p \in Plugins, NEW v, GoesOn(p, v),
         NEW q, ToSet(v.puts) = {q}, q.store # "unlist"
  PROVE  /\ FI' = IF q.store = "ifaces" THEN Store(FI, q) ELSE FI
         /\ FN' = IF q.store = "namespaces" THEN Store(FN, q) ELSE FN
         /\ FC' = IF q.store # "cps" THEN FC
                  ELSE IF Making(q) THEN FC \cup {q.key} ELSE FC \ {q.key}
<1>1. /\ Agree(Ahead("ifaces")') /\ Agree(Ahead("namespaces")') /\ Agree(Ahead("cps")')
      /\ ifaces' = ifaces /\ namespaces' = namespaces /\ cps' = cps
  BY AgreeNext, GoesOnIs DEF Agree
<1>2. /\ \A store \in {"ifaces", "cps"} :
           Ahead(store)' = Ahead(store) \cup {r \in {q} : r.store = store}
      /\ Ahead("namespaces")' =
           Ahead("namespaces") \cup {r \in {q} : r.store = "namespaces"}
             \cup {Listing(u) : u \in {r \in {q} : r.store = "unlist" /\ Unlistable(r)}}
  BY AheadGoesOn
<1>3. /\ \A store \in {"ifaces", "cps"} :
           Ahead(store)' = IF q.store = store THEN Ahead(store) \cup {q} ELSE Ahead(store)
      /\ Ahead("namespaces")' = IF q.store = "namespaces" THEN Ahead("namespaces") \cup {q}
                                                          ELSE Ahead("namespaces")
  BY <1>2
<1>4. FI' = After(ifaces, Ahead("ifaces")')
  BY <1>1 DEF FI, After, KeysAfter
<1>5. FN' = After(namespaces, Ahead("namespaces")')
  BY <1>1 DEF FN, After, KeysAfter
<1>6. FC' = KeysAfter(cps, Ahead("cps")')
  BY <1>1 DEF FC, KeysAfter
<1>7. FI' = IF q.store = "ifaces" THEN Store(FI, q) ELSE FI
  BY <1>1, <1>3, <1>4, AfterPut DEF FI
<1>8. FN' = IF q.store = "namespaces" THEN Store(FN, q) ELSE FN
  BY <1>1, <1>3, <1>5, AfterPut DEF FN
<1>9. FC' = IF q.store # "cps" THEN FC
            ELSE IF Making(q) THEN FC \cup {q.key} ELSE FC \ {q.key}
  <2>1. CASE q.store # "cps"
    BY <1>3, <1>6, <2>1 DEF FC
  <2>2. CASE q.store = "cps"
    <3>1. Ahead("cps")' = Ahead("cps") \cup {q}
      BY <1>3, <2>2
    <3>2. Agree(Ahead("cps") \cup {q})
      BY <1>1, <3>1
    <3>3. KeysAfter(cps, Ahead("cps") \cup {q}) =
            IF Making(q) THEN KeysAfter(cps, Ahead("cps")) \cup {q.key}
                         ELSE KeysAfter(cps, Ahead("cps")) \ {q.key}
      BY <3>2, KeysPut
    <3>4. FC' = KeysAfter(cps, Ahead("cps") \cup {q})
      BY <1>6, <3>1
    <3>5. QED BY <2>2, <3>3, <3>4 DEF FC
  <2>3. QED BY <2>1, <2>2
<1>10. QED BY <1>7, <1>8, <1>9

(* Nothing is put, and nothing changes.                                    *)
LEMMA NothingAhead ==
  ASSUME UNCHANGED netVars, \A q : q \in Pending' <=> q \in Pending
  PROVE  UNCHANGED AllAfter
<1>1. ifaces' = ifaces /\ namespaces' = namespaces /\ cps' = cps /\ Pending' = Pending
  BY StoresSame
<1>2. QED BY <1>1 DEF AllAfter, Ahead, After, KeysAfter, Unlistable, PutOf

-----------------------------------------------------------------------------
(* A call takes effect when it begins                                      *)

(* What the calls of plugin p act on is what it is about to put.           *)
LEMMA CallIs ==
  ASSUME NEW p \in Plugins, NEW v, work[p].puts = <<>>, work'[p] = v,
         NEW U, \A u \in U : \E r \in ToSet(v.puts) : r.key = u
  PROVE  /\ \A n \in U \cap NetNs :
              Net!create_network_namespace(n) \/ Net!delete_network_namespace(n)
                => NetworkCall(p)
         /\ \A n \in U \cap NetNs : \A i, j \in U \cap Ifaces :
              Net!create_veth_in_namespace(i, j, n) => NetworkCall(p)
         /\ \A c \in U \cap Cps :
              Net!create_connection_point(c) \/ Net!delete_connection_point(c)
                => NetworkCall(p)
         /\ \A i \in U \cap Ifaces :
              /\ Net!delete_virtual_interface(i) => NetworkCall(p)
              /\ Net!move_interface_into_default_namespace(i) => NetworkCall(p)
              /\ \A c \in cps :
                   Net!bind_interface_to_connection_point(i, c) => NetworkCall(p)
<1>1. PICK V : V = {r.key : r \in ToSet(work'[p].puts)}
  OBVIOUS
<1>2. U \subseteq V
  BY <1>1
<1>3. ASSUME NEW n \in U \cap NetNs,
             Net!create_network_namespace(n) \/ Net!delete_network_namespace(n)
      PROVE  NetworkCall(p)
  BY <1>1, <1>2, <1>3, Zenon DEF NetworkCall
<1>4. ASSUME NEW n \in U \cap NetNs, NEW i \in U \cap Ifaces, NEW j \in U \cap Ifaces,
             Net!create_veth_in_namespace(i, j, n)
      PROVE  NetworkCall(p)
  BY <1>1, <1>2, <1>4, Zenon DEF NetworkCall
<1>5. ASSUME NEW c \in U \cap Cps,
             Net!create_connection_point(c) \/ Net!delete_connection_point(c)
      PROVE  NetworkCall(p)
  BY <1>1, <1>2, <1>5, Zenon DEF NetworkCall
<1>6. ASSUME NEW i \in U \cap Ifaces,
             \/ Net!delete_virtual_interface(i)
             \/ Net!move_interface_into_default_namespace(i)
             \/ \E c \in cps : Net!bind_interface_to_connection_point(i, c)
      PROVE  NetworkCall(p)
  BY <1>1, <1>2, <1>6, Zenon DEF NetworkCall
<1>7. QED BY <1>3, <1>4, <1>5, <1>6

(* What plugin p goes on with is all that claims change for.               *)
LEMMA ClaimsGoOn ==
  ASSUME Typed, NEW p \in Plugins, NEW v, GoesOn(p, v), rec' = rec
  PROVE  \A i \in Instances :
           /\ PluginOf[i] # p => Claim(i)' = Claim(i)
           /\ PluginOf[i] = p /\ i # v.inst => Claim(i)' \subseteq Claim(i)
<1>1. work'[p] = v /\ \A r \in Plugins \ {p} : work'[r] = work[r]
  BY GoesOnIs
<1>2. ASSUME NEW i \in Instances, PluginOf[i] # p PROVE Claim(i)' = Claim(i)
  <2>1. PluginOf[i] \in Plugins
    BY InstanceAssumption
  <2>2. QED BY <1>1, <1>2, <2>1, ClaimStays
<1>3. ASSUME NEW i \in Instances, PluginOf[i] = p, i # v.inst
      PROVE  Claim(i)' \subseteq Claim(i)
  <2>1. ~Building(i)'
    BY <1>1, <1>3 DEF Building
  <2>2. QED BY <2>1, ClaimDropped
<1>4. QED BY <1>2, <1>3

(* The operation of p, which configures, goes on with v and draws u.       *)
LEMMA BuildingGoesOn ==
  ASSUME IInv, NEW p \in Plugins, work[p].pc \in {"namespace", "create", "attach"},
         NEW w, w = work[p], NEW v, GoesOn(p, v), rec' = rec,
         v.inst = w.inst, v.pc \in {"namespace", "create", "attach"},
         NEW u, u \notin DOMAIN namespaces \cup cps,
         v.netns \in {w.netns, u},
         \A a \in DOMAIN v.cps : v.cps[a] \in Made(p) \cup {u},
         ToSet(v.intfs) \subseteq ToSet(w.intfs) \cup {u}
  PROVE  \A i \in Instances :
           /\ PluginOf[i] # p => Claim(i)' = Claim(i)
           /\ \A z \in Claim(i)' :
                z \in Claim(i) \/ z \notin DOMAIN namespaces \cup cps \cup {None}
<1>0. PICK i : i = w.inst
  OBVIOUS
<1>1. /\ Typed /\ i \in Instances /\ PluginOf[i] = p /\ ~IsConfigured(i)
      /\ Claim(i) = ({w.netns} \cup Made(p) \cup ToSet(w.intfs)) \ {None}
  BY <1>0, Before DEF GoesOn
<1>2. work'[p] = v
  BY <1>1, GoesOnIs
<1>3. Claim(i)' = ({v.netns} \cup Made(p)' \cup ToSet(v.intfs)) \ {None}
  BY <1>0, <1>1, <1>2, ClaimNow
<1>4. Made(p)' \subseteq Made(p) \cup {u}
  BY <1>2 DEF Made
<1>5. Claim(i)' \subseteq Claim(i) \cup {u} /\ None \notin Claim(i)'
  BY <1>1, <1>3, <1>4
<1>6. ASSUME NEW j \in Instances, NEW z \in Claim(j)'
      PROVE  z \in Claim(j) \/ z \notin DOMAIN namespaces \cup cps \cup {None}
  <2>1. CASE j = i
    BY <1>5, <1>6, <2>1
  <2>2. CASE j # i
    BY <1>0, <1>1, <1>6, <2>2, ClaimsGoOn
  <2>3. QED BY <2>1, <2>2
<1>7. QED BY <1>1, <1>6, ClaimsGoOn

LEMMA ListsOne ==
  ASSUME NEW q, ListPut(q, q.key) => DOMAIN q.val = {}
  PROVE  ListsFirst(<<q>>)
BY DEF ListsFirst

(* What is refused is no call.                                             *)
LEMMA RefusedCall ==
  ASSUME IInv, Calm, NEW p \in Plugins, work[p].puts = <<>>, Refused(p)
  PROVE  Calm' /\ UNCHANGED AllAfter
<1>1. /\ Typed /\ GoesOn(p, Idle) /\ rec' = rec /\ UNCHANGED netVars
  BY DEF IInv, Refused, callVars, GoesOn
<1>2. work'[p] = Idle
  BY <1>1, GoesOnIs
<1>3. \A i \in Instances :
        /\ PluginOf[i] # p => Claim(i)' = Claim(i)
        /\ Claim(i)' \subseteq Claim(i)
  <2>1. ASSUME NEW i \in Instances, PluginOf[i] = p PROVE Claim(i)' \subseteq Claim(i)
    <3>1. ~Building(i)'
      BY <1>2, <2>1, IdleWork DEF Building
    <3>2. QED BY <1>1, <3>1, ClaimDropped
  <2>2. QED BY <1>1, <2>1, ClaimsGoOn
<1>4. Calm' /\ Pending' = Pending
  BY <1>1, <1>3, QuietCalm, IdleIs
<1>5. QED BY <1>1, <1>4, NothingAhead

LEMMA CreateNamespaceCall ==
  ASSUME IInv, Calm, NEW p \in Plugins, CreateNamespace(p)
  PROVE  Calm' /\ NetworkCall(p)
<1>1. PICK w, n, q, v :
        /\ w = work[p] /\ n = NextNetNs(p) /\ q = PutOf("namespaces", n, Empty)
        /\ v = [[w EXCEPT !.pc = "create", !.netns = n] EXCEPT !.puts = <<q>>]
  OBVIOUS
<1>2. /\ w.pc = "namespace" /\ work[p].puts = <<>> /\ NewNetNs(p) # {}
      /\ work' = [work EXCEPT ![p] = v]
      /\ UNCHANGED <<failed, netVars, rec, strays, faults>>
  BY <1>1 DEF CreateNamespace, At, Call, Advance, callVars
<1>3. Typed /\ WorkTyped(p) /\ IInv'
  BY CreateNamespaceHolds DEF IInv, Typed
<1>4. /\ v.pc = "create" /\ v.inst = w.inst /\ v.netns = n /\ v.cps = w.cps
      /\ v.intfs = w.intfs /\ v.puts = <<q>>
  BY <1>1, <1>3, IdleIs DEF WorkTyped
<1>5. GoesOn(p, v) /\ work'[p] = v /\ vnets' = vnets
  <2>1. GoesOn(p, v)
    BY <1>2 DEF GoesOn
  <2>2. QED BY <1>3, <2>1, GoesOnIs
<1>6. /\ n \in NewNetNs(p) /\ n \in NetNs \ DOMAIN FN
      /\ (\A z \in DOMAIN FI : FI[z].net_ns # n)
      /\ n \in NetNs \ DOMAIN namespaces /\ n \notin cps
  <2>1. n \in NewNetNs(p)
    BY <1>1, <1>2, NextOnes
  <2>2. n \in NetNs \ DOMAIN namespaces /\ n \notin cps
    BY <1>3, <2>1, Keys DEF NewNetNs, FreshNetNs, Typed, TypeOK
  <2>3. QED BY <2>1, <2>2, FreshAfter
<1>7. /\ q.store = "namespaces" /\ q.key = n /\ q.val = Empty /\ Making(q)
      /\ IsPut(q) /\ ~IfacePut(q, q.key) /\ DOMAIN q.val = {}
  BY <1>1, <1>6, ListsAre, ListPuts, IdleIs DEF PutOf, Making, IfacePut
<1>8. ToSet(v.puts) = {q}
  BY <1>4, <1>7, OnePut
<1>9. Calm'
  <2>1. FitsIn(v)
    BY <1>7, <1>8 DEF FitsIn
  <2>2. ListsFirst(v.puts)
    BY <1>4, <1>7, ListsOne
  <2>3. \A a \in DOMAIN v.cps : v.cps[a] \in Made(p) \cup {n}
    BY <1>1, <1>4 DEF Made
  <2>4. \A i \in Instances :
           /\ PluginOf[i] # p => Claim(i)' = Claim(i)
           /\ \A z \in Claim(i)' :
                z \in Claim(i) \/ z \notin DOMAIN namespaces \cup cps \cup {None}
    <3>1. /\ w = work[p] /\ work[p].pc \in {"namespace", "create", "attach"} /\ rec' = rec
          /\ v.inst = w.inst /\ v.pc \in {"namespace", "create", "attach"}
      BY <1>1, <1>2, <1>4
    <3>2. /\ n \notin DOMAIN namespaces \cup cps /\ v.netns \in {w.netns, n}
          /\ ToSet(v.intfs) \subseteq ToSet(w.intfs) \cup {n}
      BY <1>4, <1>6
    <3>3. QED BY <1>5, <2>3, <3>1, <3>2, BuildingGoesOn
  <2>5. QED BY <1>5, <2>1, <2>2, <2>4, GoesOnCalm
<1>10. FN' = Put(FN, n, Empty) /\ FI' = FI /\ FC' = FC
  BY <1>3, <1>5, <1>7, <1>8, <1>9, OneAhead DEF Store, Making
<1>11. Net!create_network_namespace(n)
  BY <1>5, <1>6, <1>10, NetCalls
<1>12. QED
  <2>1. \A u \in {n} : \E r \in ToSet(v.puts) : r.key = u
    BY <1>7, <1>8
  <2>2. n \in {n} \cap NetNs
    BY <1>6
  <2>3. NetworkCall(p)
    BY <1>2, <1>5, <1>11, <2>1, <2>2, CallIs
  <2>4. QED BY <1>9, <2>3

LEMMA CreateConnectionPointCall ==
  ASSUME IInv, Calm, NEW p \in Plugins, CreateConnectionPoint(p)
  PROVE  Calm' /\ NetworkCall(p)
<1>1. PICK w, c, q, v, f :
        /\ w = work[p] /\ c = NextCp(p) /\ q = PutOf("cps", c, c)
        /\ f = Put(w.cps, CpsOf[w.inst][w.k], c)
        /\ v = [[w EXCEPT !.k = @ + 1, !.cps = f] EXCEPT !.puts = <<q>>]
  OBVIOUS
<1>2. /\ w.pc = "create" /\ work[p].puts = <<>> /\ NewCps(p) # {}
      /\ work' = [work EXCEPT ![p] = v]
      /\ UNCHANGED <<failed, netVars, rec, strays, faults>>
  BY <1>1 DEF CreateConnectionPoint, At, Call, Advance, callVars
<1>3. Typed /\ WorkTyped(p) /\ IInv'
  BY CreateConnectionPointHolds DEF IInv, Typed
<1>4. /\ v.pc = "create" /\ v.inst = w.inst /\ v.netns = w.netns /\ v.cps = f
      /\ v.intfs = w.intfs /\ v.puts = <<q>>
  BY <1>1, <1>2, <1>3, IdleIs DEF WorkTyped
<1>5. GoesOn(p, v) /\ work'[p] = v /\ vnets' = vnets
  <2>1. GoesOn(p, v)
    BY <1>2 DEF GoesOn
  <2>2. QED BY <1>3, <2>1, GoesOnIs
<1>6. /\ c \in NewCps(p) /\ c \in Cps \ FC
      /\ (\A z \in DOMAIN FI : FI[z].net_ns # c)
      /\ (\A a \in DOMAIN vnets : c \notin DOMAIN vnets[a])
      /\ c \in Cps \ cps /\ c \notin DOMAIN namespaces /\ c # None
  <2>1. c \in NewCps(p)
    BY <1>1, <1>2, NextOnes
  <2>2. c \in Cps \ cps /\ c \notin DOMAIN namespaces /\ c # None
    BY <1>3, <2>1, Keys DEF NewCps, FreshCp, Typed, TypeOK
  <2>3. QED BY <2>1, <2>2, FreshAfter
<1>7. /\ q.store = "cps" /\ q.key = c /\ q.val = c /\ Making(q)
      /\ IsPut(q) /\ ~IfacePut(q, q.key) /\ ~ListPut(q, q.key)
  BY <1>1, <1>6 DEF PutOf, Making, IsPut, IfacePut, ListPut
<1>8. ToSet(v.puts) = {q}
  BY <1>4, <1>7, OnePut
<1>9. Calm'
  <2>1. FitsIn(v)
    BY <1>7, <1>8 DEF FitsIn
  <2>2. ListsFirst(v.puts)
    BY <1>4, <1>7, ListsOne
  <2>3. \A a \in DOMAIN v.cps : v.cps[a] \in Made(p) \cup {c}
    <3>1. \A a \in DOMAIN v.cps : v.cps[a] = c \/ (a \in DOMAIN w.cps /\ v.cps[a] = w.cps[a])
      BY <1>1, <1>4 DEF Put
    <3>2. QED BY <1>1, <3>1 DEF Made
  <2>4. \A i \in Instances :
           /\ PluginOf[i] # p => Claim(i)' = Claim(i)
           /\ \A z \in Claim(i)' :
                z \in Claim(i) \/ z \notin DOMAIN namespaces \cup cps \cup {None}
    <3>1. /\ w = work[p] /\ work[p].pc \in {"namespace", "create", "attach"} /\ rec' = rec
          /\ v.inst = w.inst /\ v.pc \in {"namespace", "create", "attach"}
      BY <1>1, <1>2, <1>4
    <3>2. /\ c \notin DOMAIN namespaces \cup cps /\ v.netns \in {w.netns, c}
          /\ ToSet(v.intfs) \subseteq ToSet(w.intfs) \cup {c}
      BY <1>4, <1>6
    <3>3. QED BY <1>5, <2>3, <3>1, <3>2, BuildingGoesOn
  <2>5. QED BY <1>5, <2>1, <2>2, <2>4, GoesOnCalm
<1>10. FC' = FC \cup {c} /\ FI' = FI /\ FN' = FN
  BY <1>3, <1>5, <1>7, <1>8, <1>9, OneAhead
<1>11. Net!create_connection_point(c)
  BY <1>5, <1>6, <1>10, NetCalls
<1>12. QED
  <2>1. \A u \in {c} : \E r \in ToSet(v.puts) : r.key = u
    BY <1>7, <1>8
  <2>2. c \in {c} \cap Cps
    BY <1>6
  <2>3. NetworkCall(p)
    BY <1>2, <1>5, <1>11, <2>1, <2>2, CallIs
  <2>4. QED BY <1>9, <2>3

(* What is ahead, and agrees, once p goes on with v.                       *)
LEMMA AfterGoesOn ==
  ASSUME Typed, IInv', Calm', NEW p \in Plugins, NEW v, GoesOn(p, v),
         NEW RI, RI = {r \in ToSet(v.puts) : r.store = "ifaces"},
         NEW RL, RL = {r \in ToSet(v.puts) : r.store = "namespaces"} \cup
                      {Listing(u) : u \in {r \in ToSet(v.puts) :
                                             r.store = "unlist" /\ Unlistable(r)}},
         \A r \in ToSet(v.puts) : r.store # "cps"
  PROVE  /\ FI' = After(ifaces, Ahead("ifaces") \cup RI)
         /\ Agree(Ahead("ifaces") \cup RI)
         /\ FN' = After(namespaces, Ahead("namespaces") \cup RL)
         /\ Agree(Ahead("namespaces") \cup RL)
         /\ FC' = FC
<1>1. /\ Agree(Ahead("ifaces")') /\ Agree(Ahead("namespaces")')
      /\ ifaces' = ifaces /\ namespaces' = namespaces /\ cps' = cps
  BY AgreeNext, GoesOnIs DEF Agree
<1>2. /\ \A store \in {"ifaces", "cps"} :
           Ahead(store)' = Ahead(store) \cup {r \in ToSet(v.puts) : r.store = store}
      /\ Ahead("namespaces")' = Ahead("namespaces") \cup RL
  BY AheadGoesOn
<1>3. /\ Ahead("ifaces")' = Ahead("ifaces") \cup RI
      /\ Ahead("cps")' = Ahead("cps")
  BY <1>2
<1>4. FI' = After(ifaces, Ahead("ifaces")')
  BY <1>1 DEF FI, After, KeysAfter
<1>5. FN' = After(namespaces, Ahead("namespaces")')
  BY <1>1 DEF FN, After, KeysAfter
<1>6. FC' = KeysAfter(cps, Ahead("cps")')
  BY <1>1 DEF FC, KeysAfter
<1>7. QED BY <1>1, <1>2, <1>3, <1>4, <1>5, <1>6 DEF FC

LEMMA AfterTwo ==
  ASSUME NEW f, NEW P, NEW q, NEW r, Agree(P \cup {q, r})
  PROVE  After(f, P \cup {q, r}) = Store(Store(After(f, P), q), r)
<1>1. Agree(P \cup {q}) /\ P \cup {q, r} = (P \cup {q}) \cup {r}
  BY DEF Agree
<1>2. After(f, (P \cup {q}) \cup {r}) = Store(After(f, P \cup {q}), r)
  BY <1>1, AfterPut
<1>3. After(f, P \cup {q}) = Store(After(f, P), q)
  BY <1>1, AfterPut
<1>4. QED BY <1>1, <1>2, <1>3

LEMMA CreateInterfaceCall ==
  ASSUME IInv, Calm, NEW p \in Plugins, CreateInterface(p)
  PROVE  Calm' /\ (NetworkCall(p) \/ UNCHANGED AllAfter)
<1>1. PICK w, n, x, y, L, q1, q2, q3, v, i :
        /\ w = work[p] /\ n = w.netns /\ i = w.inst
        /\ x = NextIface(p) /\ y = NextPair(p)
        /\ L = BagAdd(BagAdd(namespaces[n], x), y)
        /\ q1 = PutOf("namespaces", n, L)
        /\ q2 = PutOf("ifaces", x, Interface("VETH", n, y))
        /\ q3 = PutOf("ifaces", y, Interface("VETH", n, x))
        /\ v = [[w EXCEPT !.pc = "attach", !.pair = y, !.intfs = Append(@, x)]
                  EXCEPT !.puts = <<q1, q2, q3>>]
  OBVIOUS
<1>2. /\ w.pc = "create" /\ work[p].puts = <<>> /\ work[p].pc \in {"namespace", "create", "attach"}
      /\ NewIfaces(p) \ {NextIface(p)} # {}
  BY <1>1 DEF CreateInterface, At
<1>3. CASE n \notin DOMAIN namespaces
  <2>1. Refused(p)
    BY <1>1, <1>3 DEF CreateInterface
  <2>2. QED BY <1>2, <2>1, RefusedCall
<1>4. CASE n \in DOMAIN namespaces
  <2>1. /\ work' = [work EXCEPT ![p] = v]
        /\ UNCHANGED <<failed, netVars, rec, strays, faults>>
    BY <1>1, <1>4 DEF CreateInterface, VethPuts, Call, Advance, callVars
  <2>2. /\ Typed /\ WorkTyped(p) /\ IInv'
        /\ i \in Instances /\ PluginOf[i] = p /\ ~IsConfigured(i) /\ Puts(p) = {}
        /\ Claim(i) = ({w.netns} \cup Made(p) \cup ToSet(w.intfs)) \ {None}
    BY <1>1, <1>2, Before, CreateInterfaceHolds
  <2>3. /\ v.pc = "attach" /\ v.inst = i /\ v.netns = n /\ v.cps = w.cps
        /\ v.intfs = Append(w.intfs, x) /\ v.puts = <<q1, q2, q3>>
    BY <1>1, <2>2, IdleIs DEF WorkTyped
  <2>4. GoesOn(p, v) /\ work'[p] = v /\ vnets' = vnets
    <3>1. GoesOn(p, v)
      BY <1>2, <2>1 DEF GoesOn
    <3>2. QED BY <2>2, <3>1, GoesOnIs
  <2>5. /\ n \in NetNs /\ n # None /\ n \in Claim(i) /\ Covers(i, n)
        /\ n \in DOMAIN FN /\ FN[n] = namespaces[n]
    <3>1. n \in NetNs /\ n # None
      BY <1>4, <2>2, Keys DEF Typed, TypeOK
    <3>2. n \in Claim(i) /\ Covers(i, n)
      BY <1>1, <2>2, <3>1 DEF Covers
    <3>3. \A q \in Pending : q.key # n
      BY <2>2, <3>2, OwnStill
    <3>4. Kept(namespaces, FN, n)
      BY <3>3, AfterSame
    <3>5. QED BY <1>4, <3>1, <3>2, <3>4 DEF Kept
  <2>6. /\ x \in NewIfaces(p) /\ y \in NewIfaces(p) /\ x # y
        /\ x \in Ifaces \ DOMAIN FI /\ y \in Ifaces \ DOMAIN FI
        /\ (\A z \in DOMAIN FI : FI[z].pair # x /\ FI[z].pair # y)
        /\ \A m \in DOMAIN FN : x \notin DOMAIN FN[m] /\ y \notin DOMAIN FN[m]
    BY <1>1, <1>2, NextOnes, FreshAfter
  <2>7. x # n /\ y # n /\ x \notin DOMAIN namespaces \cup cps
    BY <2>2, <2>5, <2>6, Keys DEF Typed, TypeOK
  <2>8. L \in Lists /\ DOMAIN L = DOMAIN namespaces[n] \cup {x, y}
    <3> DEFINE B == BagAdd(namespaces[n], x)
    <3>1. IsList(namespaces[n], Ifaces)
      BY <1>4, <2>2 DEF Typed, TypeOK
    <3>2. B \in Lists /\ DOMAIN B = DOMAIN namespaces[n] \cup {x}
      BY <2>6, <3>1, AddList
    <3>3. IsList(B, Ifaces)
      BY <3>2, ListsAre
    <3> HIDE DEF B
    <3>4. BagAdd(B, y) \in Lists /\ DOMAIN BagAdd(B, y) = DOMAIN B \cup {y}
      BY <2>6, <3>3, AddList
    <3>5. L = BagAdd(B, y)
      BY <1>1 DEF B
    <3>6. QED BY <3>2, <3>4, <3>5
  <2>9. /\ q1.store = "namespaces" /\ q1.key = n /\ q1.val = L
        /\ Making(q1) /\ IsPut(q1) /\ \A a : ~IfacePut(q1, a)
    BY <1>1, <2>5, <2>8, ListsAre, ListPuts DEF PutOf, Making, IfacePut
  <2>10. /\ q2.store = "ifaces" /\ q2.key = x /\ q2.val = Interface("VETH", n, y)
         /\ q2.val \in VethRecord /\ q2.val.net_ns = n
         /\ q3.store = "ifaces" /\ q3.key = y /\ q3.val = Interface("VETH", n, x)
         /\ q3.val \in VethRecord /\ q3.val.net_ns = n
    BY <1>1, <2>5, <2>6, VethMade DEF PutOf
  <2>11. Making(q2) /\ IsPut(q2) /\ Making(q3) /\ IsPut(q3)
    BY <2>6, <2>10, VethAre DEF Making, IsPut
  <2>12. ToSet(v.puts) = {q1, q2, q3}
    <3>1. /\ q1.key # q2.key /\ q1.key # q3.key /\ q2.key # q3.key
          /\ q1.store # "unlist" /\ q2.store # "unlist"
      BY <2>6, <2>7, <2>9, <2>10
    <3>2. QED BY <2>3, <2>9, <2>11, <3>1, ThreePuts
  <2>13. Calm'
    <3>1. Made(p)' = Made(p)
      BY <1>1, <2>3, <2>4 DEF Made
    <3>2. n \in Claim(v.inst)'
      <4>1. Claim(i)' = ({v.netns} \cup Made(p)' \cup ToSet(v.intfs)) \ {None}
        <5>1. /\ rec'[i] = rec[i] /\ p = PluginOf[i] /\ v = work'[p]
              /\ v.inst = i /\ v.pc \in {"namespace", "create", "attach"}
          BY <2>1, <2>2, <2>3, <2>4
        <5>2. QED BY <2>2, <5>1, ClaimNow
      <4>2. n \in Claim(i)'
        BY <2>3, <2>5, <4>1
      <4>3. QED BY <2>3, <4>2
    <3>3. FitsIn(v)
      BY <1>4, <2>9, <2>10, <2>11, <2>12, <3>2 DEF FitsIn
    <3>4. ListsFirst(v.puts)
      <4>1. /\ Len(v.puts) = 3 /\ v.puts[1] = q1 /\ v.puts[2] = q2 /\ v.puts[3] = q3
        BY <2>3
      <4>2. ~ListPut(q2, q2.key) /\ ~ListPut(q3, q3.key)
        BY <2>10 DEF ListPut
      <4>3. \A z \in DOMAIN q1.val :
              \/ q1.key \in DOMAIN namespaces /\ z \in DOMAIN namespaces[q1.key]
              \/ \E r \in ToSet(v.puts) : r.key = z
        BY <1>4, <2>8, <2>9, <2>10, <2>12
      <4>4. \A k \in 1 .. Len(v.puts) : k = 1 \/ ~ListPut(v.puts[k], v.puts[k].key)
        BY <4>1, <4>2
      <4>5. QED BY <4>1, <4>3, <4>4 DEF ListsFirst
    <3>5. \A a \in DOMAIN v.cps : v.cps[a] \in Made(p) \cup {x}
      BY <1>1, <2>3 DEF Made
    <3>6. ToSet(v.intfs) \subseteq ToSet(w.intfs) \cup {x}
      <4>1. w.intfs \in Seq(Ifaces)
        BY <1>1, <2>2 DEF WorkTyped
      <4>2. QED BY <2>3, <2>6, <4>1, Appended
    <3>7. \A j \in Instances :
             /\ PluginOf[j] # p => Claim(j)' = Claim(j)
             /\ \A z \in Claim(j)' :
                  z \in Claim(j) \/ z \notin DOMAIN namespaces \cup cps \cup {None}
      <4>1. /\ w = work[p] /\ work[p].pc \in {"namespace", "create", "attach"} /\ rec' = rec
            /\ v.inst = w.inst /\ v.pc \in {"namespace", "create", "attach"}
            /\ v.netns \in {w.netns, x}
        BY <1>1, <1>2, <2>1, <2>3
      <4>2. QED BY <2>4, <2>7, <3>5, <3>6, <4>1, BuildingGoesOn
    <3>8. QED BY <2>4, <3>3, <3>4, <3>7, GoesOnCalm
  <2>14. /\ FI' = After(ifaces, Ahead("ifaces") \cup {q2, q3})
         /\ Agree(Ahead("ifaces") \cup {q2, q3})
         /\ FN' = After(namespaces, Ahead("namespaces") \cup {q1})
         /\ Agree(Ahead("namespaces") \cup {q1})
         /\ FC' = FC
    <3>1. {q2, q3} = {r \in ToSet(v.puts) : r.store = "ifaces"}
      BY <2>9, <2>10, <2>12
    <3>2. {q1} = {r \in ToSet(v.puts) : r.store = "namespaces"} \cup
                   {Listing(u) : u \in {r \in ToSet(v.puts) :
                                          r.store = "unlist" /\ Unlistable(r)}}
      <4>1. \A r \in ToSet(v.puts) : r.store # "unlist"
        BY <2>9, <2>10, <2>12
      <4>2. {q1} = {r \in ToSet(v.puts) : r.store = "namespaces"}
        BY <2>9, <2>10, <2>12
      <4>3. QED BY <4>1, <4>2
    <3>3. \A r \in ToSet(v.puts) : r.store # "cps"
      BY <2>9, <2>10, <2>12
    <3>4. QED BY <2>2, <2>4, <2>13, <3>1, <3>2, <3>3, AfterGoesOn
  <2>15. FI' = Put(Put(FI, x, Interface("VETH", n, y)), y, Interface("VETH", n, x))
    <3>1. FI' = Store(Store(FI, q2), q3)
      BY <2>14, AfterTwo DEF FI
    <3>2. Store(FI, q2) = Put(FI, x, Interface("VETH", n, y))
      BY <2>10, <2>11 DEF Store, Making
    <3>3. \A f : Store(f, q3) = Put(f, y, Interface("VETH", n, x))
      BY <2>10, <2>11 DEF Store, Making
    <3>4. QED BY <3>1, <3>2, <3>3
  <2>16. FN' = Put(FN, n, BagAdd(BagAdd(FN[n], x), y))
    <3>1. FN' = Store(FN, q1)
      BY <2>14, AfterPut DEF FN
    <3>2. Store(FN, q1) = Put(FN, n, L)
      BY <2>9 DEF Store, Making
    <3>3. L = BagAdd(BagAdd(FN[n], x), y)
      BY <1>1, <2>5
    <3>4. QED BY <3>1, <3>2, <3>3
  <2>17. Net!create_veth_in_namespace(x, y, n)
    BY <2>4, <2>5, <2>6, <2>14, <2>15, <2>16, NetVethCall
  <2>18. NetworkCall(p)
    <3>1. \A u \in {n, x, y} : \E r \in ToSet(v.puts) : r.key = u
      BY <2>9, <2>10, <2>12
    <3>2. n \in {n, x, y} \cap NetNs /\ x \in {n, x, y} \cap Ifaces /\ y \in {n, x, y} \cap Ifaces
      BY <2>5, <2>6
    <3>3. QED BY <1>2, <2>4, <2>17, <3>1, <3>2, CallIs
  <2>19. QED BY <2>13, <2>18
<1>5. QED BY <1>3, <1>4

LEMMA PutSame ==
  ASSUME NEW f, NEW P, NEW k, k \in DOMAIN After(f, P)
  PROVE  Put(After(f, P), k, After(f, P)[k]) = After(f, P)
BY DEF Put, After

(* The other half of an interface moves or is bound: record y is changed.  *)
LEMMA Rewritten ==
  ASSUME NEW f, NEW P, NEW y, y \in DOMAIN After(f, P), NEW c
  PROVE  Put(After(f, P), y, [After(f, P)[y] EXCEPT !.net_ns = c]) =
           [After(f, P) EXCEPT ![y].net_ns = c]
BY DEF Put, After

LEMMA AttachIsCall ==
  ASSUME IInv, Calm, NEW p \in Plugins, Attach(p)
  PROVE  Calm' /\ (NetworkCall(p) \/ UNCHANGED AllAfter)
<1>1. PICK w, i, n, x, y, id, u :
        /\ w = work[p] /\ i = w.inst /\ n = w.netns /\ x = Last(w.intfs)
        /\ y = w.pair /\ id = IntfsOf[i][IntfAt(p)]
        /\ u = [w EXCEPT !.pc = "create", !.k = @ + 1]
  OBVIOUS
<1>2. /\ w.pc = "attach" /\ work[p].puts = <<>> /\ work[p].pc = "attach"
      /\ work[p].pc \in {"namespace", "create", "attach"}
  BY <1>1 DEF Attach, At
<1>3. /\ n \in NetNs /\ n \in DOMAIN namespaces /\ n \in Claim(i)
      /\ x \in Claim(i) /\ y \in Ifaces /\ y \in DOMAIN ifaces
      /\ ifaces[x].pair = y /\ x \in DOMAIN ifaces
      /\ ifaces[y].net_ns = n /\ ifaces[y] \in VethRecord
  BY <1>1, <1>2, Halfway
<1>4. /\ Typed /\ WorkTyped(p) /\ IInv' /\ Progress(p)
      /\ i \in Instances /\ PluginOf[i] = p /\ ~IsConfigured(i) /\ Puts(p) = {}
      /\ Claim(i) = ({w.netns} \cup Made(p) \cup ToSet(w.intfs)) \ {None}
  BY <1>1, <1>2, Before, AttachHolds
<1>5. \A a \in DOMAIN w.cps : w.cps[a] \in Cps /\ w.cps[a] \in Made(p) /\ a # None
  BY <1>1, <1>4, InstanceAssumption DEF WorkTyped, Made
<1>6. /\ y \in DOMAIN FI /\ FI[y] = ifaces[y] /\ n \in DOMAIN FN /\ FN[n] = namespaces[n]
  <2>1. Covers(i, y) /\ Covers(i, n)
    BY <1>3 DEF Covers, Mates, Fact
  <2>2. \A q \in Pending : q.key # y /\ q.key # n
    BY <1>4, <2>1, OwnStill
  <2>3. Kept(ifaces, FI, y) /\ Kept(namespaces, FN, n)
    BY <2>2, AfterSame
  <2>4. QED BY <1>3, <2>3 DEF Kept
<1>7. ASSUME NEW s, NEW v, v = [u EXCEPT !.puts = s],
             work' = [work EXCEPT ![p] = v],
             UNCHANGED <<failed, netVars, rec, strays, faults>>
      PROVE  /\ v.pc = "create" /\ v.inst = i /\ v.netns = n /\ v.cps = w.cps
             /\ v.intfs = w.intfs /\ v.puts = s
             /\ GoesOn(p, v) /\ work'[p] = v /\ vnets' = vnets
             /\ Claim(i)' = Claim(i)
             /\ FitsIn(v) /\ ListsFirst(s) => Calm'
  <2>1. /\ v.pc = "create" /\ v.inst = i /\ v.netns = n /\ v.cps = w.cps
        /\ v.intfs = w.intfs /\ v.puts = s
    BY <1>1, <1>4, <1>7, IdleIs DEF WorkTyped
  <2>2. GoesOn(p, v)
    BY <1>2, <1>7 DEF GoesOn
  <2>3. work'[p] = v /\ vnets' = vnets
    BY <1>4, <2>2, GoesOnIs
  <2>4. Made(p)' = Made(p)
    BY <1>1, <2>1, <2>3 DEF Made
  <2>5. Claim(i)' = Claim(i)
    <3>1. /\ rec'[i] = rec[i] /\ p = PluginOf[i] /\ v = work'[p]
          /\ v.inst = i /\ v.pc \in {"namespace", "create", "attach"}
      BY <1>4, <1>7, <2>1, <2>3
    <3>2. Claim(i)' = ({v.netns} \cup Made(p)' \cup ToSet(v.intfs)) \ {None}
      BY <1>4, <3>1, ClaimNow
    <3>3. QED BY <1>1, <1>4, <2>1, <2>4, <3>2
  <2>6. \A j \in Instances :
           /\ PluginOf[j] # p => Claim(j)' = Claim(j)
           /\ \A z \in Claim(j)' :
                z \in Claim(j) \/ z \notin DOMAIN namespaces \cup cps \cup {None}
    <3>1. rec' = rec
      BY <1>7
    <3>2. \A j \in Instances :
             /\ PluginOf[j] # p => Claim(j)' = Claim(j)
             /\ PluginOf[j] = p /\ j # i => Claim(j)' \subseteq Claim(j)
      BY <1>4, <2>1, <2>2, <3>1, ClaimsGoOn
    <3>3. QED BY <2>5, <3>2
  <2>7. ASSUME FitsIn(v), ListsFirst(s) PROVE Calm'
    BY <2>1, <2>2, <2>6, <2>7, GoesOnCalm
  <2>8. QED BY <2>1, <2>2, <2>3, <2>5, <2>7
<1>8. ASSUME NEW c \in Cps \cup {None}, c \in DOMAIN namespaces \cup cps \cup {None},
             c \in Claim(i) \cup {None}
      PROVE  /\ PairPut(y, c).store = "ifaces" /\ PairPut(y, c).key = y
             /\ PairPut(y, c).val = [ifaces[y] EXCEPT !.net_ns = c]
             /\ PairPut(y, c).val.net_ns = c
             /\ IsPut(PairPut(y, c)) /\ Making(PairPut(y, c))
             /\ ~ListPut(PairPut(y, c), PairPut(y, c).key)
  <2>1. PICK q : q = PairPut(y, c)
    OBVIOUS
  <2>2. q.store = "ifaces" /\ q.key = y /\ q.val = [ifaces[y] EXCEPT !.net_ns = c]
    BY <2>1 DEF PutOf, PairPut
  <2>3. q.val \in VethRecord /\ q.val.net_ns = c
    <3>1. PICK r : r = ifaces[y]
      OBVIOUS
    <3>2. r \in VethRecord /\ q.val = [r EXCEPT !.net_ns = c]
      BY <1>3, <2>2, <3>1
    <3>3. QED BY <3>2, VethMoved
  <2>4. IsPut(q) /\ Making(q) /\ ~ListPut(q, q.key)
    BY <1>3, <2>2, <2>3, VethAre DEF IsPut, Making, ListPut
  <2>5. QED BY <2>1, <2>2, <2>3, <2>4
<1>9. ASSUME NEW c, NEW q, q.key = y, q.val = [ifaces[y] EXCEPT !.net_ns = c], Making(q)
      PROVE  Store(FI, q) = [FI EXCEPT ![y].net_ns = c]
  <2>1. Store(FI, q) = Put(FI, y, q.val)
    BY <1>9 DEF Store, Making
  <2>2. q.val = [FI[y] EXCEPT !.net_ns = c]
    BY <1>6, <1>9
  <2>3. Put(FI, y, [FI[y] EXCEPT !.net_ns = c]) = [FI EXCEPT ![y].net_ns = c]
    <3>1. y \in DOMAIN FI
      BY <1>6
    <3>2. QED BY <3>1, Rewritten DEF FI
  <2>4. QED BY <2>1, <2>2, <2>3
<1>10. CASE id = None
  <2>1. PICK q, t, v :
          /\ q = PairPut(y, None) /\ t = PutOf("unlist", n, y)
          /\ v = [u EXCEPT !.puts = <<q, t>>]
    OBVIOUS
  <2>2. /\ work' = [work EXCEPT ![p] = v]
        /\ UNCHANGED <<failed, netVars, rec, strays, faults>>
    BY <1>1, <1>3, <1>5, <1>10, <2>1
    DEF Attach, MovePuts, PairPut, Call, Advance, callVars
  <2>3. /\ v.inst = i /\ v.puts = <<q, t>> /\ GoesOn(p, v) /\ work'[p] = v /\ vnets' = vnets
        /\ FitsIn(v) /\ ListsFirst(v.puts) => Calm'
    BY <1>7, <2>1, <2>2
  <2>4. /\ q.store = "ifaces" /\ q.key = y /\ q.val = [ifaces[y] EXCEPT !.net_ns = None]
        /\ q.val.net_ns = None /\ IsPut(q) /\ Making(q) /\ ~ListPut(q, q.key)
    BY <1>8, <2>1
  <2>5. /\ t.store = "unlist" /\ t.key = n /\ t.val = y /\ IsPut(t) /\ Making(t)
        /\ ~ListPut(t, t.key) /\ ~IfacePut(t, t.key)
    BY <1>3, <2>1, Keys DEF PutOf, IsPut, Making, ListPut, IfacePut
  <2>6. ToSet(v.puts) = {q, t}
    BY <1>3, <2>3, <2>4, <2>5, TwoPuts, Keys
  <2>7. Calm'
    <3>1. FitsIn(v)
      BY <2>4, <2>5, <2>6 DEF FitsIn
    <3>2. ListsFirst(v.puts)
      <4>1. Len(v.puts) = 2 /\ v.puts[1] = q /\ v.puts[2] = t
        BY <2>3
      <4>2. \A k \in 1 .. Len(v.puts) : ~ListPut(v.puts[k], v.puts[k].key)
        BY <2>4, <2>5, <4>1
      <4>3. QED BY <4>2 DEF ListsFirst
    <3>3. QED BY <2>3, <3>1, <3>2
  <2>8. PICK RL : RL = {r \in ToSet(v.puts) : r.store = "namespaces"} \cup
                      {Listing(r) : r \in {z \in ToSet(v.puts) :
                                             z.store = "unlist" /\ Unlistable(z)}}
    OBVIOUS
  <2>9. /\ FI' = After(ifaces, Ahead("ifaces") \cup {q})
        /\ Agree(Ahead("ifaces") \cup {q})
        /\ FN' = After(namespaces, Ahead("namespaces") \cup RL)
        /\ Agree(Ahead("namespaces") \cup RL)
        /\ FC' = FC
    <3>1. {q} = {r \in ToSet(v.puts) : r.store = "ifaces"}
      BY <2>4, <2>5, <2>6
    <3>2. \A r \in ToSet(v.puts) : r.store # "cps"
      BY <2>4, <2>5, <2>6
    <3>3. QED BY <1>4, <2>3, <2>7, <2>8, <3>1, <3>2, AfterGoesOn
  <2>10. FI' = [FI EXCEPT ![y].net_ns = None]
    <3>1. FI' = Store(FI, q)
      BY <2>9, AfterPut DEF FI
    <3>2. QED BY <1>9, <2>4, <3>1
  <2>11. FN' = Put(FN, n, BagRemove(FN[n], y))
    <3>1. CASE Unlistable(t)
      <4>1. RL = {Listing(t)}
        BY <2>4, <2>5, <2>6, <2>8, <3>1
      <4>2. FN' = Store(FN, Listing(t))
        BY <2>9, <4>1, AfterPut DEF FN
      <4>3. Listing(t).key = n /\ Listing(t).val = BagRemove(FN[n], y)
        BY <1>6, <2>5, ListingIs
      <4>4. Listing(t).val # None
        <5>1. namespaces[n] \in Lists
          BY <1>3, <1>4 DEF Typed
        <5>2. BagRemove(namespaces[n], y) \in Lists
          BY <5>1, RemoveList
        <5>3. QED BY <1>6, <4>3, <5>2, ListsAre
      <4>5. QED BY <4>2, <4>3, <4>4 DEF Store
    <3>2. CASE ~Unlistable(t)
      <4>1. RL = {}
        BY <2>4, <2>5, <2>6, <2>8, <3>2
      <4>2. FN' = FN
        BY <2>9, <4>1 DEF FN
      <4>3. y \notin DOMAIN FN[n]
        BY <1>3, <1>6, <2>5, <3>2 DEF Unlistable
      <4>4. BagRemove(FN[n], y) = FN[n]
        BY <4>3 DEF BagRemove
      <4>5. Put(FN, n, FN[n]) = FN
        BY <1>6, PutSame DEF FN
      <4>6. QED BY <4>2, <4>4, <4>5
    <3>3. QED BY <3>1, <3>2
  <2>12. Net!move_interface_into_default_namespace(y)
    BY <1>3, <1>6, <2>3, <2>9, <2>10, <2>11, NetIfaceCalls, Keys
  <2>13. NetworkCall(p)
    <3>1. \A z \in {y} : \E r \in ToSet(v.puts) : r.key = z
      BY <2>4, <2>6
    <3>2. y \in {y} \cap Ifaces
      BY <1>3
    <3>3. QED BY <1>2, <2>3, <2>12, <3>1, <3>2, CallIs
  <2>14. QED BY <2>7, <2>13
<1>11. CASE id \in DOMAIN w.cps
  <2>1. PICK c, q, v :
          /\ c = w.cps[id] /\ q = PairPut(y, c)
          /\ v = [u EXCEPT !.puts = <<q>>]
    OBVIOUS
  <2>2. id # None
    BY <1>5, <1>11
  <2>3. /\ work' = [work EXCEPT ![p] = v]
        /\ UNCHANGED <<failed, netVars, rec, strays, faults>>
    BY <1>1, <1>11, <2>1, <2>2 DEF Attach, BindPuts, PairPut, Call, Advance, callVars
  <2>4. c \in Cps /\ c \in Made(p) /\ c \in Claim(i) /\ c \in cps
    <3>1. c \in Cps /\ c \in Made(p)
      BY <1>5, <1>11, <2>1
    <3>2. c \in Claim(i)
      BY <1>4, <3>1, Keys
    <3>3. c \in cps
      BY <1>4, <3>1 DEF Progress
    <3>4. QED BY <3>1, <3>2, <3>3
  <2>5. c \in FC
    <3>1. Covers(i, c)
      BY <2>4 DEF Covers
    <3>2. \A r \in Pending : r.key # c
      BY <1>4, <3>1, OwnStill
    <3>3. QED BY <2>4, <3>2, AfterSame
  <2>6. /\ v.inst = i /\ v.puts = <<q>> /\ GoesOn(p, v) /\ work'[p] = v /\ vnets' = vnets
        /\ Claim(i)' = Claim(i) /\ FitsIn(v) /\ ListsFirst(v.puts) => Calm'
    BY <1>7, <2>1, <2>3
  <2>7. /\ q.store = "ifaces" /\ q.key = y /\ q.val = [ifaces[y] EXCEPT !.net_ns = c]
        /\ q.val.net_ns = c /\ IsPut(q) /\ Making(q) /\ ~ListPut(q, q.key)
    BY <1>8, <2>1, <2>4
  <2>8. ToSet(v.puts) = {q}
    BY <2>6, <2>7, OnePut
  <2>9. Calm'
    <3>0. v.inst = i /\ Claim(i)' = Claim(i)
      BY <1>7, <2>1, <2>3
    <3>1. c \in Claim(v.inst)'
      BY <2>4, <3>0
    <3>2. FitsIn(v)
      BY <2>4, <2>7, <2>8, <3>1 DEF FitsIn
    <3>3. ListsFirst(v.puts)
      BY <2>6, <2>7, ListsOne
    <3>4. QED BY <1>7, <2>1, <2>3, <3>2, <3>3
  <2>10. FI' = Store(FI, q) /\ FN' = FN /\ FC' = FC
    BY <1>4, <2>6, <2>7, <2>8, <2>9, OneAhead
  <2>11. FI' = [FI EXCEPT ![y].net_ns = c]
    BY <1>9, <2>7, <2>10
  <2>12. Net!bind_interface_to_connection_point(y, c)
    BY <1>6, <2>5, <2>6, <2>10, <2>11, NetIfaceCalls
  <2>13. NetworkCall(p)
    <3>1. \A z \in {y} : \E r \in ToSet(v.puts) : r.key = z
      BY <2>7, <2>8
    <3>2. y \in {y} \cap Ifaces
      BY <1>3
    <3>3. QED BY <1>2, <2>4, <2>6, <2>12, <3>1, <3>2, CallIs
  <2>14. QED BY <2>9, <2>13
<1>12. CASE id \notin DOMAIN w.cps \cup {None}
  <2>1. Refused(p)
    BY <1>1, <1>12 DEF Attach
  <2>2. QED BY <1>2, <2>1, RefusedCall
<1>13. QED BY <1>10, <1>11, <1>12

(* What a cleanup calls for: what is to be removed is its instance's.      *)
LEMMA RemovalCalm ==
  ASSUME IInv, Calm, NEW p \in Plugins, work[p].pc \in {"clean", "delete"},
         NEW v, GoesOn(p, v), rec' = rec, v.pc = "delete", v.inst = work[p].inst,
         NEW i, i = work[p].inst,
         \A r \in ToSet(v.puts) : ~Making(r) /\ Covers(i, r.key),
         \A r \in ToSet(v.puts) : r.store = "ifaces" /\ r.key \in DOMAIN ifaces =>
           \E t \in ToSet(v.puts) : t.store = "ifaces" /\ t.key = ifaces[r.key].pair
  PROVE  Calm'
<1>1. Typed /\ i \in Instances /\ PluginOf[i] = p /\ IsConfigured(i)
  BY CleaningIs
<1>2. work'[p] = v /\ ~Configuring(p)'
  BY <1>1, GoesOnIs DEF Configuring
<1>3. \A j \in Instances :
        /\ PluginOf[j] # p => Claim(j)' = Claim(j)
        /\ \A z \in Claim(j)' :
             z \in Claim(j) \/ z \notin DOMAIN namespaces \cup cps \cup {None}
  <2>1. ASSUME NEW j \in Instances, PluginOf[j] = p PROVE Claim(j)' \subseteq Claim(j)
    <3>1. ~Building(j)'
      BY <1>2, <2>1 DEF Building
    <3>2. QED BY <3>1, ClaimDropped
  <2>2. \A j \in Instances : PluginOf[j] # p => Claim(j)' = Claim(j)
    BY <1>1, ClaimsGoOn
  <2>3. QED BY <2>1, <2>2
<1>4. \A r \in ToSet(v.puts) : ~Making(r)
  OBVIOUS
<1>5. FitsIn(v)
  BY <1>1, <1>4 DEF FitsIn, IfacePut
<1>6. ListsFirst(v.puts)
  <2>1. \A k \in 1 .. Len(v.puts) : v.puts[k] \in ToSet(v.puts)
    BY DEF ToSet
  <2>2. QED BY <1>4, <2>1 DEF ListsFirst, ListPut
<1>7. QED BY <1>3, <1>5, <1>6, GoesOnCalm

(* Of what is a configured instance's, others may be about to remove it,   *)
(* and nobody makes it.                                                    *)
LEMMA StillOrGoing ==
  ASSUME IInv, Calm, NEW i \in Instances, IsConfigured(i), NEW z, Covers(i, z)
  PROVE  \/ \A q \in Pending : q.key # z
         \/ \E q \in Pending : ~Making(q) /\ q.key = z
BY ConfiguredSpared

LEMMA Gone ==
  ASSUME IInv, Calm, NEW q \in Pending, ~Making(q)
  PROVE  /\ q.key \in NetNs => q.key \notin DOMAIN FN
         /\ q.key \in Ifaces => q.store = "ifaces" /\ q.key \notin DOMAIN FI
         /\ q.key \in Cps => q.key \notin FC
<1>1. /\ q.store \in {"ifaces", "namespaces", "cps"}
      /\ q.store = "ifaces" => q.key \in Ifaces
      /\ q.store = "namespaces" => q.key \in NetNs
      /\ q.store = "cps" => q.key \in Cps
  BY PendingTyped, PutKinds DEF IInv
<1>2. QED BY <1>1, AfterGone, Keys

LEMMA DropNone ==
  ASSUME NEW f, NEW P, NEW S, S \cap DOMAIN After(f, P) = {}
  PROVE  Drop(After(f, P), S) = After(f, P)
<1>1. DOMAIN After(f, P) \ S = DOMAIN After(f, P)
  OBVIOUS
<1>2. QED BY <1>1 DEF Drop, After

LEMMA DeleteNamespaceCall ==
  ASSUME IInv, Calm, NEW p \in Plugins, DeleteNamespace(p)
  PROVE  Calm' /\ (NetworkCall(p) \/ UNCHANGED AllAfter)
<1>1. PICK w, i, n, q, v :
        /\ w = work[p] /\ i = w.inst /\ n = w.netns
        /\ q = PutOf("namespaces", n, None)
        /\ v = [[w EXCEPT !.pc = "delete"] EXCEPT !.puts = <<q>>]
  OBVIOUS
<1>2. work[p].puts = <<>> /\ work[p].pc \in {"clean", "delete"}
  BY DEF DeleteNamespace, At
<1>3. CASE n \notin DOMAIN namespaces
  <2>1. Refused(p)
    BY <1>1, <1>3 DEF DeleteNamespace
  <2>2. QED BY <1>2, <2>1, RefusedCall
<1>4. CASE n \in DOMAIN namespaces
  <2>1. /\ work' = [work EXCEPT ![p] = v]
        /\ UNCHANGED <<failed, netVars, rec, strays, faults>>
    BY <1>1, <1>4 DEF DeleteNamespace, Call, Advance, callVars
  <2>2. /\ Typed /\ WorkTyped(p) /\ IInv' /\ i \in Instances /\ IsConfigured(i)
        /\ Claim(i) = {rec[i].netns} \cup rec[i].cps \cup Listed(i)
        /\ n \in NetNs /\ n = rec[i].netns
    BY <1>1, <1>2, CleaningIs, DeleteNamespaceHolds
  <2>3. v.pc = "delete" /\ v.inst = i /\ v.puts = <<q>>
    BY <1>1, <2>2, IdleIs DEF WorkTyped
  <2>4. GoesOn(p, v) /\ work'[p] = v /\ vnets' = vnets
    <3>1. GoesOn(p, v)
      BY <1>2, <2>1 DEF GoesOn
    <3>2. QED BY <2>2, <3>1, GoesOnIs
  <2>5. q.store = "namespaces" /\ q.key = n /\ ~Making(q) /\ IsPut(q) /\ q.val = None
    BY <1>1, <2>2 DEF PutOf, Making, IsPut
  <2>6. ToSet(v.puts) = {q}
    BY <2>3, <2>5, OnePut
  <2>7. Covers(i, n)
    BY <2>2 DEF Covers
  <2>8. Calm'
    <3>1. \A r \in ToSet(v.puts) : ~Making(r) /\ Covers(i, r.key)
      BY <2>5, <2>6, <2>7
    <3>2. \A r \in ToSet(v.puts) : r.store = "ifaces" /\ r.key \in DOMAIN ifaces =>
            \E s \in ToSet(v.puts) : s.store = "ifaces" /\ s.key = ifaces[r.key].pair
      BY <2>5, <2>6, <2>7
    <3>3. i = work[p].inst /\ v.inst = work[p].inst /\ rec' = rec
      BY <1>1, <2>1, <2>3
    <3>4. QED BY <1>2, <2>3, <2>4, <3>1, <3>2, <3>3, RemovalCalm
  <2>9. FN' = Drop(FN, {n}) /\ FI' = FI /\ FC' = FC
    BY <2>2, <2>4, <2>5, <2>6, <2>8, OneAhead DEF Store
  <2>10. CASE \A r \in Pending : r.key # n
    <3>1. n \in DOMAIN FN
      BY <1>4, <2>10, AfterSame DEF Kept
    <3>2. Net!delete_network_namespace(n)
      BY <2>4, <2>9, <3>1, NetCalls
    <3>3. \A u \in {n} : \E r \in ToSet(v.puts) : r.key = u
      BY <2>5, <2>6
    <3>4. n \in {n} \cap NetNs
      BY <2>2
    <3>5. NetworkCall(p)
      BY <1>2, <2>4, <3>2, <3>3, <3>4, CallIs
    <3>6. QED BY <2>8, <3>5
  <2>11. CASE \E r \in Pending : ~Making(r) /\ r.key = n
    <3>1. n \notin DOMAIN FN
      BY <2>2, <2>11, Gone
    <3>2. FN' = FN
      BY <2>9, <3>1, DropNone DEF FN
    <3>3. QED BY <2>8, <2>9, <3>2 DEF AllAfter, FI, FN, FC
  <2>12. QED BY <2>2, <2>7, <2>10, <2>11, StillOrGoing
<1>5. QED BY <1>3, <1>4

LEMMA DeleteConnectionPointCall ==
  ASSUME IInv, Calm, NEW p \in Plugins, DeleteConnectionPoint(p)
  PROVE  Calm' /\ (NetworkCall(p) \/ UNCHANGED AllAfter)
<1>1. PICK c \in work[p].rest :
        IF c \in cps
          THEN Call(p, << PutOf("cps", c, None) >>, [work[p] EXCEPT !.rest = @ \ {c}])
          ELSE Refused(p)
  BY DEF DeleteConnectionPoint
<1>2. PICK w, i, q, v :
        /\ w = work[p] /\ i = w.inst /\ q = PutOf("cps", c, None)
        /\ v = [[w EXCEPT !.rest = @ \ {c}] EXCEPT !.puts = <<q>>]
  OBVIOUS
<1>3. /\ work[p].puts = <<>> /\ work[p].pc \in {"clean", "delete"} /\ work[p].pc = "delete"
  BY DEF DeleteConnectionPoint, At
<1>4. CASE c \notin cps
  <2>1. Refused(p)
    BY <1>1, <1>4
  <2>2. QED BY <1>3, <2>1, RefusedCall
<1>5. CASE c \in cps
  <2>1. /\ work' = [work EXCEPT ![p] = v]
        /\ UNCHANGED <<failed, netVars, rec, strays, faults>>
    BY <1>1, <1>2, <1>5 DEF Call, Advance, callVars
  <2>2. /\ Typed /\ WorkTyped(p) /\ IInv' /\ i \in Instances /\ IsConfigured(i)
        /\ Claim(i) = {rec[i].netns} \cup rec[i].cps \cup Listed(i)
        /\ rec[i].cps \subseteq Cps /\ Cleanup(p)
    BY <1>2, <1>3, CleaningIs, DeleteConnectionPointHolds
  <2>3. v.pc = "delete" /\ v.inst = i /\ v.puts = <<q>>
    BY <1>2, <1>3, <2>2, IdleIs DEF WorkTyped
  <2>4. GoesOn(p, v) /\ work'[p] = v /\ vnets' = vnets
    <3>1. GoesOn(p, v)
      BY <1>3, <2>1 DEF GoesOn
    <3>2. QED BY <2>2, <3>1, GoesOnIs
  <2>5. c \in Cps /\ Covers(i, c)
    <3>1. c \in rec[i].cps
      BY <1>2, <2>2 DEF Cleanup
    <3>2. QED BY <2>2, <3>1 DEF Covers
  <2>6. q.store = "cps" /\ q.key = c /\ ~Making(q) /\ IsPut(q)
    BY <1>2, <2>5 DEF PutOf, Making, IsPut
  <2>7. ToSet(v.puts) = {q}
    BY <2>3, <2>6, OnePut
  <2>8. Calm'
    <3>1. \A r \in ToSet(v.puts) : ~Making(r) /\ Covers(i, r.key)
      BY <2>5, <2>6, <2>7
    <3>2. \A r \in ToSet(v.puts) : r.store = "ifaces" /\ r.key \in DOMAIN ifaces =>
            \E s \in ToSet(v.puts) : s.store = "ifaces" /\ s.key = ifaces[r.key].pair
      BY <2>5, <2>6, <2>7
    <3>3. i = work[p].inst /\ v.inst = work[p].inst /\ rec' = rec
      BY <1>2, <2>1, <2>3
    <3>4. QED BY <1>3, <2>3, <2>4, <3>1, <3>2, <3>3, RemovalCalm
  <2>9. FC' = FC \ {c} /\ FI' = FI /\ FN' = FN
    BY <2>2, <2>4, <2>6, <2>7, <2>8, OneAhead
  <2>10. CASE \A r \in Pending : r.key # c
    <3>1. c \in FC
      BY <1>5, <2>10, AfterSame
    <3>2. Net!delete_connection_point(c)
      BY <2>4, <2>9, <3>1, NetCalls
    <3>3. \A u \in {c} : \E r \in ToSet(v.puts) : r.key = u
      BY <2>6, <2>7
    <3>4. c \in {c} \cap Cps
      BY <2>5
    <3>5. NetworkCall(p)
      BY <1>3, <2>4, <3>2, <3>3, <3>4, CallIs
    <3>6. QED BY <2>8, <3>5
  <2>11. CASE \E r \in Pending : ~Making(r) /\ r.key = c
    <3>1. c \notin FC
      BY <2>5, <2>11, Gone
    <3>2. FC' = FC
      BY <2>9, <3>1
    <3>3. QED BY <2>8, <2>9, <3>2 DEF AllAfter, FI, FN, FC
  <2>12. QED BY <2>2, <2>5, <2>10, <2>11, StillOrGoing
<1>6. QED BY <1>4, <1>5

LEMMA DeleteInterfaceCall ==
  ASSUME IInv, Calm, NEW p \in Plugins, DeleteInterface(p)
  PROVE  Calm' /\ (NetworkCall(p) \/ UNCHANGED AllAfter)
<1>1. PICK w, i, z, y, q, t, v :
        /\ w = work[p] /\ i = w.inst /\ z = w.intfs[w.k] /\ y = ifaces[z].pair
        /\ q = PutOf("ifaces", y, None) /\ t = PutOf("ifaces", z, None)
        /\ v = [[w EXCEPT !.k = @ + 1] EXCEPT !.puts = <<q, t>>]
  OBVIOUS
<1>2. /\ work[p].puts = <<>> /\ work[p].pc \in {"clean", "delete"} /\ work[p].pc = "delete"
      /\ w.k <= Len(w.intfs)
  BY <1>1 DEF DeleteInterface, At
<1>a. w.intfs = rec[i].intfs
  BY <1>1, <1>2, CleaningIs
<1>3. CASE z \notin DOMAIN ifaces
  <2>1. Refused(p)
    BY <1>1, <1>3 DEF DeleteInterface
  <2>2. QED BY <1>2, <2>1, RefusedCall
<1>4. CASE z \in DOMAIN ifaces
  <2>1. /\ work' = [work EXCEPT ![p] = v]
        /\ UNCHANGED <<failed, netVars, rec, strays, faults>>
    BY <1>1, <1>4 DEF DeleteInterface, DeletePuts, Call, Advance, callVars
  <2>2. /\ Typed /\ Claims /\ WorkTyped(p) /\ IInv' /\ i \in Instances /\ IsConfigured(i)
        /\ Claim(i) = {rec[i].netns} \cup rec[i].cps \cup Listed(i)
        /\ rec[i].intfs \in Seq(Ifaces)
    BY <1>1, <1>2, CleaningIs, DeleteInterfaceHolds
  <2>3. v.pc = "delete" /\ v.inst = i /\ v.puts = <<q, t>>
    BY <1>1, <1>2, <2>2, IdleIs DEF WorkTyped
  <2>4. GoesOn(p, v) /\ work'[p] = v /\ vnets' = vnets
    <3>1. GoesOn(p, v)
      BY <1>2, <2>1 DEF GoesOn
    <3>2. QED BY <2>2, <3>1, GoesOnIs
  <2>5. z \in Ifaces /\ z \in Claim(i)
    <3>1. w.k \in Nat /\ w.k >= 1
      BY <1>1, <1>2, <2>2 DEF WorkTyped
    <3>2. w.k \in 1 .. Len(rec[i].intfs)
      BY <1>2, <1>a, <2>2, <3>1
    <3>3. z = rec[i].intfs[w.k]
      BY <1>1, <1>a
    <3>4. z \in Ifaces
      BY <2>2, <3>2, <3>3
    <3>5. z \in Listed(i)
      BY <3>2, <3>3 DEF Listed, ToSet
    <3>6. QED BY <2>2, <3>4, <3>5
  <2>6. y \in Ifaces /\ Mates(z, y) /\ y # z
    <3>1. y \in Ifaces
      BY <1>1, <1>4, <2>2, VethAre DEF Typed
    <3>2. Mates(z, y)
      BY <1>1, <1>4 DEF Mates, Fact
    <3>3. QED BY <2>2, <2>5, <3>1, <3>2 DEF Claims, Matched
  <2>7. Covers(i, z) /\ Covers(i, y)
    BY <2>5, <2>6 DEF Covers
  <2>8. /\ q.store = "ifaces" /\ q.key = y /\ ~Making(q) /\ IsPut(q) /\ q.val = None
        /\ t.store = "ifaces" /\ t.key = z /\ ~Making(t) /\ IsPut(t) /\ t.val = None
    BY <1>1, <2>5, <2>6 DEF PutOf, Making, IsPut
  <2>9. ToSet(v.puts) = {q, t}
    BY <2>3, <2>6, <2>8, TwoPuts
  <2>10. y \in DOMAIN ifaces => ifaces[y].pair = z
    <3>1. ASSUME y \in DOMAIN ifaces PROVE ifaces[y].pair = z
      <4>1. Mates(y, ifaces[y].pair) /\ Mates(y, z)
        BY <2>6, <3>1, MatesSym DEF Mates, Fact
      <4>2. ifaces[y].pair \in Ifaces
        BY <2>2, <3>1, VethAre DEF Typed
      <4>3. QED BY <2>2, <2>5, <2>6, <4>1, <4>2 DEF Claims, Matched
    <3>2. QED BY <3>1
  <2>11. Calm'
    <3>1. \A r \in ToSet(v.puts) : ~Making(r) /\ Covers(i, r.key)
      BY <2>7, <2>8, <2>9
    <3>2. \A r \in ToSet(v.puts) : r.store = "ifaces" /\ r.key \in DOMAIN ifaces =>
            \E s \in ToSet(v.puts) : s.store = "ifaces" /\ s.key = ifaces[r.key].pair
      BY <1>1, <2>8, <2>9, <2>10
    <3>3. i = work[p].inst /\ v.inst = work[p].inst /\ rec' = rec
      BY <1>1, <2>1, <2>3
    <3>4. QED BY <1>2, <2>3, <2>4, <3>1, <3>2, <3>3, RemovalCalm
  <2>12. /\ FI' = Drop(Drop(FI, {y}), {z}) /\ FN' = FN /\ FC' = FC
    <3>1. {q, t} = {r \in ToSet(v.puts) : r.store = "ifaces"}
      BY <2>8, <2>9
    <3>2. {} = {r \in ToSet(v.puts) : r.store = "namespaces"} \cup
                 {Listing(u) : u \in {r \in ToSet(v.puts) :
                                        r.store = "unlist" /\ Unlistable(r)}}
      BY <2>8, <2>9
    <3>3. \A r \in ToSet(v.puts) : r.store # "cps"
      BY <2>8, <2>9
    <3>4. /\ FI' = After(ifaces, Ahead("ifaces") \cup {q, t})
          /\ Agree(Ahead("ifaces") \cup {q, t})
          /\ FN' = After(namespaces, Ahead("namespaces") \cup {})
          /\ FC' = FC
      BY <2>2, <2>4, <2>11, <3>1, <3>2, <3>3, AfterGoesOn
    <3>5. FI' = Store(Store(FI, q), t)
      BY <3>4, AfterTwo DEF FI
    <3>6. QED BY <2>8, <3>4, <3>5 DEF FN, Store
  <2>13. CASE \A r \in Pending : r.key # z
    <3>1. z \in DOMAIN FI /\ FI[z].pair = y
      BY <1>1, <1>4, <2>13, AfterSame DEF Kept
    <3>2. FI' = Drop(FI, {z, FI[z].pair})
      BY <2>12, <3>1 DEF Drop
    <3>3. Net!delete_virtual_interface(z)
      BY <2>4, <2>12, <3>1, <3>2, NetIfaceCalls
    <3>4. \A u \in {z} : \E r \in ToSet(v.puts) : r.key = u
      BY <2>8, <2>9
    <3>5. z \in {z} \cap Ifaces
      BY <2>5
    <3>6. NetworkCall(p)
      BY <1>2, <2>4, <3>3, <3>4, <3>5, CallIs
    <3>7. QED BY <2>11, <3>6
  <2>14. CASE \E r \in Pending : ~Making(r) /\ r.key = z
    <3>1. PICK r \in Pending : ~Making(r) /\ r.key = z
      BY <2>14
    <3>2. r.store = "ifaces" /\ z \notin DOMAIN FI
      BY <2>5, <3>1, Gone
    <3>3. y \notin DOMAIN FI
      <4>1. CASE \E s \in Pending : ~Making(s) /\ s.key = y
        BY <2>6, <4>1, Gone
      <4>2. CASE \A s \in Pending : s.key # y
        <5>1. y \notin DOMAIN ifaces
          BY <1>1, <1>4, <3>1, <3>2, <4>2 DEF Calm, HalvesGone
        <5>2. QED BY <4>2, <5>1, AfterSame DEF Kept
      <4>3. QED BY <2>2, <2>7, <4>1, <4>2, StillOrGoing
    <3>4. FI' = FI
      <4>1. Drop(FI, {y}) = FI
        BY <3>3, DropNone DEF FI
      <4>2. Drop(FI, {z}) = FI
        BY <3>2, DropNone DEF FI
      <4>3. QED BY <2>12, <4>1, <4>2
    <3>5. QED BY <2>11, <2>12, <3>4 DEF AllAfter, FI, FN, FC
  <2>15. QED BY <2>2, <2>7, <2>13, <2>14, StillOrGoing
<1>5. QED BY <1>3, <1>4

-----------------------------------------------------------------------------
(* Steps that are no call                                                  *)

LEMMA QuietStep ==
  ASSUME IInv, Calm, NEW p \in Plugins, NEW v, GoesOn(p, v), v.puts = <<>>,
         \A i \in Instances :
           /\ PluginOf[i] # p => Claim(i)' = Claim(i)
           /\ Claim(i)' \subseteq Claim(i)
  PROVE  Calm' /\ UNCHANGED AllAfter
<1>1. Calm' /\ Pending' = Pending
  BY QuietCalm
<1>2. UNCHANGED netVars
  BY DEF GoesOn
<1>3. QED BY <1>1, <1>2, NothingAhead

(* An operation begins, of an instance that has nothing in the making.     *)
LEMMA BeginsQuiet ==
  ASSUME IInv, Calm, NEW i \in Instances, NEW p, p = PluginOf[i], work[p].pc = "idle",
         NEW v, work' = [work EXCEPT ![p] = v], v.puts = <<>>, v.inst = i,
         UNCHANGED <<netVars, rec, strays>>,
         Claim(i)' \subseteq Claim(i)
  PROVE  Calm' /\ UNCHANGED AllAfter
<1>1. p \in Plugins
  BY InstanceAssumption
<1>2. Typed
  BY DEF IInv
<1>3. work[p].puts = <<>>
  BY <1>1, <1>2, IdleIs DEF Typed, WorkTyped
<1>4. GoesOn(p, v)
  BY <1>3 DEF GoesOn
<1>5. \A j \in Instances :
        /\ PluginOf[j] # p => Claim(j)' = Claim(j)
        /\ Claim(j)' \subseteq Claim(j)
  <2>1. \A j \in Instances :
          /\ PluginOf[j] # p => Claim(j)' = Claim(j)
          /\ PluginOf[j] = p /\ j # v.inst => Claim(j)' \subseteq Claim(j)
    BY <1>1, <1>2, <1>4, ClaimsGoOn
  <2>2. QED BY <2>1
<1>6. QED BY <1>1, <1>4, <1>5, QuietStep

LEMMA ConfigureQuiet ==
  ASSUME IInv, Served, Calm, NEW r \in asked, Configure(r)
  PROVE  Calm' /\ UNCHANGED AllAfter
<1>0. PICK i : i = r.inst
  OBVIOUS
<1>a. i \in Instances /\ r.copy = rec[i]
  BY <1>0, ServedIs
<1>1. PICK p, v : p = PluginOf[i] /\ v = [Idle EXCEPT !.pc = "namespace", !.inst = i, !.k = 1]
  OBVIOUS
<1>2. /\ work[p].pc = "idle" /\ rec[i].status = "DEFINED" /\ p \in Plugins
      /\ work' = [work EXCEPT ![p] = v]
      /\ UNCHANGED <<netVars, rec, strays>>
  BY <1>0, <1>a, <1>1, InstanceAssumption DEF Configure, Begin, Advance
<1>3. DOMAIN work = Plugins
  BY DEF IInv, Typed
<1>4. work'[p] = v
  BY <1>2, <1>3
<1>5. /\ v.pc = "namespace" /\ v.inst = i /\ v.netns = None /\ v.cps = Empty
      /\ v.intfs = <<>> /\ v.puts = <<>> /\ DOMAIN v.cps = {}
  BY <1>1, IdleIs
<1>6. Made(p)' = {} /\ ToSet(v.intfs) = {}
  BY <1>4, <1>5, NoPuts DEF Made
<1>7. ~IsConfigured(i) /\ rec'[i] = rec[i]
  BY <1>2 DEF IsConfigured
<1>8. Claim(i)' = ({v.netns} \cup Made(p)' \cup ToSet(v.intfs)) \ {None}
  <2>1. /\ rec'[i] = rec[i] /\ p = PluginOf[i] /\ v = work'[p]
        /\ v.inst = i /\ v.pc \in {"namespace", "create", "attach"}
    BY <1>1, <1>4, <1>5, <1>7
  <2>2. QED BY <1>7, <2>1, ClaimNow
<1>9. Claim(i)' \subseteq Claim(i)
  BY <1>5, <1>6, <1>8
<1>10. QED BY <1>a, <1>1, <1>2, <1>5, <1>9, BeginsQuiet

LEMMA CleanQuiet ==
  ASSUME IInv, Served, Calm, NEW r \in asked, Clean(r)
  PROVE  Calm' /\ UNCHANGED AllAfter
<1>0. PICK i : i = r.inst
  OBVIOUS
<1>a. i \in Instances /\ r.copy = rec[i]
  BY <1>0, ServedIs
<1>1. PICK p, v :
        /\ p = PluginOf[i]
        /\ v = [Idle EXCEPT !.pc = "clean", !.inst = i, !.k = 1, !.netns = rec[i].netns,
                            !.intfs = rec[i].intfs, !.rest = rec[i].cps]
  OBVIOUS
<1>2. /\ work[p].pc = "idle" /\ p \in Plugins
      /\ work' = [work EXCEPT ![p] = v]
      /\ UNCHANGED <<netVars, rec, strays>>
  BY <1>0, <1>a, <1>1, InstanceAssumption DEF Clean, Begin, Advance
<1>3. DOMAIN work = Plugins
  BY DEF IInv, Typed
<1>4. work'[p] = v
  BY <1>2, <1>3
<1>5. v.pc = "clean" /\ v.inst = i /\ v.puts = <<>>
  BY <1>1, IdleIs
<1>6. ~Building(i)' /\ rec'[i] = rec[i]
  BY <1>1, <1>2, <1>4, <1>5 DEF Building, Configuring
<1>7. Claim(i)' \subseteq Claim(i)
  BY <1>a, <1>6, ClaimDropped
<1>8. QED BY <1>a, <1>1, <1>2, <1>5, <1>7, BeginsQuiet

(* An operation is done: its record names no more than it has claimed.     *)
LEMMA EndsQuiet ==
  ASSUME IInv, Calm, NEW p \in Plugins, work[p].puts = <<>>, NEW i, i = work[p].inst,
         i \in Instances, PluginOf[i] = p,
         work' = [work EXCEPT ![p] = Idle], UNCHANGED <<netVars, strays>>,
         \A j \in Instances \ {i} : rec'[j] = rec[j],
         Claim(i)' \subseteq Claim(i)
  PROVE  Calm' /\ UNCHANGED AllAfter
<1>1. Typed
  BY DEF IInv
<1>2. GoesOn(p, Idle) /\ UNCHANGED netVars
  BY DEF GoesOn
<1>3. ASSUME NEW j \in Instances, j # i PROVE Claim(j)' = Claim(j)
  <2>1. rec'[j] = rec[j]
    BY <1>3
  <2>2. QED BY <1>1, <1>2, <1>3, <2>1, OthersKept
<1>4. \A j \in Instances :
        /\ PluginOf[j] # p => Claim(j)' = Claim(j)
        /\ Claim(j)' \subseteq Claim(j)
  BY <1>3
<1>5. QED BY <1>2, <1>4, IdleIs, QuietStep

LEMMA ConfiguredQuiet ==
  ASSUME IInv, Calm, NEW p \in Plugins, Configured(p)
  PROVE  Calm' /\ UNCHANGED AllAfter
<1>1. PICK w, i, r :
        /\ w = work[p] /\ i = w.inst
        /\ r = [status |-> "CONFIGURED", netns |-> w.netns, intfs |-> w.intfs,
                cps |-> {w.cps[id] : id \in DOMAIN w.cps}]
  OBVIOUS
<1>2. /\ w.pc = "create" /\ work[p].puts = <<>>
      /\ work[p].pc \in {"namespace", "create", "attach"}
      /\ rec' = [rec EXCEPT ![i] = r] /\ work' = [work EXCEPT ![p] = Idle]
      /\ UNCHANGED <<netVars, strays>>
  BY <1>1 DEF Configured, At, Advance
<1>3. /\ Typed /\ Progress(p) /\ WorkTyped(p)
      /\ i \in Instances /\ PluginOf[i] = p
      /\ Claim(i) = ({w.netns} \cup Made(p) \cup ToSet(w.intfs)) \ {None}
  BY <1>1, <1>2, Before
<1>4. DOMAIN rec = Instances
  BY <1>3 DEF Typed
<1>5. rec'[i] = r /\ \A j \in Instances \ {i} : rec'[j] = rec[j]
  BY <1>2, <1>3, <1>4
<1>6. /\ r.status = "CONFIGURED" /\ r.netns = w.netns /\ r.intfs = w.intfs
      /\ r.cps = Made(p)
  BY <1>1 DEF Made
<1>7. /\ w.netns \in NetNs /\ w.netns # None /\ w.intfs \in Seq(Ifaces)
      /\ Made(p) \subseteq Cps
  BY <1>1, <1>2, <1>3, Keys DEF Progress, WorkTyped, Made
<1>8. IsConfigured(i)'
  BY <1>5, <1>6 DEF IsConfigured
<1>9. Claim(i)' = {w.netns} \cup Made(p) \cup ToSet(w.intfs)
  BY <1>5, <1>6, <1>8 DEF Claim, Listed
<1>10. Claim(i)' \subseteq Claim(i)
  <2>1. None \notin Made(p) /\ None \notin ToSet(w.intfs)
    BY <1>7, Keys DEF ToSet
  <2>2. QED BY <1>3, <1>7, <1>9, <2>1
<1>11. QED BY <1>1, <1>2, <1>3, <1>5, <1>10, EndsQuiet

LEMMA CleanedQuiet ==
  ASSUME IInv, Calm, NEW p \in Plugins, Cleaned(p)
  PROVE  Calm' /\ UNCHANGED AllAfter
<1>1. PICK w, i, r :
        /\ w = work[p] /\ i = w.inst
        /\ r = NewRecord
  OBVIOUS
<1>2. /\ work[p].pc \in {"clean", "delete"} /\ work[p].puts = <<>>
      /\ work' = [work EXCEPT ![p] = Idle]
      /\ UNCHANGED <<netVars, strays>>
  BY <1>1 DEF Cleaned, At, Advance
<1>3. /\ Typed /\ i \in Instances /\ PluginOf[i] = p /\ DOMAIN work = Plugins
  BY <1>1, <1>2, CleaningIs
<1>4. DOMAIN rec = Instances /\ RecTyped(i)
  BY <1>3 DEF Typed
<1>5. rec' = [rec EXCEPT ![i] = r]
  BY <1>1, <1>3, <1>4 DEF Cleaned
<1>6. /\ rec'[i] = r /\ work'[p] = Idle
      /\ \A j \in Instances \ {i} : rec'[j] = rec[j]
  BY <1>2, <1>3, <1>4, <1>5
<1>7. r.status = "DEFINED"
  BY <1>1 DEF NewRecord
<1>8. ~IsConfigured(i)'
  BY <1>6, <1>7 DEF IsConfigured
<1>9. ~Building(i)'
  BY <1>3, <1>6, IdleWork DEF Building
<1>10. Claim(i)' \subseteq Claim(i)
  BY <1>8, <1>9 DEF Claim
<1>11. QED BY <1>1, <1>2, <1>3, <1>6, <1>10, EndsQuiet

-----------------------------------------------------------------------------
(* Every step is a call, or nothing                                        *)

LEMMA StepCalls ==
  ASSUME IInv, Calm, NEW p \in Plugins, Step(p)
  PROVE  Calm' /\ (NetworkCall(p) \/ UNCHANGED AllAfter)
<1>1. CASE CreateNamespace(p)
  BY <1>1, CreateNamespaceCall
<1>2. CASE CreateConnectionPoint(p)
  BY <1>2, CreateConnectionPointCall
<1>3. CASE CreateInterface(p)
  BY <1>3, CreateInterfaceCall
<1>4. CASE Attach(p)
  BY <1>4, AttachIsCall
<1>5. CASE Configured(p)
  BY <1>5, ConfiguredQuiet
<1>6. CASE DeleteNamespace(p)
  BY <1>6, DeleteNamespaceCall
<1>7. CASE DeleteInterface(p)
  BY <1>7, DeleteInterfaceCall
<1>8. CASE DeleteConnectionPoint(p)
  BY <1>8, DeleteConnectionPointCall
<1>9. CASE Cleaned(p)
  BY <1>9, CleanedQuiet
<1>10. QED
  BY <1>1, <1>2, <1>3, <1>4, <1>5, <1>6, <1>7, <1>8, <1>9 DEF Step

LEMMA CallsStep ==
  ASSUME IInv, Served, Calm, [InstanceNext]_vars
  PROVE  /\ Calm'
         /\ NetworkingDies \/ (\E p \in Plugins : NetworkCall(p)) \/ UNCHANGED AllAfter
<1>1. ASSUME NEW p \in Plugins, Step(p)
      PROVE  Calm' /\ ((\E r \in Plugins : NetworkCall(r)) \/ UNCHANGED AllAfter)
  BY <1>1, StepCalls
<1>2. ASSUME NEW p \in Plugins, Write(p) PROVE Calm' /\ UNCHANGED AllAfter
  <2>1. PICK q : q = Head(work[p].puts)
    OBVIOUS
  <2>2. Makes(q)
    BY <1>2, <2>1, WriteMakes
  <2>3. QED BY <1>2, <2>2, WriteCalm, MakesNothing
<1>3. ASSUME NEW s \in strays, WriteStray(s) PROVE Calm' /\ UNCHANGED AllAfter
  <2>1. PICK q : q = Head(s)
    OBVIOUS
  <2>2. Makes(q)
    BY <1>3, <2>1, WriteStrayMakes
  <2>3. QED BY <1>3, <2>2, WriteStrayCalm, MakesNothing
<1>4. ASSUME NEW p \in Plugins, GiveUp(p) PROVE Calm' /\ UNCHANGED AllAfter
  <2>1. UNCHANGED netVars /\ \A q : q \in Pending' <=> q \in Pending
    BY <1>4, GiveUpIs
  <2>2. QED BY <1>4, <2>1, GiveUpCalm, NothingAhead
<1>5. ASSUME NEW r \in asked, Configure(r) \/ Clean(r) PROVE Calm' /\ UNCHANGED AllAfter
  BY <1>5, ConfigureQuiet, CleanQuiet
<1>6. CASE NetworkingDies
  BY <1>6, NetworkingDiesCalm
<1>7. ASSUME UNCHANGED workVars PROVE Calm' /\ UNCHANGED AllAfter
  <2>1. UNCHANGED <<netVars, rec, work, strays, faults, failed>>
    BY <1>7 DEF workVars
  <2>2. ifaces' = ifaces /\ namespaces' = namespaces /\ cps' = cps
    BY <2>1, StoresSame
  <2>3. Pending' = Pending /\ Strays' = Strays
    BY <2>1 DEF Pending, Strays
  <2>4. \A p \in Plugins : Puts(p)' = Puts(p)
    BY <2>1 DEF Puts
  <2>5. \A i \in Instances : Claim(i)' = Claim(i)
    BY <2>1, ClaimStays
  <2>6. Calm'
    <3>1. StraySolo' /\ StrayClear'
      BY <2>1, <2>3 DEF Calm, StraySolo, StrayClear
    <3>2. Home' /\ HalvesGone'
      BY <2>2, <2>3 DEF Calm, Home, HalvesGone
    <3>3. HomeOwn'
      <4>1. ASSUME NEW p \in Plugins, NEW q \in Puts(p), IfacePut(q, q.key)
            PROVE  q.val.net_ns \in Claim(work[p].inst)' \cup {None}
        <5>1. Claim(work[p].inst)' = Claim(work[p].inst)
          BY <2>1, ClaimStays
        <5>2. QED BY <4>1, <5>1 DEF Calm, HomeOwn
      <4>2. QED BY <2>1, <2>4, <4>1 DEF HomeOwn
    <3>4. HomeStray'
      BY <2>3, <2>5 DEF Calm, HomeStray
    <3>5. ListFirst'
      <4>1. \A s : ListsFirst(s)' <=> ListsFirst(s)
        BY <2>2 DEF ListsFirst
      <4>2. QED BY <2>1, <4>1 DEF Calm, ListFirst
    <3>6. QED BY <3>1, <3>2, <3>3, <3>4, <3>5 DEF Calm
  <2>7. QED BY <2>1, <2>3, <2>6, NothingAhead
<1>8. ASSUME NEW i \in Instances, AskConfigure(i) \/ AskClean(i)
      PROVE  Calm' /\ UNCHANGED AllAfter
  BY <1>7, <1>8, AskIs
<1>9. CASE UNCHANGED vars
  BY <1>7, <1>9 DEF vars, workVars
<1>10. QED
  BY <1>1, <1>2, <1>3, <1>4, <1>5, <1>6, <1>8, <1>9 DEF InstanceNext

LEMMA CalmStep == IInv /\ Served /\ Calm /\ [InstanceNext]_vars => Calm'
BY CallsStep

LEMMA CalmHolds ==
  ASSUME MaxOverlaps = 0 PROVE InstanceSpec => [](IInv /\ Served /\ Calm)
<1>1. Init => Calm
  BY InitHolds, InitCalm
<1>2. IInv /\ Served /\ Calm /\ [InstanceNext]_vars => Calm'
  BY CalmStep
<1>3. QED BY <1>1, <1>2, InstanceInvHolds, PTL DEF InstanceSpec

LEMMA VnetsStay == [InstanceNext]_vars => vnets' = vnets
BY DEF InstanceNext, vars, netVars, callVars, Step, Write, WriteStray, Execute, GiveUp,
       NetworkingDies, AskConfigure, AskClean, Ask, Configure, Clean, Begin, CreateNamespace, CreateConnectionPoint,
       CreateInterface, Attach, Configured, DeleteNamespace, DeleteInterface,
       DeleteConnectionPoint, Cleaned, Call, Refused, Advance

(* Each call of the networking plugin takes effect at one point, as the    *)
(* action of NetworkPlugin that it is, for any number of plugins and of    *)
(* callers that give up: in each step one call does all that it will ever  *)
(* do, or the records, as they are once the calls in progress are done,    *)
(* stay the same.  Only when the networking plugin dies are calls cut off. *)
(* It is assumed that two requests are never for one instance at once.     *)
THEOREM CallsAtomicHolds ==
  ASSUME MaxOverlaps = 0 PROVE InstanceSpec => CallsAtomic
<1>1. ASSUME IInv, Served, Calm, [InstanceNext]_vars
      PROVE  [NetworkingDies \/ \E p \in Plugins : NetworkCall(p)]_<<vnets, Net!netVars>>
  <2>1. vnets' = vnets
    BY <1>1, VnetsStay
  <2>2. NetworkingDies \/ (\E p \in Plugins : NetworkCall(p)) \/ UNCHANGED AllAfter
    BY <1>1, CallsStep
  <2>3. UNCHANGED AllAfter => UNCHANGED <<vnets, Net!netVars>>
    BY <2>1 DEF AllAfter, Net!netVars
  <2>4. QED BY <2>2, <2>3
<1>2. QED BY <1>1, CalmHolds, PTL DEF InstanceSpec, CallsAtomic
=============================================================================
