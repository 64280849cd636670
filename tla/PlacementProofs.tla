--------------------------- MODULE PlacementProofs ---------------------------
(***************************************************************************)
(* Placement for any number of nodes, clients and descriptors: who is      *)
(* picked met the requirements, and who is there is found.                 *)
(*                                                                         *)
(* Neither property says where the answer of a node is while the request   *)
(* goes on.  Told says of every check that has said yes so far that it was *)
(* right; Awaited says of every node that stays findable that its yes is   *)
(* still to come or has been counted.                                      *)
(***************************************************************************)
EXTENDS Placement, TLAPS

(* A server that said yes to c, or has yet to look for the plugin, is one  *)
(* of a node that met the request.                                         *)
ToldBy(c) ==
  task[c].pc # "idle" /\ Decidable(task[c].fdu) =>
    \A s \in task[c].met \cup task[c].compatibles : Host(s) \in ever[c]

Told == \A c \in Clients : ToldBy(c)

(* What the history says is still so.                                      *)
StillFound ==
  \A c \in Clients : \A n \in steady[c] :
    task[c].pc # "idle" /\ Findable(n, task[c].fdu)

(* The u8 has too few processors left.                                     *)
Short(n, f) == NodeInfo[n].cpu % 2^8 < Descriptor[f].cpu_min_count

(* Request t has n's yes, or is to have it, or no longer asks.             *)
Awaits(t, n, server) ==
  \/ Short(n, t.fdu)
  \/ t.pc = "asking" /\ n = t.at
  \/ t.pc = "self" /\ n = t.at
       /\ <<n, 0>> \in t.asked \cup t.met \cup t.compatibles
  \/ t.pc \in {"asking", "self"}
       /\ server \in t.asked \cup t.met \cup t.compatibles
  \/ t.pc \in {"chosen", "defined", "failed"}

AwaitedBy(c) == \A n \in steady[c] : Awaits(task[c], n, <<n, service[n]>>)

Awaited == \A c \in Clients : AwaitedBy(c)

PlacementInv == TypeOK /\ Told /\ StillFound /\ Awaited

-----------------------------------------------------------------------------
(* The check of one node                                                   *)

(* A yes to a descriptor the check decides about is right.                 *)
LEMMA CompatibleMeets ==
  ASSUME NEW n \in Nodes, NEW f \in Fdus, Decidable(f),
         status[n] \in Statuses, Compatible(n, f, status[n])
  PROVE  Meets(n, f)
<1> DEFINE d == Descriptor[f]
           s == status[n]
<1>1. /\ d.cpu_min_count \in Nat /\ d.storage_size_mb \in Nat
      /\ NodeInfo[n].cpu \in Nat
      /\ s.disk \in Nat /\ s # None
  BY PlacementAssumption
<1>2. /\ <<n, f>> \in Suited
      /\ NodeInfo[n].cpu % 2^8 >= d.cpu_min_count
      /\ s.ram >= d.ram_size_mb
      /\ 1024 * s.disk >= d.storage_size_mb
      /\ Faces(n, f)
  BY DEF Compatible
<1>3. NodeInfo[n].cpu >= d.cpu_min_count
  <2>1. 2^8 = 256
    OBVIOUS
  <2>2. NodeInfo[n].cpu % 256 <= NodeInfo[n].cpu
    BY <1>1
  <2>3. NodeInfo[n].cpu % 256 \in Nat
    BY <1>1
  <2>4. QED BY <1>1, <1>2, <2>1, <2>2, <2>3
<1>4. s.disk >= d.storage_size_mb
  <2>1. d.storage_size_mb <= 1
    BY DEF Decidable
  <2>2. QED BY <1>1, <1>2, <2>1
<1>5. \A i \in Constrained(f) : HasParent(n, d.interfaces[i])
  <2>1. Constrained(f) \subseteq Nat
    BY PlacementAssumption DEF Constrained
  <2>2. \A i, j \in Constrained(f) : j <= i
    BY <2>1 DEF Decidable
  <2>3. QED BY <1>2, <2>2 DEF Faces
<1>6. QED BY <1>1, <1>2, <1>3, <1>4, <1>5 DEF Meets

(* A node that meets a descriptor is refused only for its processors.      *)
LEMMA MeetsCompatible ==
  ASSUME NEW n \in Nodes, NEW f \in Fdus, Meets(n, f),
         status[n] \in Statuses \cup {None}, ~Short(n, f)
  PROVE  status[n] # None /\ Compatible(n, f, status[n])
<1> DEFINE d == Descriptor[f]
           s == status[n]
<1>1. /\ <<n, f>> \in Suited
      /\ s # None
      /\ s.ram >= d.ram_size_mb
      /\ s.disk >= d.storage_size_mb
      /\ \A i \in Constrained(f) : HasParent(n, d.interfaces[i])
  BY DEF Meets
<1>2. d.storage_size_mb \in Nat /\ s.disk \in Nat
  BY <1>1, PlacementAssumption
<1>3. 1024 * s.disk >= d.storage_size_mb
  BY <1>1, <1>2
<1>4. NodeInfo[n].cpu % 2^8 >= d.cpu_min_count
  <2>1. 2^8 = 256
    OBVIOUS
  <2>2. NodeInfo[n].cpu % 256 \in Int /\ d.cpu_min_count \in Int
    BY PlacementAssumption
  <2>3. ~(NodeInfo[n].cpu % 256 < d.cpu_min_count)
    BY <2>1 DEF Short
  <2>4. QED BY <2>1, <2>2, <2>3
<1>5. Faces(n, f)
  BY <1>1 DEF Faces
<1>6. QED BY <1>1, <1>3, <1>4, <1>5 DEF Compatible

-----------------------------------------------------------------------------
(* Requests as records                                                     *)

Record(p, a, f, as, me, co, se) ==
  [pc |-> p, at |-> a, fdu |-> f, asked |-> as, met |-> me,
   compatibles |-> co, selected |-> se]

LEMMA TaskRecord ==
  ASSUME NEW t \in Task
  PROVE  t = Record(t.pc, t.at, t.fdu, t.asked, t.met, t.compatibles, t.selected)
BY DEF Task, Record

LEMMA IdleRecord == NoRequest = Record("idle", None, None, {}, {}, {}, None)
BY DEF NoRequest, Asking, Record

(* What the actions write of a request, field by field.                    *)
LEMMA SetPc ==
  ASSUME NEW t, NEW p, NEW a, NEW f, NEW as, NEW me, NEW co, NEW se, NEW x,
         t = Record(p, a, f, as, me, co, se)
  PROVE  [t EXCEPT !.pc = x] = Record(x, a, f, as, me, co, se)
<1> DEFINE w == [t EXCEPT !.pc = x]
<1>1. /\ DOMAIN w = DOMAIN t
      /\ \A k \in DOMAIN t : w[k] = IF k = "pc" THEN x ELSE t[k]
      /\ w = [k \in DOMAIN w |-> w[k]]
  BY Zenon
<1> HIDE DEF w
<1>2. w = Record(x, a, f, as, me, co, se)
  BY <1>1 DEF Record
<1>3. QED BY <1>2 DEF w

LEMMA SetAsked ==
  ASSUME NEW t, NEW p, NEW a, NEW f, NEW as, NEW me, NEW co, NEW se, NEW x,
         t = Record(p, a, f, as, me, co, se)
  PROVE  [t EXCEPT !.asked = x] = Record(p, a, f, x, me, co, se)
<1> DEFINE w == [t EXCEPT !.asked = x]
<1>1. /\ DOMAIN w = DOMAIN t
      /\ \A k \in DOMAIN t : w[k] = IF k = "asked" THEN x ELSE t[k]
      /\ w = [k \in DOMAIN w |-> w[k]]
  BY Zenon
<1> HIDE DEF w
<1>2. w = Record(p, a, f, x, me, co, se)
  BY <1>1 DEF Record
<1>3. QED BY <1>2 DEF w

LEMMA SetMet ==
  ASSUME NEW t, NEW p, NEW a, NEW f, NEW as, NEW me, NEW co, NEW se, NEW x,
         t = Record(p, a, f, as, me, co, se)
  PROVE  [t EXCEPT !.met = x] = Record(p, a, f, as, x, co, se)
<1> DEFINE w == [t EXCEPT !.met = x]
<1>1. /\ DOMAIN w = DOMAIN t
      /\ \A k \in DOMAIN t : w[k] = IF k = "met" THEN x ELSE t[k]
      /\ w = [k \in DOMAIN w |-> w[k]]
  BY Zenon
<1> HIDE DEF w
<1>2. w = Record(p, a, f, as, x, co, se)
  BY <1>1 DEF Record
<1>3. QED BY <1>2 DEF w

LEMMA SetCompatibles ==
  ASSUME NEW t, NEW p, NEW a, NEW f, NEW as, NEW me, NEW co, NEW se, NEW x,
         t = Record(p, a, f, as, me, co, se)
  PROVE  [t EXCEPT !.compatibles = x] = Record(p, a, f, as, me, x, se)
<1> DEFINE w == [t EXCEPT !.compatibles = x]
<1>1. /\ DOMAIN w = DOMAIN t
      /\ \A k \in DOMAIN t : w[k] = IF k = "compatibles" THEN x ELSE t[k]
      /\ w = [k \in DOMAIN w |-> w[k]]
  BY Zenon
<1> HIDE DEF w
<1>2. w = Record(p, a, f, as, me, x, se)
  BY <1>1 DEF Record
<1>3. QED BY <1>2 DEF w

LEMMA SetSelected ==
  ASSUME NEW t, NEW p, NEW a, NEW f, NEW as, NEW me, NEW co, NEW se, NEW x,
         t = Record(p, a, f, as, me, co, se)
  PROVE  [t EXCEPT !.selected = x] = Record(p, a, f, as, me, co, x)
<1> DEFINE w == [t EXCEPT !.selected = x]
<1>1. /\ DOMAIN w = DOMAIN t
      /\ \A k \in DOMAIN t : w[k] = IF k = "selected" THEN x ELSE t[k]
      /\ w = [k \in DOMAIN w |-> w[k]]
  BY Zenon
<1> HIDE DEF w
<1>2. w = Record(p, a, f, as, me, co, x)
  BY <1>1 DEF Record
<1>3. QED BY <1>2 DEF w

(* The request of c becomes r, and no record is written.                   *)
Becomes(c, r) ==
  task' = [task EXCEPT ![c] = r] /\ UNCHANGED <<agentVars, catalog>>

LEMMA ReadRecordsTask ==
  ASSUME TypeOK, NEW c \in Clients, NEW s, ReadRecords(c, s)
  PROVE  \E M :
           /\ \/ M = task[c].met
              \/ /\ M = task[c].met \cup {s}
                 /\ get_fdu(task[c].fdu)
                 /\ get_node_info(Host(s))
                 /\ get_node_status(Host(s))
                 /\ Compatible(Host(s), task[c].fdu, status[Host(s)])
           /\ (/\ get_fdu(task[c].fdu)
               /\ get_node_info(Host(s))
               /\ get_node_status(Host(s))
               /\ Compatible(Host(s), task[c].fdu, status[Host(s)]))
                 => s \in M
           /\ Becomes(c, Record(task[c].pc, task[c].at, task[c].fdu,
                                task[c].asked \ {s}, M, task[c].compatibles,
                                task[c].selected))
<1> DEFINE t == task[c]
           yes == /\ get_fdu(t.fdu)
                  /\ get_node_info(Host(s))
                  /\ get_node_status(Host(s))
                  /\ Compatible(Host(s), t.fdu, status[Host(s)])
           X == t.asked \ {s}
           M == IF yes THEN t.met \cup {s} ELSE t.met
           r(x) == Record(t.pc, t.at, t.fdu, x, t.met, t.compatibles, t.selected)
           q(x, y) == Record(t.pc, t.at, t.fdu, x, y, t.compatibles, t.selected)
<1>1. task \in [Clients -> Task] /\ c \in DOMAIN task
  BY DEF TypeOK
<1>2. t = Record(t.pc, t.at, t.fdu, t.asked, t.met, t.compatibles, t.selected)
  BY <1>1, TaskRecord
<1>3. task' = [task EXCEPT ![c] = [[t EXCEPT !.asked = X] EXCEPT !.met = M]]
  BY <1>1 DEF ReadRecords
<1>4. \A x : [t EXCEPT !.asked = x] = r(x)
  BY <1>2, SetAsked
<1>5. \A x, y : [r(x) EXCEPT !.met = y] = q(x, y)
  BY SetMet
<1>6. task' = [task EXCEPT ![c] = q(X, M)]
  <2> HIDE DEF M
  <2>1. QED BY <1>3, <1>4, <1>5
<1>7. (M = t.met \/ (yes /\ M = t.met \cup {s})) /\ (yes => s \in M)
  OBVIOUS
<1>8. UNCHANGED <<agentVars, catalog>>
  BY DEF ReadRecords
<1> QED BY <1>6, <1>7, <1>8 DEF Becomes


LEMMA CheckPluginTask ==
  ASSUME TypeOK, NEW c \in Clients, NEW s, CheckPlugin(c, s)
  PROVE  Becomes(c, Record(task[c].pc, task[c].at, task[c].fdu, task[c].asked,
                           task[c].met \ {s},
                           IF Host(s) \in plugin
                             THEN task[c].compatibles \cup {s}
                             ELSE task[c].compatibles,
                           task[c].selected))
<1> DEFINE t == task[c]
           X == t.met \ {s}
           Y == IF Host(s) \in plugin THEN t.compatibles \cup {s} ELSE t.compatibles
           r(x) == Record(t.pc, t.at, t.fdu, t.asked, x, t.compatibles, t.selected)
           q(x, y) == Record(t.pc, t.at, t.fdu, t.asked, x, y, t.selected)
<1>1. task \in [Clients -> Task] /\ c \in DOMAIN task
  BY DEF TypeOK
<1>2. t = Record(t.pc, t.at, t.fdu, t.asked, t.met, t.compatibles, t.selected)
  BY <1>1, TaskRecord
<1>3. task' = [task EXCEPT ![c] = [[t EXCEPT !.met = X] EXCEPT !.compatibles = Y]]
  BY <1>1 DEF CheckPlugin
<1>4. \A x : [t EXCEPT !.met = x] = r(x)
  BY <1>2, SetMet
<1>5. \A x, y : [r(x) EXCEPT !.compatibles = y] = q(x, y)
  BY SetCompatibles
<1>6. task' = [task EXCEPT ![c] = q(X, Y)]
  BY <1>3, <1>4, <1>5
<1>7. UNCHANGED <<agentVars, catalog>>
  BY DEF CheckPlugin
<1> QED BY <1>6, <1>7 DEF Becomes

LEMMA UnansweredTask ==
  ASSUME TypeOK, NEW c \in Clients, NEW s, Unanswered(c, s)
  PROVE  Becomes(c, Record(task[c].pc, task[c].at, task[c].fdu,
                           task[c].asked \ {s}, task[c].met \ {s},
                           task[c].compatibles, task[c].selected))
<1> DEFINE t == task[c]
           X == t.asked \ {s}
           Y == t.met \ {s}
           r(x) == Record(t.pc, t.at, t.fdu, x, t.met, t.compatibles, t.selected)
           q(x, y) == Record(t.pc, t.at, t.fdu, x, y, t.compatibles, t.selected)
<1>1. task \in [Clients -> Task] /\ c \in DOMAIN task
  BY DEF TypeOK
<1>2. t = Record(t.pc, t.at, t.fdu, t.asked, t.met, t.compatibles, t.selected)
  BY <1>1, TaskRecord
<1>3. task' = [task EXCEPT ![c] = [[t EXCEPT !.asked = X] EXCEPT !.met = Y]]
  BY <1>1 DEF Unanswered
<1>4. \A x : [t EXCEPT !.asked = x] = r(x)
  BY <1>2, SetAsked
<1>5. \A x, y : [r(x) EXCEPT !.met = y] = q(x, y)
  BY SetMet
<1>6. task' = [task EXCEPT ![c] = q(X, Y)]
  BY <1>3, <1>4, <1>5
<1>7. UNCHANGED <<agentVars, catalog>>
  BY DEF Unanswered
<1> QED BY <1>6, <1>7 DEF Becomes

LEMMA SelfCheckTask ==
  ASSUME TypeOK, NEW c \in Clients, SelfCheck(c)
  PROVE  Becomes(c, Record("self", task[c].at, task[c].fdu, {<<task[c].at, 0>>},
                           task[c].met, task[c].compatibles, task[c].selected))
<1> DEFINE t == task[c]
           X == {<<t.at, 0>>}
           r(x) == Record(x, t.at, t.fdu, t.asked, t.met, t.compatibles, t.selected)
           q(x, y) == Record(x, t.at, t.fdu, y, t.met, t.compatibles, t.selected)
<1>1. task \in [Clients -> Task] /\ c \in DOMAIN task
  BY DEF TypeOK
<1>2. t = Record(t.pc, t.at, t.fdu, t.asked, t.met, t.compatibles, t.selected)
  BY <1>1, TaskRecord
<1>3. task' = [task EXCEPT ![c] = [[t EXCEPT !.pc = "self"] EXCEPT !.asked = X]]
  BY <1>1 DEF SelfCheck
<1>4. \A x : [t EXCEPT !.pc = x] = r(x)
  BY <1>2, SetPc
<1>5. \A x, y : [r(x) EXCEPT !.asked = y] = q(x, y)
  BY SetAsked
<1>6. task' = [task EXCEPT ![c] = q("self", X)]
  BY <1>3, <1>4, <1>5
<1>7. UNCHANGED <<agentVars, catalog>>
  BY DEF SelfCheck
<1> QED BY <1>6, <1>7 DEF Becomes

LEMMA ChooseTask ==
  ASSUME TypeOK, NEW c \in Clients, Choose(c)
  PROVE  \/ \E s \in task[c].compatibles :
              Becomes(c, Record("chosen", task[c].at, task[c].fdu, task[c].asked,
                                task[c].met, task[c].compatibles, s))
         \/ /\ task[c].compatibles = {}
            /\ Becomes(c, Record("notfound", task[c].at, task[c].fdu,
                                 task[c].asked, task[c].met, task[c].compatibles,
                                 task[c].selected))
<1> DEFINE t == task[c]
           r(p) == Record(p, t.at, t.fdu, t.asked, t.met, t.compatibles, t.selected)
           q(s) == Record("chosen", t.at, t.fdu, t.asked, t.met, t.compatibles, s)
<1>1. task \in [Clients -> Task] /\ c \in DOMAIN task
  BY DEF TypeOK
<1>2. t = Record(t.pc, t.at, t.fdu, t.asked, t.met, t.compatibles, t.selected)
  BY <1>1, TaskRecord
<1>3. \A p : [t EXCEPT !.pc = p] = r(p)
  BY <1>2, SetPc
<1>4. \A s : [r("chosen") EXCEPT !.selected = s] = q(s)
  BY SetSelected
<1>5. UNCHANGED <<agentVars, catalog>>
  BY DEF Choose
<1>6. CASE t.compatibles = {} /\ task' = [task EXCEPT ![c].pc = "notfound"]
  <2>1. task' = [task EXCEPT ![c] = [t EXCEPT !.pc = "notfound"]]
    BY <1>1, <1>6
  <2>2. QED BY <1>3, <1>5, <1>6, <2>1 DEF Becomes
<1>7. ASSUME NEW s \in t.compatibles,
             task' = [task EXCEPT ![c].pc = "chosen", ![c].selected = s]
      PROVE  Becomes(c, q(s))
  <2>1. task' = [task EXCEPT ![c] =
                   [[t EXCEPT !.pc = "chosen"] EXCEPT !.selected = s]]
    BY <1>1, <1>7
  <2>2. QED BY <1>3, <1>4, <1>5, <2>1 DEF Becomes
<1> QED BY <1>6, <1>7 DEF Choose

LEMMA DefineTask ==
  ASSUME TypeOK, NEW c \in Clients, define_fdu(c)
  PROVE  \E p \in {"defined", "failed"} :
           Becomes(c, Record(p, task[c].at, task[c].fdu, task[c].asked,
                             task[c].met, task[c].compatibles, task[c].selected))
<1> DEFINE t == task[c]
           r(p) == Record(p, t.at, t.fdu, t.asked, t.met, t.compatibles, t.selected)
<1>1. task \in [Clients -> Task] /\ c \in DOMAIN task
  BY DEF TypeOK
<1>2. t = Record(t.pc, t.at, t.fdu, t.asked, t.met, t.compatibles, t.selected)
  BY <1>1, TaskRecord
<1>3. \A p : [t EXCEPT !.pc = p] = r(p)
  BY <1>2, SetPc
<1>4. PICK p \in {"defined", "failed"} : task' = [task EXCEPT ![c].pc = p]
  BY DEF define_fdu
<1>5. task' = [task EXCEPT ![c] = [t EXCEPT !.pc = p]]
  BY <1>1, <1>4
<1>6. UNCHANGED <<agentVars, catalog>>
  BY DEF define_fdu
<1> QED BY <1>3, <1>5, <1>6 DEF Becomes

LEMMA ScheduleTask ==
  ASSUME NEW c \in Clients, NEW n, NEW f, schedule_fdu(c, n, f)
  PROVE  Becomes(c, Record("asking", n, f,
                           {<<m, info[m]>> : m \in get_all_nodes}
                             \ {<<n, service[n]>>},
                           {}, {}, None))
BY DEF schedule_fdu, Asking, Record, Becomes

LEMMA ReturnTask ==
  ASSUME NEW c \in Clients, Return(c)
  PROVE  Becomes(c, Record("idle", None, None, {}, {}, {}, None))
BY IdleRecord DEF Return, Becomes

-----------------------------------------------------------------------------
(* The parts of the invariant                                              *)

AgentOK ==
  /\ service \in [Nodes -> Nat]
  /\ \A n \in Nodes : service[n] <= MaxStarts[n]
  /\ up \subseteq {n \in Nodes : service[n] > 0}
  /\ plugin \subseteq up
  /\ info \in [Nodes -> Nat]
  /\ \A n \in Nodes : info[n] <= service[n]
  /\ status \in [Nodes -> Statuses \cup {None}]
  /\ catalog \subseteq Fdus

TypedTask(t, server) ==
  /\ t.pc # "idle" =>
       /\ t.at \in up
       /\ t.fdu \in Fdus
       /\ server \notin t.asked \cup t.met
  /\ t.pc \in {"chosen", "defined"} => t.selected \in t.compatibles

TypedBy(c) == TypedTask(task[c], <<task[c].at, service[task[c].at]>>)

LEMMA TypeParts ==
  TypeOK <=> /\ AgentOK
             /\ task \in [Clients -> Task]
             /\ \A c \in Clients : TypedBy(c)
             /\ ever \in [Clients -> SUBSET Nodes]
             /\ steady \in [Clients -> SUBSET Nodes]
BY DEF TypeOK, AgentOK, TypedBy, TypedTask

(* What the history variables are told.                                    *)
LEMMA Watched ==
  ASSUME Watch, NEW c \in Clients
  PROVE  /\ task'[c].pc # "idle" =>
              \A n \in Nodes : n \in ever[c] \/ Meets(n, task[c].fdu)' => n \in ever'[c]
         /\ \A n \in steady'[c] :
              /\ n \in Nodes
              /\ task'[c].pc # "idle"
              /\ Findable(n, task[c].fdu)'
              /\ task[c].pc # "idle" => n \in steady[c]
BY DEF Watch, Meeting, Found

LEMMA HistoryTypes ==
  ASSUME TypeOK, Watch
  PROVE  ever' \in [Clients -> SUBSET Nodes] /\ steady' \in [Clients -> SUBSET Nodes]
BY DEF TypeOK, Watch, Meeting, Found


LEMMA Combined ==
  ASSUME TypeOK, Watch, AgentOK', task' \in [Clients -> Task],
         \A c \in Clients : TypedBy(c)' /\ ToldBy(c)' /\ AwaitedBy(c)'
  PROVE  PlacementInv'
<1>1. TypeOK'
  <2>1. \A c \in Clients : TypedBy(c)'
    OBVIOUS
  <2>2. ever' \in [Clients -> SUBSET Nodes] /\ steady' \in [Clients -> SUBSET Nodes]
    BY HistoryTypes
  <2>3. QED BY <2>1, <2>2
        DEF TypeOK, AgentOK, TypedBy, TypedTask
<1>2. Told' /\ Awaited'
  BY DEF Told, Awaited
<1>3. StillFound'
  BY Watched DEF StillFound
<1>4. QED BY <1>1, <1>2, <1>3 DEF PlacementInv

(* A client without a request.                                             *)
LEMMA Idle ==
  ASSUME Watch, NEW c \in Clients, task'[c].pc = "idle"
  PROVE  TypedBy(c)' /\ ToldBy(c)' /\ AwaitedBy(c)'
<1>1. steady'[c] = {}
  BY Watched
<1>2. TypedBy(c)'
  BY DEF TypedBy, TypedTask
<1>3. ToldBy(c)'
  BY DEF ToldBy
<1>4. AwaitedBy(c)'
  BY <1>1 DEF AwaitedBy
<1>5. QED BY <1>2, <1>3, <1>4

(* A node that is found keeps its uuid, for its agent runs.                *)
LEMMA FoundUp ==
  ASSUME TypeOK, NEW n \in Nodes, NEW f, Findable(n, f)
  PROVE  n \in up
BY DEF TypeOK, Findable

(* A request that no step touches, as long as its agent runs.              *)
LEMMA Untouched ==
  ASSUME PlacementInv, Watch, NEW c \in Clients, task'[c] = task[c],
         task[c].pc # "idle" => task[c].at \in up',
         \A n \in up : service'[n] = service[n]
  PROVE  TypedBy(c)' /\ ToldBy(c)' /\ AwaitedBy(c)'
<1>1. TypeOK /\ TypedBy(c) /\ ToldBy(c) /\ AwaitedBy(c)
  BY TypeParts DEF PlacementInv, Told, Awaited
<1>2. CASE task[c].pc = "idle"
  BY <1>2, Idle
<1>3. CASE task[c].pc # "idle"
  <2>1. \A n \in steady'[c] : n \in steady[c] /\ n \in up
    BY <1>1, <1>3, Watched, FoundUp DEF PlacementInv, StillFound
  <2>2. TypedBy(c)'
    BY <1>1, <1>3 DEF TypedBy, TypedTask
  <2>3. ToldBy(c)'
    <3>1. task[c] \in Task /\ ever[c] \subseteq Nodes
      BY <1>1 DEF TypeOK
    <3>2. ever[c] \subseteq ever'[c]
      BY <1>3, <3>1, Watched
    <3>3. QED BY <1>1, <3>2 DEF ToldBy
  <2>4. AwaitedBy(c)'
    BY <1>1, <2>1 DEF AwaitedBy
  <2>5. QED BY <2>2, <2>3, <2>4
<1>4. QED BY <1>2, <1>3

LEMMA BecomesTask ==
  ASSUME TypeOK, NEW c \in Clients, NEW r \in Task, Becomes(c, r)
  PROVE  /\ task' \in [Clients -> Task]
         /\ task'[c] = r
         /\ \A d \in Clients \ {c} : task'[d] = task[d]
         /\ UNCHANGED <<agentVars, catalog>>
         /\ AgentOK'
BY DEF Becomes, TypeOK, AgentOK, agentVars

(* A request that moves on from task[c] to r.  Whoever says yes now must   *)
(* meet it, and nobody who stays findable may drop out.                    *)
LEMMA Moved ==
  ASSUME PlacementInv, Watch, NEW c \in Clients, NEW r \in Task, Becomes(c, r),
         r.pc # "idle",
         TypedTask(r, <<r.at, service[r.at]>>),
         task[c].pc # "idle" => r.fdu = task[c].fdu,
         Decidable(r.fdu) => \A s \in r.met \cup r.compatibles :
           \/ task[c].pc # "idle" /\ s \in task[c].met \cup task[c].compatibles
           \/ Host(s) \in Nodes /\ Meets(Host(s), r.fdu),
         \A n \in Nodes :
           (Findable(n, r.fdu) /\ (task[c].pc # "idle" => n \in steady[c]))
             => Awaits(r, n, <<n, service[n]>>)
  PROVE  PlacementInv'
<1>1. /\ TypeOK /\ ToldBy(c)
      /\ \A d \in Clients : TypedBy(d)
  BY TypeParts DEF PlacementInv, Told
<1>2. /\ task' \in [Clients -> Task]
      /\ task'[c] = r
      /\ \A d \in Clients \ {c} : task'[d] = task[d]
      /\ AgentOK'
      /\ service' = service /\ up' = up /\ plugin' = plugin /\ info' = info
      /\ status' = status /\ catalog' = catalog
  BY <1>1, BecomesTask DEF agentVars
<1>3. \A d \in Clients \ {c} : TypedBy(d)' /\ ToldBy(d)' /\ AwaitedBy(d)'
  <2> TAKE d \in Clients \ {c}
  <2>1. task[d].pc # "idle" => task[d].at \in up'
    BY <1>1, <1>2 DEF TypedBy, TypedTask
  <2>2. QED BY <1>2, <2>1, Untouched
<1>4. TypedBy(c)'
  BY <1>2 DEF TypedBy, TypedTask
<1>5. \A n \in Nodes : Meets(n, task[c].fdu)' <=> Meets(n, r.fdu)
  BY <1>2 DEF Meets
<1>6. \A n \in Nodes : Findable(n, task[c].fdu)' <=> Findable(n, r.fdu)
  BY <1>2, <1>5 DEF Findable
<1>7. ToldBy(c)'
  <2> SUFFICES ASSUME Decidable(r.fdu), NEW s \in r.met \cup r.compatibles
               PROVE  Host(s) \in ever'[c]
    BY <1>2 DEF ToldBy, Decidable, Constrained
  <2>1. CASE Host(s) \in Nodes /\ Meets(Host(s), r.fdu)
    BY <1>2, <1>5, <2>1, Watched
  <2>2. CASE task[c].pc # "idle" /\ s \in task[c].met \cup task[c].compatibles
    <3>1. Host(s) \in ever[c] /\ ever[c] \subseteq Nodes
      BY <1>1, <2>2 DEF ToldBy, TypeOK
    <3>2. QED BY <1>2, <3>1, Watched
  <2>3. QED BY <2>1, <2>2
<1>8. AwaitedBy(c)'
  <2> SUFFICES ASSUME NEW n \in steady'[c]
               PROVE  Awaits(r, n, <<n, service[n]>>)
    BY <1>2 DEF AwaitedBy
  <2>1. /\ n \in Nodes /\ Findable(n, task[c].fdu)'
        /\ task[c].pc # "idle" => n \in steady[c]
    BY Watched
  <2>2. QED BY <1>6, <2>1
<1>9. QED BY <1>1, <1>2, <1>3, <1>4, <1>7, <1>8, Combined


LEMMA Ended ==
  ASSUME PlacementInv, Watch, NEW c \in Clients, NEW r \in Task, Becomes(c, r),
         r.pc = "idle"
  PROVE  PlacementInv'
<1>1. TypeOK /\ \A d \in Clients : TypedBy(d)
  BY TypeParts DEF PlacementInv
<1>2. /\ task' \in [Clients -> Task]
      /\ task'[c] = r
      /\ \A d \in Clients \ {c} : task'[d] = task[d]
      /\ AgentOK'
      /\ service' = service /\ up' = up
  BY <1>1, BecomesTask DEF agentVars
<1>3. \A d \in Clients \ {c} : TypedBy(d)' /\ ToldBy(d)' /\ AwaitedBy(d)'
  <2> TAKE d \in Clients \ {c}
  <2>1. task[d].pc # "idle" => task[d].at \in up'
    BY <1>1, <1>2 DEF TypedBy, TypedTask
  <2>2. QED BY <1>2, <2>1, Untouched
<1>4. TypedBy(c)' /\ ToldBy(c)' /\ AwaitedBy(c)'
  BY <1>2, Idle
<1>5. QED BY <1>1, <1>2, <1>3, <1>4, Combined

-----------------------------------------------------------------------------
(* The steps of a request                                                  *)

(* What the invariant says of one request.                                 *)
LEMMA RequestParts ==
  ASSUME PlacementInv, NEW c \in Clients
  PROVE  /\ TypeOK
         /\ task[c] \in Task
         /\ task[c].asked \subseteq Servers
         /\ task[c].met \subseteq Servers
         /\ task[c].compatibles \subseteq Servers
         /\ TypedTask(task[c], <<task[c].at, service[task[c].at]>>)
         /\ \A n \in steady[c] : /\ n \in Nodes
                                 /\ Findable(n, task[c].fdu)
                                 /\ Awaits(task[c], n, <<n, service[n]>>)
<1>1. TypeOK /\ task[c] \in Task /\ TypedBy(c) /\ steady[c] \subseteq Nodes
  BY TypeParts DEF PlacementInv
<1>2. /\ task[c].asked \subseteq Servers
      /\ task[c].met \subseteq Servers
      /\ task[c].compatibles \subseteq Servers
  BY <1>1 DEF Task
<1>3. QED BY <1>1, <1>2 DEF PlacementInv, TypedBy, StillFound, Awaited, AwaitedBy

LEMMA RecordFields ==
  ASSUME NEW p, NEW a, NEW f, NEW as, NEW me, NEW co, NEW se, NEW r,
         r = Record(p, a, f, as, me, co, se)
  PROVE  /\ r.pc = p /\ r.at = a /\ r.fdu = f /\ r.asked = as /\ r.met = me
         /\ r.compatibles = co /\ r.selected = se
BY DEF Record

(* A request goes on asking: the answers of the nodes that stay findable   *)
(* are where they were, or one set further.                                *)
GoesOn(c, A, M, C) ==
  /\ A \subseteq Servers /\ M \subseteq Servers /\ C \subseteq Servers
  /\ Becomes(c, Record(task[c].pc, task[c].at, task[c].fdu, A, M, C,
                       task[c].selected))
  /\ A \cup M \subseteq task[c].asked \cup task[c].met
  /\ task[c].compatibles \subseteq C
  /\ Decidable(task[c].fdu) => \A s \in M \cup C :
       \/ s \in task[c].met \cup task[c].compatibles
       \/ Host(s) \in Nodes /\ Meets(Host(s), task[c].fdu)
  /\ \A n \in steady[c] : \A s \in {<<n, 0>>, <<n, service[n]>>} :
       s \in task[c].asked \cup task[c].met =>
         s \in A \cup M \cup C \/ Short(n, task[c].fdu)

LEMMA AskedOn ==
  ASSUME PlacementInv, Watch, NEW c \in Clients, NEW A, NEW M, NEW C,
         GoesOn(c, A, M, C)
  PROVE  PlacementInv'
<1> DEFINE r == Record(task[c].pc, task[c].at, task[c].fdu, A, M, C,
                       task[c].selected)
<1>1. /\ task[c] \in Task
      /\ TypedTask(task[c], <<task[c].at, service[task[c].at]>>)
      /\ \A n \in steady[c] : /\ Findable(n, task[c].fdu)
                              /\ Awaits(task[c], n, <<n, service[n]>>)
  BY RequestParts
<1>2. r \in Task
  BY <1>1 DEF Task, Record, GoesOn
<1>3. /\ r.pc = task[c].pc /\ r.at = task[c].at /\ r.fdu = task[c].fdu
      /\ r.asked = A /\ r.met = M /\ r.compatibles = C
      /\ r.selected = task[c].selected
  BY RecordFields
<1> HIDE DEF r
<1>4. CASE r.pc = "idle"
  BY <1>2, <1>4, Ended DEF r, GoesOn
<1>5. CASE r.pc # "idle"
  <2>1. TypedTask(r, <<r.at, service[r.at]>>)
    BY <1>1, <1>3 DEF TypedTask, GoesOn
  <2>2. ASSUME NEW n \in steady[c] PROVE Awaits(r, n, <<n, service[n]>>)
    BY <1>1, <1>3 DEF Awaits, GoesOn
  <2>3. Becomes(c, r)
    BY DEF r, GoesOn
  <2>5. Decidable(r.fdu) => \A s \in r.met \cup r.compatibles :
          \/ s \in task[c].met \cup task[c].compatibles
          \/ Host(s) \in Nodes /\ Meets(Host(s), r.fdu)
    BY <1>3 DEF GoesOn
  <2>4. QED BY <1>2, <1>3, <1>5, <2>1, <2>2, <2>3, <2>5, Moved
<1>6. QED BY <1>4, <1>5

LEMMA ReadRecordsStep ==
  ASSUME PlacementInv, Watch, NEW c \in Clients, NEW s, ReadRecords(c, s)
  PROVE  PlacementInv'
<1> DEFINE t == task[c]
           yes == /\ get_fdu(t.fdu)
                  /\ get_node_info(Host(s))
                  /\ get_node_status(Host(s))
                  /\ Compatible(Host(s), t.fdu, status[Host(s)])
<1>1. /\ TypeOK
      /\ t.asked \subseteq Servers /\ t.met \subseteq Servers
      /\ t.compatibles \subseteq Servers
      /\ \A n \in steady[c] : n \in Nodes /\ Findable(n, t.fdu)
  BY RequestParts
<1>2. s \in t.asked /\ s \in Servers /\ Host(s) \in Nodes
  BY <1>1 DEF ReadRecords, Servers, Host
<1>3. PICK M :
        /\ M = t.met \/ (yes /\ M = t.met \cup {s})
        /\ yes => s \in M
        /\ Becomes(c, Record(t.pc, t.at, t.fdu, t.asked \ {s}, M,
                             t.compatibles, t.selected))
  BY <1>1, ReadRecordsTask
<1>4. yes /\ Decidable(t.fdu) => Meets(Host(s), t.fdu)
  <2>1. yes => t.fdu \in Fdus /\ status[Host(s)] \in Statuses
    BY <1>1, <1>2 DEF TypeOK, get_fdu, get_node_status
  <2>2. QED BY <1>2, <2>1, CompatibleMeets
<1>5. ASSUME NEW n \in steady[c], Host(s) = n
      PROVE  yes \/ Short(n, t.fdu)
  <2>1. /\ n \in Nodes /\ Meets(n, t.fdu) /\ t.fdu \in catalog
        /\ n \in up /\ info[n] = service[n]
    BY <1>1, FoundUp DEF Findable
  <2>2. t.fdu \in Fdus /\ info[n] > 0 /\ status[n] \in Statuses \cup {None}
    BY <1>1, <2>1 DEF TypeOK
  <2>3. Short(n, t.fdu) \/ (status[n] # None /\ Compatible(n, t.fdu, status[n]))
    BY <2>1, <2>2, MeetsCompatible
  <2>4. QED
    BY <1>5, <2>1, <2>2, <2>3 DEF get_fdu, get_node_info, get_node_status
<1> HIDE DEF yes
<1>6. M \in SUBSET Servers /\ t.met \subseteq M /\ M \subseteq t.met \cup {s}
  BY <1>1, <1>2, <1>3
<1>7. \A n \in steady[c] : \A x \in {<<n, 0>>, <<n, service[n]>>} :
        x \in t.asked \cup t.met =>
          x \in (t.asked \ {s}) \cup M \cup t.compatibles \/ Short(n, t.fdu)
  <2> TAKE n \in steady[c]
  <2> TAKE x \in {<<n, 0>>, <<n, service[n]>>}
  <2>1. Host(x) = n
    BY DEF Host
  <2>2. QED BY <1>3, <1>5, <1>6, <2>1
<1>8. Decidable(t.fdu) => \A x \in M \cup t.compatibles :
        \/ x \in t.met \cup t.compatibles
        \/ Host(x) \in Nodes /\ Meets(Host(x), t.fdu)
  BY <1>2, <1>3, <1>4
<1>9. (t.asked \ {s}) \cup M \subseteq t.asked \cup t.met
  BY <1>2, <1>6
<1>10. GoesOn(c, t.asked \ {s}, M, t.compatibles)
  BY <1>1, <1>3, <1>6, <1>7, <1>8, <1>9 DEF GoesOn
<1>11. QED BY <1>10, AskedOn


LEMMA CheckPluginStep ==
  ASSUME PlacementInv, Watch, NEW c \in Clients, NEW s, CheckPlugin(c, s)
  PROVE  PlacementInv'
<1> DEFINE t == task[c]
           C == IF Host(s) \in plugin THEN t.compatibles \cup {s} ELSE t.compatibles
<1>1. /\ TypeOK
      /\ t.asked \subseteq Servers /\ t.met \subseteq Servers
      /\ t.compatibles \subseteq Servers
      /\ \A n \in steady[c] : n \in plugin
  BY RequestParts DEF Findable
<1>2. s \in t.met
  BY DEF CheckPlugin
<1>3. Becomes(c, Record(t.pc, t.at, t.fdu, t.asked, t.met \ {s}, C, t.selected))
  BY <1>1, CheckPluginTask
<1>4. /\ C \in SUBSET Servers /\ t.compatibles \subseteq C
      /\ C \subseteq t.compatibles \cup {s}
      /\ Host(s) \in plugin => s \in C
  BY <1>1, <1>2
<1> HIDE DEF C
<1>5. \A n \in steady[c] : \A x \in {<<n, 0>>, <<n, service[n]>>} :
        x \in t.asked \cup t.met =>
          x \in t.asked \cup (t.met \ {s}) \cup C \/ Short(n, t.fdu)
  <2> TAKE n \in steady[c]
  <2> TAKE x \in {<<n, 0>>, <<n, service[n]>>}
  <2>1. Host(x) = n
    BY DEF Host
  <2>2. QED BY <1>1, <1>4, <2>1
<1>6. \A x \in (t.met \ {s}) \cup C : x \in t.met \cup t.compatibles
  BY <1>2, <1>4
<1>7. GoesOn(c, t.asked, t.met \ {s}, C)
  BY <1>1, <1>3, <1>4, <1>5, <1>6 DEF GoesOn
<1>8. QED BY <1>7, AskedOn

LEMMA UnansweredStep ==
  ASSUME PlacementInv, Watch, NEW c \in Clients, NEW s, Unanswered(c, s)
  PROVE  PlacementInv'
<1> DEFINE t == task[c]
<1>1. /\ TypeOK
      /\ t.asked \subseteq Servers /\ t.met \subseteq Servers
      /\ t.compatibles \subseteq Servers
      /\ \A n \in steady[c] : n \in Nodes /\ Findable(n, t.fdu)
  BY RequestParts
<1>2. ~Live(s)
  BY DEF Unanswered
<1>3. Becomes(c, Record(t.pc, t.at, t.fdu, t.asked \ {s}, t.met \ {s},
                        t.compatibles, t.selected))
  BY <1>1, UnansweredTask
<1>4. \A n \in steady[c] : \A x \in {<<n, 0>>, <<n, service[n]>>} : x # s
  BY <1>1, <1>2, FoundUp DEF Live, Host
<1>5. GoesOn(c, t.asked \ {s}, t.met \ {s}, t.compatibles)
  BY <1>1, <1>3, <1>4 DEF GoesOn
<1>6. QED BY <1>5, AskedOn

LEMMA SelfCheckStep ==
  ASSUME PlacementInv, Watch, NEW c \in Clients, SelfCheck(c)
  PROVE  PlacementInv'
<1> DEFINE t == task[c]
           r == Record("self", t.at, t.fdu, {<<t.at, 0>>}, t.met, t.compatibles,
                       t.selected)
<1>1. /\ TypeOK /\ t \in Task
      /\ TypedTask(t, <<t.at, service[t.at]>>)
      /\ \A n \in steady[c] : Awaits(t, n, <<n, service[n]>>)
      /\ AgentOK
  BY RequestParts, TypeParts
<1>2. t.pc = "asking" /\ t.asked = {} /\ t.met = {}
  BY DEF SelfCheck, Answered
<1>3. t.at \in up /\ t.at \in Nodes /\ service[t.at] # 0
  <2>1. t.at \in up
    BY <1>1, <1>2 DEF TypedTask
  <2>2. \A n \in up : n \in Nodes /\ service[n] \in Nat /\ service[n] > 0
    BY <1>1 DEF AgentOK
  <2>3. QED BY <2>1, <2>2
<1>4. Becomes(c, r)
  BY <1>1, SelfCheckTask
<1>5. r \in Task
  BY <1>1, <1>3 DEF Task, Record, Servers
<1>6. /\ r.pc = "self" /\ r.at = t.at /\ r.fdu = t.fdu
      /\ r.asked = {<<t.at, 0>>} /\ r.met = t.met
      /\ r.compatibles = t.compatibles
  BY RecordFields
<1> HIDE DEF r
<1>7. TypedTask(r, <<r.at, service[r.at]>>)
  BY <1>1, <1>2, <1>3, <1>6 DEF TypedTask
<1>8. \A n \in steady[c] : Awaits(r, n, <<n, service[n]>>)
  BY <1>1, <1>2, <1>6 DEF Awaits
<1>9. QED BY <1>2, <1>4, <1>5, <1>6, <1>7, <1>8, Moved

LEMMA ChooseStep ==
  ASSUME PlacementInv, Watch, NEW c \in Clients, Choose(c)
  PROVE  PlacementInv'
<1> DEFINE t == task[c]
<1>1. /\ TypeOK /\ t \in Task
      /\ t.compatibles \subseteq Servers
      /\ TypedTask(t, <<t.at, service[t.at]>>)
      /\ \A n \in steady[c] : Awaits(t, n, <<n, service[n]>>)
  BY RequestParts
<1>2. t.pc = "self" /\ t.asked = {} /\ t.met = {}
  BY DEF Choose, Answered
<1>3. ASSUME NEW s \in t.compatibles,
             Becomes(c, Record("chosen", t.at, t.fdu, t.asked, t.met,
                               t.compatibles, s))
      PROVE  PlacementInv'
  <2> DEFINE r == Record("chosen", t.at, t.fdu, t.asked, t.met, t.compatibles, s)
  <2>1. r \in Task
    BY <1>1, <1>3 DEF Task, Record
  <2>2. /\ r.pc = "chosen" /\ r.at = t.at /\ r.fdu = t.fdu
        /\ r.asked = t.asked /\ r.met = t.met
        /\ r.compatibles = t.compatibles /\ r.selected = s
    BY RecordFields
  <2>3. Becomes(c, r)
    BY <1>3
  <2> HIDE DEF r
  <2>4. TypedTask(r, <<r.at, service[r.at]>>)
    BY <1>1, <1>2, <1>3, <2>2 DEF TypedTask
  <2>5. \A n \in Nodes : Awaits(r, n, <<n, service[n]>>)
    BY <2>2 DEF Awaits
  <2>6. QED BY <1>2, <2>1, <2>2, <2>3, <2>4, <2>5, Moved
<1>4. ASSUME t.compatibles = {},
             Becomes(c, Record("notfound", t.at, t.fdu, t.asked, t.met,
                               t.compatibles, t.selected))
      PROVE  PlacementInv'
  <2> DEFINE r == Record("notfound", t.at, t.fdu, t.asked, t.met,
                         t.compatibles, t.selected)
  <2>1. r \in Task
    BY <1>1 DEF Task, Record
  <2>2. /\ r.pc = "notfound" /\ r.at = t.at /\ r.fdu = t.fdu
        /\ r.asked = t.asked /\ r.met = t.met
        /\ r.compatibles = t.compatibles /\ r.selected = t.selected
    BY RecordFields
  <2>3. Becomes(c, r)
    BY <1>4
  <2> HIDE DEF r
  <2>4. TypedTask(r, <<r.at, service[r.at]>>)
    BY <1>1, <1>2, <2>2 DEF TypedTask
  <2>5. \A n \in steady[c] : Awaits(r, n, <<n, service[n]>>)
    BY <1>1, <1>2, <1>4, <2>2 DEF Awaits
  <2>6. QED BY <1>2, <2>1, <2>2, <2>3, <2>4, <2>5, Moved
<1>5. QED BY <1>1, <1>3, <1>4, ChooseTask

LEMMA DefineStep ==
  ASSUME PlacementInv, Watch, NEW c \in Clients, define_fdu(c)
  PROVE  PlacementInv'
<1> DEFINE t == task[c]
<1>1. /\ TypeOK /\ t \in Task
      /\ TypedTask(t, <<t.at, service[t.at]>>)
  BY RequestParts
<1>2. t.pc = "chosen"
  BY DEF define_fdu
<1>3. PICK p \in {"defined", "failed"} :
        Becomes(c, Record(p, t.at, t.fdu, t.asked, t.met, t.compatibles, t.selected))
  BY <1>1, DefineTask
<1> DEFINE r == Record(p, t.at, t.fdu, t.asked, t.met, t.compatibles, t.selected)
<1>4. r \in Task
  BY <1>1 DEF Task, Record
<1>5. /\ r.pc = p /\ r.at = t.at /\ r.fdu = t.fdu
      /\ r.asked = t.asked /\ r.met = t.met
      /\ r.compatibles = t.compatibles /\ r.selected = t.selected
  BY RecordFields
<1>6. Becomes(c, r)
  BY <1>3
<1> HIDE DEF r
<1>7. TypedTask(r, <<r.at, service[r.at]>>)
  BY <1>1, <1>2, <1>5 DEF TypedTask
<1>8. \A n \in Nodes : Awaits(r, n, <<n, service[n]>>)
  BY <1>5 DEF Awaits
<1>9. QED BY <1>2, <1>4, <1>5, <1>6, <1>7, <1>8, Moved

LEMMA ScheduleStep ==
  ASSUME PlacementInv, Watch, NEW c \in Clients, NEW n \in Nodes, NEW f \in Fdus,
         schedule_fdu(c, n, f)
  PROVE  PlacementInv'
<1> DEFINE A == {<<m, info[m]>> : m \in get_all_nodes} \ {<<n, service[n]>>}
           r == Record("asking", n, f, A, {}, {}, None)
<1>1. TypeOK /\ AgentOK
  BY TypeParts DEF PlacementInv
<1>2. task[c].pc = "idle" /\ n \in up
  BY DEF schedule_fdu
<1>3. Becomes(c, r)
  BY ScheduleTask
<1>4. A \subseteq Servers
  BY <1>1 DEF AgentOK, Servers, get_all_nodes
<1>5. r \in Task
  BY <1>4 DEF Task, Record
<1>6. /\ r.pc = "asking" /\ r.at = n /\ r.fdu = f
      /\ r.asked = A /\ r.met = {} /\ r.compatibles = {}
  BY RecordFields
<1> HIDE DEF r
<1>7. TypedTask(r, <<r.at, service[r.at]>>)
  BY <1>2, <1>6 DEF TypedTask
<1>8. ASSUME NEW m \in Nodes, Findable(m, f)
      PROVE  Awaits(r, m, <<m, service[m]>>)
  <2>1. m \in up /\ info[m] = service[m] /\ service[m] > 0
    BY <1>1, <1>8, FoundUp DEF Findable, AgentOK
  <2>2. m = n \/ <<m, service[m]>> \in A
    BY <2>1 DEF get_all_nodes
  <2>3. QED BY <1>6, <2>2 DEF Awaits
<1>9. QED BY <1>2, <1>3, <1>5, <1>6, <1>7, <1>8, Moved

LEMMA ReturnStep ==
  ASSUME PlacementInv, Watch, NEW c \in Clients, Return(c)
  PROVE  PlacementInv'
<1> DEFINE r == Record("idle", None, None, {}, {}, {}, None)
<1>1. r \in Task /\ r.pc = "idle"
  BY DEF Task, Record
<1>2. Becomes(c, r)
  BY ReturnTask
<1>3. QED BY <1>1, <1>2, Ended


-----------------------------------------------------------------------------
(* What goes on meanwhile                                                  *)

(* A step of an agent or of the catalog, with every request as it was.     *)
LEMMA Meanwhile ==
  ASSUME PlacementInv, Watch, task' = task, AgentOK',
         up \subseteq up', \A n \in up : service'[n] = service[n]
  PROVE  PlacementInv'
<1>1. TypeOK /\ task \in [Clients -> Task] /\ \A c \in Clients : TypedBy(c)
  BY TypeParts DEF PlacementInv
<1>2. \A c \in Clients : TypedBy(c)' /\ ToldBy(c)' /\ AwaitedBy(c)'
  <2> TAKE c \in Clients
  <2>1. task[c].pc # "idle" => task[c].at \in up'
    BY <1>1 DEF TypedBy, TypedTask
  <2>2. QED BY <2>1, Untouched
<1>3. QED BY <1>1, <1>2, Combined

LEMMA CatalogStep ==
  ASSUME PlacementInv, Watch, NEW f \in Fdus, onboard_fdu(f) \/ offload_fdu(f)
  PROVE  PlacementInv'
<1>1. AgentOK
  BY TypeParts DEF PlacementInv
<1>2. /\ task' = task /\ UNCHANGED agentVars
      /\ catalog' \subseteq catalog \cup {f}
  BY DEF onboard_fdu, offload_fdu
<1>3. AgentOK' /\ up' = up /\ service' = service
  BY <1>1, <1>2 DEF AgentOK, agentVars
<1>4. QED BY <1>2, <1>3, Meanwhile

LEMMA AgentStep ==
  ASSUME PlacementInv, Watch, NEW n \in Nodes,
         \/ register_plugin(n) \/ unregister_plugin(n) \/ Monitor(n)
         \/ Start(n) \/ advertise(n)
  PROVE  PlacementInv'
<1>1. AgentOK
  BY TypeParts DEF PlacementInv
<1>2. CASE register_plugin(n) \/ unregister_plugin(n)
  <2>1. /\ task' = task /\ service' = service /\ up' = up
        /\ info' = info /\ status' = status /\ catalog' = catalog
        /\ plugin' \subseteq up
    BY <1>1, <1>2 DEF register_plugin, unregister_plugin, AgentOK
  <2>2. AgentOK'
    BY <1>1, <2>1 DEF AgentOK
  <2>3. QED BY <2>1, <2>2, Meanwhile
<1>3. CASE Monitor(n)
  <2>1. /\ task' = task /\ service' = service /\ up' = up
        /\ info' = info /\ plugin' = plugin /\ catalog' = catalog
        /\ status' \in [Nodes -> Statuses \cup {None}]
    BY <1>1, <1>3 DEF Monitor, AgentOK
  <2>2. AgentOK'
    BY <1>1, <2>1 DEF AgentOK
  <2>3. QED BY <2>1, <2>2, Meanwhile
<1>4. CASE Start(n)
  <2>1. /\ task' = task /\ up' = up \cup {n} /\ n \notin up
        /\ service' = [service EXCEPT ![n] = service[n] + 1]
        /\ service[n] < MaxStarts[n]
        /\ info' = info /\ plugin' = plugin /\ catalog' = catalog
        /\ status' = status
    BY <1>4 DEF Start
  <2>2. /\ service \in [Nodes -> Nat] /\ info \in [Nodes -> Nat]
        /\ up \subseteq Nodes
        /\ \A m \in up : service[m] > 0
        /\ \A m \in Nodes : info[m] <= service[m] /\ service[m] <= MaxStarts[m]
        /\ MaxStarts \in [Nodes -> Nat]
    BY <1>1, PlacementAssumption DEF AgentOK
  <2>3. /\ service' \in [Nodes -> Nat]
        /\ service'[n] = service[n] + 1
        /\ \A m \in Nodes \ {n} : service'[m] = service[m]
    BY <2>1, <2>2
  <2>4. \A m \in Nodes : info[m] <= service'[m] /\ service'[m] <= MaxStarts[m]
    BY <2>1, <2>2, <2>3
  <2>5. up' \subseteq {m \in Nodes : service'[m] > 0}
    BY <2>1, <2>2, <2>3
  <2>6. AgentOK'
    BY <1>1, <2>1, <2>3, <2>4, <2>5 DEF AgentOK
  <2>7. \A m \in up : service'[m] = service[m]
    BY <2>1, <2>2, <2>3
  <2>8. QED BY <2>1, <2>6, <2>7, Meanwhile
<1>5. CASE advertise(n)
  <2>1. /\ task' = task /\ service' = service /\ up' = up
        /\ status' = status /\ plugin' = plugin /\ catalog' = catalog
        /\ info' = [info EXCEPT ![n] = service[n]]
    BY <1>5 DEF advertise
  <2>2. /\ info' \in [Nodes -> Nat]
        /\ \A m \in Nodes : info'[m] <= service[m]
    BY <1>1, <2>1 DEF AgentOK
  <2>3. AgentOK'
    BY <1>1, <2>1, <2>2 DEF AgentOK
  <2>4. QED BY <2>1, <2>3, Meanwhile
<1>6. QED BY <1>2, <1>3, <1>4, <1>5

LEMMA CrashStep ==
  ASSUME PlacementInv, Watch, NEW n \in Nodes, Crash(n)
  PROVE  PlacementInv'
<1>1. /\ TypeOK /\ AgentOK /\ task \in [Clients -> Task]
      /\ \A c \in Clients : TypedBy(c)
  BY TypeParts DEF PlacementInv
<1>2. /\ up' = up \ {n} /\ plugin' = plugin \ {n}
      /\ service' = service /\ info' = info /\ status' = status
      /\ catalog' = catalog
      /\ task' = [c \in Clients |-> IF task[c].at = n THEN NoRequest ELSE task[c]]
  BY DEF Crash
<1>3. AgentOK'
  BY <1>1, <1>2 DEF AgentOK
<1>4. NoRequest \in Task /\ NoRequest.pc = "idle"
  BY IdleRecord DEF Task, Record
<1>5. task' \in [Clients -> Task]
  BY <1>1, <1>2, <1>4
<1>6. \A c \in Clients : TypedBy(c)' /\ ToldBy(c)' /\ AwaitedBy(c)'
  <2> TAKE c \in Clients
  <2>1. CASE task[c].at = n
    BY <1>2, <1>4, <2>1, Idle
  <2>2. CASE task[c].at # n
    <3>1. task'[c] = task[c]
      BY <1>2, <2>2
    <3>2. task[c].pc # "idle" => task[c].at \in up'
      BY <1>1, <1>2, <2>2 DEF TypedBy, TypedTask
    <3>3. QED BY <1>2, <3>1, <3>2, Untouched
  <2>3. QED BY <2>1, <2>2
<1>7. QED BY <1>1, <1>3, <1>5, <1>6, Combined

-----------------------------------------------------------------------------
(* The theorems                                                            *)

LEMMA InvInit == Init => PlacementInv
<1> SUFFICES ASSUME Init PROVE PlacementInv
  OBVIOUS
<1>1. NoRequest \in Task /\ NoRequest.pc = "idle"
  BY IdleRecord DEF Task, Record
<1>2. /\ service = [n \in Nodes |-> 0] /\ info = [n \in Nodes |-> 0]
      /\ up = {} /\ plugin = {} /\ catalog = {}
      /\ status = [n \in Nodes |-> None]
  BY DEF Init
<1>3. AgentOK
  BY <1>2, PlacementAssumption DEF AgentOK
<1>4. /\ task \in [Clients -> Task]
      /\ \A c \in Clients : task[c].pc = "idle"
      /\ \A c \in Clients : steady[c] = {}
      /\ ever \in [Clients -> SUBSET Nodes] /\ steady \in [Clients -> SUBSET Nodes]
  BY <1>1 DEF Init
<1>5. \A c \in Clients : TypedBy(c)
  BY <1>4 DEF TypedBy, TypedTask
<1>6. TypeOK
  BY <1>3, <1>4, <1>5, TypeParts
<1>7. Told /\ StillFound /\ Awaited
  BY <1>4 DEF Told, ToldBy, StillFound, Awaited, AwaitedBy
<1>8. QED BY <1>6, <1>7 DEF PlacementInv

LEMMA InvStep == ASSUME PlacementInv, [Next]_vars PROVE PlacementInv'
<1>1. CASE UNCHANGED vars
  BY <1>1 DEF vars, agentVars, PlacementInv, TypeOK, Told, ToldBy, StillFound,
              Findable, Meets, Awaited, AwaitedBy
<1>2. CASE Next
  <2>1. Watch /\ Step
    BY <1>2 DEF Next
  <2>2. CASE \E c \in Clients : Request(c)
    BY <2>1, <2>2, ReadRecordsStep, CheckPluginStep, UnansweredStep,
       SelfCheckStep, ChooseStep, DefineStep, ReturnStep DEF Request
  <2>3. CASE \E c \in Clients, n \in Nodes, f \in Fdus : schedule_fdu(c, n, f)
    BY <2>1, <2>3, ScheduleStep
  <2>4. CASE \E f \in Fdus : onboard_fdu(f) \/ offload_fdu(f)
    BY <2>1, <2>4, CatalogStep
  <2>5. CASE \E n \in Nodes :
               \/ register_plugin(n) \/ unregister_plugin(n) \/ Monitor(n)
               \/ Start(n) \/ advertise(n) \/ Crash(n)
    BY <2>1, <2>5, AgentStep, CrashStep
  <2>6. QED BY <2>1, <2>2, <2>3, <2>4, <2>5 DEF Step
<1>3. QED BY <1>1, <1>2

LEMMA InvAlways == Spec => []PlacementInv
BY InvInit, InvStep, PTL DEF Spec

(* A request is well formed in each of its phases, whatever agents come    *)
(* and go: no agent asks itself by the uuid of its server.                 *)
THEOREM TypeOKHolds == Spec => []TypeOK
<1>1. PlacementInv => TypeOK
  BY DEF PlacementInv
<1>2. QED BY <1>1, InvAlways, PTL

(* An FDU whose requirements the check decides about is only defined at a  *)
(* node that met them since the request began (agent.rs:864).              *)
THEOREM PlacedWhereMetHolds == Spec => []PlacedWhereMet
<1>1. PlacementInv => PlacedWhereMet
  <2> SUFFICES ASSUME PlacementInv, NEW c \in Clients,
                      task[c].pc = "defined", Decidable(task[c].fdu)
               PROVE  Host(task[c].selected) \in ever[c]
    BY DEF PlacedWhereMet
  <2>1. task[c].selected \in task[c].compatibles
    BY RequestParts DEF TypedTask
  <2>2. ToldBy(c)
    BY DEF PlacementInv, Told
  <2>3. QED BY <2>1, <2>2 DEF ToldBy
<1>2. QED BY <1>1, InvAlways, PTL

(* schedule_fdu (agent.rs:1109) answers NotFound only when no node was     *)
(* there to be found throughout the request, but for processors the u8     *)
(* has lost.                                                               *)
THEOREM FoundWhenThereHolds == Spec => []FoundWhenThere
<1>1. PlacementInv => FoundWhenThere
  <2> SUFFICES ASSUME PlacementInv, NEW c \in Clients,
                      task[c].pc = "notfound", NEW n \in steady[c]
               PROVE  Short(n, task[c].fdu)
    BY DEF FoundWhenThere, Short
  <2>1. Awaits(task[c], n, <<n, service[n]>>)
    BY RequestParts
  <2>2. QED BY <2>1 DEF Awaits
<1>2. QED BY <1>1, InvAlways, PTL
=============================================================================
