---------------------------- MODULE EntityProofs ----------------------------
(***************************************************************************)
(* What EntityOrchestration promises while no two tasks work for one       *)
(* entity instance, for every value of the constants: an instance that is  *)
(* RUNNING is complete, one that is OFFLOADED has left nothing behind, and *)
(* the statuses follow the life cycle of EntityAbstract.                   *)
(*                                                                         *)
(* The invariant has a part for every task - what it has done for its      *)
(* instance so far (PhaseOf) - and a part for every instance (InstOK).     *)
(***************************************************************************)
EXTENDS EntityOrchestration, FiniteSetTheorems, TLAPS

(* Types.  A task at work knows its entity, and counts from 1 while it     *)
(* walks a list.                                                           *)

TypedTask(x) ==
  /\ x \in Task
  /\ x.pc \notin {"idle", "offload_entity"} => x.rec # None
  /\ x.pc # "idle" => x.id \in Entities
  /\ x.pc \notin {"idle", "schedule", "stopping", "offload_entity", "failed"} =>
       x.k # 0

Typed == \A t \in Tasks : TypedTask(task[t])

TypeInv == TypeOK /\ Typed

LEMMA TaskFields ==
  ASSUME NEW x, TypedTask(x)
  PROVE  /\ x = [pc |-> x.pc, id |-> x.id, rec |-> x.rec, kept |-> x.kept,
                 k |-> x.k]
         /\ x.pc \in Pcs /\ x.id \in Entities \cup {None}
         /\ x.rec \in EntityRecord \cup {None}
         /\ x.kept \in Seq(FduIds) /\ x.k \in Nat
         /\ x.pc \notin {"idle", "offload_entity"} => x.rec \in EntityRecord
BY DEF TypedTask, Task

LEMMA RecordFields ==
  ASSUME NEW r \in EntityRecord
  PROVE  /\ r = [uuid |-> r.uuid, id |-> r.id, status |-> r.status,
                 fdus |-> r.fdus]
         /\ r.uuid \in Instances /\ r.id \in Entities
         /\ r.status \in EntityStatus /\ r.fdus \in Seq(FduIds)
         /\ r # None
BY NoRecordAssumption DEF EntityRecord

(* Task t, and no other, becomes x.                                        *)
Becomes(t, x) ==
  /\ task' \in [Tasks -> Task]
  /\ task'[t] = x
  /\ \A u \in Tasks \ {t} : task'[u] = task[u]

LEMMA Update ==
  ASSUME TypeInv, NEW t \in Tasks, NEW x, TypedTask(x),
         task' = [task EXCEPT ![t] = x]
  PROVE  Becomes(t, x) /\ Typed'
BY DEF TypeInv, TypeOK, TypedTask, Becomes, Typed

LEMMA Rewritten ==
  ASSUME NEW x \in Task, NEW r \in EntityRecord \cup {None}, NEW pc \in Pcs,
         NEW k \in Nat
  PROVE  [[[x EXCEPT !.rec = r] EXCEPT !.pc = pc] EXCEPT !.k = k] =
           [pc |-> pc, id |-> x.id, rec |-> r, kept |-> x.kept, k |-> k]
<1> DEFINE f(a, b, c, d, e) ==
             [pc |-> a, id |-> b, rec |-> c, kept |-> d, k |-> e]
<1>1. PICK p, i, q, l, n : x = f(p, i, q, l, n)
  BY DEF Task
<1>2. /\ [f(p, i, q, l, n) EXCEPT !.rec = r] = f(p, i, r, l, n)
      /\ [f(p, i, r, l, n) EXCEPT !.pc = pc] = f(pc, i, r, l, n)
      /\ [f(pc, i, r, l, n) EXCEPT !.k = k] = f(pc, i, r, l, k)
  OBVIOUS
<1>3. x.id = i /\ x.kept = l
  BY <1>1
<1> HIDE DEF f
<1>4. [[[x EXCEPT !.rec = r] EXCEPT !.pc = pc] EXCEPT !.k = k] =
        f(pc, i, r, l, k)
  BY <1>1, <1>2, Zenon
<1>5. f(pc, i, r, l, k) = f(pc, x.id, r, x.kept, k)
  BY <1>3
<1> QED BY <1>4, <1>5 DEF f

LEMMA RewrittenLast ==
  ASSUME NEW x \in Task, NEW r \in EntityRecord \cup {None}, NEW pc \in Pcs,
         NEW k \in Nat
  PROVE  [[[x EXCEPT !.pc = pc] EXCEPT !.k = k] EXCEPT !.rec = r] =
           [pc |-> pc, id |-> x.id, rec |-> r, kept |-> x.kept, k |-> k]
<1> DEFINE f(a, b, c, d, e) ==
             [pc |-> a, id |-> b, rec |-> c, kept |-> d, k |-> e]
<1>1. PICK p, i, q, l, n : x = f(p, i, q, l, n)
  BY DEF Task
<1>2. /\ [f(p, i, q, l, n) EXCEPT !.pc = pc] = f(pc, i, q, l, n)
      /\ [f(pc, i, q, l, n) EXCEPT !.k = k] = f(pc, i, q, l, k)
      /\ [f(pc, i, q, l, k) EXCEPT !.rec = r] = f(pc, i, r, l, k)
  OBVIOUS
<1>3. x.id = i /\ x.kept = l
  BY <1>1
<1> HIDE DEF f
<1>4. [[[x EXCEPT !.pc = pc] EXCEPT !.k = k] EXCEPT !.rec = r] =
        f(pc, i, r, l, k)
  BY <1>1, <1>2, Zenon
<1>5. f(pc, i, r, l, k) = f(pc, x.id, r, x.kept, k)
  BY <1>3
<1> QED BY <1>4, <1>5 DEF f

LEMMA EnterTask ==
  ASSUME TypeInv, NEW t \in Tasks, NEW status \in EntityStatus,
         NEW pc \in Pcs \ {"idle", "offload_entity"},
         task[t].pc \notin {"idle", "offload_entity"}, Enter(t, status, pc)
  PROVE  /\ Becomes(t, [pc |-> pc, id |-> task[t].id,
                        rec |-> [task[t].rec EXCEPT !.status = status],
                        kept |-> task[t].kept, k |-> 1])
         /\ Typed'
         /\ task[t].rec \in EntityRecord
         /\ [task[t].rec EXCEPT !.status = status] \in EntityRecord
         /\ add_entity_instance([task[t].rec EXCEPT !.status = status])
<1>1. TypedTask(task[t]) /\ task \in [Tasks -> Task]
  BY DEF TypeInv, TypeOK, Typed
<1>2. task[t].rec \in EntityRecord
  BY <1>1, TaskFields
<1> DEFINE r == [task[t].rec EXCEPT !.status = status]
           x == [pc |-> pc, id |-> task[t].id, rec |-> r,
                 kept |-> task[t].kept, k |-> 1]
<1>3. r \in EntityRecord
  BY <1>2 DEF EntityRecord
<1>4. task' = [task EXCEPT ![t] = x]
  <2>1. task' = [task EXCEPT ![t] =
                   [[[task[t] EXCEPT !.rec = r] EXCEPT !.pc = pc] EXCEPT !.k = 1]]
    BY <1>1 DEF Enter
  <2>2. [[[task[t] EXCEPT !.rec = r] EXCEPT !.pc = pc] EXCEPT !.k = 1] = x
    BY <1>1, <1>3, Rewritten DEF TypedTask
  <2> QED BY <2>1, <2>2
<1>5. TypedTask(x)
  BY <1>1, <1>3, RecordFields, TaskFields DEF TypedTask, Task
<1>6. add_entity_instance(r)
  BY DEF Enter
<1> QED BY <1>2, <1>3, <1>4, <1>5, <1>6, Update

LEMMA FinishTask ==
  ASSUME TypeInv, NEW t \in Tasks, NEW r, Finish(t, r)
  PROVE  /\ Becomes(t, IdleTask)
         /\ Typed'
         /\ add_entity_instance(r)
<1>1. TypedTask(IdleTask)
  BY DEF TypedTask, Task, IdleTask, Pcs
<1>2. task' = [task EXCEPT ![t] = IdleTask]
  BY DEF Finish
<1> QED BY <1>1, <1>2, Update DEF Finish

(* Task t goes on at pc with FDU k, its record as it is.                   *)
Went(t, pc, k) ==
  Becomes(t, [pc |-> pc, id |-> task[t].id, rec |-> task[t].rec,
              kept |-> task[t].kept, k |-> k])

Broke(t) == Went(t, "failed", task[t].k)

LEMMA FailTask ==
  ASSUME TypeInv, NEW t \in Tasks, Fail(t),
         task[t].pc \notin {"idle", "offload_entity"}
  PROVE  Broke(t) /\ Typed'
<1>1. TypedTask(task[t]) /\ task \in [Tasks -> Task]
  BY DEF TypeInv, TypeOK, Typed
<1> DEFINE x == [pc |-> "failed", id |-> task[t].id, rec |-> task[t].rec,
                 kept |-> task[t].kept, k |-> task[t].k]
<1>2. task' = [task EXCEPT ![t] = [task[t] EXCEPT !.pc = "failed"]]
  BY <1>1 DEF Fail
<1>3. [task[t] EXCEPT !.pc = "failed"] = x
  BY <1>1, TaskFields DEF Task, TypedTask
<1>4. TypedTask(x)
  BY <1>1, TaskFields DEF TypedTask, Task, Pcs
<1> QED BY <1>2, <1>3, <1>4, Update DEF Broke, Went, Typed

LEMMA GoOnTask ==
  ASSUME TypeInv, NEW t \in Tasks, NEW pc \in Pcs \ {"idle", "offload_entity"},
         NEW k \in Nat \ {0}, task[t].pc \notin {"idle", "offload_entity"},
         task' = [task EXCEPT ![t].pc = pc, ![t].k = k]
  PROVE  Went(t, pc, k) /\ Typed'
<1>1. TypedTask(task[t]) /\ task \in [Tasks -> Task]
  BY DEF TypeInv, TypeOK, Typed
<1> DEFINE x == [pc |-> pc, id |-> task[t].id, rec |-> task[t].rec,
                 kept |-> task[t].kept, k |-> k]
<1>2. task' = [task EXCEPT ![t] = [[task[t] EXCEPT !.pc = pc] EXCEPT !.k = k]]
  BY <1>1
<1>3. [[task[t] EXCEPT !.pc = pc] EXCEPT !.k = k] = x
  BY <1>1, TaskFields DEF Task, TypedTask
<1>4. TypedTask(x)
  BY <1>1, TaskFields DEF TypedTask, Task
<1> QED BY <1>2, <1>3, <1>4, Update DEF Went, Typed

LEMMA ProceedTask ==
  ASSUME TypeInv, NEW t \in Tasks, NEW pc \in Pcs \ {"idle", "offload_entity"},
         NEW k \in Nat \ {0}, task[t].pc \notin {"idle", "offload_entity"},
         Proceed(t, pc, k)
  PROVE  /\ Went(t, pc, k) \/ Broke(t)
         /\ Typed' /\ faults' \in 0 .. MaxFaults
<1>1. faults \in 0 .. MaxFaults /\ MaxFaults \in Nat
  BY EntityAssumption DEF TypeInv, TypeOK, Typed
<1>2. CASE task' = [task EXCEPT ![t].pc = pc, ![t].k = k] /\ UNCHANGED faults
  BY <1>1, <1>2, GoOnTask
<1>3. CASE Fail(t) /\ Fault
  BY <1>1, <1>3, FailTask DEF Fault
<1> QED BY <1>2, <1>3 DEF Proceed

LEMMA RefusedTask ==
  ASSUME TypeInv, NEW t \in Tasks, NEW possible,
         task[t].pc \notin {"idle", "offload_entity"}, Refused(t, possible)
  PROVE  Broke(t) /\ Typed' /\ faults' \in 0 .. MaxFaults
<1>1. faults \in 0 .. MaxFaults /\ MaxFaults \in Nat
  BY EntityAssumption DEF TypeInv, TypeOK, Typed
<1>2. Fail(t) /\ faults' \in {faults, faults + 1} /\ (faults' # faults => Fault)
  BY DEF Refused, Fault
<1> QED BY <1>1, <1>2, FailTask DEF Fault

LEMMA CallTask ==
  ASSUME TypeInv, NEW t \in Tasks, NEW x, NEW from,
         NEW to \in {"DEFINED", "CONFIGURED", "RUNNING"},
         NEW pc \in Pcs \ {"idle", "offload_entity"}, task[t].k # 0,
         task[t].pc \notin {"idle", "offload_entity"}, Call(t, x, from, to, pc)
  PROVE  /\ \/ Switch(x, to) /\ (Went(t, pc, task[t].k) \/ Broke(t))
            \/ UNCHANGED fdus /\ Broke(t)
         /\ Typed' /\ faults' \in 0 .. MaxFaults /\ fdus' \subseteq FduInstance
<1>1. task[t].k \in Nat \ {0} /\ fdus \subseteq FduInstance
  BY TaskFields DEF TypeInv, TypeOK, Typed
<1>2. CASE /\ Ready(x, from) /\ Switch(x, to) /\ Proceed(t, pc, task[t].k)
  <2>1. \A y \in FduInstance : [y EXCEPT !.status = to] \in FduInstance
    BY DEF FduInstance
  <2>2. fdus' \subseteq FduInstance
    BY <1>1, <1>2, <2>1 DEF Switch
  <2> QED BY <1>1, <1>2, <2>2, ProceedTask
<1>3. CASE Refused(t, Ready(x, from)) /\ UNCHANGED fdus
  BY <1>1, <1>3, RefusedTask
<1> QED BY <1>2, <1>3 DEF Call

LEMMA Written ==
  ASSUME records \subseteq EntityRecord, NEW r \in EntityRecord,
         add_entity_instance(r)
  PROVE  /\ records' \subseteq EntityRecord
         /\ r \in records'
         /\ \A q \in records' : q.uuid = r.uuid => q = r
         /\ \A i : i # r.uuid => {q \in records : q.uuid = i}' =
                                 {q \in records : q.uuid = i}
         /\ {q.uuid : q \in records} \subseteq {q.uuid : q \in records'}
BY DEF add_entity_instance

-----------------------------------------------------------------------------
(* The invariant                                                           *)

(* The statuses the record in the store may have while a task is at pc.    *)
Shows(pc) ==
  CASE pc = "onboard"                         -> {"ONBOARDING"}
    [] pc = "starting"                        -> {"ONBOARDED"}
    [] pc \in {"define", "configure", "start"} -> {"STARTING"}
    [] pc \in {"stop", "clean", "undefine"}   -> {"STOPPING"}
    [] pc = "offloading"                      -> {"STOPPED"}
    [] pc \in {"offload", "remove"}           -> {"OFFLOADING"}
    [] OTHER                                  -> EntityStatus

(* The FDU instance of entity instance i for the k-th FDU of entity e.     *)
Runs(i, e, k) ==
  [uuid |-> <<i, k>>, fdu |-> FdusOf[e][k], status |-> "RUNNING"]

(* The first k - 1 FDUs run and are listed; nothing else has been defined, *)
(* but for the k-th once the task is past its definition.                  *)
BroughtUp(t) ==
  LET i == task[t].rec.uuid
      e == task[t].rec.id
      k == task[t].k
  IN /\ k \in 1 .. Len(FdusOf[e]) + 1
     /\ task[t].pc # "define" => k \in 1 .. Len(FdusOf[e])
     /\ task[t].rec.fdus = [j \in 1 .. k - 1 |-> <<i, j>>]
     /\ \A j \in 1 .. k - 1 : Runs(i, e, j) \in fdus
     /\ \A y \in InstancesOf(i) :
          y.uuid[2] \in 1 .. k - 1 \/ (task[t].pc # "define" /\ y.uuid[2] = k)

(* No FDU instance is left of the FDUs the task has offloaded.             *)
TakenDown(t) ==
  LET e == task[t].rec.id
      k == task[t].k
  IN /\ k \in Nat \ {0}
     /\ \A j \in 1 .. Len(FdusOf[e]) :
          j < k \/ (task[t].pc = "remove" /\ j = k) =>
            \A y \in InstancesOf(task[t].rec.uuid) : y.fdu # FdusOf[e][j]

(* A list of FDU instances of entity instance i.                           *)
Own(i, l) == \A k \in DOMAIN l : l[k][1] = i

WorkOf(t) ==
  LET i == task[t].rec.uuid
  IN /\ task[t].id = task[t].rec.id
     /\ task[t].pc \notin {"idle", "offload_entity"}
     /\ Own(i, task[t].rec.fdus) /\ Own(i, task[t].kept)
     /\ task[t].pc = "schedule" => \A r \in records : r.uuid # i
     /\ task[t].pc # "schedule" =>
          \E r \in records : /\ r.uuid = i /\ r.id = task[t].rec.id
                             /\ r.status \in Shows(task[t].pc)
     /\ task[t].pc = "stopping" =>
          \A r \in records : r.uuid = i => r.status \in Settled \/ i \in orphans
     /\ task[t].pc \in {"schedule", "onboard", "starting"} =>
          task[t].rec.fdus = <<>> /\ InstancesOf(i) = {}
     /\ task[t].pc \in {"define", "configure", "start"} => BroughtUp(t)
     /\ task[t].pc \in {"clean", "undefine"} =>
          task[t].k \in DOMAIN task[t].rec.fdus
     /\ task[t].pc \in {"offload", "remove"} => TakenDown(t)

PhaseOf(t) == task[t].rec # None => WorkOf(t)

Apart ==
  \A t, u \in Tasks :
    task[t].rec # None /\ task[u].rec # None
      /\ task[t].rec.uuid = task[u].rec.uuid => t = u

(* Every FDU instance is one of those the entity's descriptor lists.       *)
Placed(y) ==
  \E r \in records :
    /\ r.uuid = y.uuid[1]
    /\ y.uuid[2] \in 1 .. Len(FdusOf[r.id])
    /\ y.fdu = FdusOf[r.id][y.uuid[2]]

AllRun(r) ==
  /\ r.fdus = [k \in 1 .. Len(FdusOf[r.id]) |-> <<r.uuid, k>>]
  /\ \A k \in 1 .. Len(FdusOf[r.id]) : Runs(r.uuid, r.id, k) \in fdus

InstOK(i) ==
  /\ \A r, s \in records : r.uuid = i /\ s.uuid = i => r = s
  /\ \A y, z \in InstancesOf(i) : y.uuid = z.uuid => y = z
  /\ \A y \in InstancesOf(i) : Placed(y)
  /\ \A r \in records : r.uuid = i =>
       /\ r.status = "RUNNING" => AllRun(r)
       /\ r.status = "OFFLOADED" => InstancesOf(i) = {}
       /\ r.status \in Settled \/ i \in orphans \/ Working(i)
       /\ Own(i, r.fdus)

Phases == \A t \in Tasks : PhaseOf(t)

EntityInv == TypeInv /\ Apart /\ Phases /\ \A i \in Instances : InstOK(i)

(* The entity instances that have a record in the store.                   *)
Uuids == {r.uuid : r \in records}

LEMMA TypeFrom ==
  ASSUME TypeInv, Typed', task' \in [Tasks -> Task],
         entities' \subseteq Entities, records' \subseteq EntityRecord,
         Uuids \subseteq Uuids', catalog' \subseteq Fdus,
         fdus' \subseteq FduInstance, faults' \in 0 .. MaxFaults,
         orphans' \subseteq Uuids'
  PROVE  TypeInv'
BY DEF TypeInv, TypeOK, Typed, TypedTask, Uuids

LEMMA Current_Type ==
  ASSUME TypeInv, NEW t \in Tasks,
         task[t].pc \notin {"idle", "schedule", "stopping", "offload_entity",
                            "failed"}
  PROVE  /\ task[t].rec \in EntityRecord /\ task[t].rec.uuid \in Instances
         /\ task[t].rec.id \in Entities /\ task[t].id \in Entities
         /\ task[t].k \in Nat \ {0} /\ Current(t) \in FduIds
         /\ Descriptor(t) \in Seq(Fdus)
         /\ task[t].k <= Len(Descriptor(t)) => Descriptor(t)[task[t].k] \in Fdus
<1>1. TypedTask(task[t])
  BY DEF TypeInv, Typed
<1>2. task[t].rec \in EntityRecord /\ task[t].k \in Nat \ {0} /\ task[t].id \in Entities
  BY <1>1, TaskFields DEF TypedTask
<1>3. task[t].rec.uuid \in Instances /\ task[t].rec.id \in Entities
  BY <1>2, RecordFields
<1>4. Descriptor(t) \in Seq(Fdus)
  BY <1>2, EntityAssumption DEF Descriptor
<1>5. Current(t) \in FduIds
  BY <1>2, <1>3 DEF Current, FduIds
<1> QED BY <1>2, <1>3, <1>4, <1>5

LEMMA EnterType ==
  ASSUME TypeInv, NEW t \in Tasks, NEW status \in EntityStatus,
         NEW pc \in Pcs \ {"idle", "offload_entity"},
         task[t].pc \notin {"idle", "offload_entity"}, Enter(t, status, pc),
         UNCHANGED <<entities, catalog, fdus, faults>>, orphans' \subseteq orphans
  PROVE  TypeInv'
<1>1. records \subseteq EntityRecord /\ orphans \subseteq Uuids
  BY DEF TypeInv, TypeOK, Uuids
<1>2. /\ task' \in [Tasks -> Task] /\ Typed' /\ records' \subseteq EntityRecord
      /\ Uuids \subseteq Uuids'
  <2>1. task' \in [Tasks -> Task] /\ Typed'
    BY EnterTask DEF Becomes
  <2>2. PICK r \in EntityRecord : add_entity_instance(r)
    BY EnterTask
  <2> QED BY <1>1, <2>1, <2>2, Written DEF Uuids
<1>3. entities \subseteq Entities /\ catalog \subseteq Fdus
      /\ fdus \subseteq FduInstance /\ faults \in 0 .. MaxFaults
  BY DEF TypeInv, TypeOK
<1> QED BY <1>1, <1>2, <1>3, TypeFrom

LEMMA FinishType ==
  ASSUME TypeInv, NEW t \in Tasks, NEW r \in EntityRecord, Finish(t, r),
         UNCHANGED <<entities, catalog, fdus, faultVars>>
  PROVE  TypeInv'
<1>1. records \subseteq EntityRecord /\ orphans \subseteq Uuids
  BY DEF TypeInv, TypeOK, Uuids
<1>2. task' \in [Tasks -> Task] /\ Typed' /\ add_entity_instance(r)
  BY FinishTask DEF Becomes
<1>3. records' \subseteq EntityRecord /\ Uuids \subseteq Uuids'
  BY <1>1, <1>2, Written DEF Uuids
<1>4. entities \subseteq Entities /\ catalog \subseteq Fdus
      /\ fdus \subseteq FduInstance /\ faults \in 0 .. MaxFaults
  BY DEF TypeInv, TypeOK
<1> QED BY <1>1, <1>2, <1>3, <1>4, TypeFrom DEF faultVars

(* A task of another pc takes the place of t.                              *)
LEMMA NewTaskType ==
  ASSUME TypeInv, NEW t \in Tasks, NEW x, TypedTask(x),
         task' = [task EXCEPT ![t] = x],
         UNCHANGED <<records, catalog, fdus, faultVars>>, entities' \subseteq Entities
  PROVE  TypeInv' /\ Becomes(t, x)
<1>1. Typed' /\ Becomes(t, x)
  BY Update
<1> QED BY <1>1, TypeFrom DEF TypeInv, TypeOK, Uuids, faultVars, Becomes

LEMMA Relisted ==
  ASSUME NEW r \in EntityRecord, NEW l \in Seq(FduIds)
  PROVE  [r EXCEPT !.fdus = l] = [uuid |-> r.uuid, id |-> r.id,
                                  status |-> r.status, fdus |-> l]
BY DEF EntityRecord

LEMMA StartTask ==
  ASSUME TypeInv, NEW t \in Tasks, task[t].pc = "start",
         task' = [task EXCEPT ![t].pc = "define", ![t].k = @ + 1,
                              ![t].rec.fdus = Append(@, Current(t))]
  PROVE  /\ Becomes(t, [pc |-> "define", id |-> task[t].id,
                        rec |-> [uuid |-> task[t].rec.uuid, id |-> task[t].rec.id,
                                 status |-> task[t].rec.status,
                                 fdus |-> Append(task[t].rec.fdus, Current(t))],
                        kept |-> task[t].kept, k |-> task[t].k + 1])
         /\ Typed'
<1>1. TypedTask(task[t]) /\ task[t].k \in Nat \ {0}
      /\ task[t].rec \in EntityRecord /\ Current(t) \in FduIds
  BY Current_Type DEF TypeInv, Typed
<1> DEFINE r == [uuid |-> task[t].rec.uuid, id |-> task[t].rec.id,
                 status |-> task[t].rec.status,
                 fdus |-> Append(task[t].rec.fdus, Current(t))]
           x == [pc |-> "define", id |-> task[t].id, rec |-> r,
                 kept |-> task[t].kept, k |-> task[t].k + 1]
<1>2. r \in EntityRecord
  BY <1>1, RecordFields DEF EntityRecord
<1>3. TypedTask(x)
  <2> HIDE DEF r
  <2>1. x \in Task
    BY <1>1, <1>2, TaskFields DEF TypedTask, Task, Pcs
  <2>2. x.rec # None
    BY <1>2, RecordFields
  <2>3. x.id \in Entities /\ x.k # 0
    BY <1>1 DEF TypedTask
  <2> QED BY <2>1, <2>2, <2>3 DEF TypedTask
<1>4. task' = [task EXCEPT ![t] = x]
  <2> DEFINE q == [task[t].rec EXCEPT !.fdus = Append(task[t].rec.fdus, Current(t))]
  <2>1. task' = [task EXCEPT ![t] =
          [[[task[t] EXCEPT !.pc = "define"] EXCEPT !.k = task[t].k + 1] EXCEPT
             !.rec = q]]
    BY <1>1, Zenon DEF TypeInv, TypeOK
  <2>2. q = r
    <3>1. Append(task[t].rec.fdus, Current(t)) \in Seq(FduIds)
      BY <1>1, RecordFields
    <3> QED BY <1>1, <3>1, Relisted
  <2>3. [[[task[t] EXCEPT !.pc = "define"] EXCEPT !.k = task[t].k + 1] EXCEPT
             !.rec = r] = x
    <3> HIDE DEF r
    <3>1. task[t] \in Task /\ "define" \in Pcs /\ task[t].k + 1 \in Nat
      BY <1>1 DEF TypedTask, Pcs
    <3>2. r \in EntityRecord \cup {None}
      BY <1>2
    <3>3. PICK y \in Task : y = task[t]
      BY <3>1
    <3>4. PICK n \in Nat : n = y.k + 1
      BY <3>1, <3>3
    <3>5. [[[y EXCEPT !.pc = "define"] EXCEPT !.k = n] EXCEPT !.rec = r] =
            [pc |-> "define", id |-> y.id, rec |-> r, kept |-> y.kept, k |-> n]
      BY <3>1, <3>2, RewrittenLast
    <3> QED BY <3>3, <3>4, <3>5, Zenon
  <2> HIDE DEF x, q, r
  <2> QED BY <2>1, <2>2, <2>3
<1> QED BY <1>3, <1>4, Update

LEMMA SameField ==
  ASSUME TypeInv, NEW t \in Tasks, NEW pc,
         task' = [task EXCEPT ![t].pc = pc]
  PROVE  task' = [task EXCEPT ![t].pc = pc, ![t].k = task[t].k]
BY DEF TypeInv, TypeOK, Task

LEMMA RenewedEntity ==
  ASSUME NEW pc, NEW i
  PROVE  [IdleTask EXCEPT !.pc = pc, !.id = i] =
           [pc |-> pc, id |-> i, rec |-> None, kept |-> <<>>, k |-> 0]
<1> DEFINE f(a, b, c, d, e) ==
             [pc |-> a, id |-> b, rec |-> c, kept |-> d, k |-> e]
<1>1. IdleTask = f("idle", None, None, <<>>, 0)
  BY DEF IdleTask
<1>2. /\ [f("idle", None, None, <<>>, 0) EXCEPT !.pc = pc] = f(pc, None, None, <<>>, 0)
      /\ [f(pc, None, None, <<>>, 0) EXCEPT !.id = i] = f(pc, i, None, <<>>, 0)
  OBVIOUS
<1>3. [IdleTask EXCEPT !.pc = pc, !.id = i] = f(pc, i, None, <<>>, 0)
  <2> HIDE DEF f
  <2> QED BY <1>1, <1>2, Zenon
<1> QED BY <1>3

LEMMA RenewedRecord ==
  ASSUME NEW pc, NEW i, NEW r
  PROVE  [IdleTask EXCEPT !.pc = pc, !.id = i, !.rec = r] =
           [pc |-> pc, id |-> i, rec |-> r, kept |-> <<>>, k |-> 0]
<1> DEFINE f(a, b, c, d, e) ==
             [pc |-> a, id |-> b, rec |-> c, kept |-> d, k |-> e]
<1>1. IdleTask = f("idle", None, None, <<>>, 0)
  BY DEF IdleTask
<1>2. /\ [f("idle", None, None, <<>>, 0) EXCEPT !.pc = pc] = f(pc, None, None, <<>>, 0)
      /\ [f(pc, None, None, <<>>, 0) EXCEPT !.id = i] = f(pc, i, None, <<>>, 0)
      /\ [f(pc, i, None, <<>>, 0) EXCEPT !.rec = r] = f(pc, i, r, <<>>, 0)
  OBVIOUS
<1>3. [IdleTask EXCEPT !.pc = pc, !.id = i, !.rec = r] = f(pc, i, r, <<>>, 0)
  <2> HIDE DEF f
  <2> QED BY <1>1, <1>2, Zenon
<1> QED BY <1>3

LEMMA RenewedList ==
  ASSUME NEW pc, NEW i, NEW r, NEW l
  PROVE  [IdleTask EXCEPT !.pc = pc, !.id = i, !.rec = r, !.kept = l] =
           [pc |-> pc, id |-> i, rec |-> r, kept |-> l, k |-> 0]
<1> DEFINE f(a, b, c, d, e) ==
             [pc |-> a, id |-> b, rec |-> c, kept |-> d, k |-> e]
<1>1. [IdleTask EXCEPT !.pc = pc, !.id = i, !.rec = r] = f(pc, i, r, <<>>, 0)
  BY RenewedRecord
<1>2. [f(pc, i, r, <<>>, 0) EXCEPT !.kept = l] = f(pc, i, r, l, 0)
  OBVIOUS
<1>3. [IdleTask EXCEPT !.pc = pc, !.id = i, !.rec = r, !.kept = l] =
        f(pc, i, r, l, 0)
  <2> HIDE DEF f
  <2> QED BY <1>1, <1>2, Zenon
<1> QED BY <1>3

LEMMA TypeClients ==
  ASSUME TypeInv, NEW t \in Tasks
  PROVE  /\ \A e \in Entities : schedule_entity(t, e) => TypeInv'
         /\ \A r \in records : deschedule_entity(t, r) => TypeInv'
         /\ \A e \in Entities : offload_entity(t, e) => TypeInv'
         /\ RemoveEntity(t) => TypeInv'
<1> USE DEF IdleTask, TypedTask, Task, Pcs
<1>0. entities \subseteq Entities /\ records \subseteq EntityRecord
  BY DEF TypeInv, TypeOK
<1>1. ASSUME NEW e \in Entities, schedule_entity(t, e) PROVE TypeInv'
  <2> DEFINE r == [uuid |-> CHOOSE i \in Fresh : TRUE, id |-> e,
                   status |-> "ONBOARDING", fdus |-> <<>>]
             x == [IdleTask EXCEPT !.pc = "schedule", !.id = e, !.rec = r]
  <2>1. (CHOOSE i \in Fresh : TRUE) \in Instances
    BY <1>1 DEF schedule_entity, Fresh
  <2>2. r \in EntityRecord
    BY <2>1 DEF EntityRecord, EntityStatus
  <2>3. x.pc = "schedule" /\ x.rec = r /\ x.id = e
    OBVIOUS
  <2>4. x \in Task
    <3> HIDE DEF r
    <3>1. x = [pc |-> "schedule", id |-> e, rec |-> r, kept |-> <<>>, k |-> 0]
      <4> HIDE DEF IdleTask
      <4>1. PICK q : q = r
        OBVIOUS
      <4>2. [IdleTask EXCEPT !.pc = "schedule", !.id = e, !.rec = q] =
              [pc |-> "schedule", id |-> e, rec |-> q, kept |-> <<>>, k |-> 0]
        BY RenewedRecord
      <4> QED BY <4>1, <4>2, Zenon
    <3> HIDE DEF x, IdleTask
    <3> QED BY <2>2, <3>1
  <2>5. r # None
    BY <2>2, NoRecordAssumption
  <2>6. TypedTask(x)
    <3> HIDE DEF x, r, IdleTask, Task
    <3> QED BY <2>3, <2>4, <2>5
  <2>7. task' = [task EXCEPT ![t] = x]
    BY <1>1 DEF schedule_entity
  <2> HIDE DEF x
  <2> QED BY <1>0, <1>1, <2>6, <2>7, NewTaskType DEF schedule_entity
<1>2. ASSUME NEW r \in records, deschedule_entity(t, r) PROVE TypeInv'
  <2> DEFINE x == [IdleTask EXCEPT !.pc = "stopping", !.id = r.id, !.rec = r,
                                   !.kept = r.fdus]
  <2>1. r \in EntityRecord /\ r # None /\ r.id \in Entities /\ r.fdus \in Seq(FduIds)
    BY <1>0, RecordFields
  <2>2. x.pc = "stopping" /\ x.rec = r /\ x.id = r.id
    OBVIOUS
  <2>3. x \in Task
    BY <2>1
  <2>4. TypedTask(x)
    <3> HIDE DEF x, IdleTask, Task
    <3> QED BY <2>1, <2>2, <2>3
  <2>5. task' = [task EXCEPT ![t] = x]
    BY <1>2 DEF deschedule_entity
  <2> HIDE DEF x
  <2> QED BY <1>0, <1>2, <2>4, <2>5, NewTaskType DEF deschedule_entity
<1>3. ASSUME NEW e \in Entities, offload_entity(t, e) PROVE TypeInv'
  <2> DEFINE x == [IdleTask EXCEPT !.pc = "offload_entity", !.id = e]
  <2>1. TypedTask(x)
    <3>1. x = [pc |-> "offload_entity", id |-> e, rec |-> None, kept |-> <<>>,
               k |-> 0]
      <4> HIDE DEF IdleTask
      <4> QED BY RenewedEntity
    <3> HIDE DEF x, IdleTask
    <3> QED BY <3>1
  <2>2. task' = [task EXCEPT ![t] = x]
    BY <1>3 DEF offload_entity
  <2> HIDE DEF x
  <2> QED BY <1>0, <1>3, <2>1, <2>2, NewTaskType DEF offload_entity
<1>4. ASSUME RemoveEntity(t) PROVE TypeInv'
  <2>1. TypedTask(IdleTask)
    OBVIOUS
  <2> HIDE DEF IdleTask
  <2> QED BY <1>0, <1>4, <2>1, NewTaskType DEF RemoveEntity
<1> QED BY <1>1, <1>2, <1>3, <1>4

LEMMA TypeCrash ==
  ASSUME TypeInv, NEW S \in SUBSET Tasks, Crash(S)
  PROVE  TypeInv'
<1>1. TypedTask(IdleTask)
  BY DEF IdleTask, TypedTask, Task, Pcs
<1>2. task' = [t \in Tasks |-> IF t \in S THEN IdleTask ELSE task[t]]
  BY DEF Crash
<1>3. \A t \in Tasks : TypedTask(task'[t])
  BY <1>1, <1>2 DEF TypeInv, Typed
<1>4. Typed' /\ task' \in [Tasks -> Task]
  BY <1>2, <1>3 DEF Typed, TypedTask
<1>5. faults' \in 0 .. MaxFaults
  BY EntityAssumption DEF Crash, Fault, TypeInv, TypeOK
<1>6. orphans' \subseteq Uuids'
  <2>1. orphans' \subseteq orphans \cup {r.uuid : r \in records}
    BY DEF Crash
  <2> QED BY <2>1 DEF TypeInv, TypeOK, Uuids, Crash
<1> QED BY <1>4, <1>5, <1>6, TypeFrom DEF Crash, TypeInv, TypeOK, Uuids

LEMMA TypeCalls ==
  ASSUME TypeInv, NEW t \in Tasks
  PROVE  /\ Onboard(t) => TypeInv'
         /\ Define(t) => TypeInv'
         /\ Configure(t) => TypeInv'
         /\ Start(t) => TypeInv'
         /\ Stop(t) => TypeInv'
         /\ Clean(t) => TypeInv'
         /\ Undefine(t) => TypeInv'
         /\ OffloadFdu(t) => TypeInv'
         /\ RemoveFdu(t) => TypeInv'
<1> DEFINE Same == UNCHANGED <<entities, records, orphans>>
<1>0. /\ entities \subseteq Entities /\ records \subseteq EntityRecord
      /\ orphans \subseteq Uuids /\ catalog \subseteq Fdus
      /\ fdus \subseteq FduInstance /\ faults \in 0 .. MaxFaults
      /\ MaxFaults \in Nat
  BY EntityAssumption DEF TypeInv, TypeOK, Uuids
<1>a. ASSUME Same, Typed', Broke(t) \/ \E pc, k : Went(t, pc, k),
             faults' \in 0 .. MaxFaults, catalog' \subseteq Fdus,
             fdus' \subseteq FduInstance
      PROVE  TypeInv'
  BY <1>0, <1>a, TypeFrom DEF Broke, Went, Becomes, Uuids
<1> DEFINE pc == task[t].pc
<1>1. ASSUME Onboard(t) PROVE TypeInv'
  <2>1. pc = "onboard" /\ task[t].k + 1 \in Nat \ {0}
        /\ Descriptor(t)[task[t].k] \in Fdus
    BY <1>1, Current_Type DEF Onboard
  <2>2. "onboard" \in Pcs \ {"idle", "offload_entity"}
    BY DEF Pcs
  <2>3. /\ \E p, k : Went(t, p, k)
        /\ Typed' /\ faults' \in 0 .. MaxFaults
    BY <1>1, <2>1, <2>2, ProceedTask, RefusedTask DEF Onboard, Broke
  <2> QED BY <1>0, <1>1, <1>a, <2>1, <2>3 DEF Onboard
<1>2. ASSUME Define(t) PROVE TypeInv'
  <2>1. pc = "define" /\ task[t].k \in Nat \ {0} /\ Current(t) \in FduIds
        /\ Descriptor(t)[task[t].k] \in Fdus
    BY <1>2, Current_Type DEF Define
  <2>2. "configure" \in Pcs \ {"idle", "offload_entity"}
    BY DEF Pcs
  <2>3. /\ \E p, k : Went(t, p, k)
        /\ Typed' /\ faults' \in 0 .. MaxFaults
    BY <1>2, <2>1, <2>2, ProceedTask, RefusedTask DEF Define, Broke
  <2>4. [uuid |-> Current(t), fdu |-> Descriptor(t)[task[t].k],
         status |-> "DEFINED"] \in FduInstance
    BY <2>1 DEF FduInstance
  <2>5. fdus' \subseteq FduInstance
    BY <1>0, <1>2, <2>4 DEF Define
  <2> QED BY <1>0, <1>2, <1>a, <2>3, <2>5 DEF Define
<1>3. ASSUME Configure(t) PROVE TypeInv'
  <2>1. pc = "configure" /\ task[t].k # 0
    BY <1>3, Current_Type DEF Configure
  <2>2. "start" \in Pcs \ {"idle", "offload_entity"}
    BY DEF Pcs
  <2>3. Call(t, Current(t), "DEFINED", "CONFIGURED", "start")
    BY <1>3 DEF Configure
  <2>4. /\ \E p, k : Went(t, p, k)
        /\ Typed' /\ faults' \in 0 .. MaxFaults /\ fdus' \subseteq FduInstance
    BY <2>1, <2>2, <2>3, CallTask DEF Broke
  <2> QED BY <1>0, <1>3, <1>a, <2>4 DEF Configure
<1>4. ASSUME Start(t) PROVE TypeInv'
  <2>1. pc = "start" /\ task[t].k # 0
    BY <1>4, Current_Type DEF Start
  <2>2. fdus' \subseteq FduInstance
    <3>1. \A y \in FduInstance : [y EXCEPT !.status = "RUNNING"] \in FduInstance
      BY DEF FduInstance
    <3> QED BY <1>0, <1>4, <3>1 DEF Start, Switch
  <2>3. Typed' /\ task' \in [Tasks -> Task] /\ faults' \in 0 .. MaxFaults
    <3>1. CASE task' = [task EXCEPT ![t].pc = "define", ![t].k = @ + 1,
                                    ![t].rec.fdus = Append(@, Current(t))]
               /\ UNCHANGED faults
      BY <1>0, <2>1, <3>1, StartTask DEF Becomes
    <3>2. CASE Fail(t) /\ Fault
      <4>1. Broke(t) /\ Typed'
        BY <2>1, <3>2, FailTask
      <4>2. faults' \in 0 .. MaxFaults
        BY <1>0, <3>2 DEF Fault
      <4> QED BY <4>1, <4>2 DEF Becomes, Broke, Went
    <3>3. CASE Refused(t, Ready(Current(t), "CONFIGURED"))
      BY <1>0, <2>1, <3>3, RefusedTask DEF Becomes, Broke, Went
    <3> QED BY <1>4, <3>1, <3>2, <3>3 DEF Start
  <2> QED BY <1>0, <1>4, <2>2, <2>3, TypeFrom DEF Start, Uuids
<1>5. ASSUME Stop(t) PROVE TypeInv'
  <2>1. pc = "stop" /\ task[t].k # 0
    BY <1>5, Current_Type DEF Stop
  <2>2. "clean" \in Pcs \ {"idle", "offload_entity"}
    BY DEF Pcs
  <2>3. Call(t, Listed(t), "RUNNING", "CONFIGURED", "clean")
    BY <1>5 DEF Stop
  <2>4. /\ \E p, k : Went(t, p, k)
        /\ Typed' /\ faults' \in 0 .. MaxFaults /\ fdus' \subseteq FduInstance
    BY <2>1, <2>2, <2>3, CallTask DEF Broke
  <2> QED BY <1>0, <1>5, <1>a, <2>4 DEF Stop
<1>6. ASSUME Clean(t) PROVE TypeInv'
  <2>1. pc = "clean" /\ task[t].k # 0
    BY <1>6, Current_Type DEF Clean
  <2>2. "undefine" \in Pcs \ {"idle", "offload_entity"}
    BY DEF Pcs
  <2>3. Call(t, Listed(t), "CONFIGURED", "DEFINED", "undefine")
    BY <1>6 DEF Clean
  <2>4. /\ \E p, k : Went(t, p, k)
        /\ Typed' /\ faults' \in 0 .. MaxFaults /\ fdus' \subseteq FduInstance
    BY <2>1, <2>2, <2>3, CallTask DEF Broke
  <2> QED BY <1>0, <1>6, <1>a, <2>4 DEF Clean
<1>7. ASSUME Undefine(t) PROVE TypeInv'
  <2>1. pc = "undefine" /\ task[t].k + 1 \in Nat \ {0}
    BY <1>7, Current_Type DEF Undefine
  <2>2. "stop" \in Pcs \ {"idle", "offload_entity"}
    BY DEF Pcs
  <2>3. /\ \E p, k : Went(t, p, k)
        /\ Typed' /\ faults' \in 0 .. MaxFaults
    BY <1>7, <2>1, <2>2, ProceedTask, RefusedTask DEF Undefine, Broke
  <2> QED BY <1>0, <1>7, <1>a, <2>3 DEF Undefine
<1>8. ASSUME OffloadFdu(t) PROVE TypeInv'
  <2> DEFINE ok == /\ Descriptor(t)[task[t].k] \in catalog
                   /\ \A y \in fdus : y.fdu # Descriptor(t)[task[t].k]
  <2>1. pc = "offload" /\ task[t].k \in Nat \ {0}
    BY <1>8, Current_Type DEF OffloadFdu
  <2>2. "remove" \in Pcs \ {"idle", "offload_entity"}
    BY DEF Pcs
  <2>3. CASE task' = [task EXCEPT ![t].pc = "remove"] /\ UNCHANGED faults
    <3>1. task' = [task EXCEPT ![t].pc = "remove", ![t].k = task[t].k]
      BY <2>1, <2>3, SameField
    <3> QED BY <1>0, <1>8, <1>a, <2>1, <2>2, <2>3, <3>1, GoOnTask DEF OffloadFdu
  <2>4. CASE Refused(t, ok)
    BY <1>0, <1>8, <1>a, <2>1, <2>4, RefusedTask DEF OffloadFdu
  <2> QED BY <1>8, <2>3, <2>4 DEF OffloadFdu
<1>9. ASSUME RemoveFdu(t) PROVE TypeInv'
  <2>1. pc = "remove" /\ task[t].k + 1 \in Nat \ {0}
    BY <1>9, Current_Type DEF RemoveFdu
  <2>2. "offload" \in Pcs \ {"idle", "offload_entity"}
    BY DEF Pcs
  <2>3. /\ \E p, k : Went(t, p, k)
        /\ Typed' /\ faults' \in 0 .. MaxFaults
    BY <1>9, <2>1, <2>2, ProceedTask DEF RemoveFdu, Broke
  <2> QED BY <1>0, <1>9, <1>a, <2>3 DEF RemoveFdu
<1> QED BY <1>1, <1>2, <1>3, <1>4, <1>5, <1>6, <1>7, <1>8, <1>9

LEMMA TypeRecords ==
  ASSUME TypeInv, NEW t \in Tasks
  PROVE  /\ Spawn(t) => TypeInv'
         /\ Onboarded(t) => TypeInv'
         /\ Starting(t) => TypeInv'
         /\ Running(t) => TypeInv'
         /\ Stopping(t) => TypeInv'
         /\ Stopped(t) => TypeInv'
         /\ Offloading(t) => TypeInv'
         /\ Offloaded(t) => TypeInv'
         /\ Failed(t) => TypeInv'
<1>1. /\ {"ONBOARDING", "ONBOARDED", "STARTING", "RUNNING", "STOPPING", "STOPPED",
          "OFFLOADING", "OFFLOADED", "ERROR"} \subseteq EntityStatus
      /\ {"onboard", "starting", "define", "stop", "offloading", "offload",
          "failed"} \subseteq Pcs \ {"idle", "offload_entity"}
  BY DEF EntityStatus, Pcs
<1>2. task[t].pc \notin {"idle", "offload_entity"} =>
        /\ task[t].rec \in EntityRecord /\ task[t].kept \in Seq(FduIds)
        /\ \A s \in EntityStatus :
             /\ [task[t].rec EXCEPT !.status = s] \in EntityRecord
             /\ [task[t].rec EXCEPT !.status = s, !.fdus = task[t].kept]
                  \in EntityRecord
  <2>1. TypedTask(task[t])
    BY DEF TypeInv, Typed
  <2>2. \A r \in EntityRecord : \A s \in EntityStatus : \A l \in Seq(FduIds) :
          /\ [r EXCEPT !.status = s] \in EntityRecord
          /\ [r EXCEPT !.status = s, !.fdus = l] \in EntityRecord
    BY DEF EntityRecord
  <2> QED BY <2>1, <2>2, TaskFields
<1>3. ASSUME Spawn(t) PROVE TypeInv'
  BY <1>1, <1>3, EnterType DEF Spawn, faultVars
<1>4. ASSUME Onboarded(t) PROVE TypeInv'
  BY <1>1, <1>4, EnterType DEF Onboarded, faultVars
<1>5. ASSUME Starting(t) PROVE TypeInv'
  BY <1>1, <1>5, EnterType DEF Starting, faultVars
<1>6. ASSUME Running(t) PROVE TypeInv'
  BY <1>1, <1>2, <1>6, FinishType DEF Running
<1>7. ASSUME Stopping(t) PROVE TypeInv'
  <2>1. CASE Enter(t, "STOPPING", "stop") /\ orphans' = orphans \ {task[t].rec.uuid}
    BY <1>1, <1>7, <2>1, EnterType DEF Stopping
  <2>2. CASE Fail(t) /\ UNCHANGED <<records, orphans>>
    <3>1. Broke(t) /\ Typed'
      BY <1>7, <2>2, FailTask DEF Stopping
    <3> QED BY <1>7, <2>2, <3>1, TypeFrom
            DEF Stopping, Broke, Went, Becomes, TypeInv, TypeOK, Uuids
  <2> QED BY <1>7, <2>1, <2>2 DEF Stopping
<1>8. ASSUME Stopped(t) PROVE TypeInv'
  BY <1>1, <1>8, EnterType DEF Stopped, faultVars
<1>9. ASSUME Offloading(t) PROVE TypeInv'
  BY <1>1, <1>9, EnterType DEF Offloading, faultVars
<1>10. ASSUME Offloaded(t) PROVE TypeInv'
  BY <1>1, <1>2, <1>10, FinishType DEF Offloaded
<1>11. ASSUME Failed(t) PROVE TypeInv'
  BY <1>1, <1>2, <1>11, FinishType DEF Failed
<1> QED BY <1>3, <1>4, <1>5, <1>6, <1>7, <1>8, <1>9, <1>10, <1>11

LEMMA TypeInit ==
  ASSUME Init PROVE TypeInv
<1>1. TypedTask(IdleTask)
  BY DEF IdleTask, TypedTask, Task, Pcs
<1>2. Typed /\ task \in [Tasks -> Task]
  BY <1>1 DEF Init, Typed, TypedTask
<1> QED BY <1>2, EntityAssumption DEF Init, TypeInv, TypeOK, Typed, TypedTask

LEMMA TypeStep ==
  ASSUME TypeInv, [Next]_vars PROVE TypeInv'
<1>1. ASSUME NEW e \in Entities, onboard_entity(e) PROVE TypeInv'
  BY <1>1 DEF onboard_entity, TypeInv, TypeOK, Typed, faultVars
<1>2. ASSUME NEW t \in Tasks, TaskStep(t) PROVE TypeInv'
  BY <1>2, TypeClients, TypeCalls, TypeRecords DEF TaskStep
<1>3. CASE UNCHANGED vars
  BY <1>3 DEF vars, TypeInv, TypeOK, Typed, faultVars
<1> QED BY <1>1, <1>2, <1>3, TypeClients, TypeCrash DEF Next

(* Every variable keeps its type: a task at work holds the record it works *)
(* on, and every orphan has a record in the store.                         *)
THEOREM TypeOKHolds == Spec => []TypeOK
<1>1. Spec => []TypeInv
  BY TypeInit, TypeStep, PTL DEF Spec
<1>2. TypeInv => TypeOK
  BY DEF TypeInv
<1> QED BY <1>1, <1>2, PTL

-----------------------------------------------------------------------------
(* What a step leaves alone.  A step of the tasks T touches the records,   *)
(* the FDU instances and the history of the entity instances W only.       *)

RecordsOf(j) == {q \in records : q.uuid = j}

SameFor(j) ==
  /\ RecordsOf(j)' = RecordsOf(j)
  /\ InstancesOf(j)' = InstancesOf(j)
  /\ (j \in orphans)' <=> j \in orphans

LEMMA FramePhase ==
  ASSUME NEW t \in Tasks, task'[t] = task[t], PhaseOf(t),
         NEW j, task[t].rec # None => task[t].rec.uuid = j, SameFor(j)
  PROVE  PhaseOf(t)'
<1> SUFFICES ASSUME task[t].rec # None PROVE WorkOf(t)'
  BY DEF PhaseOf
<1>1. WorkOf(t) /\ task[t].rec.uuid = j
  BY DEF PhaseOf
<1>2. \A q : (q \in records' /\ q.uuid = j) <=> (q \in records /\ q.uuid = j)
  BY DEF SameFor, RecordsOf
<1>3. \A y : (y \in fdus' /\ y.uuid[1] = j) <=> (y \in fdus /\ y.uuid[1] = j)
  BY DEF SameFor, InstancesOf
<1>4. \A e, k : Runs(j, e, k) \in fdus' <=> Runs(j, e, k) \in fdus
  BY <1>3 DEF Runs
<1>5. BroughtUp(t) => BroughtUp(t)'
  <2> SUFFICES ASSUME BroughtUp(t) PROVE BroughtUp(t)'
    OBVIOUS
  <2>1. \A m \in 1 .. task[t].k - 1 : Runs(j, task[t].rec.id, m) \in fdus'
    BY <1>1, <1>4 DEF BroughtUp
  <2>2. \A y \in fdus' : y.uuid[1] = j =>
          \/ y.uuid[2] \in 1 .. task[t].k - 1
          \/ task[t].pc # "define" /\ y.uuid[2] = task[t].k
    BY <1>1, <1>3 DEF BroughtUp, InstancesOf
  <2> QED BY <1>1, <2>1, <2>2 DEF BroughtUp, Runs, InstancesOf
<1>6. TakenDown(t) => TakenDown(t)'
  BY <1>1, <1>3 DEF TakenDown, InstancesOf
<1>7. /\ task'[t].pc = "schedule" => \A r \in records' : r.uuid # j
      /\ task'[t].pc # "schedule" =>
           \E r \in records' : /\ r.uuid = j /\ r.id = task'[t].rec.id
                               /\ r.status \in Shows(task'[t].pc)
      /\ task'[t].pc = "stopping" =>
           \A r \in records' : r.uuid = j => r.status \in Settled \/ j \in orphans'
      /\ task'[t].pc \in {"schedule", "onboard", "starting"} =>
           task'[t].rec.fdus = <<>> /\ InstancesOf(j)' = {}
  BY <1>1, <1>2 DEF WorkOf, SameFor
<1> QED BY <1>1, <1>5, <1>6, <1>7 DEF WorkOf

LEMMA FrameInst ==
  ASSUME NEW j, InstOK(j), SameFor(j), Working(j) => Working(j)'
  PROVE  InstOK(j)'
<1>1. \A q : (q \in records' /\ q.uuid = j) <=> (q \in records /\ q.uuid = j)
  BY DEF SameFor, RecordsOf
<1>2. InstancesOf(j)' = InstancesOf(j)
  BY DEF SameFor
<1>3. \A e, k : Runs(j, e, k) \in fdus' <=> Runs(j, e, k) \in fdus
  <2>1. \A y : (y \in fdus' /\ y.uuid[1] = j) <=> (y \in fdus /\ y.uuid[1] = j)
    BY DEF SameFor, InstancesOf
  <2> QED BY <2>1 DEF Runs
<1>4. \A y \in InstancesOf(j)' : Placed(y)'
  BY <1>1, <1>2 DEF InstOK, Placed, InstancesOf
<1>5. \A r \in records' : r.uuid = j /\ r.status = "RUNNING" => AllRun(r)'
  BY <1>1, <1>3 DEF InstOK, AllRun, Runs
<1>6. \A r \in records' : r.uuid = j =>
        /\ r.status = "OFFLOADED" => InstancesOf(j)' = {}
        /\ r.status \in Settled \/ j \in orphans' \/ Working(j)'
        /\ Own(j, r.fdus)
  BY <1>1, <1>2 DEF InstOK, SameFor
<1> QED BY <1>1, <1>2, <1>4, <1>5, <1>6 DEF InstOK

LEMMA Effect ==
  ASSUME EntityInv, TypeInv', NEW T \in SUBSET Tasks, NEW W \in SUBSET Instances,
         \A u \in Tasks \ T :
           task'[u] = task[u] /\ (task[u].rec # None => task[u].rec.uuid \notin W),
         \A u \in T : task[u].rec # None => task[u].rec.uuid \in W,
         \A u \in T : task'[u].rec # None => task'[u].rec.uuid \in W,
         \A t, u \in T : task'[t].rec # None /\ task'[u].rec # None => t = u,
         \A j \in Instances \ W : SameFor(j),
         \A u \in T : PhaseOf(u)', \A j \in W : InstOK(j)'
  PROVE  EntityInv'
<1>1. \A u \in Tasks : task[u].rec # None => task[u].rec.uuid \in Instances
  <2> SUFFICES ASSUME NEW u \in Tasks, task[u].rec # None
               PROVE  task[u].rec.uuid \in Instances
    OBVIOUS
  <2>1. task[u].rec \in EntityRecord
    BY TaskFields DEF EntityInv, TypeInv, Typed
  <2> QED BY <2>1, RecordFields
<1>2. Phases'
  <2> SUFFICES ASSUME NEW u \in Tasks PROVE PhaseOf(u)'
    BY DEF Phases
  <2>1. CASE u \in T
    BY <2>1
  <2>2. CASE u \notin T /\ task[u].rec # None
    <3>1. PICK j \in Instances \ W : task[u].rec.uuid = j
      BY <1>1, <2>2
    <3>2. SameFor(j) /\ task'[u] = task[u] /\ PhaseOf(u)
      BY <2>2 DEF EntityInv, Phases
    <3> QED BY <3>1, <3>2, FramePhase
  <2>3. CASE u \notin T /\ task[u].rec = None
    BY <2>3 DEF PhaseOf
  <2> QED BY <2>1, <2>2, <2>3
<1>3. \A j \in Instances : InstOK(j)'
  <2> SUFFICES ASSUME NEW j \in Instances \ W PROVE InstOK(j)'
    OBVIOUS
  <2>1. Working(j) => Working(j)'
    BY DEF Working
  <2> QED BY <2>1, FrameInst DEF EntityInv
<1>4. Apart'
  BY DEF EntityInv, Apart
<1> QED BY <1>2, <1>3, <1>4 DEF EntityInv

(* What the invariant says of a task at work.                              *)
LEMMA AtWork ==
  ASSUME EntityInv, NEW t \in Tasks, task[t].pc \notin {"idle", "offload_entity"}
  PROVE  /\ task[t].rec \in EntityRecord /\ task[t].rec # None
         /\ task[t].rec.uuid \in Instances /\ task[t].rec.id \in Entities
         /\ WorkOf(t) /\ InstOK(task[t].rec.uuid)
         /\ task[t].k \in Nat /\ task[t].pc \in Pcs
         /\ task[t].kept \in Seq(FduIds)
<1>1. TypedTask(task[t])
  BY DEF EntityInv, TypeInv, Typed
<1>2. task[t].rec \in EntityRecord
  BY <1>1, TaskFields
<1>3. task[t].rec.uuid \in Instances /\ task[t].rec.id \in Entities
      /\ task[t].rec # None
  BY <1>2, RecordFields
<1> QED BY <1>1, <1>2, <1>3, TaskFields DEF EntityInv, Phases, PhaseOf

LEMMA WorkEffect ==
  ASSUME EntityInv, TypeInv', NEW t \in Tasks, NEW i \in Instances,
         task[t].rec # None, task[t].rec.uuid = i,
         \A u \in Tasks \ {t} : task'[u] = task[u],
         task'[t].rec # None => task'[t].rec.uuid = i,
         \A j \in Instances \ {i} : SameFor(j), PhaseOf(t)', InstOK(i)'
  PROVE  EntityInv'
<1>1. \A u \in Tasks \ {t} : task[u].rec # None => task[u].rec.uuid # i
  BY DEF EntityInv, Apart
<1>2. {t} \in SUBSET Tasks /\ {i} \in SUBSET Instances
  OBVIOUS
<1>3. /\ \A u \in Tasks \ {t} :
           task'[u] = task[u] /\ (task[u].rec # None => task[u].rec.uuid \notin {i})
      /\ \A u \in {t} : task[u].rec # None => task[u].rec.uuid \in {i}
      /\ \A u \in {t} : task'[u].rec # None => task'[u].rec.uuid \in {i}
      /\ \A v, u \in {t} : task'[v].rec # None /\ task'[u].rec # None => v = u
      /\ \A j \in Instances \ {i} : SameFor(j)
      /\ \A u \in {t} : PhaseOf(u)'
      /\ \A j \in {i} : InstOK(j)'
  BY <1>1
<1> QED BY <1>2, <1>3, Effect

(* A step of the task alone.                                               *)
LEMMA StayEffect ==
  ASSUME EntityInv, TypeInv', NEW t \in Tasks, task[t].rec # None,
         UNCHANGED <<records, fdus, orphans>>,
         \A u \in Tasks \ {t} : task'[u] = task[u],
         task'[t].rec = task[t].rec, PhaseOf(t)'
  PROVE  EntityInv'
<1>1. task[t].pc \notin {"idle", "offload_entity"}
  BY DEF EntityInv, Phases, PhaseOf, WorkOf
<1>2. PICK i \in Instances : task[t].rec.uuid = i
  BY <1>1, AtWork
<1>3. InstOK(i)
  BY DEF EntityInv
<1>4. \A j : SameFor(j)
  BY DEF SameFor, RecordsOf, InstancesOf
<1>5. Working(i) => Working(i)'
  BY DEF Working
<1> QED BY <1>2, <1>3, <1>4, <1>5, FrameInst, WorkEffect

(* A step that changes the FDU instances of the entity instance.           *)
LEMMA FduEffect ==
  ASSUME EntityInv, TypeInv', NEW t \in Tasks, NEW i \in Instances,
         task[t].rec # None, task[t].rec.uuid = i,
         UNCHANGED <<records, orphans>>,
         \A u \in Tasks \ {t} : task'[u] = task[u],
         task'[t].rec # None /\ task'[t].rec.uuid = i,
         Shows(task[t].pc) \cap {"RUNNING", "OFFLOADED"} = {},
         task[t].pc # "schedule",
         \A y : y.uuid[1] # i => (y \in fdus' <=> y \in fdus),
         \A y, z \in fdus' : y.uuid[1] = i /\ y.uuid = z.uuid => y = z,
         \A y \in fdus' : y.uuid[1] = i =>
           \/ \E z \in fdus : z.uuid = y.uuid /\ z.fdu = y.fdu
           \/ /\ y.uuid[2] \in 1 .. Len(FdusOf[task[t].rec.id])
              /\ y.fdu = FdusOf[task[t].rec.id][y.uuid[2]],
         PhaseOf(t)'
  PROVE  EntityInv'
<1>1. WorkOf(t) /\ InstOK(i)
  BY DEF EntityInv, Phases, PhaseOf
<1>2. \A j \in Instances \ {i} : SameFor(j)
  BY DEF SameFor, RecordsOf, InstancesOf
<1>3. Working(i)'
  BY DEF Working
<1>4. \A r \in records : r.uuid = i => r.status \notin {"RUNNING", "OFFLOADED"}
  BY <1>1 DEF WorkOf, InstOK
<1>5. \A y \in InstancesOf(i)' : Placed(y)'
  BY <1>1 DEF InstOK, Placed, InstancesOf, WorkOf
<1>6. \A y, z \in InstancesOf(i)' : y.uuid = z.uuid => y = z
  BY DEF InstancesOf
<1>7. InstOK(i)'
  BY <1>1, <1>3, <1>4, <1>5, <1>6 DEF InstOK
<1> QED BY <1>2, <1>7, WorkEffect

(* A step that writes the record of the entity instance.                   *)
LEMMA WriteEffect ==
  ASSUME EntityInv, TypeInv', NEW t \in Tasks, NEW i \in Instances,
         task[t].rec # None, task[t].rec.uuid = i,
         NEW r \in EntityRecord, r.uuid = i, r.id = task[t].rec.id,
         add_entity_instance(r), UNCHANGED fdus, Own(i, r.fdus),
         \A j : j # i => (j \in orphans' <=> j \in orphans),
         \A u \in Tasks \ {t} : task'[u] = task[u],
         task'[t].rec # None => task'[t].rec.uuid = i,
         r.status = "RUNNING" => AllRun(r),
         r.status = "OFFLOADED" => InstancesOf(i) = {},
         r.status \in Settled \/ task'[t].rec # None,
         PhaseOf(t)'
  PROVE  EntityInv'
<1>1. WorkOf(t) /\ InstOK(i)
  BY DEF EntityInv, Phases, PhaseOf
<1>2. /\ r \in records' /\ \A q \in records' : q.uuid = i => q = r
      /\ \A j : j # i => RecordsOf(j)' = RecordsOf(j)
  BY Written DEF EntityInv, TypeInv, TypeOK, RecordsOf
<1>3. \A j \in Instances \ {i} : SameFor(j)
  BY <1>2 DEF SameFor, InstancesOf
<1>4. r.status \in Settled \/ Working(i)'
  BY DEF Working
<1>5. \A y \in InstancesOf(i) : y.uuid[2] \in 1 .. Len(FdusOf[r.id])
                                /\ y.fdu = FdusOf[r.id][y.uuid[2]]
  BY <1>1 DEF WorkOf, InstOK, Placed, InstancesOf
<1>6. InstancesOf(i)' = InstancesOf(i)
  BY DEF InstancesOf
<1>7. \A y \in InstancesOf(i)' : Placed(y)'
  BY <1>2, <1>5, <1>6 DEF Placed, InstancesOf
<1>8. r.status = "RUNNING" => AllRun(r)'
  BY DEF AllRun, Runs
<1>9. InstOK(i)'
  BY <1>1, <1>2, <1>4, <1>6, <1>7, <1>8 DEF InstOK
<1> QED BY <1>3, <1>9, WorkEffect

(* A failed call: whatever it has done, the record in the store is there.  *)
LEMMA BrokePhase ==
  ASSUME NEW t \in Tasks, WorkOf(t), task[t].pc # "schedule", Broke(t),
         UNCHANGED records, task[t].rec # None
  PROVE  /\ PhaseOf(t)' /\ task'[t].rec = task[t].rec
         /\ \A u \in Tasks \ {t} : task'[u] = task[u]
<1>1. /\ task'[t].pc = "failed" /\ task'[t].rec = task[t].rec
      /\ task'[t].kept = task[t].kept /\ task'[t].id = task[t].id
      /\ \A u \in Tasks \ {t} : task'[u] = task[u]
  BY DEF Broke, Went, Becomes
<1>2. \A pc : Shows(pc) \subseteq EntityStatus /\ Shows("failed") = EntityStatus
  BY DEF Shows, EntityStatus
<1>3. WorkOf(t)'
  BY <1>1, <1>2 DEF WorkOf, Own
<1> QED BY <1>1, <1>3 DEF PhaseOf

-----------------------------------------------------------------------------
(* The steps of the clients, and the crash                                 *)

LEMMA SameForAll ==
  ASSUME UNCHANGED <<records, fdus, orphans>>
  PROVE  \A j : SameFor(j)
BY DEF SameFor, RecordsOf, InstancesOf

(* A task that works for no instance.                                      *)
LEMMA NoWorkEffect ==
  ASSUME EntityInv, TypeInv', NEW t \in Tasks,
         UNCHANGED <<records, fdus, orphans>>,
         \A u \in Tasks \ {t} : task'[u] = task[u],
         task[t].rec = None, task'[t].rec = None
  PROVE  EntityInv'
<1>1. {t} \in SUBSET Tasks /\ {} \in SUBSET Instances
  OBVIOUS
<1>2. PhaseOf(t)'
  BY DEF PhaseOf
<1>3. /\ \A u \in Tasks \ {t} :
           task'[u] = task[u] /\ (task[u].rec # None => task[u].rec.uuid \notin {})
      /\ \A u \in {t} : task[u].rec # None => task[u].rec.uuid \in {}
      /\ \A u \in {t} : task'[u].rec # None => task'[u].rec.uuid \in {}
      /\ \A v, u \in {t} : task'[v].rec # None /\ task'[u].rec # None => v = u
      /\ \A j \in Instances \ {} : SameFor(j)
      /\ \A u \in {t} : PhaseOf(u)'
      /\ \A j \in {} : InstOK(j)'
  BY <1>2, SameForAll
<1> QED BY <1>1, <1>3, Effect

(* A new task, for an instance nobody works for.                           *)
LEMMA NewWorkEffect ==
  ASSUME EntityInv, TypeInv', NEW t \in Tasks, NEW i \in Instances,
         UNCHANGED <<records, fdus, orphans>>,
         task[t].rec = None, ~Working(i),
         \A u \in Tasks \ {t} : task'[u] = task[u],
         task'[t].rec.uuid = i, PhaseOf(t)'
  PROVE  EntityInv'
<1>1. {t} \in SUBSET Tasks /\ {i} \in SUBSET Instances
  OBVIOUS
<1>2. InstOK(i) /\ SameFor(i)
  BY SameForAll DEF EntityInv
<1>3. InstOK(i)'
  BY <1>2, FrameInst
<1>4. /\ \A u \in Tasks \ {t} :
           task'[u] = task[u] /\ (task[u].rec # None => task[u].rec.uuid \notin {i})
      /\ \A u \in {t} : task[u].rec # None => task[u].rec.uuid \in {i}
      /\ \A u \in {t} : task'[u].rec # None => task'[u].rec.uuid \in {i}
      /\ \A v, u \in {t} : task'[v].rec # None /\ task'[u].rec # None => v = u
      /\ \A j \in Instances \ {i} : SameFor(j)
      /\ \A u \in {t} : PhaseOf(u)'
      /\ \A j \in {i} : InstOK(j)'
  BY <1>3, SameForAll DEF Working
<1> QED BY <1>1, <1>4, Effect

LEMMA NewTaskIdle ==
  ASSUME EntityInv, NEW t, NewTask(t)
  PROVE  t \in Tasks /\ task[t].pc = "idle" /\ task[t].rec = None
<1>1. t \in Tasks /\ task[t].pc = "idle"
  BY DEF NewTask
<1> QED BY <1>1 DEF EntityInv, Phases, PhaseOf, WorkOf

LEMMA StepClients ==
  ASSUME EntityInv, TypeInv', NEW t \in Tasks, Exclusive
  PROVE  /\ \A e \in Entities : schedule_entity(t, e) => EntityInv'
         /\ \A r \in records : deschedule_entity(t, r) => EntityInv'
         /\ \A e \in Entities : offload_entity(t, e) => EntityInv'
         /\ RemoveEntity(t) => EntityInv'
<1>0. task \in [Tasks -> Task] /\ records \subseteq EntityRecord
  BY DEF EntityInv, TypeInv, TypeOK
<1>1. ASSUME NEW e \in Entities, schedule_entity(t, e) PROVE EntityInv'
  <2>1. PICK i \in Fresh : i = CHOOSE j \in Fresh : TRUE
    BY <1>1 DEF schedule_entity
  <2>2. i \in Instances /\ ~Working(i) /\ \A r \in records : r.uuid # i
    BY <2>1 DEF Fresh
  <2> DEFINE r == [uuid |-> i, id |-> e, status |-> "ONBOARDING", fdus |-> <<>>]
  <2>3. /\ task'[t] = [pc |-> "schedule", id |-> e, rec |-> r, kept |-> <<>>,
                       k |-> 0]
        /\ \A u \in Tasks \ {t} : task'[u] = task[u]
    <3>1. PICK q : q = r
      OBVIOUS
    <3>2. [IdleTask EXCEPT !.pc = "schedule", !.id = e, !.rec = q] =
            [pc |-> "schedule", id |-> e, rec |-> q, kept |-> <<>>, k |-> 0]
      BY RenewedRecord
    <3>3. task' = [task EXCEPT ![t] =
                     [IdleTask EXCEPT !.pc = "schedule", !.id = e, !.rec = q]]
      BY <1>1, <2>1, <3>1, Zenon DEF schedule_entity
    <3> QED BY <1>0, <3>1, <3>2, <3>3
  <2>4. UNCHANGED <<records, fdus, orphans>>
    BY <1>1 DEF schedule_entity, faultVars
  <2>5. InstancesOf(i) = {}
    BY <2>2 DEF EntityInv, InstOK, Placed, InstancesOf
  <2>6. WorkOf(t)'
    BY <2>2, <2>3, <2>4, <2>5 DEF WorkOf, Own, InstancesOf
  <2>7. PhaseOf(t)' /\ task'[t].rec.uuid = i
    BY <2>3, <2>6 DEF PhaseOf
  <2>8. task[t].rec = None
    BY <1>1, NewTaskIdle DEF schedule_entity
  <2> QED BY <2>2, <2>3, <2>4, <2>7, <2>8, NewWorkEffect
<1>2. ASSUME NEW r \in records, deschedule_entity(t, r) PROVE EntityInv'
  <2>1. r.uuid \in Instances /\ r \in EntityRecord /\ ~Working(r.uuid)
    BY <1>0, <1>2, RecordFields DEF deschedule_entity
  <2>2. /\ task'[t] = [pc |-> "stopping", id |-> r.id, rec |-> r, kept |-> r.fdus,
                       k |-> 0]
        /\ \A u \in Tasks \ {t} : task'[u] = task[u]
    <3>1. PICK l : l = r.fdus
      OBVIOUS
    <3>2. PICK e : e = r.id
      OBVIOUS
    <3>3. [IdleTask EXCEPT !.pc = "stopping", !.id = e, !.rec = r, !.kept = l] =
            [pc |-> "stopping", id |-> e, rec |-> r, kept |-> l, k |-> 0]
      BY RenewedList
    <3>4. task' = [task EXCEPT ![t] =
            [IdleTask EXCEPT !.pc = "stopping", !.id = e, !.rec = r, !.kept = l]]
      BY <1>2, <3>1, <3>2, Zenon DEF deschedule_entity
    <3> QED BY <1>0, <3>1, <3>2, <3>3, <3>4
  <2>3. UNCHANGED <<records, fdus, orphans>>
    BY <1>2 DEF deschedule_entity, faultVars
  <2>4. PICK i \in Instances : i = r.uuid
    BY <2>1
  <2>5. InstOK(i)
    BY DEF EntityInv
  <2>6. r.status \in Shows("stopping")
    BY <2>1, RecordFields DEF Shows
  <2>7. WorkOf(t)'
    BY <2>1, <2>2, <2>3, <2>4, <2>5, <2>6 DEF WorkOf, InstOK
  <2>8. PhaseOf(t)' /\ task'[t].rec.uuid = i
    BY <2>2, <2>4, <2>7 DEF PhaseOf
  <2>9. task[t].rec = None
    BY <1>2, NewTaskIdle DEF deschedule_entity
  <2> QED BY <2>1, <2>2, <2>3, <2>4, <2>8, <2>9, NewWorkEffect
<1>3. ASSUME NEW e \in Entities, offload_entity(t, e) PROVE EntityInv'
  <2>1. task' = [task EXCEPT ![t] =
                   [pc |-> "offload_entity", id |-> e, rec |-> None,
                    kept |-> <<>>, k |-> 0]]
    BY <1>3, RenewedEntity DEF offload_entity
  <2>2. task'[t].rec = None /\ \A u \in Tasks \ {t} : task'[u] = task[u]
    BY <1>0, <2>1
  <2> QED BY <1>3, <2>2, NewTaskIdle, NoWorkEffect DEF offload_entity, faultVars
<1>4. ASSUME RemoveEntity(t) PROVE EntityInv'
  <2>1. task'[t].rec = None /\ \A u \in Tasks \ {t} : task'[u] = task[u]
    BY <1>0, <1>4 DEF RemoveEntity, IdleTask
  <2>2. task[t].rec = None
    BY <1>4 DEF RemoveEntity, EntityInv, Phases, PhaseOf, WorkOf
  <2> QED BY <1>4, <2>1, <2>2, NoWorkEffect DEF RemoveEntity, faultVars
<1> QED BY <1>1, <1>2, <1>3, <1>4

LEMMA StepCrash ==
  ASSUME EntityInv, TypeInv', NEW S \in SUBSET Tasks, Crash(S)
  PROVE  EntityInv'
<1>1. /\ \A t \in S : task'[t].rec = None
      /\ \A t \in Tasks \ S : task'[t] = task[t]
      /\ UNCHANGED <<records, fdus>>
  BY DEF Crash, IdleTask
<1> DEFINE Dead == {task[t].rec.uuid : t \in {u \in S : task[u].rec # None}}
<1>2. Dead \in SUBSET Instances
  <2>1. \A t \in Tasks : task[t].rec # None => task[t].rec.uuid \in Instances
    <3>1. \A t \in Tasks : task[t].rec # None => task[t].rec \in EntityRecord
      BY TaskFields DEF EntityInv, TypeInv, Typed
    <3> QED BY <3>1, RecordFields
  <2> QED BY <2>1
<1>3. orphans' = orphans \cup {i \in Dead : \E q \in records : q.uuid = i}
  <2>1. orphans' = orphans \cup
          {r.uuid : r \in {q \in records : \E t \in S :
                             task[t].rec # None /\ task[t].rec.uuid = q.uuid}}
    BY DEF Crash
  <2> QED BY <2>1
<1>4. \A j \in Instances \ Dead : SameFor(j)
  BY <1>1, <1>3 DEF SameFor, RecordsOf, InstancesOf
<1>5. \A j \in Dead : InstOK(j)'
  <2> SUFFICES ASSUME NEW j \in Dead PROVE InstOK(j)'
    OBVIOUS
  <2>1. InstOK(j)
    BY <1>2 DEF EntityInv
  <2>2. \A r \in records : r.uuid = j => j \in orphans'
    BY <1>3
  <2>3. \A y \in InstancesOf(j)' : Placed(y)'
    BY <1>1, <2>1 DEF InstOK, Placed, InstancesOf
  <2>4. \A r \in records : r.uuid = j /\ r.status = "RUNNING" => AllRun(r)'
    BY <1>1, <2>1 DEF InstOK, AllRun, Runs
  <2> QED BY <1>1, <2>1, <2>2, <2>3, <2>4 DEF InstOK, InstancesOf
<1>6. \A u \in S : PhaseOf(u)'
  BY <1>1 DEF PhaseOf
<1>7. \A u \in Tasks \ S : task[u].rec # None => task[u].rec.uuid \notin Dead
  BY DEF EntityInv, Apart
<1>8. \A u \in S : task[u].rec # None => task[u].rec.uuid \in Dead
  OBVIOUS
<1> HIDE DEF Dead
<1> QED BY <1>1, <1>2, <1>4, <1>5, <1>6, <1>7, <1>8, Effect

-----------------------------------------------------------------------------
(* The steps of the tasks                                                  *)

LEMMA Restatused ==
  ASSUME NEW r \in EntityRecord, NEW s \in EntityStatus
  PROVE  [r EXCEPT !.status = s] =
           [uuid |-> r.uuid, id |-> r.id, status |-> s, fdus |-> r.fdus]
BY DEF EntityRecord

(* The record of a failed task.                                            *)
LEMMA Reported ==
  ASSUME NEW q \in EntityRecord, NEW s \in EntityStatus, NEW l \in Seq(FduIds)
  PROVE  /\ [q EXCEPT !.status = s, !.fdus = l] \in EntityRecord
         /\ [q EXCEPT !.status = s, !.fdus = l] =
              [uuid |-> q.uuid, id |-> q.id, status |-> s, fdus |-> l]
<1>1. PICK p \in EntityRecord :
        p = [q EXCEPT !.status = s] /\ p.uuid = q.uuid /\ p.id = q.id
        /\ p.status = s
  <2>1. [q EXCEPT !.status = s] \in EntityRecord
    BY DEF EntityRecord
  <2>2. PICK p \in EntityRecord : p = [q EXCEPT !.status = s]
    BY <2>1
  <2>3. p = [uuid |-> q.uuid, id |-> q.id, status |-> s, fdus |-> q.fdus]
    BY <2>2, Restatused
  <2>4. p.uuid = q.uuid /\ p.id = q.id /\ p.status = s
    BY <2>3
  <2> QED BY <2>2, <2>4
<1>2. [p EXCEPT !.fdus = l] =
        [uuid |-> q.uuid, id |-> q.id, status |-> s, fdus |-> l]
  <2>1. [p EXCEPT !.fdus = l] =
          [uuid |-> p.uuid, id |-> p.id, status |-> p.status, fdus |-> l]
    BY Relisted
  <2> QED BY <1>1, <2>1
<1>3. [p EXCEPT !.fdus = l] \in EntityRecord
  BY DEF EntityRecord
<1>4. /\ [[q EXCEPT !.status = s] EXCEPT !.fdus = l] \in EntityRecord
      /\ [[q EXCEPT !.status = s] EXCEPT !.fdus = l] =
           [uuid |-> q.uuid, id |-> q.id, status |-> s, fdus |-> l]
  BY <1>1, <1>2, <1>3, Zenon
<1> QED BY <1>4, Zenon

(* The task enters a phase in which it has not done anything yet.          *)
LEMMA EnterEffect ==
  ASSUME EntityInv, TypeInv', NEW t \in Tasks, NEW status \in EntityStatus,
         NEW pc \in Pcs \ {"idle", "offload_entity"},
         task[t].pc \notin {"idle", "offload_entity"}, Enter(t, status, pc),
         UNCHANGED fdus,
         \A j : j # task[t].rec.uuid => (j \in orphans' <=> j \in orphans),
         status \notin {"RUNNING", "OFFLOADED"}, status \in Shows(pc),
         pc \in {"onboard", "starting", "define", "stop", "offloading", "offload"},
         pc \in {"onboard", "starting", "define"} =>
           task[t].rec.fdus = <<>> /\ InstancesOf(task[t].rec.uuid) = {}
  PROVE  EntityInv'
<1>1. /\ task[t].rec \in EntityRecord /\ task[t].rec # None
      /\ WorkOf(t) /\ task[t].rec.id \in Entities
  BY AtWork
<1>2. PICK i \in Instances : i = task[t].rec.uuid
  BY AtWork
<1>3. PICK r \in EntityRecord : r = [task[t].rec EXCEPT !.status = status]
  BY EnterTask DEF EntityInv
<1>4. /\ r.uuid = i /\ r.id = task[t].rec.id /\ r.status = status
      /\ r.fdus = task[t].rec.fdus /\ r # None
  BY <1>1, <1>2, <1>3, Restatused, RecordFields
<1>5. /\ Becomes(t, [pc |-> pc, id |-> task[t].id, rec |-> r,
                     kept |-> task[t].kept, k |-> 1])
      /\ add_entity_instance(r)
  BY <1>3, EnterTask DEF EntityInv
<1>6. /\ task'[t].pc = pc /\ task'[t].id = task[t].id /\ task'[t].rec = r
      /\ task'[t].kept = task[t].kept /\ task'[t].k = 1
      /\ \A u \in Tasks \ {t} : task'[u] = task[u]
  BY <1>5 DEF Becomes
<1>7. r \in records'
  BY <1>5, Written DEF EntityInv, TypeInv, TypeOK
<1>8. Len(FdusOf[r.id]) \in Nat
  BY <1>1, <1>4, EntityAssumption
<1>9. BroughtUp(t)' \/ pc # "define"
  <2> SUFFICES ASSUME pc = "define" PROVE BroughtUp(t)'
    OBVIOUS
  <2>1. \A y \in fdus : y.uuid[1] # i
    BY <1>2 DEF InstancesOf
  <2>2. r.fdus = [j \in 1 .. 0 |-> <<i, j>>]
    BY <1>4
  <2> QED BY <1>4, <1>6, <1>8, <2>1, <2>2 DEF BroughtUp, InstancesOf
<1>10. TakenDown(t)' \/ pc # "offload"
  BY <1>6, <1>8 DEF TakenDown
<1>11. WorkOf(t)'
  BY <1>1, <1>2, <1>4, <1>6, <1>7, <1>9, <1>10 DEF WorkOf, Own, InstancesOf
<1>12. PhaseOf(t)' /\ Own(i, r.fdus)
  BY <1>1, <1>2, <1>4, <1>11 DEF PhaseOf, WorkOf
<1> QED BY <1>1, <1>2, <1>4, <1>5, <1>6, <1>12, WriteEffect

(* The task writes its last record.                                        *)
LEMMA FinishEffect ==
  ASSUME EntityInv, TypeInv', NEW t \in Tasks, NEW r \in EntityRecord,
         task[t].pc \notin {"idle", "offload_entity"}, Finish(t, r),
         UNCHANGED <<fdus, orphans>>, r.uuid = task[t].rec.uuid,
         r.id = task[t].rec.id, Own(r.uuid, r.fdus), r.status \in Settled,
         r.status = "RUNNING" => AllRun(r),
         r.status = "OFFLOADED" => InstancesOf(r.uuid) = {}
  PROVE  EntityInv'
<1>1. PICK i \in Instances : i = task[t].rec.uuid /\ task[t].rec # None
  BY AtWork
<1>2. Becomes(t, IdleTask) /\ add_entity_instance(r)
  BY FinishTask DEF EntityInv
<1>3. task'[t].rec = None /\ \A u \in Tasks \ {t} : task'[u] = task[u]
  BY <1>2 DEF Becomes, IdleTask
<1>4. PhaseOf(t)'
  BY <1>3 DEF PhaseOf
<1> QED BY <1>1, <1>2, <1>3, <1>4, WriteEffect

(* A call that fails leaves the entity instance as it is.                  *)
LEMMA BrokeEffect ==
  ASSUME EntityInv, TypeInv', NEW t \in Tasks,
         task[t].pc \notin {"idle", "offload_entity", "schedule"}, Broke(t),
         UNCHANGED <<records, fdus, orphans>>
  PROVE  EntityInv'
BY AtWork, BrokePhase, StayEffect

(* A call takes one FDU instance to another state.                         *)
LEMMA SwitchInst ==
  ASSUME fdus \subseteq FduInstance, NEW x, NEW i, x[1] = i, NEW s,
         Switch(x, s), \A y, z \in InstancesOf(i) : y.uuid = z.uuid => y = z
  PROVE  /\ \A y : y.uuid[1] # i => (y \in fdus' <=> y \in fdus)
         /\ \A y, z \in fdus' : y.uuid[1] = i /\ y.uuid = z.uuid => y = z
         /\ \A y \in fdus' : \E z \in fdus : z.uuid = y.uuid /\ z.fdu = y.fdu
         /\ \A y \in fdus : y.uuid # x => y \in fdus'
         /\ \A y \in fdus : y.uuid = x =>
              [uuid |-> x, fdu |-> y.fdu, status |-> s] \in fdus'
<1>1. \A y \in FduInstance :
        [y EXCEPT !.status = s] = [uuid |-> y.uuid, fdu |-> y.fdu, status |-> s]
  BY DEF FduInstance
<1> DEFINE g(y) == IF y.uuid = x
                     THEN [uuid |-> y.uuid, fdu |-> y.fdu, status |-> s] ELSE y
<1>2. fdus' = {g(y) : y \in fdus}
  <2> DEFINE h(y) == IF y.uuid = x THEN [y EXCEPT !.status = s] ELSE y
  <2>1. \A y \in fdus : h(y) = g(y)
    BY <1>1
  <2>2. fdus' = {h(y) : y \in fdus}
    BY DEF Switch
  <2> HIDE DEF g, h
  <2> QED BY <2>1, <2>2
<1>3. \A y \in fdus : g(y).uuid = y.uuid /\ g(y).fdu = y.fdu
  OBVIOUS
<1>4. \A y \in fdus' : \E z \in fdus : y = g(z)
  BY <1>2
<1>5. \A z \in fdus : g(z) \in fdus'
  BY <1>2
<1>6. ASSUME NEW y, y.uuid[1] # i PROVE y \in fdus' <=> y \in fdus
  <2>1. \A z \in fdus : z.uuid[1] # i => g(z) = z
    OBVIOUS
  <2> HIDE DEF g
  <2> QED BY <1>3, <1>4, <1>5, <1>6, <2>1
<1>7. \A y, z \in fdus' : y.uuid[1] = i /\ y.uuid = z.uuid => y = z
  BY <1>3, <1>4 DEF InstancesOf
<1>8. \A y \in fdus' : \E z \in fdus : z.uuid = y.uuid /\ z.fdu = y.fdu
  BY <1>3, <1>4
<1> QED BY <1>5, <1>6, <1>7, <1>8

(* The only record of the entity instance of a task, and its FDUs.         *)
LEMMA ListedFdus ==
  ASSUME EntityInv, NEW t \in Tasks,
         task[t].pc \notin {"idle", "offload_entity", "schedule"}
  PROVE  \A y \in InstancesOf(task[t].rec.uuid) :
           /\ y.uuid[2] \in 1 .. Len(FdusOf[task[t].rec.id])
           /\ y.fdu = FdusOf[task[t].rec.id][y.uuid[2]]
<1>1. PICK i \in Instances : i = task[t].rec.uuid /\ WorkOf(t) /\ InstOK(i)
  BY AtWork
<1>2. \A r \in records : r.uuid = i => r.id = task[t].rec.id
  BY <1>1 DEF WorkOf, InstOK
<1>3. \A y \in InstancesOf(i) : Placed(y)
  BY <1>1 DEF InstOK
<1> QED BY <1>1, <1>2, <1>3 DEF Placed, InstancesOf

LEMMA StepSchedule ==
  ASSUME EntityInv, TypeInv', NEW t \in Tasks
  PROVE  /\ Spawn(t) => EntityInv'
         /\ Onboard(t) => EntityInv'
         /\ Onboarded(t) => EntityInv'
         /\ Starting(t) => EntityInv'
         /\ Running(t) => EntityInv'
<1>0. /\ {"ONBOARDING", "ONBOARDED", "STARTING", "RUNNING"} \subseteq EntityStatus
      /\ {"onboard", "starting", "define"} \subseteq Pcs \ {"idle", "offload_entity"}
  BY DEF EntityStatus, Pcs
<1>1. ASSUME Spawn(t) PROVE EntityInv'
  <2>1. task[t].pc = "schedule" /\ Enter(t, "ONBOARDING", "onboard")
        /\ UNCHANGED <<fdus, orphans>>
    BY <1>1 DEF Spawn, faultVars
  <2>2. task[t].rec.fdus = <<>> /\ InstancesOf(task[t].rec.uuid) = {}
    BY <2>1, AtWork DEF WorkOf
  <2>3. "ONBOARDING" \in Shows("onboard")
    BY DEF Shows
  <2> QED BY <1>0, <2>1, <2>2, <2>3, EnterEffect
<1>2. ASSUME Onboard(t) PROVE EntityInv'
  <2>1. task[t].pc = "onboard" /\ task[t].k + 1 \in Nat \ {0}
    BY <1>2, Current_Type DEF Onboard, EntityInv
  <2>2. Went(t, "onboard", task[t].k + 1) \/ Broke(t)
    BY <1>0, <1>2, <2>1, ProceedTask, RefusedTask DEF Onboard, EntityInv
  <2>3. CASE Broke(t)
    BY <1>2, <2>1, <2>3, BrokeEffect DEF Onboard
  <2>4. CASE Went(t, "onboard", task[t].k + 1)
    <3>1. /\ task'[t].pc = task[t].pc /\ task'[t].rec = task[t].rec
          /\ task'[t].id = task[t].id /\ task'[t].kept = task[t].kept
          /\ \A u \in Tasks \ {t} : task'[u] = task[u]
      BY <2>1, <2>4 DEF Went, Becomes
    <3>2. WorkOf(t) /\ task[t].rec # None
      BY <2>1, AtWork
    <3>3. UNCHANGED <<records, fdus, orphans>>
      BY <1>2 DEF Onboard
    <3>4. WorkOf(t)'
      BY <2>1, <3>1, <3>2, <3>3 DEF WorkOf, InstancesOf
    <3> QED BY <3>1, <3>2, <3>3, <3>4, StayEffect DEF PhaseOf
  <2> QED BY <2>2, <2>3, <2>4
<1>3. ASSUME Onboarded(t) PROVE EntityInv'
  <2>1. task[t].pc = "onboard" /\ Enter(t, "ONBOARDED", "starting")
        /\ UNCHANGED <<fdus, orphans>>
    BY <1>3 DEF Onboarded, faultVars
  <2>2. task[t].rec.fdus = <<>> /\ InstancesOf(task[t].rec.uuid) = {}
    BY <2>1, AtWork DEF WorkOf
  <2>3. "ONBOARDED" \in Shows("starting")
    BY DEF Shows
  <2> QED BY <1>0, <2>1, <2>2, <2>3, EnterEffect
<1>4. ASSUME Starting(t) PROVE EntityInv'
  <2>1. task[t].pc = "starting" /\ Enter(t, "STARTING", "define")
        /\ UNCHANGED <<fdus, orphans>>
    BY <1>4 DEF Starting, faultVars
  <2>2. task[t].rec.fdus = <<>> /\ InstancesOf(task[t].rec.uuid) = {}
    BY <2>1, AtWork DEF WorkOf
  <2>3. "STARTING" \in Shows("define")
    BY DEF Shows
  <2> QED BY <1>0, <2>1, <2>2, <2>3, EnterEffect
<1>5. ASSUME Running(t) PROVE EntityInv'
  <2>1. /\ task[t].pc = "define" /\ task[t].k > Len(FdusOf[task[t].id])
        /\ Finish(t, [task[t].rec EXCEPT !.status = "RUNNING"])
        /\ UNCHANGED <<fdus, orphans>>
    BY <1>5 DEF Running, faultVars, Descriptor
  <2>2. /\ task[t].rec \in EntityRecord /\ WorkOf(t)
        /\ task[t].id = task[t].rec.id /\ BroughtUp(t)
        /\ task[t].rec.id \in Entities
    BY <2>1, AtWork DEF WorkOf
  <2>3. PICK r \in EntityRecord : r = [task[t].rec EXCEPT !.status = "RUNNING"]
    BY <1>0, <2>2 DEF EntityRecord
  <2>4. /\ r.uuid = task[t].rec.uuid /\ r.id = task[t].rec.id
        /\ r.status = "RUNNING" /\ r.fdus = task[t].rec.fdus
    BY <1>0, <2>2, <2>3, Restatused
  <2>5. Len(FdusOf[r.id]) \in Nat
    BY <2>2, <2>4, EntityAssumption
  <2>6. task[t].k - 1 = Len(FdusOf[r.id])
    BY <2>1, <2>2, <2>4, <2>5 DEF BroughtUp
  <2>7. AllRun(r)
    BY <2>2, <2>4, <2>6 DEF AllRun, BroughtUp
  <2>8. Own(r.uuid, r.fdus)
    BY <2>2, <2>4 DEF WorkOf
  <2> QED BY <2>1, <2>3, <2>4, <2>7, <2>8, FinishEffect DEF Settled
<1> QED BY <1>1, <1>2, <1>3, <1>4, <1>5

LEMMA StepDefine ==
  ASSUME EntityInv, TypeInv', NEW t \in Tasks, Define(t)
  PROVE  EntityInv'
<1>1. /\ task[t].pc = "define" /\ task[t].k \in Nat \ {0}
      /\ "configure" \in Pcs \ {"idle", "offload_entity"}
      /\ UNCHANGED <<records, orphans>>
  BY Current_Type DEF Define, EntityInv, Pcs
<1>2. PICK i \in Instances :
        /\ i = task[t].rec.uuid /\ task[t].rec # None
        /\ WorkOf(t) /\ InstOK(i) /\ BroughtUp(t)
        /\ task[t].id = task[t].rec.id
  BY <1>1, AtWork DEF WorkOf
<1> DEFINE n == task[t].k
           new == [uuid |-> <<i, n>>, fdu |-> FdusOf[task[t].rec.id][n],
                   status |-> "DEFINED"]
<1>3. CASE Broke(t) /\ UNCHANGED fdus
  BY <1>1, <1>3, BrokeEffect
<1>4. CASE /\ fdus' = fdus \cup {new}
           /\ Went(t, "configure", n) \/ Broke(t)
  <2>1. n \in 1 .. Len(FdusOf[task[t].rec.id])
    BY <1>1, <1>2 DEF Define, Descriptor, BroughtUp
  <2>2. \A y : y.uuid[1] # i => (y \in fdus' <=> y \in fdus)
    BY <1>4
  <2>3. \A y \in fdus : y.uuid # <<i, n>>
    <3>1. \A y \in InstancesOf(i) : y.uuid[2] \in 1 .. n - 1
      BY <1>1, <1>2 DEF BroughtUp
    <3> QED BY <1>1, <3>1 DEF InstancesOf
  <2>4. \A y, z \in fdus' : y.uuid[1] = i /\ y.uuid = z.uuid => y = z
    BY <1>2, <1>4, <2>3 DEF InstOK, InstancesOf
  <2>5. \A y \in fdus' : y.uuid[1] = i =>
          \/ \E z \in fdus : z.uuid = y.uuid /\ z.fdu = y.fdu
          \/ /\ y.uuid[2] \in 1 .. Len(FdusOf[task[t].rec.id])
             /\ y.fdu = FdusOf[task[t].rec.id][y.uuid[2]]
    BY <1>4, <2>1
  <2>6. Shows(task[t].pc) \cap {"RUNNING", "OFFLOADED"} = {}
    BY <1>1 DEF Shows
  <2>7. /\ task'[t].rec = task[t].rec
        /\ \A u \in Tasks \ {t} : task'[u] = task[u]
    BY <1>4 DEF Broke, Went, Becomes
  <2>8. PhaseOf(t)'
    <3>1. CASE Broke(t)
      BY <1>1, <1>2, <3>1, BrokePhase
    <3>2. CASE Went(t, "configure", n)
      <4>1. /\ task'[t].pc = "configure" /\ task'[t].k = n
            /\ task'[t].id = task[t].id /\ task'[t].kept = task[t].kept
        BY <3>2 DEF Went, Becomes
      <4>2. Shows("configure") = Shows("define")
        BY DEF Shows
      <4>3. BroughtUp(t)'
        BY <1>1, <1>2, <1>4, <2>1, <2>7, <4>1 DEF BroughtUp, InstancesOf
      <4>4. WorkOf(t)'
        BY <1>1, <1>2, <2>7, <4>1, <4>2, <4>3 DEF WorkOf
      <4> QED BY <4>4 DEF PhaseOf
    <3> QED BY <1>4, <3>1, <3>2
  <2> QED BY <1>1, <1>2, <2>2, <2>4, <2>5, <2>6, <2>7, <2>8, FduEffect
<1>5. \/ Broke(t) /\ UNCHANGED fdus
      \/ fdus' = fdus \cup {new} /\ (Went(t, "configure", n) \/ Broke(t))
  <2>1. CASE /\ fdus' = fdus \cup {new}
             /\ Proceed(t, "configure", task[t].k)
    BY <1>1, <2>1, ProceedTask DEF EntityInv
  <2>2. CASE /\ \E p : Refused(t, p)
             /\ UNCHANGED fdus
    BY <1>1, <2>2, RefusedTask DEF EntityInv
  <2> QED BY <1>2, <2>1, <2>2 DEF Define, Descriptor, Current
<1> QED BY <1>3, <1>4, <1>5

LEMMA SwitchEffect ==
  ASSUME EntityInv, TypeInv', NEW t \in Tasks, NEW i, NEW x, NEW s,
         i = task[t].rec.uuid, x[1] = i, Switch(x, s),
         task[t].pc \in {"configure", "start", "stop", "clean"},
         UNCHANGED <<records, orphans>>,
         \A u \in Tasks \ {t} : task'[u] = task[u],
         task'[t].rec # None /\ task'[t].rec.uuid = i, PhaseOf(t)'
  PROVE  EntityInv'
<1>1. /\ i \in Instances /\ task[t].rec # None /\ InstOK(i)
  BY AtWork
<1>2. fdus \subseteq FduInstance
  BY DEF EntityInv, TypeInv, TypeOK
<1>3. Shows(task[t].pc) \cap {"RUNNING", "OFFLOADED"} = {}
  BY DEF Shows
<1>4. \A y, z \in InstancesOf(i) : y.uuid = z.uuid => y = z
  BY <1>1 DEF InstOK
<1>5. /\ \A y : y.uuid[1] # i => (y \in fdus' <=> y \in fdus)
      /\ \A y, z \in fdus' : y.uuid[1] = i /\ y.uuid = z.uuid => y = z
      /\ \A y \in fdus' : \E z \in fdus : z.uuid = y.uuid /\ z.fdu = y.fdu
  BY <1>2, <1>4, SwitchInst
<1> QED BY <1>1, <1>3, <1>5, FduEffect

LEMMA StepConfigure ==
  ASSUME EntityInv, TypeInv', NEW t \in Tasks, Configure(t)
  PROVE  EntityInv'
<1>1. /\ task[t].pc = "configure" /\ task[t].k \in Nat \ {0}
      /\ "start" \in Pcs \ {"idle", "offload_entity"}
      /\ UNCHANGED <<records, orphans>>
      /\ Call(t, Current(t), "DEFINED", "CONFIGURED", "start")
  BY Current_Type DEF Configure, EntityInv, Pcs
<1>2. PICK i \in Instances :
        /\ i = task[t].rec.uuid /\ task[t].rec # None
        /\ WorkOf(t) /\ InstOK(i) /\ BroughtUp(t)
  BY <1>1, AtWork DEF WorkOf
<1>3. PICK x : x = <<i, task[t].k>>
  OBVIOUS
<1>4. \/ Switch(x, "CONFIGURED") /\ (Went(t, "start", task[t].k) \/ Broke(t))
      \/ UNCHANGED fdus /\ Broke(t)
  BY <1>1, <1>2, <1>3, CallTask DEF Current, EntityInv
<1>5. CASE Broke(t) /\ UNCHANGED fdus
  BY <1>1, <1>5, BrokeEffect
<1>6. CASE /\ Switch(x, "CONFIGURED")
           /\ Went(t, "start", task[t].k) \/ Broke(t)
  <2>1. /\ task'[t].rec = task[t].rec
        /\ \A u \in Tasks \ {t} : task'[u] = task[u]
    BY <1>6 DEF Broke, Went, Becomes
  <2>2. PhaseOf(t)'
    <3>1. CASE Broke(t)
      BY <1>1, <1>2, <3>1, BrokePhase
    <3>2. CASE Went(t, "start", task[t].k)
      <4>1. /\ task'[t].pc = "start" /\ task'[t].k = task[t].k
            /\ task'[t].id = task[t].id /\ task'[t].kept = task[t].kept
        BY <3>2 DEF Went, Becomes
      <4>2. Shows("start") = Shows("configure")
        BY DEF Shows
      <4>3. /\ \A y \in fdus' : \E z \in fdus : z.uuid = y.uuid /\ z.fdu = y.fdu
            /\ \A y \in fdus : y.uuid # x => y \in fdus'
        <5>1. fdus \subseteq FduInstance /\ x[1] = i
          BY <1>3 DEF EntityInv, TypeInv, TypeOK
        <5>2. \A y, z \in InstancesOf(i) : y.uuid = z.uuid => y = z
          BY <1>2 DEF InstOK
        <5> QED BY <1>6, <5>1, <5>2, SwitchInst
      <4>4. \A j \in 1 .. task[t].k - 1 : Runs(i, task[t].rec.id, j) \in fdus'
        BY <1>1, <1>2, <1>3, <4>3 DEF BroughtUp, Runs
      <4>5. BroughtUp(t)'
        BY <1>1, <1>2, <2>1, <4>1, <4>3, <4>4 DEF BroughtUp, InstancesOf, Runs
      <4>6. WorkOf(t)'
        BY <1>1, <1>2, <2>1, <4>1, <4>2, <4>5 DEF WorkOf
      <4> QED BY <4>6 DEF PhaseOf
    <3> QED BY <1>6, <3>1, <3>2
  <2>3. x[1] = i
    BY <1>3
  <2> QED BY <1>1, <1>2, <1>6, <2>1, <2>2, <2>3, SwitchEffect
<1> QED BY <1>4, <1>5, <1>6

LEMMA StepStart ==
  ASSUME EntityInv, TypeInv', NEW t \in Tasks, Start(t)
  PROVE  EntityInv'
<1>1. /\ task[t].pc = "start" /\ task[t].k \in Nat \ {0}
      /\ UNCHANGED <<records, orphans>>
  BY Current_Type DEF Start, EntityInv
<1>2. PICK i \in Instances :
        /\ i = task[t].rec.uuid /\ task[t].rec # None
        /\ task[t].rec \in EntityRecord
        /\ WorkOf(t) /\ InstOK(i) /\ BroughtUp(t)
  BY <1>1, AtWork DEF WorkOf
<1>3. PICK x : x = <<i, task[t].k>>
  OBVIOUS
<1>4. Current(t) = x
  BY <1>2, <1>3 DEF Current
<1>5. CASE Broke(t) /\ UNCHANGED fdus
  BY <1>1, <1>5, BrokeEffect
<1>6. CASE Broke(t) /\ Switch(x, "RUNNING")
  BY <1>1, <1>2, <1>3, <1>6, BrokePhase, SwitchEffect
<1> DEFINE k == task[t].k
           l == [j \in 1 .. k |-> <<i, j>>]
<1>7. CASE /\ Ready(x, "CONFIGURED") /\ Switch(x, "RUNNING")
           /\ task' = [task EXCEPT ![t].pc = "define", ![t].k = @ + 1,
                                   ![t].rec.fdus = Append(@, Current(t))]
  <2>1. PICK r : /\ r = [uuid |-> i, id |-> task[t].rec.id,
                         status |-> task[t].rec.status,
                         fdus |-> Append(task[t].rec.fdus, x)]
    OBVIOUS
  <2>2. Becomes(t, [pc |-> "define", id |-> task[t].id, rec |-> r,
                    kept |-> task[t].kept, k |-> k + 1])
    BY <1>1, <1>2, <1>4, <1>7, <2>1, StartTask DEF EntityInv
  <2>3. /\ task'[t].pc = "define" /\ task'[t].id = task[t].id
        /\ task'[t].rec = r /\ task'[t].kept = task[t].kept /\ task'[t].k = k + 1
        /\ \A u \in Tasks \ {t} : task'[u] = task[u]
    BY <2>2 DEF Becomes
  <2>4. r.uuid = i /\ r.id = task[t].rec.id /\ r.fdus = Append(task[t].rec.fdus, x)
    BY <2>1
  <2>5. r.fdus = l
    <3>1. task[t].rec.fdus = [j \in 1 .. k - 1 |-> <<i, j>>]
      BY <1>2 DEF BroughtUp
    <3>2. task[t].rec.fdus \in Seq(FduIds)
      BY <1>2, RecordFields
    <3>3. Len(task[t].rec.fdus) = k - 1
      BY <1>1, <3>1, <3>2
    <3> QED BY <1>1, <1>3, <2>4, <3>1, <3>2, <3>3
  <2>6. /\ \A y \in fdus' : \E z \in fdus : z.uuid = y.uuid /\ z.fdu = y.fdu
        /\ \A y \in fdus : y.uuid # x => y \in fdus'
        /\ \A y \in fdus : y.uuid = x =>
             [uuid |-> x, fdu |-> y.fdu, status |-> "RUNNING"] \in fdus'
    <3>1. fdus \subseteq FduInstance /\ x[1] = i
      BY <1>3 DEF EntityInv, TypeInv, TypeOK
    <3>2. \A y, z \in InstancesOf(i) : y.uuid = z.uuid => y = z
      BY <1>2 DEF InstOK
    <3> QED BY <1>7, <3>1, <3>2, SwitchInst
  <2>7. Runs(i, r.id, k) \in fdus'
    <3>1. PICK y \in fdus : y.uuid = x
      BY <1>7 DEF Ready
    <3>2. y.fdu = FdusOf[r.id][k]
      BY <1>1, <1>2, <1>3, <2>4, <3>1, ListedFdus DEF InstancesOf
    <3> QED BY <1>3, <2>6, <3>1, <3>2 DEF Runs
  <2>8. \A j \in 1 .. k : Runs(i, r.id, j) \in fdus'
    <3>1. \A j \in 1 .. k - 1 : Runs(i, r.id, j) \in fdus'
      BY <1>1, <1>2, <1>3, <2>4, <2>6 DEF BroughtUp, Runs
    <3> QED BY <1>1, <2>7, <3>1
  <2>9. \A y \in fdus' : y.uuid[1] = i => y.uuid[2] \in 1 .. k
    BY <1>1, <1>2, <2>6 DEF BroughtUp, InstancesOf
  <2>10. k \in 1 .. Len(FdusOf[r.id]) /\ Len(FdusOf[r.id]) \in Nat
    <3>1. Len(FdusOf[r.id]) \in Nat
      BY <1>1, <2>4, AtWork, EntityAssumption
    <3> QED BY <1>1, <1>2, <2>4, <3>1 DEF BroughtUp
  <2>11. BroughtUp(t)'
    BY <1>1, <2>3, <2>4, <2>5, <2>8, <2>9, <2>10 DEF BroughtUp, InstancesOf, Runs
  <2>12. Own(i, r.fdus) /\ Shows("start") = Shows("define")
    BY <2>5 DEF Own, Shows
  <2>13. WorkOf(t)'
    BY <1>1, <1>2, <2>3, <2>4, <2>11, <2>12 DEF WorkOf
  <2>14. x[1] = i
    BY <1>3
  <2>15. r # None
    BY <2>3 DEF TypeInv, Typed, TypedTask
  <2> QED BY <1>1, <1>2, <1>7, <2>3, <2>4, <2>13, <2>14, <2>15, SwitchEffect
          DEF PhaseOf
<1>8. \/ Broke(t) /\ (UNCHANGED fdus \/ Switch(x, "RUNNING"))
      \/ /\ Ready(x, "CONFIGURED") /\ Switch(x, "RUNNING")
         /\ task' = [task EXCEPT ![t].pc = "define", ![t].k = @ + 1,
                                 ![t].rec.fdus = Append(@, Current(t))]
  <2>1. CASE Switch(x, "RUNNING") /\ Fail(t)
    BY <1>1, <2>1, FailTask DEF EntityInv
  <2>2. CASE UNCHANGED fdus /\ \E p : Refused(t, p)
    BY <1>1, <2>2, RefusedTask DEF EntityInv
  <2> QED BY <1>4, <2>1, <2>2 DEF Start
<1> QED BY <1>5, <1>6, <1>7, <1>8

LEMMA StepStopping ==
  ASSUME EntityInv, TypeInv', NEW t \in Tasks
  PROVE  /\ Stopping(t) => EntityInv'
         /\ Stopped(t) => EntityInv'
         /\ Offloading(t) => EntityInv'
         /\ Failed(t) => EntityInv'
<1>0. /\ {"STOPPING", "STOPPED", "OFFLOADING", "ERROR"} \subseteq EntityStatus
      /\ {"stop", "offloading", "offload"} \subseteq Pcs \ {"idle", "offload_entity"}
  BY DEF EntityStatus, Pcs
<1>1. ASSUME Stopping(t) PROVE EntityInv'
  <2>1. CASE /\ Enter(t, "STOPPING", "stop")
             /\ orphans' = orphans \ {task[t].rec.uuid}
    <3>1. "STOPPING" \in Shows("stop")
      BY DEF Shows
    <3> QED BY <1>0, <1>1, <2>1, <3>1, EnterEffect DEF Stopping
  <2>2. CASE Fail(t) /\ UNCHANGED <<records, orphans>>
    <3>1. Broke(t)
      BY <1>1, <2>2, FailTask DEF Stopping, EntityInv
    <3> QED BY <1>1, <2>2, <3>1, BrokeEffect DEF Stopping
  <2> QED BY <1>1, <2>1, <2>2 DEF Stopping
<1>2. ASSUME Stopped(t) PROVE EntityInv'
  <2>1. "STOPPED" \in Shows("offloading")
    BY DEF Shows
  <2> QED BY <1>0, <1>2, <2>1, EnterEffect DEF Stopped, faultVars
<1>3. ASSUME Offloading(t) PROVE EntityInv'
  <2>1. "OFFLOADING" \in Shows("offload")
    BY DEF Shows
  <2> QED BY <1>0, <1>3, <2>1, EnterEffect DEF Offloading, faultVars
<1>4. ASSUME Failed(t) PROVE EntityInv'
  <2>1. /\ task[t].pc = "failed" /\ UNCHANGED <<fdus, orphans>>
        /\ Finish(t, [task[t].rec EXCEPT !.status = "ERROR",
                                         !.fdus = task[t].kept])
    BY <1>4 DEF Failed, faultVars
  <2>2. task[t].rec \in EntityRecord /\ WorkOf(t) /\ task[t].kept \in Seq(FduIds)
    BY <2>1, AtWork
  <2>4. PICK r \in EntityRecord :
          r = [task[t].rec EXCEPT !.status = "ERROR", !.fdus = task[t].kept]
    BY <1>0, <2>2, Reported
  <2>5. r = [uuid |-> task[t].rec.uuid, id |-> task[t].rec.id,
             status |-> "ERROR", fdus |-> task[t].kept]
    BY <1>0, <2>2, <2>4, Reported
  <2>6. /\ r.uuid = task[t].rec.uuid /\ r.id = task[t].rec.id
        /\ r.status = "ERROR" /\ r.fdus = task[t].kept
    BY <2>5
  <2>7. Own(r.uuid, r.fdus)
    BY <2>2, <2>6 DEF WorkOf
  <2> QED BY <2>1, <2>4, <2>6, <2>7, FinishEffect DEF Settled
<1> QED BY <1>1, <1>2, <1>3, <1>4

(* What the task takes down is an FDU instance of its own.                 *)
LEMMA StepStop ==
  ASSUME EntityInv, TypeInv', NEW t \in Tasks
  PROVE  /\ Stop(t) => EntityInv'
         /\ Clean(t) => EntityInv'
<1>1. ASSUME NEW to, NEW pc, Stop(t) \/ Clean(t),
             task[t].pc = "stop" => to = "CONFIGURED" /\ pc = "clean",
             task[t].pc = "clean" => to = "DEFINED" /\ pc = "undefine"
      PROVE  EntityInv'
  <2>1. /\ task[t].pc \in {"stop", "clean"} /\ task[t].k \in Nat \ {0}
        /\ pc \in Pcs \ {"idle", "offload_entity"}
        /\ to \in {"DEFINED", "CONFIGURED", "RUNNING"}
        /\ UNCHANGED <<records, orphans>>
        /\ \E from : Call(t, Listed(t), from, to, pc)
    BY <1>1, Current_Type DEF Stop, Clean, EntityInv, Pcs
  <2>2. PICK i \in Instances :
          /\ i = task[t].rec.uuid /\ task[t].rec # None
          /\ task[t].rec \in EntityRecord /\ WorkOf(t)
    BY <2>1, AtWork
  <2>3. task[t].k \in DOMAIN task[t].rec.fdus
    <3>1. task[t].rec.fdus \in Seq(FduIds)
      BY <2>2, RecordFields
    <3>2. CASE task[t].pc = "stop"
      BY <1>1, <2>1, <3>1, <3>2 DEF Stop, Clean
    <3>3. CASE task[t].pc = "clean"
      BY <2>2, <3>3 DEF WorkOf
    <3> QED BY <2>1, <3>2, <3>3
  <2>4. Listed(t)[1] = i
    BY <2>2, <2>3 DEF WorkOf, Own, Listed
  <2>5. \/ Switch(Listed(t), to) /\ (Went(t, pc, task[t].k) \/ Broke(t))
        \/ UNCHANGED fdus /\ Broke(t)
    BY <2>1, CallTask DEF EntityInv
  <2>6. CASE UNCHANGED fdus /\ Broke(t)
    BY <2>1, <2>6, BrokeEffect
  <2>7. CASE /\ Switch(Listed(t), to)
             /\ Went(t, pc, task[t].k) \/ Broke(t)
    <3>1. /\ task'[t].rec = task[t].rec
          /\ \A u \in Tasks \ {t} : task'[u] = task[u]
      BY <2>7 DEF Broke, Went, Becomes
    <3>2. PhaseOf(t)'
      <4>1. CASE Broke(t)
        BY <2>1, <2>2, <4>1, BrokePhase
      <4>2. CASE Went(t, pc, task[t].k)
        <5>1. /\ task'[t].pc = pc /\ task'[t].k = task[t].k
              /\ task'[t].id = task[t].id /\ task'[t].kept = task[t].kept
          BY <4>2 DEF Went, Becomes
        <5>2. Shows(task[t].pc) = Shows(pc) /\ pc \in {"clean", "undefine"}
          BY <1>1, <2>1 DEF Shows
        <5>3. WorkOf(t)'
          BY <2>1, <2>2, <2>3, <3>1, <5>1, <5>2 DEF WorkOf
        <5> QED BY <5>3 DEF PhaseOf
      <4> QED BY <2>7, <4>1, <4>2
    <3> QED BY <2>1, <2>2, <2>4, <2>7, <3>1, <3>2, SwitchEffect
  <2> QED BY <2>5, <2>6, <2>7
<1>2. ASSUME Stop(t) PROVE EntityInv'
  BY <1>1, <1>2 DEF Stop
<1>3. ASSUME Clean(t) PROVE EntityInv'
  BY <1>1, <1>3 DEF Clean
<1> QED BY <1>2, <1>3

LEMMA StepUndefine ==
  ASSUME EntityInv, TypeInv', NEW t \in Tasks, Undefine(t)
  PROVE  EntityInv'
<1>1. /\ task[t].pc = "undefine" /\ task[t].k + 1 \in Nat \ {0}
      /\ "stop" \in Pcs \ {"idle", "offload_entity"}
      /\ UNCHANGED <<records, orphans>>
  BY Current_Type DEF Undefine, EntityInv, Pcs
<1>2. PICK i \in Instances :
        /\ i = task[t].rec.uuid /\ task[t].rec # None
        /\ WorkOf(t) /\ InstOK(i)
        /\ task[t].k \in DOMAIN task[t].rec.fdus
  BY <1>1, AtWork DEF WorkOf
<1>3. Listed(t)[1] = i
  BY <1>2 DEF WorkOf, Own, Listed
<1>4. CASE UNCHANGED fdus /\ Broke(t)
  BY <1>1, <1>4, BrokeEffect
<1>5. CASE /\ fdus' = {y \in fdus : y.uuid # Listed(t)}
           /\ Went(t, "stop", task[t].k + 1) \/ Broke(t)
  <2>1. /\ task'[t].rec = task[t].rec
        /\ \A u \in Tasks \ {t} : task'[u] = task[u]
    BY <1>5 DEF Broke, Went, Becomes
  <2>2. PhaseOf(t)'
    <3>1. CASE Broke(t)
      BY <1>1, <1>2, <3>1, BrokePhase
    <3>2. CASE Went(t, "stop", task[t].k + 1)
      <4>1. /\ task'[t].pc = "stop"
            /\ task'[t].id = task[t].id /\ task'[t].kept = task[t].kept
        BY <3>2 DEF Went, Becomes
      <4>2. Shows("undefine") = Shows("stop")
        BY DEF Shows
      <4>3. WorkOf(t)'
        BY <1>1, <1>2, <2>1, <4>1, <4>2 DEF WorkOf
      <4> QED BY <4>3 DEF PhaseOf
    <3> QED BY <1>5, <3>1, <3>2
  <2>3. Shows(task[t].pc) \cap {"RUNNING", "OFFLOADED"} = {}
    BY <1>1 DEF Shows
  <2>4. /\ \A y : y.uuid[1] # i => (y \in fdus' <=> y \in fdus)
        /\ \A y, z \in fdus' : y.uuid[1] = i /\ y.uuid = z.uuid => y = z
        /\ \A y \in fdus' : y.uuid[1] = i =>
             \E z \in fdus : z.uuid = y.uuid /\ z.fdu = y.fdu
    BY <1>2, <1>3, <1>5 DEF InstOK, InstancesOf
  <2> QED BY <1>1, <1>2, <2>1, <2>2, <2>3, <2>4, FduEffect
<1>6. \/ UNCHANGED fdus /\ Broke(t)
      \/ /\ fdus' = {y \in fdus : y.uuid # Listed(t)}
         /\ Went(t, "stop", task[t].k + 1) \/ Broke(t)
  <2>1. CASE /\ fdus' = {y \in fdus : y.uuid # Listed(t)}
             /\ Proceed(t, "stop", task[t].k + 1)
    BY <1>1, <2>1, ProceedTask DEF EntityInv
  <2>2. CASE UNCHANGED fdus /\ \E p : Refused(t, p)
    BY <1>1, <2>2, RefusedTask DEF EntityInv
  <2> QED BY <2>1, <2>2 DEF Undefine
<1> QED BY <1>4, <1>5, <1>6

LEMMA StepOffload ==
  ASSUME EntityInv, TypeInv', NEW t \in Tasks
  PROVE  /\ OffloadFdu(t) => EntityInv'
         /\ RemoveFdu(t) => EntityInv'
         /\ Offloaded(t) => EntityInv'
<1> DEFINE e == task[t].rec.id
           k == task[t].k
<1>1. task[t].pc \in {"offload", "remove"} =>
        /\ WorkOf(t) /\ TakenDown(t) /\ task[t].id = task[t].rec.id
        /\ task[t].rec # None /\ task[t].rec \in EntityRecord
        /\ k \in Nat \ {0} /\ Len(FdusOf[task[t].rec.id]) \in Nat
  <2>1. \A d \in Entities : Len(FdusOf[d]) \in Nat
    BY EntityAssumption
  <2> QED BY <2>1, AtWork DEF WorkOf, TakenDown
<1>2. ASSUME NEW pc \in {"offload", "remove"}, NEW n \in Nat \ {0}, Went(t, pc, n),
             task[t].pc \in {"offload", "remove"}, TakenDown(t)',
             UNCHANGED <<records, fdus, orphans>>
      PROVE  EntityInv'
  <2>1. /\ task'[t].pc = pc /\ task'[t].rec = task[t].rec
        /\ task'[t].id = task[t].id /\ task'[t].kept = task[t].kept
        /\ \A u \in Tasks \ {t} : task'[u] = task[u]
    BY <1>2 DEF Went, Becomes
  <2>2. Shows("offload") = Shows("remove")
    BY DEF Shows
  <2>3. WorkOf(t)'
    BY <1>1, <1>2, <2>1, <2>2 DEF WorkOf
  <2> QED BY <1>1, <1>2, <2>1, <2>3, StayEffect DEF PhaseOf
<1>3. ASSUME OffloadFdu(t) PROVE EntityInv'
  <2>1. /\ task[t].pc = "offload" /\ UNCHANGED <<records, fdus, orphans>>
        /\ "remove" \in Pcs \ {"idle", "offload_entity"}
    BY <1>3 DEF OffloadFdu, Pcs
  <2>2. CASE /\ \A y \in fdus : y.fdu # FdusOf[e][k]
             /\ task' = [task EXCEPT ![t].pc = "remove"]
    <3>1. task' = [task EXCEPT ![t].pc = "remove", ![t].k = k]
      BY <2>1, <2>2, SameField DEF EntityInv
    <3>2. Went(t, "remove", k)
      BY <1>1, <2>1, <3>1, GoOnTask DEF EntityInv
    <3>3. task'[t].pc = "remove" /\ task'[t].rec = task[t].rec /\ task'[t].k = k
      BY <3>2 DEF Went, Becomes
    <3>4. TakenDown(t)'
      BY <1>1, <2>1, <2>2, <3>3 DEF TakenDown, InstancesOf
    <3> QED BY <1>1, <1>2, <2>1, <3>2, <3>4
  <2>3. CASE \E p : Refused(t, p)
    BY <2>1, <2>3, RefusedTask, BrokeEffect DEF EntityInv
  <2> QED BY <1>1, <1>3, <2>1, <2>2, <2>3 DEF OffloadFdu, Descriptor
<1>4. ASSUME RemoveFdu(t) PROVE EntityInv'
  <2>1. /\ task[t].pc = "remove" /\ UNCHANGED <<records, fdus, orphans>>
        /\ "offload" \in Pcs \ {"idle", "offload_entity"}
        /\ Proceed(t, "offload", k + 1) /\ k + 1 \in Nat \ {0}
    BY <1>1, <1>4 DEF RemoveFdu, Pcs
  <2>2. Went(t, "offload", k + 1) \/ Broke(t)
    BY <2>1, ProceedTask DEF EntityInv
  <2>3. CASE Went(t, "offload", k + 1)
    <3>1. /\ task'[t].pc = "offload" /\ task'[t].rec = task[t].rec
          /\ task'[t].k = k + 1
      BY <2>3 DEF Went, Becomes
    <3>2. TakenDown(t)'
      BY <1>1, <2>1, <3>1 DEF TakenDown, InstancesOf
    <3> QED BY <1>1, <1>2, <2>1, <2>3, <3>2
  <2> QED BY <2>1, <2>2, <2>3, BrokeEffect
<1>5. ASSUME Offloaded(t) PROVE EntityInv'
  <2>1. /\ task[t].pc = "offload" /\ k > Len(FdusOf[task[t].id])
        /\ Finish(t, [task[t].rec EXCEPT !.status = "OFFLOADED"])
        /\ UNCHANGED <<fdus, orphans>>
    BY <1>5 DEF Offloaded, faultVars, Descriptor
  <2>2. "OFFLOADED" \in EntityStatus
    BY DEF EntityStatus
  <2>3. PICK r \in EntityRecord : r = [task[t].rec EXCEPT !.status = "OFFLOADED"]
    BY <1>1, <2>1, <2>2 DEF EntityRecord
  <2>4. /\ r.uuid = task[t].rec.uuid /\ r.id = task[t].rec.id
        /\ r.status = "OFFLOADED" /\ r.fdus = task[t].rec.fdus
    BY <1>1, <2>1, <2>2, <2>3, Restatused
  <2>5. InstancesOf(r.uuid) = {}
    <3>1. \A y \in InstancesOf(task[t].rec.uuid) :
            y.uuid[2] \in 1 .. Len(FdusOf[e]) /\ y.fdu = FdusOf[e][y.uuid[2]]
      BY <2>1, ListedFdus
    <3>2. \A j \in 1 .. Len(FdusOf[e]) :
            \A y \in InstancesOf(task[t].rec.uuid) : y.fdu # FdusOf[e][j]
      BY <1>1, <2>1 DEF TakenDown
    <3> QED BY <2>4, <3>1, <3>2
  <2>6. Own(r.uuid, r.fdus)
    BY <1>1, <2>1, <2>4 DEF WorkOf
  <2> QED BY <2>1, <2>3, <2>4, <2>5, <2>6, FinishEffect DEF Settled
<1> QED BY <1>3, <1>4, <1>5

-----------------------------------------------------------------------------
(* The invariant holds, and what follows from it                           *)

LEMMA InvInit ==
  ASSUME Init PROVE EntityInv
<1>1. TypeInv
  BY TypeInit
<1>2. Apart /\ Phases
  BY DEF Init, IdleTask, Apart, Phases, PhaseOf
<1>3. \A i \in Instances : InstOK(i)
  BY DEF Init, InstOK, InstancesOf
<1> QED BY <1>1, <1>2, <1>3 DEF EntityInv

LEMMA InvStep ==
  ASSUME EntityInv, [Next]_vars, Exclusive PROVE EntityInv'
<1>1. TypeInv'
  BY TypeStep DEF EntityInv
<1>2. CASE UNCHANGED <<records, fdus, task, orphans>>
  <2>1. {} \in SUBSET Tasks /\ {} \in SUBSET Instances
    OBVIOUS
  <2>2. /\ \A u \in Tasks \ {} : task'[u] = task[u]
        /\ \A u \in Tasks \ {} : task[u].rec # None => task[u].rec.uuid \notin {}
        /\ \A j \in Instances \ {} : SameFor(j)
    BY <1>2, SameForAll
  <2> QED BY <1>1, <2>1, <2>2, Effect
<1>3. ASSUME NEW e \in Entities, onboard_entity(e) PROVE EntityInv'
  BY <1>2, <1>3 DEF onboard_entity, faultVars
<1>4. ASSUME NEW t \in Tasks, TaskStep(t) PROVE EntityInv'
  BY <1>1, <1>4, StepClients, StepSchedule, StepDefine, StepConfigure,
     StepStart, StepStopping, StepStop, StepUndefine, StepOffload DEF TaskStep
<1>5. CASE UNCHANGED vars
  BY <1>2, <1>5 DEF vars, faultVars
<1> QED BY <1>1, <1>3, <1>4, <1>5, StepClients, StepCrash DEF Next

LEMMA Always ==
  ASSUME Exclusive PROVE Spec => []EntityInv
BY InvInit, InvStep, PTL DEF Spec

(* While no two tasks work for one entity instance, an OFFLOADED one has   *)
(* left no FDU instance behind, whatever calls failed and whatever agents  *)
(* crashed on the way.                                                     *)
THEOREM NothingLeftHolds ==
  ASSUME Exclusive PROVE Spec => []NothingLeft
<1>1. EntityInv => NothingLeft
  <2> SUFFICES ASSUME EntityInv, NEW r \in records, r.status = "OFFLOADED"
               PROVE  InstancesOf(r.uuid) = {}
    BY DEF NothingLeft
  <2>1. r.uuid \in Instances
    BY RecordFields DEF EntityInv, TypeInv, TypeOK
  <2>2. InstOK(r.uuid)
    BY <2>1 DEF EntityInv
  <2> QED BY <2>2 DEF InstOK
<1> QED BY <1>1, Always, PTL

LEMMA RunningCount ==
  ASSUME EntityInv, NEW r \in records, r.status = "RUNNING"
  PROVE  /\ AllRun(r) /\ Len(FdusOf[r.id]) \in Nat
         /\ Cardinality(InstancesOf(r.uuid)) = Len(FdusOf[r.id])
<1>1. r.uuid \in Instances /\ r.id \in Entities
  BY RecordFields DEF EntityInv, TypeInv, TypeOK
<1>2. PICK i \in Instances : i = r.uuid
  BY <1>1
<1>3. InstOK(i) /\ AllRun(r)
  BY <1>2 DEF EntityInv, InstOK
<1>4. Len(FdusOf[r.id]) \in Nat
  BY <1>1, EntityAssumption
<1> DEFINE n == Len(FdusOf[r.id])
           f == [k \in 1 .. n |-> Runs(i, r.id, k)]
<1>5. \A k \in 1 .. n : f[k] \in InstancesOf(i)
  BY <1>2, <1>3 DEF AllRun, InstancesOf, Runs
<1>6. \A y \in InstancesOf(i) : \E k \in 1 .. n : y = f[k]
  <2> SUFFICES ASSUME NEW y \in InstancesOf(i) PROVE \E k \in 1 .. n : y = f[k]
    OBVIOUS
  <2>1. PICK k \in 1 .. n : k = y.uuid[2]
    <3>1. Placed(y) /\ y.uuid[1] = i
      BY <1>3 DEF InstOK, InstancesOf
    <3>2. PICK q \in records : q.uuid = i /\ y.uuid[2] \in 1 .. Len(FdusOf[q.id])
      BY <3>1 DEF Placed
    <3>3. q = r
      BY <1>2, <1>3, <3>2 DEF InstOK
    <3> QED BY <3>2, <3>3
  <2>2. y.uuid = <<i, k>>
    <3>1. y \in FduInstance
      BY DEF InstancesOf, EntityInv, TypeInv, TypeOK
    <3>2. y.uuid \in Instances \X (Nat \ {0})
      BY <3>1 DEF FduInstance, FduIds
    <3> QED BY <2>1, <3>2 DEF InstancesOf
  <2>3. f[k].uuid = y.uuid
    BY <2>2 DEF Runs
  <2>4. y = f[k]
    BY <1>3, <1>5, <2>3 DEF InstOK
  <2> QED BY <2>4
<1>7. \A j, k \in 1 .. n : f[j] = f[k] => j = k
  <2> SUFFICES ASSUME NEW j \in 1 .. n, NEW k \in 1 .. n, f[j] = f[k]
               PROVE  j = k
    OBVIOUS
  <2>1. Runs(i, r.id, j).uuid = Runs(i, r.id, k).uuid
    OBVIOUS
  <2>2. <<i, j>> = <<i, k>>
    BY <2>1 DEF Runs
  <2> QED BY <2>2
<1>8. f \in Bijection(1 .. n, InstancesOf(i))
  <2>1. f \in [1 .. n -> InstancesOf(i)]
    BY <1>5
  <2> HIDE DEF f
  <2> QED BY <1>6, <1>7, <2>1 DEF Bijection, Injection, Surjection, IsInjective
<1>9. ExistsBijection(1 .. n, InstancesOf(i))
  BY <1>8, Zenon DEF ExistsBijection
<1>10. Cardinality(InstancesOf(i)) = n
  BY <1>4, <1>9, FS_CountingElements
<1> QED BY <1>2, <1>3, <1>4, <1>10

(* While no two tasks work for one entity instance, a RUNNING one has one  *)
(* running FDU instance for each FDU of its descriptor, and the record     *)
(* lists exactly these.                                                    *)
THEOREM RunningCompleteHolds ==
  ASSUME Exclusive PROVE Spec => []RunningComplete
<1>1. EntityInv => RunningComplete
  <2> SUFFICES ASSUME EntityInv, NEW r \in records, r.status = "RUNNING"
               PROVE  /\ Len(r.fdus) = Len(FdusOf[r.id])
                      /\ \A k \in DOMAIN r.fdus :
                           [uuid |-> r.fdus[k], fdu |-> FdusOf[r.id][k],
                            status |-> "RUNNING"] \in fdus
                      /\ Cardinality(InstancesOf(r.uuid)) = Len(r.fdus)
    BY DEF RunningComplete
  <2>1. AllRun(r) /\ Len(FdusOf[r.id]) \in Nat
        /\ Cardinality(InstancesOf(r.uuid)) = Len(FdusOf[r.id])
    BY RunningCount
  <2>2. r.fdus \in Seq(FduIds)
    BY RecordFields DEF EntityInv, TypeInv, TypeOK
  <2>3. Len(r.fdus) = Len(FdusOf[r.id])
    BY <2>1, <2>2 DEF AllRun
  <2> QED BY <2>1, <2>3 DEF AllRun, Runs
<1> QED BY <1>1, Always, PTL

-----------------------------------------------------------------------------
(* The life cycle of EntityAbstract                                        *)

Statuses == [i \in Instances |-> Status(i)]

LEMMA StatusIs ==
  ASSUME NEW R, NEW i, NEW r \in R, r.uuid = i,
         \A q \in R : q.uuid = i => q = r
  PROVE  (IF \E q \in R : q.uuid = i
            THEN (CHOOSE q \in R : q.uuid = i).status ELSE "none") = r.status
<1>1. (CHOOSE q \in R : q.uuid = i) \in R /\ (CHOOSE q \in R : q.uuid = i).uuid = i
  OBVIOUS
<1>2. (CHOOSE q \in R : q.uuid = i) = r
  BY <1>1
<1> QED BY <1>2

LEMMA StatusSame ==
  ASSUME NEW i, RecordsOf(i)' = RecordsOf(i)
  PROVE  Status(i)' = Status(i)
<1>1. \A q : (q \in records' /\ q.uuid = i) <=> (q \in records /\ q.uuid = i)
  BY DEF RecordsOf
<1>2. (CHOOSE q : q \in records' /\ q.uuid = i) =
      (CHOOSE q : q \in records /\ q.uuid = i)
  BY <1>1, Zenon
<1>3. (CHOOSE q \in records' : q.uuid = i) = (CHOOSE q \in records : q.uuid = i)
  BY <1>2
<1>4. (\E q \in records' : q.uuid = i) <=> (\E q \in records : q.uuid = i)
  BY <1>1
<1> QED BY <1>3, <1>4 DEF Status

LEMMA RefineStay ==
  ASSUME UNCHANGED <<records, orphans>>
  PROVE  UNCHANGED <<Statuses, orphans>>
<1>1. \A i \in Instances : Status(i)' = Status(i)
  BY StatusSame DEF RecordsOf
<1> QED BY <1>1 DEF Statuses

(* A record is written: its status, and no other, changes.                 *)
LEMMA RefineWrite ==
  ASSUME EntityInv, NEW r \in EntityRecord, add_entity_instance(r)
  PROVE  Statuses' = [Statuses EXCEPT ![r.uuid] = r.status]
<1>1. PICK i \in Instances : i = r.uuid
  BY RecordFields
<1>2. /\ r \in records' /\ \A q \in records' : q.uuid = i => q = r
      /\ \A j : j # i => RecordsOf(j)' = RecordsOf(j)
  BY <1>1, Written DEF EntityInv, TypeInv, TypeOK, RecordsOf
<1>3. Status(i)' = r.status
  BY <1>1, <1>2, StatusIs DEF Status
<1>4. \A j \in Instances \ {i} : Status(j)' = Status(j)
  BY <1>2, StatusSame
<1> QED BY <1>1, <1>3, <1>4 DEF Statuses

(* The status in the store while a task is at work.                        *)
LEMMA RefineShown ==
  ASSUME EntityInv, NEW t \in Tasks, task[t].pc \notin {"idle", "offload_entity"}
  PROVE  /\ task[t].pc = "schedule" => Statuses[task[t].rec.uuid] = "none"
         /\ task[t].pc # "schedule" =>
              Statuses[task[t].rec.uuid] \in Shows(task[t].pc)
         /\ task[t].pc = "stopping" =>
              \/ Statuses[task[t].rec.uuid] \in Settled
              \/ task[t].rec.uuid \in orphans
<1>1. PICK i \in Instances : i = task[t].rec.uuid /\ WorkOf(t) /\ InstOK(i)
  BY AtWork
<1>2. Statuses[i] = Status(i)
  BY DEF Statuses
<1>3. CASE task[t].pc = "schedule"
  <2>1. Status(i) = "none"
    BY <1>1, <1>3 DEF WorkOf, Status
  <2> QED BY <1>1, <1>2, <1>3, <2>1
<1>4. CASE task[t].pc # "schedule"
  <2>1. PICK r \in records : r.uuid = i /\ r.status \in Shows(task[t].pc)
    BY <1>1, <1>4 DEF WorkOf
  <2>2. Status(i) = r.status
    BY <1>1, <2>1, StatusIs DEF Status, InstOK
  <2>3. task[t].pc = "stopping" => r.status \in Settled \/ i \in orphans
    BY <1>1, <2>1 DEF WorkOf
  <2> QED BY <1>1, <1>2, <1>4, <2>1, <2>2, <2>3
<1> QED BY <1>3, <1>4

LEMMA RefineEnter ==
  ASSUME EntityInv, NEW t \in Tasks, NEW status \in EntityStatus,
         NEW pc \in Pcs \ {"idle", "offload_entity"},
         task[t].pc \notin {"idle", "offload_entity"}, Enter(t, status, pc)
  PROVE  Statuses' = [Statuses EXCEPT ![task[t].rec.uuid] = status]
<1>1. PICK r \in EntityRecord :
        r = [task[t].rec EXCEPT !.status = status] /\ add_entity_instance(r)
  BY EnterTask DEF EntityInv
<1>2. r.uuid = task[t].rec.uuid /\ r.status = status
  BY <1>1, Restatused, AtWork
<1> QED BY <1>1, <1>2, RefineWrite

LEMMA RefineFinish ==
  ASSUME EntityInv, NEW t \in Tasks, NEW status \in EntityStatus,
         task[t].pc \notin {"idle", "offload_entity"},
         Finish(t, [task[t].rec EXCEPT !.status = status])
  PROVE  Statuses' = [Statuses EXCEPT ![task[t].rec.uuid] = status]
<1>1. task[t].rec \in EntityRecord
  BY AtWork
<1>2. PICK r \in EntityRecord : r = [task[t].rec EXCEPT !.status = status]
  BY <1>1 DEF EntityRecord
<1>3. r.uuid = task[t].rec.uuid /\ r.status = status
  BY <1>1, <1>2, Restatused
<1>4. add_entity_instance(r)
  BY <1>2 DEF Finish
<1> QED BY <1>2, <1>3, <1>4, RefineWrite

LEMMA RefineInit ==
  ASSUME Init PROVE Abs!Init
<1>1. \A i \in Instances : Status(i) = "none"
  BY DEF Init, Status
<1> QED BY <1>1 DEF Abs!Init, Init

(* Every step of a task is a step of the life cycle, or a stutter.         *)
LEMMA RefineTask ==
  ASSUME EntityInv, EntityInv', NEW t \in Tasks, TaskStep(t)
  PROVE  [Abs!Next]_<<Statuses, orphans>>
<1> DEFINE i == task[t].rec.uuid
<1>0. /\ EntityStatus = {"ONBOARDING", "ONBOARDED", "STARTING", "RUNNING",
                         "STOPPING", "STOPPED", "OFFLOADING", "OFFLOADED", "ERROR"}
      /\ {"onboard", "starting", "define", "stop", "offloading", "offload",
          "failed"} \subseteq Pcs \ {"idle", "offload_entity"}
  BY DEF EntityStatus, Pcs
<1>1. task[t].pc \notin {"idle", "offload_entity"} => i \in Instances
  BY AtWork
<1>2. ASSUME NEW from, Statuses[i] = from, i \in Instances, UNCHANGED orphans,
             Statuses' = [Statuses EXCEPT ![i] = Abs!Successor[from]]
      PROVE  Abs!Next
  <2>1. Abs!Advance(i)
    BY <1>2 DEF Abs!Advance, Statuses
  <2> QED BY <1>2, <2>1 DEF Abs!Next
<1>3. CASE Spawn(t)
  <2>1. Statuses[i] = "none"
    BY <1>3, RefineShown DEF Spawn
  <2>2. Statuses' = [Statuses EXCEPT ![i] = "ONBOARDING"]
    BY <1>0, <1>3, RefineEnter DEF Spawn
  <2>3. Abs!Successor["none"] = "ONBOARDING"
    BY DEF Abs!Successor
  <2> QED BY <1>1, <1>2, <1>3, <2>1, <2>2, <2>3 DEF Spawn, faultVars
<1>4. CASE Onboarded(t)
  <2>1. Statuses[i] = "ONBOARDING"
    BY <1>4, RefineShown DEF Onboarded, Shows
  <2>2. Statuses' = [Statuses EXCEPT ![i] = "ONBOARDED"]
    BY <1>0, <1>4, RefineEnter DEF Onboarded
  <2>3. Abs!Successor["ONBOARDING"] = "ONBOARDED"
    BY DEF Abs!Successor
  <2> QED BY <1>1, <1>2, <1>4, <2>1, <2>2, <2>3 DEF Onboarded, faultVars
<1>5. CASE Starting(t)
  <2>1. Statuses[i] = "ONBOARDED"
    BY <1>5, RefineShown DEF Starting, Shows
  <2>2. Statuses' = [Statuses EXCEPT ![i] = "STARTING"]
    BY <1>0, <1>5, RefineEnter DEF Starting
  <2>3. Abs!Successor["ONBOARDED"] = "STARTING"
    BY DEF Abs!Successor
  <2> QED BY <1>1, <1>2, <1>5, <2>1, <2>2, <2>3 DEF Starting, faultVars
<1>6. CASE Running(t)
  <2>1. Statuses[i] = "STARTING"
    BY <1>6, RefineShown DEF Running, Shows
  <2>2. Statuses' = [Statuses EXCEPT ![i] = "RUNNING"]
    BY <1>0, <1>6, RefineFinish DEF Running
  <2>3. Abs!Successor["STARTING"] = "RUNNING"
    BY DEF Abs!Successor
  <2> QED BY <1>1, <1>2, <1>6, <2>1, <2>2, <2>3 DEF Running, faultVars
<1>7. CASE Stopped(t)
  <2>1. Statuses[i] = "STOPPING"
    BY <1>7, RefineShown DEF Stopped, Shows
  <2>2. Statuses' = [Statuses EXCEPT ![i] = "STOPPED"]
    BY <1>0, <1>7, RefineEnter DEF Stopped
  <2>3. Abs!Successor["STOPPING"] = "STOPPED"
    BY DEF Abs!Successor
  <2> QED BY <1>1, <1>2, <1>7, <2>1, <2>2, <2>3 DEF Stopped, faultVars
<1>8. CASE Offloading(t)
  <2>1. Statuses[i] = "STOPPED"
    BY <1>8, RefineShown DEF Offloading, Shows
  <2>2. Statuses' = [Statuses EXCEPT ![i] = "OFFLOADING"]
    BY <1>0, <1>8, RefineEnter DEF Offloading
  <2>3. Abs!Successor["STOPPED"] = "OFFLOADING"
    BY DEF Abs!Successor
  <2> QED BY <1>1, <1>2, <1>8, <2>1, <2>2, <2>3 DEF Offloading, faultVars
<1>9. CASE Offloaded(t)
  <2>1. Statuses[i] = "OFFLOADING"
    BY <1>9, RefineShown DEF Offloaded, Shows
  <2>2. Statuses' = [Statuses EXCEPT ![i] = "OFFLOADED"]
    BY <1>0, <1>9, RefineFinish DEF Offloaded
  <2>3. Abs!Successor["OFFLOADING"] = "OFFLOADED"
    BY DEF Abs!Successor
  <2> QED BY <1>1, <1>2, <1>9, <2>1, <2>2, <2>3 DEF Offloaded, faultVars
<1>10. CASE Failed(t)
  <2>1. Statuses[i] # "none"
    BY <1>0, <1>10, RefineShown DEF Failed, Shows
  <2>2. Statuses' = [Statuses EXCEPT ![i] = "ERROR"]
    <3>1. /\ task[t].pc = "failed"
          /\ Finish(t, [task[t].rec EXCEPT !.status = "ERROR",
                                           !.fdus = task[t].kept])
      BY <1>10 DEF Failed
    <3>2. task[t].rec \in EntityRecord /\ task[t].kept \in Seq(FduIds)
      BY <3>1, AtWork
    <3>3. PICK r \in EntityRecord :
            /\ r = [task[t].rec EXCEPT !.status = "ERROR", !.fdus = task[t].kept]
            /\ r.uuid = i /\ r.status = "ERROR"
      <4>1. PICK q \in EntityRecord :
              q = [task[t].rec EXCEPT !.status = "ERROR", !.fdus = task[t].kept]
        BY <1>0, <3>2, Reported
      <4>2. q = [uuid |-> task[t].rec.uuid, id |-> task[t].rec.id,
                 status |-> "ERROR", fdus |-> task[t].kept]
        BY <1>0, <3>2, <4>1, Reported
      <4>3. q.uuid = i /\ q.status = "ERROR"
        BY <4>2
      <4> QED BY <4>1, <4>3
    <3>4. add_entity_instance(r)
      BY <3>1, <3>3 DEF Finish
    <3> QED BY <3>3, <3>4, RefineWrite
  <2>3. Abs!Break(i)
    BY <1>10, <2>1, <2>2 DEF Abs!Break, Failed, faultVars, Statuses
  <2>4. i \in Instances
    BY <1>1, <1>10 DEF Failed
  <2> QED BY <2>3, <2>4 DEF Abs!Next
<1>11. CASE Stopping(t)
  <2>1. task[t].pc = "stopping" /\ i \in Instances
    BY <1>1, <1>11 DEF Stopping
  <2>2. CASE Enter(t, "STOPPING", "stop") /\ orphans' = orphans \ {i}
    <3>1. Statuses' = [Statuses EXCEPT ![i] = "STOPPING"]
      BY <1>0, <2>1, <2>2, RefineEnter
    <3>2. CASE i \in orphans
      <4>1. Abs!TakeDown(i)
        BY <2>2, <3>1, <3>2 DEF Abs!TakeDown, Statuses
      <4> QED BY <2>1, <4>1 DEF Abs!Next
    <3>3. CASE i \notin orphans
      <4>1. Statuses[i] \in {"RUNNING", "OFFLOADED", "ERROR"}
        BY <2>1, <3>3, RefineShown DEF Settled
      <4>2. Abs!Successor[Statuses[i]] = "STOPPING"
        <5>1. /\ Abs!Successor["RUNNING"] = "STOPPING"
              /\ Abs!Successor["OFFLOADED"] = "STOPPING"
              /\ Abs!Successor["ERROR"] = "STOPPING"
          BY DEF Abs!Successor
        <5> QED BY <4>1, <5>1
      <4>3. UNCHANGED orphans
        BY <2>2, <3>3
      <4> QED BY <1>2, <2>1, <3>1, <4>2, <4>3
    <3> QED BY <3>2, <3>3
  <2>3. CASE UNCHANGED <<records, orphans>>
    BY <2>3, RefineStay
  <2> QED BY <1>11, <2>2, <2>3 DEF Stopping
<1>12. CASE \/ Onboard(t) \/ Define(t) \/ Configure(t) \/ Start(t) \/ Stop(t)
            \/ Clean(t) \/ Undefine(t) \/ OffloadFdu(t) \/ RemoveFdu(t)
            \/ RemoveEntity(t)
  <2>1. UNCHANGED <<records, orphans>>
    BY <1>12 DEF Onboard, Define, Configure, Start, Stop, Clean, Undefine,
                 OffloadFdu, RemoveFdu, RemoveEntity, faultVars
  <2> QED BY <2>1, RefineStay
<1> QED BY <1>3, <1>4, <1>5, <1>6, <1>7, <1>8, <1>9, <1>10, <1>11, <1>12
        DEF TaskStep

LEMMA RefineCrash ==
  ASSUME EntityInv, NEW S \in SUBSET Tasks, Crash(S)
  PROVE  Abs!Next
<1>1. UNCHANGED records
  BY DEF Crash
<1> DEFINE Left == {r.uuid : r \in {q \in records : \E t \in S :
                      task[t].rec # None /\ task[t].rec.uuid = q.uuid}}
<1>2. orphans' = orphans \cup Left
  BY DEF Crash
<1>3. Left \in SUBSET Instances
  BY RecordFields DEF EntityInv, TypeInv, TypeOK
<1>4. ASSUME NEW i \in Left PROVE Statuses[i] # "none"
  <2>1. PICK r \in records : r.uuid = i
    OBVIOUS
  <2>2. i \in Instances /\ r.status \in EntityStatus
    BY <2>1, RecordFields DEF EntityInv, TypeInv, TypeOK
  <2>3. Status(i) = r.status
    BY <2>1, <2>2, StatusIs DEF Status, EntityInv, InstOK
  <2> QED BY <2>2, <2>3 DEF Statuses, EntityStatus
<1>5. Statuses' = Statuses
  <2>1. \A i \in Instances : Status(i)' = Status(i)
    BY <1>1, StatusSame DEF RecordsOf
  <2> QED BY <2>1 DEF Statuses
<1>6. Abs!Orphan(Left)
  <2> HIDE DEF Left
  <2> QED BY <1>2, <1>4, <1>5 DEF Abs!Orphan, Statuses
<1> HIDE DEF Left
<1> QED BY <1>3, <1>6 DEF Abs!Next

LEMMA RefineStep ==
  ASSUME EntityInv, EntityInv', [Next]_vars
  PROVE  [Abs!Next]_<<Statuses, orphans>>
<1>1. ASSUME UNCHANGED <<records, orphans>>
      PROVE  [Abs!Next]_<<Statuses, orphans>>
  BY <1>1, RefineStay
<1>2. CASE \E e \in Entities : onboard_entity(e)
  BY <1>1, <1>2 DEF onboard_entity, faultVars
<1>3. ASSUME NEW t \in Tasks,
             \/ \E e \in Entities : schedule_entity(t, e)
             \/ \E r \in records : deschedule_entity(t, r)
             \/ \E e \in Entities : offload_entity(t, e)
      PROVE  [Abs!Next]_<<Statuses, orphans>>
  BY <1>1, <1>3 DEF schedule_entity, deschedule_entity, offload_entity, faultVars
<1>4. CASE UNCHANGED vars
  BY <1>1, <1>4 DEF vars, faultVars
<1> QED BY <1>2, <1>3, <1>4, RefineTask, RefineCrash DEF Next

(* While no two tasks work for one entity instance, the statuses of the    *)
(* records in the store follow the life cycle of EntityAbstract: nobody    *)
(* overwrites what another task wrote, and an instance whose task died is  *)
(* taken down from the beginning.                                          *)
THEOREM EntityLifecycleHolds ==
  ASSUME Exclusive PROVE Spec => EntityLifecycle
<1>1. EntityInv /\ EntityInv' /\ [Next]_vars
        => [Abs!Next]_<<[i \in Instances |-> Status(i)], orphans>>
  BY RefineStep DEF Statuses
<1>2. Init => Abs!Init
  BY RefineInit
<1> QED BY <1>1, <1>2, Always, PTL DEF Spec, EntityLifecycle, Abs!Spec
=============================================================================
