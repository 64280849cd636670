------------------------- MODULE EntityOrchestration -------------------------
(***************************************************************************)
(* Entities: descriptors that group several FDUs, instantiated and taken   *)
(* down as a whole by tasks that an agent spawns (schedule_entity,         *)
(* deschedule_entity) and that drive the FDU operations of the agents.     *)
(*                                                                         *)
(* A task works on its own copy of the entity's record and writes it to    *)
(* the global store after each phase.  An FDU operation called by a task   *)
(* is one step of the abstract FDU life cycle, which FduLifecycle is       *)
(* shown to implement when no two requests are for the same instance; it   *)
(* fails when the instance is not in the state the operation requires,     *)
(* and for any other reason, a fault, before or after its effect.          *)
(*                                                                         *)
(* A crash of an agent is another fault: its tasks die between two of      *)
(* their steps and nobody takes them over; what a task was doing is only   *)
(* written down in the status of the record it leaves.                     *)
(***************************************************************************)
EXTENDS Naturals, Sequences, FiniteSets

CONSTANTS
  Entities,     \* uuids of entity descriptors
  Fdus,         \* uuids of FDU descriptors
  FdusOf,       \* the FDUs of each entity, in order
  Instances,    \* the uuids Uuid::new_v4 may draw for entity instances (a bound)
  Tasks,        \* tasks that may run at once (a bound)
  Exclusive,    \* TRUE: never two tasks at once for one entity instance
  MaxFaults,    \* a bound: how often a call fails on its own or an agent crashes
  None          \* "no value"

ASSUME EntityAssumption ==
  /\ FdusOf \in [Entities -> Seq(Fdus)]
  /\ Exclusive \in BOOLEAN
  /\ MaxFaults \in Nat
  /\ None \notin Entities \cup Instances

VARIABLES
  entities,     \* entity descriptors in the global store
  records,      \* entity records in the global store
  catalog,      \* FDU descriptors in the global store
  fdus,         \* the FDU instances, with their abstract state
  task,         \* the tasks of the agents
  faults,       \* the number of faults so far
  orphans       \* history: entity instances whose task has died with its agent

faultVars == <<faults, orphans>>
vars == <<entities, records, catalog, fdus, task, faultVars>>

(* im/entity.rs: EntityStatus.  INVALID and RECOVERING are left out: no    *)
(* code writes them.                                                       *)
EntityStatus == {"ONBOARDING", "ONBOARDED", "STARTING", "RUNNING", "STOPPING",
                 "STOPPED", "OFFLOADING", "OFFLOADED", "ERROR"}

(* The uuid of an FDU instance: schedule_fdu is called once for each FDU   *)
(* of the descriptor, so the position and the entity instance name it.     *)
FduIds == Instances \X (Nat \ {0})

EntityRecord == [uuid   : Instances,
                 id     : Entities,
                 status : EntityStatus,
                 fdus   : Seq(FduIds)]

ASSUME NoRecordAssumption == None \notin EntityRecord

FduInstance == [uuid   : FduIds,
                fdu    : Fdus,
                status : {"DEFINED", "CONFIGURED", "RUNNING"}]

Pcs == {"idle", "schedule", "onboard", "starting", "define", "configure",
        "start", "stopping", "stop", "clean", "undefine", "offloading",
        "offload", "remove", "failed", "offload_entity"}

(* A task: its copy of the record (rec, a set of at most one), the list of *)
(* FDU instances in the copy the caller keeps for reporting an error       *)
(* (kept), the entity it works for, and its position in the list it walks. *)
Task == [pc   : Pcs,
         id   : Entities \cup {None},
         rec  : EntityRecord \cup {None},
         kept : Seq(FduIds),
         k    : Nat]

IdleTask == [pc |-> "idle", id |-> None, rec |-> None, kept |-> <<>>, k |-> 0]

TypeOK ==
  /\ entities \subseteq Entities
  /\ records \subseteq EntityRecord
  /\ catalog \subseteq Fdus
  /\ fdus \subseteq FduInstance
  /\ task \in [Tasks -> Task]
  /\ \A t \in Tasks :
       task[t].pc \notin {"idle", "offload_entity"} => task[t].rec # None
  /\ faults \in 0 .. MaxFaults
  /\ orphans \subseteq {r.uuid : r \in records}

Init ==
  /\ entities = {}
  /\ records = {}
  /\ catalog = {}
  /\ fdus = {}
  /\ task = [t \in Tasks |-> IdleTask]
  /\ faults = 0
  /\ orphans = {}

-----------------------------------------------------------------------------
(* The stores                                                              *)

(* add_entity_instance: one record for an entity instance.                 *)
add_entity_instance(r) == records' = {s \in records : s.uuid # r.uuid} \cup {r}

get_all_entity_instances(e) == {r \in records : r.id = e}

(* The FDUs of the entity that task t works for, and the uuid of the FDU   *)
(* instance it works on while it schedules.                                *)
Descriptor(t) == FdusOf[task[t].id]
Current(t) == <<task[t].rec.uuid, task[t].k>>

Working(i) == \E t \in Tasks : task[t].rec # None /\ task[t].rec.uuid = i

Fresh == {i \in Instances : ~Working(i) /\ \A r \in records : r.uuid # i}

(* Tasks differ in nothing but their names, and so do unused uuids: a new  *)
(* task is the first idle one, a new uuid the first unused one.            *)
NewTask(t) ==
  LET idle == {u \in Tasks : task[u].pc = "idle"}
  IN t \in idle /\ t = CHOOSE u \in idle : TRUE

(* Task t writes its record with a new status, and goes on at pc.          *)
Enter(t, status, pc) ==
  LET r == [task[t].rec EXCEPT !.status = status]
  IN /\ add_entity_instance(r)
     /\ task' = [task EXCEPT ![t].rec = r, ![t].pc = pc, ![t].k = 1]

(* The last record of a task.                                              *)
Finish(t, r) ==
  /\ add_entity_instance(r)
  /\ task' = [task EXCEPT ![t] = IdleTask]

Fault == faults < MaxFaults /\ faults' = faults + 1

(* A call fails, and so does the task.                                     *)
Fail(t) == task' = [task EXCEPT ![t].pc = "failed"]

(* The call in progress is refused, or it fails although it is possible.   *)
Refused(t, possible) ==
  /\ Fail(t)
  /\ IF possible THEN Fault ELSE UNCHANGED faults

(* The call in progress has taken effect and the task goes on at pc, with  *)
(* FDU k; or its answer is lost.                                           *)
Proceed(t, pc, k) ==
  \/ task' = [task EXCEPT ![t].pc = pc, ![t].k = k] /\ UNCHANGED faults
  \/ Fail(t) /\ Fault

(* An agent can run an operation on FDU instance x that requires state s.  *)
Ready(x, s) ==
  \E y \in fdus : y.uuid = x /\ y.status = s /\ y.fdu \in catalog

Switch(x, s) ==
  fdus' = {IF y.uuid = x THEN [y EXCEPT !.status = s] ELSE y : y \in fdus}

(* The call of an operation that takes x from one state to another.        *)
Call(t, x, from, to, pc) ==
  \/ /\ Ready(x, from)
     /\ Switch(x, to)
     /\ Proceed(t, pc, task[t].k)
  \/ /\ Refused(t, Ready(x, from))
     /\ UNCHANGED fdus

-----------------------------------------------------------------------------
(* Clients                                                                 *)

onboard_entity(e) ==
  /\ entities' = entities \cup {e}
  /\ UNCHANGED <<records, catalog, fdus, task, faultVars>>

(* schedule_entity: the descriptor is found, the record not yet written.   *)
schedule_entity(t, e) ==
  /\ NewTask(t)
  /\ e \in entities
  /\ Fresh # {}
  /\ task' = [task EXCEPT ![t] =
       [IdleTask EXCEPT !.pc = "schedule", !.id = e,
          !.rec = [uuid |-> CHOOSE i \in Fresh : TRUE, id |-> e,
                   status |-> "ONBOARDING", fdus |-> <<>>]]]
  /\ UNCHANGED <<entities, records, catalog, fdus, faultVars>>

(* deschedule_entity: whatever the status of the record is.                *)
deschedule_entity(t, r) ==
  /\ NewTask(t)
  /\ Exclusive => ~Working(r.uuid)
  /\ task' = [task EXCEPT ![t] =
       [IdleTask EXCEPT !.pc = "stopping", !.id = r.id, !.rec = r,
                        !.kept = r.fdus]]
  /\ UNCHANGED <<entities, records, catalog, fdus, faultVars>>

(* offload_entity: the checks, and then the removal.                       *)
offload_entity(t, e) ==
  /\ NewTask(t)
  /\ e \in entities
  /\ get_all_entity_instances(e) = {}
  /\ task' = [task EXCEPT ![t] =
       [IdleTask EXCEPT !.pc = "offload_entity", !.id = e]]
  /\ UNCHANGED <<entities, records, catalog, fdus, faultVars>>

RemoveEntity(t) ==
  /\ task[t].pc = "offload_entity"
  /\ entities' = entities \ {task[t].id}
  /\ task' = [task EXCEPT ![t] = IdleTask]
  /\ UNCHANGED <<records, catalog, fdus, faultVars>>

-----------------------------------------------------------------------------
(* The scheduling task                                                     *)

Spawn(t) ==
  /\ task[t].pc = "schedule"
  /\ Enter(t, "ONBOARDING", "onboard")
  /\ UNCHANGED <<entities, catalog, fdus, faultVars>>

Onboard(t) ==
  /\ task[t].pc = "onboard"
  /\ task[t].k <= Len(Descriptor(t))
  /\ \/ /\ catalog' = catalog \cup {Descriptor(t)[task[t].k]}
        /\ Proceed(t, "onboard", task[t].k + 1)
     \/ /\ Refused(t, TRUE)
        /\ UNCHANGED catalog
  /\ UNCHANGED <<entities, records, fdus, orphans>>

Onboarded(t) ==
  /\ task[t].pc = "onboard"
  /\ task[t].k > Len(Descriptor(t))
  /\ Enter(t, "ONBOARDED", "starting")
  /\ UNCHANGED <<entities, catalog, fdus, faultVars>>

Starting(t) ==
  /\ task[t].pc = "starting"
  /\ Enter(t, "STARTING", "define")
  /\ UNCHANGED <<entities, catalog, fdus, faultVars>>

(* schedule_fdu: some compatible node defines an instance; without a       *)
(* descriptor no node is compatible.                                       *)
Define(t) ==
  /\ task[t].pc = "define"
  /\ task[t].k <= Len(Descriptor(t))
  /\ LET f == Descriptor(t)[task[t].k]
     IN \/ /\ f \in catalog
           /\ fdus' = fdus \cup {[uuid |-> Current(t), fdu |-> f,
                                  status |-> "DEFINED"]}
           /\ Proceed(t, "configure", task[t].k)
        \/ /\ Refused(t, f \in catalog)
           /\ UNCHANGED fdus
  /\ UNCHANGED <<entities, records, catalog, orphans>>

Configure(t) ==
  /\ task[t].pc = "configure"
  /\ Call(t, Current(t), "DEFINED", "CONFIGURED", "start")
  /\ UNCHANGED <<entities, records, catalog, orphans>>

(* Mutant: the started FDU is not added to the record.                     *)
MutStart(t) ==
  /\ task[t].pc = "start"
  /\ \/ /\ Ready(Current(t), "CONFIGURED")
        /\ Switch(Current(t), "RUNNING")
        /\ Proceed(t, "define", task[t].k + 1)
     \/ /\ Refused(t, Ready(Current(t), "CONFIGURED"))
        /\ UNCHANGED fdus
  /\ UNCHANGED <<entities, records, catalog, orphans>>

(* The started FDU is added to the task's copy of the record.              *)
Start(t) ==
  /\ task[t].pc = "start"
  /\ \/ /\ Ready(Current(t), "CONFIGURED")
        /\ Switch(Current(t), "RUNNING")
        /\ \/ /\ task' = [task EXCEPT ![t].pc = "define", ![t].k = @ + 1,
                                      ![t].rec.fdus = Append(@, Current(t))]
              /\ UNCHANGED faults
           \/ Fail(t) /\ Fault
     \/ /\ Refused(t, Ready(Current(t), "CONFIGURED"))
        /\ UNCHANGED fdus
  /\ UNCHANGED <<entities, records, catalog, orphans>>

Running(t) ==
  /\ task[t].pc = "define"
  /\ task[t].k > Len(Descriptor(t))
  /\ Finish(t, [task[t].rec EXCEPT !.status = "RUNNING"])
  /\ UNCHANGED <<entities, catalog, fdus, faultVars>>

-----------------------------------------------------------------------------
(* The descheduling task                                                   *)

(* Mutant: the task does not announce that it stops the FDUs.              *)
MutStopping(t) ==
  /\ task[t].pc = "stopping"
  /\ task' = [task EXCEPT ![t].pc = "stop", ![t].k = 1]
  /\ UNCHANGED <<entities, records, catalog, fdus, faultVars>>

Stopping(t) ==
  /\ task[t].pc = "stopping"
  /\ \/ /\ task[t].id \in entities
        /\ Enter(t, "STOPPING", "stop")
        /\ orphans' = orphans \ {task[t].rec.uuid}
     \/ /\ task[t].id \notin entities
        /\ Fail(t)
        /\ UNCHANGED <<records, orphans>>
  /\ UNCHANGED <<entities, catalog, fdus, faults>>

(* The FDU instance the task is taking down.                               *)
Listed(t) == task[t].rec.fdus[task[t].k]

Stop(t) ==
  /\ task[t].pc = "stop"
  /\ task[t].k <= Len(task[t].rec.fdus)
  /\ Call(t, Listed(t), "RUNNING", "CONFIGURED", "clean")
  /\ UNCHANGED <<entities, records, catalog, orphans>>

Clean(t) ==
  /\ task[t].pc = "clean"
  /\ Call(t, Listed(t), "CONFIGURED", "DEFINED", "undefine")
  /\ UNCHANGED <<entities, records, catalog, orphans>>

Undefine(t) ==
  /\ task[t].pc = "undefine"
  /\ \/ /\ Ready(Listed(t), "DEFINED")
        /\ fdus' = {y \in fdus : y.uuid # Listed(t)}
        /\ Proceed(t, "stop", task[t].k + 1)
     \/ /\ Refused(t, Ready(Listed(t), "DEFINED"))
        /\ UNCHANGED fdus
  /\ UNCHANGED <<entities, records, catalog, orphans>>

Stopped(t) ==
  /\ task[t].pc = "stop"
  /\ task[t].k > Len(task[t].rec.fdus)
  /\ Enter(t, "STOPPED", "offloading")
  /\ UNCHANGED <<entities, catalog, fdus, faultVars>>

Offloading(t) ==
  /\ task[t].pc = "offloading"
  /\ Enter(t, "OFFLOADING", "offload")
  /\ UNCHANGED <<entities, catalog, fdus, faultVars>>

(* Mutant: a descriptor that still has instances is offloaded.             *)
MutOffloadFdu(t) ==
  /\ task[t].pc = "offload"
  /\ task[t].k <= Len(Descriptor(t))
  /\ LET ok == Descriptor(t)[task[t].k] \in catalog
     IN \/ /\ ok
           /\ task' = [task EXCEPT ![t].pc = "remove"]
           /\ UNCHANGED faults
        \/ Refused(t, ok)
  /\ UNCHANGED <<entities, records, catalog, fdus, orphans>>

(* offload_fdu: the descriptor exists and has no instance, and then the    *)
(* descriptor is removed.                                                  *)
OffloadFdu(t) ==
  /\ task[t].pc = "offload"
  /\ task[t].k <= Len(Descriptor(t))
  /\ LET f == Descriptor(t)[task[t].k]
         ok == f \in catalog /\ \A y \in fdus : y.fdu # f
     IN \/ /\ ok
           /\ task' = [task EXCEPT ![t].pc = "remove"]
           /\ UNCHANGED faults
        \/ Refused(t, ok)
  /\ UNCHANGED <<entities, records, catalog, fdus, orphans>>

RemoveFdu(t) ==
  /\ task[t].pc = "remove"
  /\ catalog' = catalog \ {Descriptor(t)[task[t].k]}
  /\ Proceed(t, "offload", task[t].k + 1)
  /\ UNCHANGED <<entities, records, fdus, orphans>>

Offloaded(t) ==
  /\ task[t].pc = "offload"
  /\ task[t].k > Len(Descriptor(t))
  /\ Finish(t, [task[t].rec EXCEPT !.status = "OFFLOADED"])
  /\ UNCHANGED <<entities, catalog, fdus, faultVars>>

(* Mutant: a failed task is logged and nothing else.                       *)
MutFailedSilently(t) ==
  /\ task[t].pc = "failed"
  /\ task' = [task EXCEPT ![t] = IdleTask]
  /\ UNCHANGED <<entities, records, catalog, fdus, faultVars>>

(* Mutant: the record of a failed entity drops its list altogether.        *)
MutFailedNoList(t) ==
  /\ task[t].pc = "failed"
  /\ Finish(t, [task[t].rec EXCEPT !.status = "ERROR", !.fdus = None])
  /\ UNCHANGED <<entities, catalog, fdus, faultVars>>

(* The caller of a failed task writes the record it kept, with an error.   *)
Failed(t) ==
  /\ task[t].pc = "failed"
  /\ Finish(t, [task[t].rec EXCEPT !.status = "ERROR", !.fdus = task[t].kept])
  /\ UNCHANGED <<entities, catalog, fdus, faultVars>>

(* An agent crashes, and the tasks S it runs are gone with what they know. *)
Crash(S) ==
  /\ Fault
  /\ S # {} /\ \A t \in S : task[t].pc # "idle"
  /\ task' = [t \in Tasks |-> IF t \in S THEN IdleTask ELSE task[t]]
  /\ orphans' = orphans \cup
       {r.uuid : r \in {q \in records : \E t \in S :
                          task[t].rec # None /\ task[t].rec.uuid = q.uuid}}
  /\ UNCHANGED <<entities, records, catalog, fdus>>

-----------------------------------------------------------------------------

TaskStep(t) ==
  \/ Spawn(t) \/ Onboard(t) \/ Onboarded(t) \/ Starting(t)
  \/ Define(t) \/ Configure(t) \/ Start(t) \/ Running(t)
  \/ Stopping(t) \/ Stop(t) \/ Clean(t) \/ Undefine(t) \/ Stopped(t)
  \/ Offloading(t) \/ OffloadFdu(t) \/ RemoveFdu(t) \/ Offloaded(t)
  \/ Failed(t) \/ RemoveEntity(t)

Next ==
  \/ \E e \in Entities : onboard_entity(e)
  \/ \E t \in Tasks :
       \/ \E e \in Entities : schedule_entity(t, e)
       \/ \E r \in records : deschedule_entity(t, r)
       \/ \E e \in Entities : offload_entity(t, e)
       \/ TaskStep(t)
  \/ \E S \in SUBSET Tasks : Crash(S)

Spec == Init /\ [][Next]_vars

(* Every spawned task is eventually polled.                                *)
FairSpec == Spec /\ \A t \in Tasks : WF_vars(TaskStep(t))

-----------------------------------------------------------------------------
(* Properties                                                              *)

InstancesOf(i) == {y \in fdus : y.uuid[1] = i}

(* An entity instance that is RUNNING has one running FDU instance for     *)
(* every FDU of its descriptor, and lists exactly these: what the record   *)
(* lists is what a later deschedule_entity can take down.                  *)
RunningComplete ==
  \A r \in records : r.status = "RUNNING" =>
    /\ Len(r.fdus) = Len(FdusOf[r.id])
    /\ \A k \in DOMAIN r.fdus :
         [uuid |-> r.fdus[k], fdu |-> FdusOf[r.id][k], status |-> "RUNNING"]
           \in fdus
    /\ Cardinality(InstancesOf(r.uuid)) = Len(r.fdus)

(* An OFFLOADED entity instance has left no FDU instance behind, whatever  *)
(* failed while it was brought up: the list of FDU instances of a failed   *)
(* entity is lost, but offload_fdu then refuses to remove the descriptor   *)
(* and the task never gets to OFFLOADED.                                   *)
NothingLeft ==
  \A r \in records : r.status = "OFFLOADED" => InstancesOf(r.uuid) = {}

(* The statuses an entity instance goes through are those of the abstract  *)
(* life cycle, in their order: no task overwrites the record of another,   *)
(* and an instance whose task died with its agent, in whatever status, is  *)
(* taken down from the beginning.                                          *)
Status(i) ==
  IF \E r \in records : r.uuid = i
    THEN (CHOOSE r \in records : r.uuid = i).status ELSE "none"

Abs == INSTANCE EntityAbstract WITH st <- [i \in Instances |-> Status(i)]
EntityLifecycle == Abs!Spec

(* An entity instance that is brought up or taken down has a final status  *)
(* in the end, unless the agent crashes: then it can still be taken down,  *)
(* with the same promise.                                                  *)
Settled == {"RUNNING", "OFFLOADED", "ERROR"}

Settles ==
  \A i \in Instances :
    Status(i) \notin Settled \cup {"none"} ~>
      Status(i) \in Settled \/ i \in orphans

(* agent.rs:1065-1066 says that the task of deschedule_entity is "in       *)
(* charge of terminating all the FDU instances composing the entity":      *)
(* once the record is STOPPED, all of them are gone.                       *)
StoppedTerminatesAll ==
  \A r \in records : r.status = "STOPPED" => InstancesOf(r.uuid) = {}
=============================================================================
