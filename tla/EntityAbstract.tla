--------------------------- MODULE EntityAbstract ---------------------------
(***************************************************************************)
(* The life cycle that im/entity.rs (EntityStatus) and the comments of     *)
(* schedule_entity and deschedule_entity promise for every entity          *)
(* instance: it is brought up through ONBOARDING, ONBOARDED, STARTING and  *)
(* RUNNING, taken down through STOPPING, STOPPED, OFFLOADING and           *)
(* OFFLOADED, and may fail at any point.  Taking down starts again from    *)
(* any settled status, and from any status once the task that was at work  *)
(* has died with its agent.                                                *)
(***************************************************************************)
EXTENDS Naturals

CONSTANT Instances
VARIABLES
  st,      \* the status of each instance
  orphans  \* instances whose task has died

Successor == [none       |-> "ONBOARDING",
              ONBOARDING |-> "ONBOARDED",
              ONBOARDED  |-> "STARTING",
              STARTING   |-> "RUNNING",
              RUNNING    |-> "STOPPING",
              ERROR      |-> "STOPPING",
              OFFLOADED  |-> "STOPPING",
              STOPPING   |-> "STOPPED",
              STOPPED    |-> "OFFLOADING",
              OFFLOADING |-> "OFFLOADED"]

Init ==
  /\ st = [i \in Instances |-> "none"]
  /\ orphans = {}

Advance(i) == st' = [st EXCEPT ![i] = Successor[@]] /\ UNCHANGED orphans

Break(i) ==
  /\ st[i] # "none"
  /\ st' = [st EXCEPT ![i] = "ERROR"]
  /\ UNCHANGED orphans

Orphan(S) ==
  /\ \A i \in S : st[i] # "none"
  /\ orphans' = orphans \cup S
  /\ UNCHANGED st

TakeDown(i) ==
  /\ i \in orphans
  /\ st' = [st EXCEPT ![i] = "STOPPING"]
  /\ orphans' = orphans \ {i}

Next ==
  \/ \E i \in Instances : Advance(i) \/ Break(i) \/ TakeDown(i)
  \/ \E S \in SUBSET Instances : Orphan(S)

Spec == Init /\ [][Next]_<<st, orphans>>
=============================================================================
