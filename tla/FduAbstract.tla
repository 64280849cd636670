----------------------------- MODULE FduAbstract -----------------------------
(***************************************************************************)
(* What the life cycle of FDU instances promises to an observer of one     *)
(* store: an instance appears DEFINED, moves between DEFINED, CONFIGURED   *)
(* and RUNNING one transition at a time, and can disappear only from       *)
(* DEFINED; once gone its uuid never comes back.                           *)
(***************************************************************************)
CONSTANT Instances
VARIABLE st

States == {"none", "DEFINED", "CONFIGURED", "RUNNING", "gone"}

Transitions ==
  {<<"none", "DEFINED">>, <<"DEFINED", "CONFIGURED">>,
   <<"CONFIGURED", "RUNNING">>, <<"RUNNING", "CONFIGURED">>,
   <<"CONFIGURED", "DEFINED">>, <<"DEFINED", "gone">>}

Init == st = [i \in Instances |-> "none"]

Move(i, s) ==
  /\ <<st[i], s>> \in Transitions
  /\ st' = [st EXCEPT ![i] = s]

Next == \E i \in Instances, s \in States : Move(i, s)

Spec == Init /\ [][Next]_st
=============================================================================
