------------------------ MODULE MCInstanceNetworking ------------------------
(* Model-checking instances of InstanceNetworking.                         *)
EXTENDS InstanceCalls

CONSTANTS h1, h2, x1, x2, x3, cpA, cpB

(* An interface at a connection point and one in the default namespace; a  *)
(* lone interface; and a descriptor whose second interface names no        *)
(* connection point.                                                       *)
MixedCps == x1 :> <<cpA>> @@ x2 :> <<>> @@ x3 :> <<>>
MixedIntfs == x1 :> <<cpA, None>> @@ x2 :> <<None>> @@ x3 :> <<cpB>>
TwoKinds == x1 :> h1 @@ x2 :> h2 @@ x3 :> h2

(* The first plugin draws the uuids below 20, enough for one network; the  *)
(* other one has enough for two.                                           *)
BelowTwenty ==
  [u \in Ifaces \cup NetNs \cup Cps |-> IF u < 20 THEN h1 ELSE h2]
=============================================================================
