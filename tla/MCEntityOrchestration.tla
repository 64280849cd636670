------------------------ MODULE MCEntityOrchestration ------------------------
(* Model-checking instance of EntityOrchestration.                         *)
EXTENDS EntityOrchestration, TLC

CONSTANTS e1, f1, f2

(* One entity of two FDUs: its instances share their descriptors.          *)
TwoFdus == e1 :> <<f1, f2>>
=============================================================================
