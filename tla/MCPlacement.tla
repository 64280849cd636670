----------------------------- MODULE MCPlacement -----------------------------
(* Model-checking instance of Placement.                                   *)
EXTENDS Placement, Sequences, SequencesExt, TLC

CONSTANTS c1, n1, n2, f1, f2, eth, wlan

Face(kind, parent) == [vif_kind |-> kind, parent |-> parent]

(* f1 asks for little; f2 for two interfaces of the node and a disk.       *)
TwoFdus ==
  f1 :> [cpu_min_count |-> 1, ram_size_mb |-> 1, storage_size_mb |-> 1,
         interfaces |-> <<Face("VIRTIO", wlan), Face("PHYSICAL", eth)>>] @@
  f2 :> [cpu_min_count |-> 2, ram_size_mb |-> 0, storage_size_mb |-> 2,
         interfaces |-> <<Face("BRIDGED", wlan), Face("BRIDGED", None)>>]

(* A small node, and one with 258 processors and another interface.        *)
TwoNodes ==
  n1 :> [cpu |-> 1, interfaces |-> {eth}] @@
  n2 :> [cpu |-> 258, interfaces |-> {eth, wlan}]

AllSuited == {n1, n2} \X {f1, f2}

(* One agent may restart.                                                  *)
FirstRestarts == n1 :> 2 @@ n2 :> 1

(* check_fdu_compatibility selects the interfaces and folds over them.     *)
FoldedFaces(n, f) ==
  FoldLeft(LAMBDA res, x : HasParent(n, x), TRUE,
           SelectSeq(Descriptor[f].interfaces,
                     LAMBDA x : x.vif_kind \in {"BRIDGED", "PHYSICAL"}))

ASSUME FacesFold == \A n \in Nodes, f \in Fdus : Faces(n, f) = FoldedFaces(n, f)

LittleMemoryOrMuch == {[ram |-> 0, disk |-> 2], [ram |-> 1, disk |-> 1]}
=============================================================================
