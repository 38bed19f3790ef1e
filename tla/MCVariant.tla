----------------------------- MODULE MCVariant -----------------------------
(***************************************************************************)
(* Two boxes, three heap blocks, one fixed-width and two Slice types, and  *)
(* byte strings of length at most 2 over {NUL, 1}.                         *)
(***************************************************************************)
EXTENDS Variant, SequencesExt, TLC

MCBits == [t \in {"BOOL", "INT8", "UINT8", "INT16", "UINT16", "INT32", "UINT32",
                  "INT64", "UINT64", "INT128"} |-> 4]
MCStrs == BoundedSeq({0, 1}, 2)

Symmetry == {p @@ q : p \in Permutations(Variants), q \in Permutations(Blocks)}
=============================================================================
