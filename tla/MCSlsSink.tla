----------------------------- MODULE MCSlsSink -----------------------------
EXTENDS SlsSink

(* The permits are interchangeable.                                        *)
SlotSymmetry == Permutations(Slot)
=============================================================================
