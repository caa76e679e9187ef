------------------------------- MODULE MCTraining -------------------------------
(***************************************************************************)
(* Instances of Training for TLC: a training, a validation, a training.    *)
(***************************************************************************)
EXTENDS Training, TLC

CONSTANTS a, b

Slots == {a, b}
SlotSymmetry == Permutations(Slots)
=============================================================================
