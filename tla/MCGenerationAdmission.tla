----------------------- MODULE MCGenerationAdmission -----------------------
(***************************************************************************)
(* GenerationAdmission for TLC.  Calls run the same code, and keys and     *)
(* message ids are only compared: permuting each of them is a symmetry.    *)
(***************************************************************************)
EXTENDS GenerationAdmission, TLC

AdmissionSymmetry ==
    Permutations(Calls) \cup Permutations(Keys) \cup Permutations(Messages)
=============================================================================
