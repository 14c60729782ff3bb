------------------------------ MODULE MCServer ------------------------------
(***************************************************************************)
(* Server for TLC: three descriptors that devices and subscribers share,   *)
(* reused after the sweep.  Descriptors are interchangeable, which the     *)
(* safety-only run of the wrapped ids makes use of.                        *)
(***************************************************************************)
EXTENDS Server, TLC

FdSymmetry == Permutations(Fds)
=============================================================================
