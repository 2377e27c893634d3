---------------------------- MODULE MCPyBindings ----------------------------
(***************************************************************************)
(* PyBindings with two trees at a time, such as a Metadata and the type of *)
(* one of its instance variables, and three variables.                     *)
(***************************************************************************)
EXTENDS PyBindings, TLC

CONSTANTS i1, i2, i3, i4, i5, x, y, z, t, u

Symmetry == Permutations(Vars) \cup Permutations(Trees)
=============================================================================
