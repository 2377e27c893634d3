---------------------------- MODULE MCNodeFactory ----------------------------
(***************************************************************************)
(* A demangler for TLC.                                                    *)
(***************************************************************************)
EXTENDS NodeFactory, TLC
CONSTANTS a, b, tree, label
MCPlaces == {6, 9, 14}
MCView == <<factory, stack, jobs, node, text, Jobs!vars>>
=============================================================================
