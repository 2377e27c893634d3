--------------------------- MODULE MCRefIterator ---------------------------
(***************************************************************************)
(* RefIterator on the method lists of three classes, two of the same size, *)
(* whose iterators therefore compare equal, and an empty one; a program    *)
(* with two views and two for statements, one inside the other or side by  *)
(* side.                                                                   *)
(***************************************************************************)
EXTENDS RefIterator

CONSTANTS encryptor, decryptor, plain, v, w, outer, inner

MCElements == [c \in Containers |->
    IF c = plain THEN <<>> ELSE << <<c, 1>>, <<c, 2>> >>]

=============================================================================
