------------------------------ MODULE MCImports ------------------------------
(***************************************************************************)
(* Model-checking Imports.                                                 *)
(***************************************************************************)
EXTENDS Imports

\* Both tracks may be found as the same id, the second not for certain.
BothOne == [t \in Track |-> IF t = 1 THEN {1} ELSE {1, NoId, None}]

\* Each track is found as an id of its own.
OneEach == [t \in Track |-> {t}]
=============================================================================
