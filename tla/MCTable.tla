------------------------------- MODULE MCTable -------------------------------
(***************************************************************************)
(* Tables of up to two columns and three records.  A table grows by two    *)
(* rows, so that it grows once; one value beside NULL tells four records   *)
(* of two cells apart.                                                     *)
(***************************************************************************)
EXTENDS Table
==============================================================================
