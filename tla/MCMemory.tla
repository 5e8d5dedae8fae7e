------------------------------ MODULE MCMemory ------------------------------
(***************************************************************************)
(* Instances of Memory for TLC: tables of four entries, directories of     *)
(* five, one page of the table pool per table or directory.                *)
(***************************************************************************)
EXTENDS Memory
=============================================================================
