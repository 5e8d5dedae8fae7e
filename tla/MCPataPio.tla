----------------------------- MODULE MCPataPio -----------------------------
(***************************************************************************)
(* Instances of PataPio for TLC.                                           *)
(***************************************************************************)
EXTENDS PataPio

\* Two sectors to write, of four bytes that are all different.
FourBytes == {[b \in 0 .. 3 |-> 5 + b], [b \in 0 .. 3 |-> 9 - b]}
=============================================================================
