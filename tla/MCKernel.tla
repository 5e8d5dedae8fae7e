------------------------------ MODULE MCKernel ------------------------------
(***************************************************************************)
(* Instances of Kernel for TLC.                                            *)
(***************************************************************************)
EXTENDS Kernel

\* Memories from 3 to 6 pages, and from 3 to 9 pages of the pool.
Sizes == (0 .. 3) \X (0 .. 6)
Whole == {<<0, 0>>}
=============================================================================
