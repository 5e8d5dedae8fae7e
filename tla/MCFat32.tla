------------------------------ MODULE MCFat32 ------------------------------
(***************************************************************************)
(* Instances of Fat32 for TLC.                                             *)
(***************************************************************************)
EXTENDS Fat32

\* Names: B is above D in both bytes, and nothing else is above anything.
A == <<2, 2>>
B == <<5, 3>>
D == <<3, 3>>

\* One file of up to three clusters: letters 1, separators 3 and newlines 2.
OneFile == {<<A>>}
Writes == {<<1>>, <<3, 1, 2>>}
OneLetter == {<<1>>}
Fresh == {FreshDisk}

\* Two files in the root, and crashes.
TwoFiles == {<<A>>, <<B>>}
Appends == {<<1>>, <<1, 2, 1>>}
FreshOrGrown == {FreshDisk, GrownDisk(A)}

\* A file in the root and one in a directory, a byte each.
FilesAndDir == {<<B>>, <<D, A>>}
OneDir == {<<D>>}
OneByte == {<<0>>}
=============================================================================
