------------------------------ MODULE MCExt2 ------------------------------
(***************************************************************************)
(* Instances of Ext2 for TLC: two groups of which the last is short.       *)
(***************************************************************************)
EXTENDS Ext2Inv, Fsck, TLC

\* Names are only compared for equality.
NameSymmetry == Permutations(Names)
==============================================================================
