------------------------------- MODULE MCVdi -------------------------------
(* Small images for TLC: three blocks of one or two sectors.                 *)
EXTENDS Vdi
==============================================================================
