----------------------------- MODULE MCPartList -----------------------------
(* Model-checking root for PartList; the instances are the cfg files. *)
EXTENDS PartList
=============================================================================
