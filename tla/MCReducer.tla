------------------------------ MODULE MCReducer ------------------------------
(***************************************************************************)
(* The reducer on small workloads.                                         *)
(***************************************************************************)
EXTENDS Reducer
=============================================================================
