-------------------------- MODULE MCMonetConnection --------------------------
(***************************************************************************)
(* MonetConnection for TLC.  Three requests let an abandoned one be        *)
(* followed by two more; two chunks and two blocks let a flush and a read  *)
(* be interrupted half way.                                                *)
(***************************************************************************)
EXTENDS MonetConnection
=============================================================================
