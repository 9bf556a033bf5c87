--------------------------- MODULE MCMapiFraming ---------------------------
(***************************************************************************)
(* MapiFraming for TLC: bytes of four values, blocks of at most two bytes, *)
(* so that headers use both of their bytes; messages that are empty, that  *)
(* fill one block, and that are one byte past two blocks.                  *)
(***************************************************************************)
EXTENDS MapiFraming

MCPayloads == {[i \in 1..n |-> i % ByteBase] : n \in {0, 2, 5}}
=============================================================================
