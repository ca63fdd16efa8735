------------------------------ MODULE MCAiSummary ------------------------------
(* A small instance of AiSummary for TLC. *)
EXTENDS AiSummary, TLC
=============================================================================
