----------------------------- MODULE MCPriceCache -----------------------------
(* Small instances of PriceCache for TLC. *)
EXTENDS PriceCache, TLC
=============================================================================
