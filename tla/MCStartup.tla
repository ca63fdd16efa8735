------------------------------- MODULE MCStartup -------------------------------
(* Small instances of Startup for TLC: the four tables that init_db and the    *)
(* rows touch and one that nothing else does, in create_all's order, with an   *)
(* index on the table that has the one-running index too.                     *)
EXTENDS Startup

MCTableOrder == <<"collection_runs", "dart_corp_codes", "users", "symbols", "news_items">>
MCIxOf == [ix_collection_runs_started |-> "collection_runs"]
MCIx == DOMAIN MCIxOf
=============================================================================
