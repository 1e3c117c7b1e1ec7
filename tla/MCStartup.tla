------------------------------ MODULE MCStartup ------------------------------
(* Two of the three tables of Start, the last one among them, and two of its four users. *)
EXTENDS Startup

MCTables == <<"users", "user_transactions">>
=============================================================================
