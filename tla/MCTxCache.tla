------------------------------ MODULE MCTxCache ------------------------------
(* Small instances of TxCache: two transactions and one alias of the first. *)
EXTENDS TxCache

CONSTANTS h1, h2, a1

MCCanonical == {h1, h2}
MCHash == MCCanonical \cup {a1}
MCHexToHash == [h \in MCHash |-> IF h = a1 THEN h1 ELSE h]

\* As clients are meant to ask, and as they may.
Mixed == {<<h1>>, <<h1, h2>>, <<h1, h1>>, <<a1, h2>>}
=============================================================================
