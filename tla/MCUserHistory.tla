---------------------------- MODULE MCUserHistory ----------------------------
(* Small instances of UserHistory: two hashes, with batches of one, two and a repetition. *)
EXTENDS UserHistory

CONSTANTS h1, h2

MCHash == {h1, h2}

\* What plain requests bring back, and what a request that repeats a hash does.
Plain == {<<h1>>, <<h1, h2>>}
Mixed == {<<h1>>, <<h1, h2>>, <<h2, h2>>}
=============================================================================
