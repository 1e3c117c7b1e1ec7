------------------------------ MODULE MCFethcher ------------------------------
(* Small instances of Fethcher, of one or two transactions and no aliases. *)
EXTENDS Fethcher, TLC

CONSTANTS h1, h2

One == {h1}
Two == {h1, h2}
Identity == [h \in Canonical |-> h]

OneList == {<<h1>>}
TwoLists == {<<h1>>, <<h1, h2>>}

\* Requests, users and blocks are interchangeable.
Symmetry == Permutations(Req) \cup Permutations(My) \cup Permutations(User) \cup Permutations(Block)
=============================================================================
