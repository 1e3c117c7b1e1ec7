------------------------------- MODULE MCGateway -------------------------------
(* Small instances of Gateway: two users, two secrets, a token that lives one tick. *)
EXTENDS Gateway, TLC

CONSTANTS h1, h2

Keys == {"API_PORT", "ETH_NODE_URL", "DB_CONNECTION_URL", "JWT_SECRET"}
With(s) == [k \in Keys |-> IF k = "JWT_SECRET" THEN s ELSE "set"]
TwoEnvs == {With("s1"), With("s2")}
AllEnvs == TwoEnvs \cup {[k \in Keys \ {"ETH_NODE_URL"} |-> "set"]}
OneEnv == {With("s1")}

Passwords == ("alice" :> "alice" @@ "bob" :> "bob")
SomeBodies == {<<"alice", "">>, <<"alice", "alice">>, <<"eve", "alice">>}
OneLogin == {<<"alice", "alice">>}
Strangers == {<<"alice", 2, "s0">>}

Lists == {<<"">>, <<h1, "bad">>}

\* Items: the bytes of a hash, its text, none.
Strings == ("bytes" :> h1 @@ "text" :> h2 @@ "empty" :> "bad")
Items == {<<"raw">>, <<"empty">>, <<"bytes">>}
TextItems == {<<"text">>}
None == {}

\* core_test.go calls what ParseRLP makes of a list of hashes that are written as text "the
\* transaction hashes": an item stands for the transaction it spells.
Spells == ("bytes" :> h1 @@ "text" :> h1)
RlpNamesTransactions ==
    \A r \in Req : input[r][1] = "rlp" /\ hashes[r] # <<>> =>
        \A i \in DOMAIN hashes[r] : hashes[r][i] = Spells[input[r][2][i]]
=============================================================================
