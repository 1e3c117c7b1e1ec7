----------------------------- MODULE MCFakeClient -----------------------------
(* The test "some transactions fail to fetch" of node_service_test.go. *)
EXTENDS FakeClient

CONSTANTS h0, h1, tx1

\* What BeforeEach sets up, for two transactions of which the first cannot be fetched.
SomeFail == <<
    <<"Returns", "NetworkID", 0, "chain">>,
    <<"ReturnsOnCall", "TransactionReceipt", 0, "receipt">>,
    <<"ReturnsOnCall", "TransactionReceipt", 1, "receipt">>,
    <<"ReturnsOnCall", "TransactionByHash", 0, "error">>,
    <<"ReturnsOnCall", "TransactionByHash", 1, tx1>> >>

\* node_service_test.go:120: "fetching transaction %q: %s", hashes[0], testErr.Error(): when
\* every goroutine is done, the error names the first hash.
FirstHashFails ==
    (\A h \in Hash : at[h] = "done") => answer[h0]["TransactionByHash"] = "error"
=============================================================================
