--------------------------- MODULE MCCredentials ---------------------------
(***************************************************************************)
(* A small instance of Credentials for TLC.                                *)
(***************************************************************************)
EXTENDS Credentials, TLC

Key(alg, secret) == [alg |-> alg, secret |-> secret]

(* Workload A has an ES256 and an EdDSA key over the same secret. *)
keyA   == Key("ES256", "a")
keyA2  == Key("EdDSA", "a")
keyB   == Key("EdDSA", "b")
MCForeignKey == Key("EdDSA", "f")
MCBootKeys   == <<Key("EdDSA", "i1"), Key("EdDSA", "i2")>>

MCOneBoot    == <<Key("EdDSA", "i1")>>

MCKeys         == {keyA, keyA2, keyB, MCForeignKey, MCBootKeys[1], MCBootKeys[2]}
MCWorkloadKeys == {keyA, keyB}
MCWorkloadKey  == {keyA}

(* The JWKs asked for: good ones, and one whose alg is not its curve's. *)
MCCnfJwks  == {FromVerifyingKey(keyA), [FromVerifyingKey(keyA) EXCEPT !.alg = {"EdDSA"}]}
MCCnfA     == {FromVerifyingKey(keyA)}

MCTtls      == {{}, {0}, {1}, {3}}
MCDefault   == {{}}
MCVerifiers == {"b", "c"}
MCOne       == {"b"}
MCAudience  == [v \in {"b", "c"} |-> "https://" \o v]
MCTxnTokens == {{}, {"txn"}}
MCNoTxn     == {{}}
Value(text, padded) == [text |-> text, padded |-> padded]
MCOthers    == {<<>>, "authorization" :> Value("x", FALSE),
                "authorization" :> Value("x", TRUE), "authorization" :> Value("y", FALSE)}
MCPadded    == {<<>>, "authorization" :> Value("x", FALSE),
                "authorization" :> Value("x", TRUE)}
MCMaxLifetime == {2}
NoneOf      == {}
=============================================================================
