-------------------------- MODULE MCHttpSigSession --------------------------
(***************************************************************************)
(* Small instances of HttpSigSession for TLC.                              *)
(***************************************************************************)
EXTENDS HttpSigSession

CONSTANTS wA, wA2, wB, wS  \* WITs of workload A (two, same key), B, the server

MCWits      == {wA, wA2, wB, wS}
MCWitKey    == [w \in MCWits |->
                  [id |-> CASE w \in {wA, wA2} -> "keyA" [] w = wB -> "keyB"
                            [] OTHER -> "keyS",
                   alg |-> IF w = wB THEN "EdDSA" ELSE "ES256"]]
MCHopKey    == [id |-> "keyHop", alg |-> "EdDSA"]
MCServers   == {"transfer", "audit"}
MCAudiences == [s \in MCServers |-> IF s = "transfer" THEN {"aud-t"} ELSE {"aud-a"}]
MCServerWit == [s \in MCServers |-> wS]

Line(method, path, query, authority) ==
  [method |-> method, path |-> path, query |-> query, authority |-> authority]
Plainly(line, headers, body) ==
  [method |-> line.method, path |-> line.path, query |-> line.query,
   authority |-> line.authority, headers |-> headers, body |-> body]

Post    == Plainly(Line("POST", "/t", {}, "b"), "content-type" :> <<"json">>, {"b1"})
Get     == Plainly(Line("GET", "", {""}, "b"), "authorization" :> <<"basic", "x">>, {})
Connect == Plainly(Line("CONNECT", "", {}, "b:1"), <<>>, {})

MCPlain       == {Post, Get, Connect}
MCPlainOne    == {Post}
MCPlainTwo    == {Post, Connect}
MCExtras      == {Authority, Path, Component("content-type")}
MCHopHeaders  == {<<"x-forwarded", <<"h">>>>, <<"authorization", <<"x">>>>,
                  <<WIT_HEADER, <<wB>>>>}
MCReplyHeaders == {<<"content-type", <<"json">>>>}
MCLines       == {Line("POST", "/admin", {}, "b"), Line("GET", "/", {}, "proxy"),
                  Line("CONNECT", "", {}, "c:2"), Line("CONNECT", "/", {}, "b:1")}
MCBodies      == {{}, {"b2"}}
MCMaxAge      == {2}
NoneOf        == {}
=============================================================================
