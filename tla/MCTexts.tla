------------------------------- MODULE MCTexts -------------------------------
(***************************************************************************)
(* A small instance of Texts for TLC: limits that a few pieces exceed, and *)
(* signatures of two octets to each number.                                *)
(***************************************************************************)
EXTENDS Texts

(* The last ones are "~", "!", a space and an octet outside ASCII. *)
MCPieces ==
  {Octets(p) : p \in {"a", "A", "/", ".", "%2F", "%2f", "%41", "%4J", "%", ":", "?"}}
    \cup {<<126>>, <<33>>, <<32>>, <<195>>}

MCTokens ==
  {WimseTag, Equals, DQuote, Backslash, Comma, Semicolon, Open, Close, Space}
MCLowerWords == {"a", WimseTag, "content-type", "connect"}

(* The last one is a line of the signature base, for a value to pass for. *)
MCArgumentPieces ==
  {<<c>> : c \in {"a", "A", Space, LineFeed, "/", "?", Comma, ":"}}
    \cup {<<LineFeed, DQuote, "@path", DQuote, ":", Space, "/">>}
MCLowerOf == [A |-> "a", CONNECT |-> "connect"] @@
             ("Content-Type" :> "content-type") @@ ("@METHOD" :> "@method")
=============================================================================
