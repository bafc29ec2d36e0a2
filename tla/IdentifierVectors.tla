------------------------- MODULE IdentifierVectors -------------------------
(***************************************************************************)
(* The conformance vector of workload identifiers: texts that must parse,  *)
(* with what they decompose into, and texts that must not.                 *)
(***************************************************************************)
EXTENDS WorkloadIdentifier

Text(scheme, rest) == PrefixOf[scheme] \o Octets(rest)

Tilde       == <<126>>
Exclamation == <<33>>
SpaceOctet  == <<32>>

AcceptText(id, text) ==
  [id |-> id, text |-> text, expect |-> "Ok",
   decomposed |-> LET parsed == Identified(text)
                  IN  <<parsed.scheme, TrustDomain(parsed), PathOf(parsed), Origin(parsed)>>]
RejectText(id, text, expect) == [id |-> id, text |-> text, expect |-> expect]

IdentifierAccepts ==
  {AcceptText("spiffe-basic", Text("spiffe", "example.org/workload/api")),
   AcceptText("wimse-basic", Text("wimse", "trust.example.com/service/payment")),
   AcceptText("trust-domain-only", Text("spiffe", "prod.trust.domain")),
   AcceptText("wimse-pchar-path",
              Text("wimse", "example.org/a") \o Tilde \o Octets("b") \o Exclamation
                \o Octets("c$d&e'f(g)h*i+j,k;l=m:n@o")),
   AcceptText("wimse-encoded-reserved", Text("wimse", "example.org/a%2Fb")),
   AcceptText("deep-path", Text("spiffe", "prod.trust.domain/ns/prod-01/sa/foo-service"))}

IdentifierRejects ==
  {RejectText("unsupported-scheme", Octets("https://example.org/x"), "UnsupportedScheme"),
   RejectText("has-query", Text("wimse", "example.org/a?b=c"), "HasQuery"),
   RejectText("has-fragment", Text("wimse", "example.org/a#frag"), "HasFragment"),
   RejectText("has-user-info", Text("wimse", "user@example.org/a"), "HasUserInfo"),
   RejectText("has-port", Text("wimse", "example.org:8443/a"), "HasPort"),
   RejectText("empty-trust-domain", Text("spiffe", "/path"), "EmptyTrustDomain"),
   RejectText("uppercase-trust-domain", Text("spiffe", "Example.org/x"),
              "InvalidTrustDomainChar"),
   RejectText("trailing-slash", Text("spiffe", "example.org/x/"), "EmptyPathSegment"),
   RejectText("empty-path-segment", Text("spiffe", "example.org/x//y"), "EmptyPathSegment"),
   RejectText("dot-segment", Text("spiffe", "example.org/a/../b"), "DotSegment"),
   RejectText("encoded-dot-segment", Text("wimse", "example.org/%2E%2E/api"),
              "NonNormalizedPercentEncoding"),
   RejectText("encoded-unreserved", Text("wimse", "example.org/%61pi"),
              "NonNormalizedPercentEncoding"),
   RejectText("lowercase-escape-hex", Text("wimse", "example.org/a%2fb"),
              "NonNormalizedPercentEncoding"),
   RejectText("malformed-escape", Text("wimse", "example.org/a%zz"), "BadPercentEncoding"),
   RejectText("invalid-path-char",
              Text("wimse", "example.org/a") \o SpaceOctet \o Octets("b"), "InvalidPathChar"),
   RejectText("spiffe-path-charset-is-narrower",
              Text("spiffe", "example.org/a") \o Tilde \o Octets("b"), "InvalidPathChar")}

ParseCode(error) == IF error = "TooLong" THEN "IdentifierTooLong" ELSE error

(* An accepted text has to decompose as recorded, too. *)
IdentifierVerdict(case) ==
  IF Parse(case.text) # "Ok" THEN ParseCode(Parse(case.text))
  ELSE IF case.expect = "Ok" /\ AcceptText(case.id, case.text) # case THEN "Differs"
  ELSE "Ok"
=============================================================================
