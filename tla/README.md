# Verification of wimsey

TLA+ models of wimsey, the TLC runs that check them on small instances, and
proofs of their properties for every instance. Everything is translated
from the Rust sources under `crates/`; `PROJECT.json` names, for every
definition, the lines that it stands for.

## 1. The system

wimsey is a set of libraries and commands for workload identity: an issuer hands
out tokens that bind a workload's name to its key, workloads prove that they
hold that key, per request, with a signature over the HTTP message, with a proof
token or with a certificate, and recipients verify. The libraries keep no state:
what is stateful, and hard, is what happens *between* the calls, on the network,
on disk, across restarts and between clocks.

| Component | State | Operations | Talks to | Hard behaviour | What makes it correct |
| --- | --- | --- | --- | --- | --- |
| `httpsig` (`message.rs`, `signature.rs`) | none of its own; the message and its two signature fields | derive components, build the base, `sign`, `select_member`, `verify`, the request and response profiles | keys from `jose` | intermediaries add to, rewrite and re-sign a message; several signatures in one field; u64 time arithmetic | a recipient acts on nothing its client did not sign; what is left alone is accepted; a response answers its request |
| `wimsey httpsig` (`cli/src/httpsig.rs`) | none; arguments in, fields out | `run_sign`, `run_verify`, the checks of their arguments | `httpsig`, `wit` | fills in fields before verifying; two people spell one request differently | the fields it fills in are the ones the client signed; a signed text stands for one request |
| `wimsey wit`, `wimsey wpt` (`main.rs`) | none; key files in, tokens out | `wit issue`, `wit verify`, `wpt new`, `wpt verify` | `wit`, `wpt` | any clock and any ttl; a proof over a token that is not its minter's | as for `wit` and `wpt` |
| `jose` | none | algorithms, keys, JWK conversions | everything | the halves of a JWK disagree | a key signs only as the algorithm it is for |
| `wit`, `wpt` | none; tokens circulate | `issue`, `verify`, thumbprints, bindings | `jose` | tokens are public and recombined; a Txn-Token comes and goes; lifetimes at the end of the u64 | a proof is good for one WIT, recipient and context, and for its lifetime |
| `issuer` | the signing key, configured or ephemeral | `issue_wit`, `jwks`, start, `healthz` | `wit`, its HTTP clients | restart, recipients with an older key, ttl bounds | what it issued stays good across a restart with a configured key, and with an ephemeral one under no key but its own |
| `mtls` (`wic.rs`) | none; a CA is its key and a window | CA from a key, `issue`, `verify`, DER conversions | `jose`, `identifier` | CAs rebuilt with other windows, certificates of other tools | the identifier accepted is the one certified, inside both windows |
| `wimsey key`, `wimsey wic` (`key.rs`, `main.rs`) | key and certificate files | `generate`, `public`, `issue`, `verify`, `write_owner_only` | the file system | several commands at a time, kills, power loss, failing calls, hand-edited files | files are whole; a workload advertises the key it signs with |
| `identifier` | none | `parse`, the accessors | everything that names a workload | two spellings of one name | an accepted identifier has one spelling, and no normal one is turned away |
| `conformance` | a directory of vectors and its manifest | `generate`, `run` | every library | regeneration that stops half way, drift between manifest and files, regressions that no vector notices | green means that everything listed was read whole and held; the generated suite agrees with the verifiers and tells regressions apart |
| fuzz targets | none | `identifier_parse` and others | the parsers | | the claims of `identifier_parse` are checked; `jwk_parse` asks for the round trip of a key, which `Jose` has by its symbolic coordinates; the others look for panics |
| demo, workflows, scripts | none | straight-line scripts | every library | | not modelled |

The hazards are listed in `PROJECT.json` at the lines where they bite, each with
the properties that would catch it.

## 2. The modules

| Module | Models | Used by |
| --- | --- | --- |
| `U64` | checked and saturating u64 arithmetic with a small maximum | the time checks everywhere |
| `HttpMessage` | `message.rs`: components, their values in a request and in an exchange, the signature base, content digests | `HttpSig` |
| `HttpSig` | `signature.rs`: parameters, both profiles, mandatory components, selection, `sign`, `verify` | `HttpSigSession` |
| `HttpSigSession` | clients (`run_sign`), intermediaries, recipients (`run_verify`), signed responses, clocks | |
| `AuthenticExchange` | abstract: ask, deliver, answer, complete | refined by `HttpSigSession` |
| `Jose` | algorithms, JWK conversions, compact JWS | `Wit`, `Wpt`, `Wic`, `KeyFile` |
| `Wit`, `Wpt` | issue and verify of the two tokens | `Credentials` |
| `Credentials` | issuer with restarts, workloads, circulation and damage of tokens, recipients (`wpt verify`) | |
| `OwnerOnlyFile` | `write_owner_only`, one action per system call and per failure | |
| `DurableFiles` | abstract: a write is one step, takes effect or not, and says which | refined by `OwnerOnlyFile` |
| `Wic`, `KeyFile` | certificates and key files | `Commands` |
| `Commands` | `wimsey key` and `wimsey wic` on shared files; an output is one atomic step, which is what `OwnerOnlyFile` was shown to implement | |
| `WorkloadIdentifier` | `identifier/src/lib.rs`, octet by octet: `parse` with its errors in their order, the accessors; and, to compare with, RFC 3986 normalization and the grammar of the two schemes | `Texts` |
| `StructuredFields` | `signature.rs`: the writer and the three hand-written scanners of `Signature-Input` and `Signature`, token by token | `RequestText`, `Texts` |
| `RequestText` | `cli/src/httpsig.rs`: trimming, checking and lowercasing of arguments, `build_request`, the covered components; `signature.rs`: the text of the signature base, line after line | `Texts` |
| `EcdsaDer` | `wic.rs`: ECDSA signatures from fixed width to DER and back | `Texts` |
| `Texts` | texts that grow step by step, and what has to hold of each | |
| `TokenVectors`, `HttpSigVectors`, `MtlsVectors`, `IdentifierVectors` | `generate.rs` and the checks of `run.rs`: every positive case of a suite, each of its negative cases with the recorded reason, and what the modelled verifiers make of it | `Suite` |
| `Suite` | the five suites, the order of manifest and generator, and implementations that look past one argument | `MCConformance` |
| `Conformance` | generator, runner and people on one directory of vectors | |
| `MC*` | the small instances | |
| `*_proofs` | the theorems about the module of that name; those about `HttpSigSession` are in three parts: forth, whatever is intact gets there, and back | |
| `StructuredFields_proofs` | begins with what all proofs about texts rest on: what a recursive function computes, for texts of any length | `WorkloadIdentifier_proofs`, `Texts_proofs` |

Signatures are symbolic: a signature is a record of the key and of what was
signed, and is equal to another only if both are. That the cryptography is sound
is an assumption of every module. Outside of `Texts`, texts are abstracted to
what they hold: a header value is a member of a small set, a JWT a record of its header, claims
and signature with a flag for whether its text is well formed, a PEM file the
certificate. Parsing shows up where it decides something: parameters are parsed
in order with the last of a name winning, a dictionary with a repeated label is
refused, a value with a line break has no signature base, a JWK's `alg` has to
agree with its shape.

`Texts` is what entitles the others to that. Everywhere else two signature bases
are equal only if their parts are; that no part of a base *text* can pass for
another is `TextBindsRequest`. Everywhere else a field is a sequence of members;
that a field's text reads back as the members that were written is
`FieldReadsBack`, which compares the scanners with `HttpSig!DictionaryOk` and
`HttpSig!HasWimseTag`. Everywhere else identifiers are compared as values; that
this is sound is `AcceptedIsNormal`.

Some errors are told apart in the code and not here, because no property and no
vector depends on which one it is; the input is refused either way. A token whose
text is malformed, in its size, its Base64 or the length of its signature, is
`MalformedToken` (`JwsError`); a certificate that fails to parse, names another
curve or has bits left over in a bit string is `Parse` (`VerifyWic`); a covered
component without a usable value is `NoBase` (`Verify`), where the code says
`MissingComponent`, `UnsupportedComponent` or `InvalidComponentValue` after the
first such component in its list. Covered components are a set here, so that no
component is the first.

How the state corresponds to the program's:

- `HttpSigSession`: `sent` is what clients signed, `net` the messages in transit,
  each with its request, its parsed `Signature-Input` and `Signature` fields and
  the number of hops that touched it; delivery leaves a message where it is, so
  every request may be delivered again and in any order, or never. `accepted` is
  what recipients acted on, `answered`, `replies` and `done` the same for
  responses. `SignRequest` and `Receive` are `run_sign` and `run_verify` whole,
  with every refusal as a guard; `AddHeader`, `DropHeader`, `Reroute`,
  `ReplaceBody`, `AddSignature` and `Relabel` are the intermediaries, external.
- `Credentials`: `boot` counts the issuer's starts and `configured` says whether
  its key comes from the environment; `fetched[v]` is the start whose key set a
  recipient holds, which may be an older one. `tokens` only grows: anyone may
  present anything. `IssueWitFor` is the issuer's handler; `WitIssue` is the
  command `wit issue`, run by somebody who holds the issuer's key file, under any
  or no name, with any ttl and any clock. `Accept` is `wpt verify` whole, with an
  issuer required or not (`--expected-iss` is optional), the WIT first and then the
  proof under the key that the WIT confirms; `wit verify` is its first half.
- `OwnerOnlyFile`: `pc[w]` is the next system call of command `w`, `temp[w]` its
  temporary file, `disk` what the paths show, `earlier` what a power loss may
  bring back: the code syncs the file and never the directory.
- `Commands`: `files` is the directory, `run[r]` where command `r` is between two
  of its reads and writes. `IssueLoadCa`, `IssueSign`, `EmitCa` and `EmitWic` are
  the pieces of `wic issue`, between which other commands run and after each of
  which it may stop; `VerifyReadWic` and `VerifyReadCa` those of `wic verify`.
  A power loss is not part of this module: `OwnerOnlyFile` has it.
- `Conformance`: `disk` maps paths to vectors, the manifest or a torn file. The
  generator truncates and writes file after file; the runner reads the manifest,
  scans one directory per step and runs one vector per step, each with the files
  as they are at that moment. A vector is `[whole, by, path, loads, agrees,
  reworded]`: what was recorded follows from the release that generated it and
  from its path; `loads` and `agrees` are false after an edit that spoils its
  inputs, or makes two statements of one thing disagree, and `reworded` holds the
  cases whose reason was edited. An input that does not load is a failed check,
  beside whatever the vector records without it (`RunVector`): `run_httpsig` checks
  the request before it loads the response's inputs, other suites stop at once.
  `Verdict[r][input]` is not made up: in `MCConformance` it is computed from the verifiers of `Wit`, `Wpt`, `HttpSig`,
  `Wic` and `WorkloadIdentifier`, the ones that the other runs check, applied to
  the cases of `generate.rs`. A regression is a release whose verification looks
  past one of its arguments, or makes two of its checks in the other order.
- `Texts`: `text` is one identifier, one pair of header fields, one request as a
  signer and a verifier spell it, or one DER signature; `left` how many more
  pieces may be put to it. Nothing else in these functions is stateful.

## 3. The runs

| Run | Question | Bounds | Shows |
| --- | --- | --- | --- |
| `httpsig_tamper` | can a recipient act on anything a client did not sign, after two hops? | 1 request of 3 shapes (POST with body, GET with repeated `authorization`, CONNECT), 2 hops, 2 servers, 2 labels, 4 WITs with 3 keys | `RequestAuthentic`, `BodyAuthentic`, and, so that this is not bought by refusing, `IntactRequestAccepted` |
| `httpsig_clock` | do expiry, leeway, skew and maximum age combine correctly? | clocks 0..6 with a u64 that ends at 6, lifetime 2, leeway 1, skew 1 | `AcceptedInWindow`, `IntactRequestAccepted`, `TypeOK` |
| `httpsig_response` | can a response be lifted onto another request, or changed? | 2 requests in flight, 2 responses, 1 change on the way | `ResponseAuthentic`, and that the whole implements `AuthenticExchange` |
| `credentials_binding` | does any combination of circulating tokens pass for a credential? | 1 WIT, 1 proof, 1 damaged token, foreign tokens, 2 recipients, Txn-Token or none, 4 sets of other tokens; JWKs asked to be confirmed: a good one, and the same key with the other algorithm's name | `CredentialAuthentic`, and for a JWK that contradicts itself `ConfirmedKeyIsWhole` |
| `credentials_lifetime` | are credentials good for their lifetime and no longer? | clocks 0..5 with a u64 that ends at 5, ttl 0, 1, 3 or default 2 at the issuer and 0 or 3 by `wit issue`, leeway and skew 1, 2 starts of the issuer with a configured key or a fresh one each, WITs and recipients with and without an issuer's name | `AcceptedInLifetime`, `IntactAccepted`, `VerifiesOnlyItsStart`, `CredentialAuthentic`, `TypeOK` |
| `owner_only_file` | is `write_owner_only` atomic? | 2 writers of one path and 1 of another, every call failing, kills, power losses | `WholeFiles`, `NothingLeftBehind`, and that it implements `DurableFiles` |
| `commands_files` | can a file that was edited, or made elsewhere, mislead `key public` or `wic verify`? | 2 CA keys with one secret, 1 issue, 1 edit of any file, certificates with no, two or bad URIs | `AdvertisesItsKey`, `WicAuthentic` |
| `commands_windows` | do files of different runs and windows meet correctly? | 2 commands at a time, 2 issues, lifetimes 0 to 2, clocks 0..2 with times that end at 2 | `IntactWicAccepted`, `WicAuthentic`, `TypeOK` |
| `conformance` | what is a green run worth, and a red one? | 2 releases that evolve (other formats and suites) and 28 regressions, 6 vectors of 5 suites, 1 change by people, 1 regeneration beside 1 run | `GreenIsConformant`, `NamedSuitesRunWhole`, `SoundIsGreen`, `RegressionIsRed`, `RunsEnd` |
| `texts` | do texts stand for one thing only? | identifiers of up to 17 octets: a prefix and 4 of 15 pieces; fields of 1 or 2 members with 3 tokens of 9 put into values, labels and names; 2 pieces of 9 put into the arguments of two commands; DER of numbers of 2 octets, 1 edit | `AcceptedIsNormal`, `NormalIsAccepted`, `FieldReadsBack`, `TextBindsRequest`, `DerReadsBack` |
| `ca_restart` | a statement of the docs that the code does not keep | 2 issues | `SameKeySameCa` fails |
| `conformance_listed` | another one | 1 change | `NoVectorQuietlySkipped` fails |

Why the bounds are enough: acceptance looks at one message, one WIT and one
response at a time, so an attack on it needs at most a message, another to
borrow from and a hop for each thing to change; two hops reach the combinations
"added and relabelled", "rerouted and re-signed". Everything beyond that is what
the theorems are for. A scanner's state is whether it is inside a string, inside
a list or right after a backslash, and what decides is the next token: three
tokens reach every state with each token after it, in either member. An
identifier's checks look at a segment, at the octets of an escape and at the
lengths, which four pieces reach and exceed (17 octets, 2 of them for a trust
domain). For a part of a base to pass for another, a piece has to end a line and
begin one: the last of the pieces is such a line. The u64 maximum and the last time of a certificate are
bounds that the clocks reach, so that overflow and saturation happen in the runs.
Each property is checked against a plausible bug in the code (`mutants` in
`PROJECT.json`): TLC finds it violated when, say, the sum wraps, the required
components are compared the wrong way, or the file is renamed before it is
synced.

Deadlock is not checked: the systems may come to rest, when the bounds are used
up or when everybody has done what they wanted.

Fairness is assumed in one place. The conformance runner is a sequential program
that waits for nothing: once started, it reads the next file until it returns, so
`Conformance` has `WF_vars(Running)` for its steps, and `RunsEnd` says that every
run ends, with files torn, removed and replaced under it. Generators may stop and
people owe nothing, so they have no fairness. Nothing else in the code retries,
waits or schedules; every operation is one call that returns. What "must
eventually happen" would mean there is that an intact message *can* be accepted,
and that is stated as a safety property: `IntactRequestAccepted`,
`IntactAccepted` and `IntactWicAccepted` say that the verdict on it is Ok in
every state in which it arrives in time.

What the suite does not tell apart. `RegressionIsRed` is about the 28 regressions
of `MCConformance!Arguments`, and the list is what the vectors support. They do
not notice a verifier of HTTP signatures that no longer looks at `expires`, an
issuer's lifetime bound (`LifetimeTooLong`), the length of an identifier, or
critical headers: no vector has such a case. And since a WIT's and a proof's
expiry are probed with a clock one second past `exp`, `now > exp` passes where
`now >= exp` is meant.

### Where the code and its docs differ

- `ca_restart`: `wic.rs`, at `from_pkcs8_der` and `from_ed25519`, and the mtls
  README say that the same key yields the same CA certificate across a restart.
  The certificate carries the window that it was asked for, and `wic issue` asks
  for one that starts now, so two starts give two certificates. What the docs
  want from it does hold: `IntactWicAccepted` shows that certificates issued
  before a restart are accepted under the anchor built after it, and the other
  way round, while both are valid.
- `conformance_listed`: `check_listed` says that it checks every `.json` file
  under the suite directories, and `run_dir` that a vector file missing from the
  manifest is an error. It looks through the directories of the suites that the
  *manifest* names: if the manifest loses the last entry of a suite, its vectors
  are neither run nor reported and the run is green. Within the suites named,
  the claim holds (`NamedSuitesRunWhole`).
- Without a run of its own: the help of `wimsey httpsig` calls `--query` the query
  string "without the leading `?`", and a comment in `build_request` says that a
  leading `?` is stripped. `trim_start_matches` takes off *all* of them, so
  `/p??x` and `/p?x` are one request to these commands. `TextBindsRequest`
  excepts queries that begin with a question mark of their own (`ManyMarks`);
  without the exception TLC finds the two.
- `DerReadsBack` excepts encodings with a number that DER would read as negative:
  `ecdsa_signature_from_der` accepts them, and so takes a second encoding for the
  same signature. No document says otherwise.

## 4. The proofs

| Theorem | Statement |
| --- | --- |
| `HttpSigSession_proofs!AcceptsOnlyAuthentic` | `Spec => []RequestAuthentic` |
| `HttpSigSession_proofs!AcceptsOnlySignedBodies` | `Spec => []BodyAuthentic` |
| `HttpSigSession_proofs!AcceptsOnlyInWindow` | `Spec => []AcceptedInWindow` |
| `HttpSigSession_proofs!AcceptsTheIntact` | `Spec => []IntactRequestAccepted` |
| `HttpSigSession_proofs!CompletesOnlyAuthentic` | `Spec => []ResponseAuthentic` |
| `HttpSigSession_proofs!RefinesExchange` | `Spec => ImplementsExchange` |
| `HttpSigSession_proofs!KeepsTypes` | `Spec => []TypeOK` |
| `Credentials_proofs!AcceptsOnlyCredentials` | `Spec => []CredentialAuthentic` |
| `Credentials_proofs!AcceptsOnlyInLifetime` | `Spec => []AcceptedInLifetime` |
| `Credentials_proofs!AcceptsTheHonest` | `Spec => []IntactAccepted` |
| `Credentials_proofs!AcceptsOnlyWholeKeys` | `Spec => []ConfirmedKeyIsWhole` |
| `Credentials_proofs!VoidsAtRestart` | `Spec => []VerifiesOnlyItsStart` |
| `Credentials_proofs!KeepsTypes` | `Spec => []TypeOK` |
| `OwnerOnlyFile_proofs!FilesAreWhole` | `Spec => []WholeFiles` |
| `OwnerOnlyFile_proofs!LeavesNothingBehind` | `Spec => []NothingLeftBehind` |
| `OwnerOnlyFile_proofs!WritesAreAtomic` | `Spec => ImplementsDurableFiles` |
| `Commands_proofs!ExportsItsOwnKey` | `Spec => []AdvertisesItsKey` |
| `Commands_proofs!AcceptsOnlyItsOwn` | `Spec => []WicAuthentic` |
| `Commands_proofs!AcceptsTheIntact` | `Spec => []IntactWicAccepted` |
| `Commands_proofs!KeepsTypes` | `Spec => []TypeOK` |
| `Conformance_proofs!GreenMeansConformant` | `Spec => []GreenIsConformant` |
| `Conformance_proofs!NamedSuitesAreRun` | `Spec => []NamedSuitesRunWhole` |
| `Conformance_proofs!NoFalseAlarm` | `SuiteTells` implies `Spec => []SoundIsGreen` |
| `Conformance_proofs!NoRegressionHidden` | `SuiteTells` implies `Spec => []RegressionIsRed` |
| `Texts_proofs!ReadsDerBack` | `Spec => []DerReadsBack` |
| `Texts_proofs!SignsOneRequest` | `Spec => []TextBindsRequest` |
| `Texts_proofs!OneSpelling` | `Spec => []AcceptedIsNormal` |
| `Texts_proofs!NoneTurnedAway` | `Spec => []NormalIsAccepted` |
| `Texts_proofs!FieldsReadBack` | `Spec => []FieldReadsBack` |
| `StructuredFields_proofs!StringReadsBack` | `ParseSfString(SfString(v)) = {v}` for every text `v` |

They hold for every value of the constants that satisfies the named assumption of
the module: any workloads, keys, messages, hops and clocks, any writers and
contents, any number of steps. The assumptions, and what entitles to them:

- `SessionAssumption`. An intermediary signs with a key of its own, which no WIT
  confirms. Times are numbers, and a clock that is written down fits a u64
  (`i64` timestamps and `SystemTime`). A maximum age and a body are `Option`s.
  The covered components that a client may add are those that `parse_component`
  of the command lets through. What an intermediary writes for `Bad` is neither
  a number, nor the tag, nor somebody's audience.
- `CredentialsAssumption`. Keys are of a supported algorithm; a start of the
  issuer draws a key of its own, neither another start's nor the foreign issuer's
  (`load_key` takes 32 random octets); the default ttl is not zero, for which
  `Issuer::new` panics; times are numbers.
- `CommandsAssumption`. Who has a CA's secret is the CA. Subjects are
  identifiers that parse, a SAN a list of texts, times numbers.
- `OwnerOnlyFileAssumption`. Every command has one path and one content.
- `ConformanceAssumption`. What `generate` writes is what its manifest lists, each
  path in the directory of the suite it is listed under, and that suite is one
  that the same release can run (`manifest` and `write_vectors` against `run_dir`).
- `TextsAssumption`, `PiecesAssumption`, `ArgumentsAssumption`. What texts grow by
  are octets and strings.
- `WordsAssumption`, `TokensAssumption`. A word or a number is a token of its own: it
  is none of the delimiters that the scanners look for, nor the name of a derived
  component, which begins with an `@`. What members grow by are such tokens.
- `LimitsAssumption`, `HalfAssumption`. The limits of an identifier are numbers, and
  those of a signature have 1 to 32 octets (`MAX_ID_LEN` and `MAX_TRUST_DOMAIN_LEN`;
  P-256 has 32).
- `LowerOfAssumption`. Lowercasing gives a string in which there is nothing left to
  lowercase (`to_ascii_lowercase`).

TLC evaluates each of them on the instances of the runs.

**HTTP signatures, forth.** The properties speak of what was accepted, and are not
inductive: they have to know where the signatures in transit come from. `Inv`
says that no two requests have a nonce in common (`NoncesOk`); that each request
was signed as `run_sign` signs (`SentOk`); that the first member of a message in
transit and its signature are what a client put there, over the base that the
client had, and all others a hop's under the hop's own key (`PairsOk`); and what
each acceptance goes back to (`AcceptedAs`). Adding and relabelling keep the pairs
together (`AppendPairs`, `RelabelPairs`). Acceptance then goes backwards:
`VerifyOk` says that the verified member has a signature by the WIT's key over
the base of the message as received; this is the client's base; and equal bases
with the mandatory components give the same essence of the request
(`SameEssence`), the same parameters and so the same audience
(`ParamsRoundTrip`). A body is the client's because a client that has one covers
`content-digest` (`SignedDigest`) and the verifier checks the digest against the
body. The window follows from `TimesOk` and from two lemmas that sums and
differences which stop at the ends of the u64 are never more lenient than plain
ones (`SaturatingAddAtMost`, `SaturatingSubAtLeast`).

**The other direction.** `AcceptsTheIntact` goes through every check of `verify` and
`run_verify` and shows that it passes: the client's member is the first and the
only one with the WIMSE tag (`ClientsFirst`, `HopTag`), so it is selected
whatever else stands beside it; the signature under its label is the client's
(`SignatureFound`); its times pass (`TimesPass`); the mandatory components are
there and the base is the one that was signed (`MandatoryKept`, `SameBase`). The
property has one precondition that the proof shows to be needed: `sign` does not
look at what a CONNECT must not cover, and `verify` refuses it
(`ConnectComponentsOk`).

**And back.** `ReplyInv` is the mirror of `Inv`: an answer is to an accepted request
and carries its server's WIT (`AnsweredOk`), and every signature in transit is
over such an answer and names its request's nonce (`ReplyOk`). Equal bases give
the same status and mandatory headers (`SameResponse`), and since the nonce that
the server writes is the one that the client reads (`ReqNonceRoundTrip`), and is
of one request only, the answer is to that request. `RefinesExchange` puts both
together: signing is `Ask`, an acceptance `Deliver` or a stutter, a signed
response `Answer`, and a verified one `Complete`; everything that intermediaries
do is a stutter.

**Credentials.** The same shape: every circulating token that carries a signature by
the issuer's or a workload's key over claims of its type is one that was issued
or minted, damage included (`Traceable`), and what was issued or minted has the
times of its moment (`ClaimsOk`, `IssuedOk`, `MintedOk`). `JwsOk`, `WitOk` and
`WptOk` say what a verdict of Ok means, `OneKey` that a JWK confirms at most one
key. Lifetimes need more than in `HttpSigSession`, since honest tokens have to be
accepted to the last second: `ExpiredExactly` and `LifetimeExactly` say that
saturating arithmetic decides exactly as plain arithmetic does, on every clock
before the last second of the u64. `IssuedWit` says that a WIT which verifies is one that
was issued; since no two starts draw one key, it was issued by the start whose key
verified it (`VoidsAtRestart`). `JwsPasses`, `WitPasses` and `WptPasses` are the converses that
`AcceptsTheHonest` needs.

**Files.** The refinement of `WritesAreAtomic` maps a path to what it shows,
`earlier` to what is recoverable and `pc` to the outcome. The invariant says that
a command at `rename` has a temporary file that is whole and synced: this is what
makes `Rename` an abstract write and keeps a power loss from tearing it. Every
other call is a stutter, a refusal or a loss.

**Keys and certificates.** Other commands run between any two steps of one, so the
invariant of `Commands` speaks of the files and of what each command has in hand
(`FilesOk`, `RunsOk`): key files have the members that `key generate` writes, a
hand-edited one included; the public half in the CA's key file is a CA's, with
whatever private half; a CA certificate is one that was built from a CA's key; a
certificate that circulates, damaged or not, has a workload's signature on it or
one that a CA made when it issued (`Circulates`). `VerifiedIsIssued` then reads a verdict
of Ok backwards. A private half is used only if it belongs to the public one
(`SigningKeyOfX`), which is what `ExportsItsOwnKey` comes down to.

**The conformance runner.** The reports speak of the past, so the invariant describes
a run at work. `HasRun`: the paths of the vectors run are those of the entries
behind, each was whole and of the release's format, and all its checks are on
record. `ListedSoFar`: what was there all along is still there, and what lies in
a directory already left behind is in the manifest. Every other actor changes one
file (`PutOk`): a removal takes the path out of `stayed`, and a file that appears
after its directory was scanned is not in it. A report of green then finds no
FALSE on record and nothing left to do. What the verifiers answer and what the
suites hold is arbitrary here: it is the runner that these theorems are about.
`NoFalseAlarm` and `NoRegressionHidden` add `FreshOk`, that a run over files
nobody touched since they were generated reads exactly those, so that its report
is green if the release holds of its own vectors and red if not (`FreshTold`).
Their hypothesis `SuiteTells` is what is left over of the two properties: that
the sound releases, and only they, hold of their own vectors. This is a question
about a finite table, and the run `conformance` answers it for the suite as it is:
it lets each of the 30 releases run over what it generated, and by `FreshTold` a
release for which the answer is no would be reported in the wrong colour there.

**DER.** A number loses its leading zeros and gets them back (`PaddedKept`,
`KeptPadded`); a tag, a length and octets come apart into what they were put
together from and into nothing else (`FramedReads`, `ReadsFramed`); so one
INTEGER reads back as it was written and the other way round (`ReadWritten`,
`WrittenRead`), and a SEQUENCE of two as well (`FromTo`, `ToFrom`).

**Scanners and writers.** They are recursive functions over their tokens, and what
they compute for every input is a matter of induction. The library's induction
theorems take an operator as a parameter, which the provers cannot instantiate;
`StructuredFields_proofs` begins by doing without. That the natural numbers are well founded gives
induction for a *set* of numbers (`Induction`, `InductionTo`), induction gives
that a function with the described steps exists, one for each number of steps,
and two that agree on the steps are equal (`Iterated`, `Agrees`). So the CHOOSE
behind `Run`, `FlattenSeq` or `RemoveDots` is that function, and each use of them
comes down to its start and its step (`Flattened`, `BaseIs`, `RemoveDotsIs`).
TLA+ characters are strings of which the provers know nothing, not even that a
literal is one, so the texts of the proofs are over `Alphabet`, which has every
string and the literals of the model by name.

**Fields.** The three scanners look for a delimiter outside of strings, and the proof
follows the text from left to right. A scanner that has gone through a text which
leaves no string open is where it was (`ScanOn`), so it finds in what follows
just what it would find without it (`UnquotedOn`), and the depth of the brackets
is the same too (`DepthOn`). Whatever is in a value, `sf_string` writes it as a
text that leaves no string open and has no delimiter outside of one
(`SfStringTidy`), and it reads back (`StringReadsBack`: every escape is taken off
again, and no quote ends the string before its own). A delimiter between two such
texts is therefore the only one, and a text is cut just where it was joined
(`FindOne`, `CutOn`). From these, a text reads back parameter by parameter
(`SpellMore`, `GivenRead`), identifier by identifier (`QuotedIdRead`,
`ThreeWords`), then the whole value of a member (`MadeReads`) and its signature
(`SignatureHolds`), and a dictionary of one or two of them (`OneEntry`,
`TwoEntries`). `Inv` adds that the members are what the signer takes: labels that
`sign` does not refuse and names of headers (`IsFields`), which every step keeps
(`FieldsStep`). A name with a quote or a backslash in it would not read back, since
the writer puts names between quotes as they are.

**Requests.** `Inv` says only that the arguments of both commands are texts. What is
trimmed, lowercased, split at colons and commas and put together again is text
again (the lemmas named `...Type`), and no value has a line break in it, because
`build_request` refuses one. A line of the base therefore ends where its value
ends: two bases over the same components with the same parameters are equal just
when all their values are (`SameValues`, `SameBases`). What is left is that equal
values mean equal parts: the delimiter in front of a query is taken off and put
back (`QueryIs`, and `UnmarkedIs` for the queries that are excepted), an authority
is lowercased once (`MeantIsValue`).

**Identifiers.** Normalization is compared with the checks of `parse` by lengths. An
escape that is decoded makes a path shorter and nothing in `NormalEscapes` makes
it longer; `RemoveDots` drops a segment or keeps it (`NormalEscapesIs`,
`RemoveDotsShorter`). If both together give back a path, both kept its length;
then no escape was decoded, every octet of one is a capital, and no segment was
dropped, which is what `validate_path` asks for (`NormalIsValid`). The other way
round, in a path that `validate_path` lets through every escape is a normal one
and no segment has only dots, so octet by octet and segment by segment nothing
changes (`ValidIsNormal`). `PartsOf` puts prefix, trust domain and path together
and takes them apart again, and the rest is about the trust domain, which has to
be lowercase already (`AlreadyLower`).

What stays with TLC:

- `RunsEnd`: liveness under fairness, and ENABLED, are out of the prover's reach.
- `FieldReadsBack` for dictionaries of more than two members, which no behaviour of
  `Texts` writes.
- `SuiteTells`, for the reason above.
- `SameKeySameCa` and `NoVectorQuietlySkipped`, which do not hold.

No module uses a RECURSIVE operator.

## 5. What is not modelled, and the plan

Not modelled: the cryptography (assumed sound), JSON, Base64 and PEM texts
(abstracted to what they hold), DER but for signatures, PKCS#8 loading, the HTTP
framework of the issuer and its health endpoint, printing (`wit inspect`, reports,
the formatting of outputs), the demo (a straight-line script whose steps are
behaviours of `HttpSigSession` and `Credentials`), the workflows, the scripts and
the fuzz targets other than `identifier_parse`. Modelled in part: the vectors'
descriptions, thumbprints and certificates in DER, which say a second time what
the vector says anyway, are one flag (`agrees`).

The order was: signatures first, since they are the program's own logic and the
most exposed; then the tokens and the issuer; then files and certificates; then
the suite; then the texts, and the contents of the suite; then the proofs. Every
safety property and both refinements that the runs check are now either proved
or in the list at the end of section 4. What could come next:

1. A composition of `Commands` with `OwnerOnlyFile`, so that a power loss between
   two commands is a behaviour of the whole and not only of the write.

## 6. Running

```
tlc -config MCHttpSigSession_tamper.cfg MCHttpSigSession.tla
tlapm HttpSigSession_proofs.tla
```

and so on for the other pairs in `PROJECT.json`. Each run takes from seconds to
about three minutes, and each proof module from half a minute to about ten minutes;
`StructuredFields_proofs` and `Texts_proofs` are the longest.
