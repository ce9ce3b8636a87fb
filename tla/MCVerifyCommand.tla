--------------------------- MODULE MCVerifyCommand ---------------------------
(***************************************************************************)
(* Instances of VerifyCommand for TLC.                                     *)
(***************************************************************************)
EXTENDS VerifyCommand

CONSTANTS k1, k2, alice, h1, h2

mcKeys == {k1, k2}
mcNames == {alice}
mcHeld == [sha512 |-> h1]
mcDigestSets == {mcHeld, [sha512 |-> h2]}
mcTrusts == Trust

mcPlain ==
  [command |-> "verify", target |-> "remote", output |-> "json",
   strict |-> FALSE, trustRoot |-> k1, identity |-> "", issuer |-> "",
   sigstoreRoot |-> "unset", bundle |-> "unset"]

\* Every trust configuration of a remote artifact, every kind of local target,
\* and the registry check.
mcInvocations ==
  [command: {"verify"}, target: {"remote"}, output: {"json"}, strict: {FALSE},
   trustRoot: {k1, "unset", "unreadable", "empty"}, identity: {alice, ""},
   issuer: {alice, ""}, sigstoreRoot: {"unset", "unreadable", "good", "bad"},
   bundle: {"unset"}]
  \cup
  {[mcPlain EXCEPT !.target = t, !.strict = s, !.bundle = b] :
     t \in {"skill", "npmDir"}, s \in BOOLEAN,
     b \in {"unset", "unreadable", "read"}}
  \cup
  {[mcPlain EXCEPT !.output = "unknown"],
   [mcPlain EXCEPT !.command = "registryCheck"],
   [mcPlain EXCEPT !.command = "registryCheck", !.trustRoot = "unset"]}

mcTrees ==
  {[gone |-> FALSE, malformed |-> FALSE, digest |-> d, undeclared |-> u] :
     d \in mcDigestSets, u \in BOOLEAN}
  \cup {[gone |-> g, malformed |-> ~g, digest |-> mcHeld, undeclared |-> FALSE] :
          g \in BOOLEAN}

mcGood == [parses |-> TRUE, subject |-> mcHeld, valid |-> TRUE, sbom |-> TRUE]

mcKeyBundle ==
  [form |-> "dsse", cert |-> FALSE, signedBy |-> k1, chain |-> FALSE,
   san |-> alice, issuer |-> alice, spelling |-> "strict", stmt |-> mcGood]

\* A bundle of each mode, one of another artifact, and the first one by another
\* key or in another spelling.
mcBundles ==
  {mcKeyBundle,
   [mcKeyBundle EXCEPT !.cert = TRUE, !.signedBy = "none", !.chain = TRUE],
   [mcKeyBundle EXCEPT !.stmt.subject = [sha512 |-> h2]],
   [mcKeyBundle EXCEPT !.signedBy = k2],
   [mcKeyBundle EXCEPT !.spelling = "lenient"]}
=============================================================================
