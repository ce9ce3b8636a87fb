---------------------------- MODULE MCVerifyCore ----------------------------
(***************************************************************************)
(* Instances of VerifyCore for TLC.                                        *)
(***************************************************************************)
EXTENDS VerifyCore

CONSTANTS k1, k2, alice, mallory, h1, h2

mcKeys == {k1, k2}
mcNames == {alice, mallory}

mcHeld == [sha512 |-> h1]
mcDigestSets ==
  {mcHeld, [sha512 |-> h2], [sha512 |-> h1, sha1 |-> h1],
   [sha512 |-> h2, sha1 |-> h1]}

\* A key (usable or not), or a certificate identity under each trusted root.
mcTrusts ==
  [material: mcKeys \cup {"empty", "notPEM", "unloadable"}, identity: {""},
   issuer: {""}, trustRoot: {"live"}]
  \cup
  [material: {"empty"}, identity: {alice}, issuer: {alice, ""},
   trustRoot: {"live", "good", "bad"}]

mcGood == [parses |-> TRUE, subject |-> mcHeld, valid |-> TRUE, sbom |-> TRUE]

mcStatements ==
  {mcGood, [mcGood EXCEPT !.parses = FALSE], [mcGood EXCEPT !.valid = FALSE],
   [mcGood EXCEPT !.sbom = FALSE]}
  \cup {[mcGood EXCEPT !.subject = d] : d \in mcDigestSets}

mcKeyBundle ==
  [form |-> "dsse", cert |-> FALSE, signedBy |-> k1, chain |-> FALSE,
   san |-> alice, issuer |-> alice, spelling |-> "strict", stmt |-> mcGood]

mcKeylessBundle ==
  [mcKeyBundle EXCEPT !.cert = TRUE, !.signedBy = "none", !.chain = TRUE]

\* One deviation from a good bundle of either mode at a time.
mcBundles ==
  {[mcKeyBundle EXCEPT !.stmt = s] : s \in mcStatements}
  \cup {[mcKeylessBundle EXCEPT !.stmt = s] :
          s \in {mcGood, [mcGood EXCEPT !.subject = [sha512 |-> h2]]}}
  \cup {[mcKeyBundle EXCEPT !.form = "notABundle"],
        [mcKeyBundle EXCEPT !.form = "badEnvelope"],
        [mcKeylessBundle EXCEPT !.form = "badEnvelope"],
        [mcKeyBundle EXCEPT !.signedBy = k2],
        [mcKeylessBundle EXCEPT !.chain = FALSE],
        [mcKeylessBundle EXCEPT !.san = mallory],
        [mcKeylessBundle EXCEPT !.issuer = mallory]}
=============================================================================
