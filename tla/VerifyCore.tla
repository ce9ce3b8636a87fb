----------------------------- MODULE VerifyCore -----------------------------
(***************************************************************************)
(* The verification core of smithmark: verify.Run walks the candidate      *)
(* attestation bundles discovery found, in order, hands each one to the    *)
(* injected SignatureVerifier and to the later stages, and produces one    *)
(* report.  The verifier itself (pkg/compose) is modelled by what its two  *)
(* methods decide; the cryptography below it is a fact about a bundle.     *)
(*                                                                         *)
(* The live Sigstore trusted root is fetched anew for every candidate      *)
(* (resolveKeylessTrustedRoot), so whether it can be reached is chosen     *)
(* again at each step of the loop.                                         *)
(***************************************************************************)
EXTENDS Naturals, Sequences

CONSTANTS
  Keys,         \* public keys a bundle may be signed with or checked against
  Names,        \* certificate identities and OIDC issuers
  DigestSets,   \* non-empty digest sets (algorithm |-> hex) of the run
  Bundles,      \* the candidate bundles that occur in the run
  Trusts,       \* the trust configurations that occur in the run
  MaxBundles    \* bound on the number of candidates of one run

(***************************************************************************)
(* A bundle, as far as verification can tell two bundles apart.            *)
(*   form      what decoding finds: no bundle, a bundle without exactly    *)
(*             one DSSE signature of the in-toto payload type, or one with *)
(*   cert      it carries a Fulcio certificate (a keyless bundle)          *)
(*   signedBy  the key its DSSE signature verifies against, if any         *)
(*   chain     certificate chain, Rekor entry and signature verify         *)
(*   san, issuer  what the certificate says                                *)
(*   spelling  dsseEnvelope and base64 spelled as encoding/json reads      *)
(*             them, or another spelling protojson accepts as well         *)
(*   stmt      the signed in-toto statement                                *)
(***************************************************************************)
Statement ==
  [parses: BOOLEAN, subject: DigestSets, valid: BOOLEAN, sbom: BOOLEAN]

Bundle ==
  [form: {"notABundle", "badEnvelope", "dsse"}, cert: BOOLEAN,
   signedBy: Keys \cup {"none"}, chain: BOOLEAN,
   san: Names, issuer: Names, spelling: {"strict", "lenient"},
   stmt: Statement]

Trust ==
  [material: Keys \cup {"empty", "notPEM", "unloadable"},
   identity: Names \cup {""}, issuer: Names \cup {""},
   trustRoot: {"live", "good", "bad"}]

Provenance == {"none", "unreadable", "other", "slsa"}

ASSUME CoreAssumption ==
  /\ Bundles \subseteq Bundle
  /\ Trusts \subseteq Trust
  /\ MaxBundles \in Nat
  /\ \A d \in DigestSets :
       d = [alg \in DOMAIN d |-> d[alg]] /\ DOMAIN d # {}
  /\ Keys \cap {"none", "empty", "notPEM", "unloadable"} = {}
  /\ "" \notin Names

\* verify.Input; an artifact no digest was found for has the empty set.
Input ==
  [ref: DigestSets \cup {<<>>},
   bundles: UNION {[1..n -> Bundles] : n \in 0..MaxBundles},
   npmProvenance: Provenance, trust: Trusts]

-----------------------------------------------------------------------------
\* The injected verifier.

keylessRequested(trust) == trust.identity # "" \/ trust.issuer # ""

\* VerifyBundle: unusable trust material is a configuration error, but a key
\* no verifier can be loaded for is only noticed after the envelope is read.
VerifyBundle(b, trust) ==
  IF trust.material \in {"empty", "notPEM"} THEN "config"
  ELSE IF b.form # "dsse" THEN "bad"
  ELSE IF trust.material = "unloadable" THEN "config"
  ELSE IF b.signedBy = trust.material THEN "ok" ELSE "bad"

\* resolveKeylessTrustedRoot fails on unusable JSON or an unreachable live root.
rootFails(trust, up) ==
  trust.trustRoot = "bad" \/ (trust.trustRoot = "live" /\ ~up)

enforceKeylessIdentity(b, trust) ==
  /\ trust.identity # "" /\ trust.issuer # ""
  /\ b.san = trust.identity
  /\ b.issuer = trust.issuer

\* VerifyKeylessBundle: a bundle without a certificate is refused before the
\* trusted root is resolved, everything else only after it.
VerifyKeylessBundle(b, trust, up) ==
  IF b.form = "notABundle" \/ ~b.cert THEN "bad"
  ELSE IF rootFails(trust, up) THEN "config"
  ELSE IF b.chain /\ enforceKeylessIdentity(b, trust) /\ b.form = "dsse"
       THEN "ok" ELSE "bad"

verifyCandidateSignature(in, b, up) ==
  IF keylessRequested(in.trust)
  THEN VerifyKeylessBundle(b, in.trust, up)
  ELSE VerifyBundle(b, in.trust)

-----------------------------------------------------------------------------
\* The check report.  A check that was not evaluated has Passed false, like
\* one that failed; "skip" keeps the two apart for the properties.

FailingClass ==
  {"ATTESTATION_MISSING", "SIGNATURE_VALID", "PREDICATE_VERSION_UNSUPPORTED",
   "SUBJECT_DIGEST_MATCH", "MANIFEST_SCHEMA_VALID"}

Informational ==
  {"REKOR_INCLUSION_VALID", "PROVENANCE_PRESENT", "NPM_PROVENANCE_VERIFIED",
   "DEPENDENCY_SBOM_MISSING"}

Outcome == {"pass", "fail", "skip"}
Checks == [FailingClass \cup Informational -> Outcome]

outcome(evaluated, holds) ==
  IF ~evaluated THEN "skip" ELSE IF holds THEN "pass" ELSE "fail"

FailingChecksFailed(cs) == \E c \in FailingClass : cs[c] # "pass"

\* Mutation: one matching algorithm is enough.
digestMatch_overlap(expected, attested) ==
  \E alg \in DOMAIN expected \cap DOMAIN attested :
    attested[alg] = expected[alg]

\* digestMatch and sameKeys: the same algorithms, with the same values.
digestMatch(expected, attested) ==
  /\ DOMAIN expected = DOMAIN attested
  /\ \A alg \in DOMAIN expected : attested[alg] = expected[alg]

\* NPM_PROVENANCE_VERIFIED never passes in this build.
evalProvenance(in) ==
  [PROVENANCE_PRESENT |-> outcome(TRUE, in.npmProvenance = "slsa"),
   NPM_PROVENANCE_VERIFIED |-> "fail"]

\* Mutation: the statement is evaluated although its signature did not verify.
evaluateCandidate_readsUnsigned(in, b, sig) ==
  [c \in FailingClass \cup Informational |->
     CASE c = "SIGNATURE_VALID" -> outcome(TRUE, sig = "ok")
       [] c = "SUBJECT_DIGEST_MATCH" ->
            outcome(b.stmt.parses, digestMatch(in.ref, b.stmt.subject))
       [] OTHER -> "pass"]

\* The stages after the signature only ever read a statement whose signature
\* verified, and the stages after the parse only one that parsed.
evaluateCandidate(in, b, sig) ==
  LET parsed == sig = "ok" /\ b.stmt.parses
  IN  [ATTESTATION_MISSING |-> "pass",
       SIGNATURE_VALID |-> outcome(TRUE, sig = "ok"),
       REKOR_INCLUSION_VALID |-> outcome(sig = "ok", keylessRequested(in.trust)),
       PREDICATE_VERSION_UNSUPPORTED |-> outcome(sig = "ok", b.stmt.parses),
       SUBJECT_DIGEST_MATCH |->
         outcome(parsed, digestMatch(in.ref, b.stmt.subject)),
       MANIFEST_SCHEMA_VALID |-> outcome(parsed, b.stmt.valid),
       PROVENANCE_PRESENT |-> evalProvenance(in).PROVENANCE_PRESENT,
       NPM_PROVENANCE_VERIFIED |-> evalProvenance(in).NPM_PROVENANCE_VERIFIED,
       DEPENDENCY_SBOM_MISSING |-> outcome(parsed, b.stmt.sbom)]

\* Mutation: an invalid manifest does not stop a candidate from winning.
passedFailing_noSchema(cs) ==
  \A c \in FailingClass \ {"ATTESTATION_MISSING", "MANIFEST_SCHEMA_VALID"} :
    cs[c] = "pass"

\* The four stages that decide whether a candidate wins.
passedFailing(cs) ==
  \A c \in FailingClass \ {"ATTESTATION_MISSING"} : cs[c] = "pass"

missingAttestationChecks(in) ==
  [c \in FailingClass \cup Informational |->
     IF c = "ATTESTATION_MISSING" THEN "fail"
     ELSE IF c \in DOMAIN evalProvenance(in) THEN evalProvenance(in)[c]
     ELSE "skip"]

-----------------------------------------------------------------------------
VARIABLES
  in,           \* the verify.Input of this run
  pc,           \* "loop" while candidates are evaluated, then "report" or "error"
  i,            \* the candidate the loop looks at next
  firstChecks,  \* checks of candidate 1, kept in case none passes
  checks,       \* the checks the report carries
  winner        \* WinningBundle, 1-based; 0 stands for the code's -1

vars == <<in, pc, i, firstChecks, checks, winner>>

NoChecks == [c \in FailingClass \cup Informational |-> "skip"]

Init ==
  /\ in \in Input
  /\ pc = "loop"
  /\ i = 1
  /\ firstChecks = NoChecks /\ checks = NoChecks
  /\ winner = 0

\* No candidate at all: everything but npm provenance is not evaluated.
ReportMissing ==
  /\ pc = "loop" /\ in.bundles = <<>>
  /\ checks' = missingAttestationChecks(in)
  /\ pc' = "report"
  /\ UNCHANGED <<in, i, firstChecks, winner>>

\* A configuration error of any candidate abandons the run without a report.
ConfigError(up) ==
  /\ pc = "loop" /\ i <= Len(in.bundles)
  /\ verifyCandidateSignature(in, in.bundles[i], up) = "config"
  /\ pc' = "error"
  /\ UNCHANGED <<in, i, firstChecks, checks, winner>>

\* Mutation: the index of the winner is read after the loop moved on.
CandidatePasses_lateIndex(up) ==
  /\ pc = "loop" /\ i <= Len(in.bundles)
  /\ LET sig == verifyCandidateSignature(in, in.bundles[i], up)
     IN  /\ sig # "config"
         /\ checks' = evaluateCandidate(in, in.bundles[i], sig)
         /\ passedFailing(checks')
  /\ winner' = i + 1
  /\ pc' = "report"
  /\ UNCHANGED <<in, i, firstChecks>>

\* The first candidate that passes every failing class stage ends the loop.
CandidatePasses(up) ==
  /\ pc = "loop" /\ i <= Len(in.bundles)
  /\ LET sig == verifyCandidateSignature(in, in.bundles[i], up)
         now == evaluateCandidate(in, in.bundles[i], sig)
     IN  /\ sig # "config"
         /\ passedFailing(now)
         /\ checks' = now
  /\ winner' = i
  /\ pc' = "report"
  /\ UNCHANGED <<in, i, firstChecks>>

\* Mutation: the checks kept for the report are those of the last candidate.
CandidateFails_keepsLast(up) ==
  /\ pc = "loop" /\ i <= Len(in.bundles)
  /\ LET sig == verifyCandidateSignature(in, in.bundles[i], up)
     IN  /\ sig # "config"
         /\ firstChecks' = evaluateCandidate(in, in.bundles[i], sig)
         /\ ~passedFailing(firstChecks')
  /\ i' = i + 1
  /\ UNCHANGED <<in, pc, checks, winner>>

CandidateFails(up) ==
  /\ pc = "loop" /\ i <= Len(in.bundles)
  /\ LET sig == verifyCandidateSignature(in, in.bundles[i], up)
         now == evaluateCandidate(in, in.bundles[i], sig)
     IN  /\ sig # "config"
         /\ ~passedFailing(now)
         /\ firstChecks' = IF i = 1 THEN now ELSE firstChecks
  /\ i' = i + 1
  /\ UNCHANGED <<in, pc, checks, winner>>

\* Nothing passed: the report shows what happened to the first candidate.
ReportFirst ==
  /\ pc = "loop" /\ in.bundles # <<>> /\ i > Len(in.bundles)
  /\ checks' = firstChecks
  /\ pc' = "report"
  /\ UNCHANGED <<in, i, firstChecks, winner>>

Next ==
  \/ ReportMissing
  \/ \E up \in BOOLEAN : ConfigError(up)
  \/ \E up \in BOOLEAN : CandidatePasses(up)
  \/ \E up \in BOOLEAN : CandidateFails(up)
  \/ ReportFirst

Spec == Init /\ [][Next]_vars

\* Run is one call on one goroutine: it keeps going until it returns.
FairSpec == Spec /\ WF_vars(Next)

-----------------------------------------------------------------------------
\* Ground truth about a candidate, stated without the order of the stages.

SignedByTrusted(run, b) ==
  /\ b.form = "dsse"
  /\ IF keylessRequested(run.trust)
     THEN /\ b.cert /\ b.chain
          /\ b.san = run.trust.identity /\ b.issuer = run.trust.issuer
     ELSE b.signedBy = run.trust.material

Authentic(run, b) ==
  /\ SignedByTrusted(run, b)
  /\ b.stmt.parses /\ b.stmt.valid
  /\ b.stmt.subject = run.ref

authenticCandidates == {k \in DOMAIN in.bundles : Authentic(in, in.bundles[k])}

\* The trust configurations that verify.go calls unusable, the live trusted
\* root included because the network may be down.
mayFail(trust) ==
  IF keylessRequested(trust) THEN trust.trustRoot # "good"
  ELSE trust.material \notin Keys

verdict ==
  IF pc = "loop" THEN "pending"
  ELSE IF pc = "error" THEN "none"
  ELSE IF winner = 0 THEN "reject" ELSE "accept"

Promise == INSTANCE VerifyPromise WITH
  authentic <- authenticCandidates, trustMayFail <- mayFail(in.trust),
  witness <- winner

-----------------------------------------------------------------------------
\* Properties.

\* Every variable has its type.
TypeOK ==
  /\ in \in Input
  /\ pc \in {"loop", "report", "error"}
  /\ i \in 1..(MaxBundles + 1)
  /\ firstChecks \in Checks /\ checks \in Checks
  /\ winner \in 0..MaxBundles

\* Run accepts the first authentic candidate whatever stands before it, rejects
\* only when there is none, and gives up only over the trust configuration;
\* and it always answers (the loop of Run against what its comment promises).
ImplementsPromise == Promise!FairSpec

\* The exit code is read off the checks (FailingChecksFailed), the evidence off
\* WinningBundle: the two never disagree on whether verification passed.
ExitAgreesWithWinner ==
  pc = "report" => (FailingChecksFailed(checks) <=> winner = 0)

\* A rejecting report blames what is true of the first candidate: its signature
\* is reported bad exactly if it is not by the trusted signer, and its digest
\* only if it was read from a trusted statement and differs from the artifact.
BlameIsTrue ==
  pc = "report" /\ winner = 0 /\ in.bundles # <<>> =>
    LET b == in.bundles[1]
    IN  /\ checks["SIGNATURE_VALID"] = "fail" <=> ~SignedByTrusted(in, b)
        /\ checks["SUBJECT_DIGEST_MATCH"] = "fail" <=>
             SignedByTrusted(in, b) /\ b.stmt.parses /\ b.stmt.subject # in.ref

\* No check that depends on the content of a statement is decided unless the
\* candidate the report reflects is signed by the trusted signer.
UnverifiedStatementNotRead ==
  pc = "report" /\ (\E c \in {"PREDICATE_VERSION_UNSUPPORTED",
                             "SUBJECT_DIGEST_MATCH", "MANIFEST_SCHEMA_VALID",
                             "REKOR_INCLUSION_VALID", "DEPENDENCY_SBOM_MISSING"} :
                    checks[c] # "skip")
    => /\ in.bundles # <<>>
       /\ SignedByTrusted(in, in.bundles[IF winner = 0 THEN 1 ELSE winner])

\* The inductive invariant behind the proofs.  While the loop runs, no candidate
\* before i is authentic and firstChecks tells the truth about candidate 1; a
\* report tells the truth about the candidate it reflects.
trueChecks(k) ==
  evaluateCandidate(in, in.bundles[k],
    IF SignedByTrusted(in, in.bundles[k]) THEN "ok" ELSE "bad")

LoopInv ==
  pc = "loop" =>
    /\ i <= Len(in.bundles) + 1
    /\ winner = 0
    /\ \A k \in 1..(i - 1) : ~Authentic(in, in.bundles[k])
    /\ i > 1 => firstChecks = trueChecks(1)

ReportInv ==
  /\ pc = "report" /\ winner = 0 =>
       /\ authenticCandidates = {}
       /\ checks = IF in.bundles = <<>> THEN missingAttestationChecks(in)
                   ELSE trueChecks(1)
  /\ pc = "report" /\ winner # 0 =>
       /\ winner \in authenticCandidates
       /\ \A k \in authenticCandidates : winner <= k
       /\ checks = trueChecks(winner)

ErrorInv == pc = "error" => mayFail(in.trust) /\ winner = 0

IInv == TypeOK /\ LoopInv /\ ReportInv /\ ErrorInv

\* What the comments of Run say of an error (verify.go:145-150, 194-195): the
\* configuration or platform failure "applies to every candidate equally".  The
\* order of the verifier's checks makes it otherwise: this does not hold.
ErrorAppliesToEveryCandidate ==
  pc = "error" =>
    \A k \in DOMAIN in.bundles : \E up \in BOOLEAN :
      verifyCandidateSignature(in, in.bundles[k], up) = "config"
=============================================================================
