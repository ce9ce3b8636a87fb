------------------------- MODULE VerifyCommand_proofs -------------------------
(***************************************************************************)
(* Proofs about verification.  The first part is about the core, for every *)
(* set of keys, names, digest sets and bundles and every number of         *)
(* candidates.  The second is about what a run of `smithmark verify` or    *)
(* `smithmark registry check` reports, for every set of invocations,       *)
(* bundles and trees and any number of edits of the tree.  The steps of    *)
(* the core keep its invariant, whatever the command around it does, so    *)
(* the core's lemmas are used as they stand.                               *)
(***************************************************************************)
EXTENDS VerifyCommand, SequenceTheorems, TLAPS

-----------------------------------------------------------------------------
\* Facts about the operators the loop is built from.

LEMMA BoundIsNat == MaxBundles \in Nat
BY CoreAssumption

LEMMA NamesAndKeys ==
  /\ \A n \in Names : n # ""
  /\ \A k \in Keys : k \notin {"none", "empty", "notPEM", "unloadable"}
BY CoreAssumption

\* What verifying one candidate's signature can answer.
LEMMA SignatureAnswers ==
  ASSUME NEW inp \in Input, NEW b \in Bundles, NEW up \in BOOLEAN
  PROVE  verifyCandidateSignature(inp, b, up) \in {"ok", "bad", "config"}
<1>1. b.form \in {"notABundle", "badEnvelope", "dsse"}
  BY CoreAssumption DEF Bundle
<1>2. inp.trust.material \in Keys \cup {"empty", "notPEM", "unloadable"}
  BY CoreAssumption DEF Input, Trust
<1>3. VerifyBundle(b, inp.trust) \in {"ok", "bad", "config"}
  BY <1>1, <1>2, NamesAndKeys DEF VerifyBundle
<1>4. VerifyKeylessBundle(b, inp.trust, up) \in {"ok", "bad", "config"}
  BY DEF VerifyKeylessBundle
<1>. QED  BY <1>3, <1>4 DEF verifyCandidateSignature

\* The verifier answers "ok" exactly for the bundles the trusted signer signed,
\* whenever it answers at all.
LEMMA SignatureSound ==
  ASSUME NEW inp \in Input, NEW b \in Bundles, NEW up \in BOOLEAN,
         verifyCandidateSignature(inp, b, up) # "config"
  PROVE  (verifyCandidateSignature(inp, b, up) = "ok") <=> SignedByTrusted(inp, b)
<1>1. /\ b.form \in {"notABundle", "badEnvelope", "dsse"}
      /\ b.cert \in BOOLEAN /\ b.chain \in BOOLEAN
      /\ b.san \in Names /\ b.issuer \in Names
      /\ b.signedBy \in Keys \cup {"none"}
  BY CoreAssumption DEF Bundle
<1>2. inp.trust.material \in Keys \cup {"empty", "notPEM", "unloadable"}
  BY CoreAssumption DEF Input, Trust
<1>3. CASE keylessRequested(inp.trust)
  BY <1>1, <1>3, NamesAndKeys
     DEF verifyCandidateSignature, VerifyKeylessBundle, SignedByTrusted,
         enforceKeylessIdentity
<1>4. CASE ~keylessRequested(inp.trust)
  BY <1>1, <1>2, <1>4, NamesAndKeys
     DEF verifyCandidateSignature, VerifyBundle, SignedByTrusted
<1>. QED  BY <1>3, <1>4

\* A configuration error needs a trust configuration that may fail.
LEMMA ConfigNeedsTrust ==
  ASSUME NEW inp \in Input, NEW b \in Bundles, NEW up \in BOOLEAN,
         verifyCandidateSignature(inp, b, up) = "config"
  PROVE  mayFail(inp.trust)
<1>1. b.form \in {"notABundle", "badEnvelope", "dsse"}
  BY CoreAssumption DEF Bundle
<1>2. inp.trust.material \in Keys \cup {"empty", "notPEM", "unloadable"}
  BY CoreAssumption DEF Input, Trust
<1>3. CASE keylessRequested(inp.trust)
  BY <1>3 DEF verifyCandidateSignature, VerifyKeylessBundle, rootFails,
              mayFail
<1>4. CASE ~keylessRequested(inp.trust)
  BY <1>1, <1>2, <1>4, NamesAndKeys
     DEF verifyCandidateSignature, VerifyBundle, mayFail
<1>. QED  BY <1>3, <1>4

\* An exact match of two digest sets is their equality.
LEMMA DigestMatchIsEquality ==
  ASSUME NEW expected \in DigestSets \cup {<<>>}, NEW attested \in DigestSets
  PROVE  digestMatch(expected, attested) <=> attested = expected
<1>1. attested = [alg \in DOMAIN attested |-> attested[alg]]
      /\ DOMAIN attested # {}
  BY CoreAssumption
<1>2. CASE expected \in DigestSets
  <2>1. expected = [alg \in DOMAIN expected |-> expected[alg]]
    BY <1>2, CoreAssumption
  <2>. QED  BY <1>1, <2>1 DEF digestMatch
<1>3. CASE expected = <<>>
  <2>1. DOMAIN expected = {}
    BY <1>3
  <2>. QED  BY <1>1, <2>1 DEF digestMatch
<1>. QED  BY <1>2, <1>3

\* A candidate passes the failing class stages exactly if it is authentic.
LEMMA PassingIsAuthentic ==
  ASSUME NEW inp \in Input, NEW b \in Bundles, NEW up \in BOOLEAN,
         verifyCandidateSignature(inp, b, up) # "config"
  PROVE  passedFailing(evaluateCandidate(inp, b, verifyCandidateSignature(inp, b, up)))
           <=> Authentic(inp, b)
<1> DEFINE sig == verifyCandidateSignature(inp, b, up)
           now == evaluateCandidate(inp, b, sig)
<1>1. /\ b.stmt.parses \in BOOLEAN /\ b.stmt.valid \in BOOLEAN
      /\ b.stmt.subject \in DigestSets
      /\ inp.ref \in DigestSets \cup {<<>>}
  BY CoreAssumption DEF Bundle, Statement, Input
<1>2. passedFailing(now) <=>
        /\ now["SIGNATURE_VALID"] = "pass"
        /\ now["PREDICATE_VERSION_UNSUPPORTED"] = "pass"
        /\ now["SUBJECT_DIGEST_MATCH"] = "pass"
        /\ now["MANIFEST_SCHEMA_VALID"] = "pass"
  BY DEF passedFailing, FailingClass
<1>3. /\ now["SIGNATURE_VALID"] = outcome(TRUE, sig = "ok")
      /\ now["PREDICATE_VERSION_UNSUPPORTED"] = outcome(sig = "ok", b.stmt.parses)
      /\ now["SUBJECT_DIGEST_MATCH"] =
           outcome(sig = "ok" /\ b.stmt.parses, digestMatch(inp.ref, b.stmt.subject))
      /\ now["MANIFEST_SCHEMA_VALID"] =
           outcome(sig = "ok" /\ b.stmt.parses, b.stmt.valid)
  BY DEF evaluateCandidate
<1> HIDE DEF sig, now
<1>4. passedFailing(now) <=>
        /\ sig = "ok" /\ b.stmt.parses /\ b.stmt.valid
        /\ digestMatch(inp.ref, b.stmt.subject)
  BY <1>1, <1>2, <1>3 DEF outcome
<1>5. (sig = "ok") <=> SignedByTrusted(inp, b)
  BY SignatureSound DEF sig
<1>6. digestMatch(inp.ref, b.stmt.subject) <=> b.stmt.subject = inp.ref
  BY <1>1, DigestMatchIsEquality
<1>. QED  BY <1>4, <1>5, <1>6 DEF Authentic, sig, now

-----------------------------------------------------------------------------
\* The inductive invariant.

LEMMA InputFacts ==
  ASSUME in \in Input
  PROVE  /\ Len(in.bundles) \in 0..MaxBundles
         /\ DOMAIN in.bundles = 1..Len(in.bundles)
         /\ \A k \in 1..Len(in.bundles) : in.bundles[k] \in Bundles
         /\ in.bundles = <<>> <=> Len(in.bundles) = 0
<1>1. PICK n \in 0..MaxBundles : in.bundles \in [1..n -> Bundles]
  BY DEF Input
<1>2. n \in Nat
  BY BoundIsNat
<1>3. in.bundles \in Seq(Bundles)
  BY <1>1, <1>2, SeqDef
<1>4. Len(in.bundles) = n
  BY <1>1, <1>2, <1>3, LenProperties
<1>. QED  BY <1>1, <1>2, <1>3, <1>4, LenProperties, EmptySeq

LEMMA ChecksTyped ==
  ASSUME NEW inp, NEW b, NEW sig
  PROVE  /\ evaluateCandidate(inp, b, sig) \in Checks
         /\ missingAttestationChecks(inp) \in Checks
         /\ NoChecks \in Checks
<1>1. /\ DOMAIN evalProvenance(inp) = {"PROVENANCE_PRESENT", "NPM_PROVENANCE_VERIFIED"}
      /\ evalProvenance(inp).PROVENANCE_PRESENT \in Outcome
      /\ evalProvenance(inp).NPM_PROVENANCE_VERIFIED \in Outcome
  BY DEF evalProvenance, outcome, Outcome
<1>2. evaluateCandidate(inp, b, sig) \in Checks
  <2> DEFINE e == evaluateCandidate(inp, b, sig)
  <2>0. \A c \in {"ATTESTATION_MISSING", "SIGNATURE_VALID",
                   "PREDICATE_VERSION_UNSUPPORTED", "SUBJECT_DIGEST_MATCH",
                   "MANIFEST_SCHEMA_VALID", "REKOR_INCLUSION_VALID",
                   "PROVENANCE_PRESENT", "NPM_PROVENANCE_VERIFIED",
                   "DEPENDENCY_SBOM_MISSING"} : e[c] \in Outcome
    BY DEF evaluateCandidate, evalProvenance, outcome, Outcome
  <2>1. \A c \in FailingClass \cup Informational : e[c] \in Outcome
    BY <2>0 DEF FailingClass, Informational
  <2>2. /\ DOMAIN e = FailingClass \cup Informational
        /\ e = [c \in DOMAIN e |-> e[c]]
    BY DEF evaluateCandidate, FailingClass, Informational
  <2> HIDE DEF e
  <2>. QED  BY <2>1, <2>2 DEF Checks, e
<1>3. missingAttestationChecks(inp) \in Checks
  BY <1>1 DEF missingAttestationChecks, Checks, Outcome
<1>4. NoChecks \in Checks
  BY DEF NoChecks, Checks, Outcome
<1>. QED  BY <1>2, <1>3, <1>4

\* What one evaluation of the candidate under the loop tells about it.
LEMMA EvaluationIsTrue ==
  ASSUME IInv, pc = "loop", i <= Len(in.bundles), NEW up \in BOOLEAN,
         verifyCandidateSignature(in, in.bundles[i], up) # "config"
  PROVE  LET now == evaluateCandidate(in, in.bundles[i],
                      verifyCandidateSignature(in, in.bundles[i], up))
         IN  /\ now = trueChecks(i)
             /\ passedFailing(now) <=> Authentic(in, in.bundles[i])
<1>1. in \in Input /\ i \in 1..Len(in.bundles)
  BY InputFacts DEF IInv, TypeOK
<1>2. in.bundles[i] \in Bundles
  BY <1>1, InputFacts
<1>3. verifyCandidateSignature(in, in.bundles[i], up)
        = IF SignedByTrusted(in, in.bundles[i]) THEN "ok" ELSE "bad"
  BY <1>1, <1>2, SignatureAnswers, SignatureSound
<1>. QED  BY <1>1, <1>2, <1>3, PassingIsAuthentic DEF trueChecks

LEMMA InvInit == Init => IInv
<1> SUFFICES ASSUME Init PROVE IInv
  OBVIOUS
<1>1. TypeOK
  <2>1. NoChecks \in Checks
    BY ChecksTyped
  <2>. QED  BY <2>1, BoundIsNat DEF Init, TypeOK
<1>2. LoopInv
  BY InputFacts DEF Init, LoopInv
<1>. QED  BY <1>1, <1>2 DEF Init, IInv, ReportInv, ErrorInv

LEMMA InvNext == IInv /\ [Next]_vars => IInv'
<1> SUFFICES ASSUME IInv, [Next]_vars PROVE IInv'
  OBVIOUS
<1> USE DEF IInv, TypeOK
<1>0. /\ Len(in.bundles) \in 0..MaxBundles /\ MaxBundles \in Nat
      /\ DOMAIN in.bundles = 1..Len(in.bundles)
      /\ in.bundles = <<>> <=> Len(in.bundles) = 0
  BY InputFacts, BoundIsNat
<1>1. CASE ReportMissing
  <2>1. TypeOK'
    BY <1>1, ChecksTyped DEF ReportMissing
  <2>2. authenticCandidates' = {}
    BY <1>0, <1>1 DEF ReportMissing, authenticCandidates
  <2>3. ReportInv'
    BY <1>1, <2>2 DEF ReportMissing, LoopInv, ReportInv
  <2>. QED  BY <1>1, <2>1, <2>3 DEF ReportMissing, LoopInv, ErrorInv
<1>2. ASSUME NEW up \in BOOLEAN, ConfigError(up)
      PROVE  IInv'
  <2>1. mayFail(in.trust)
    BY <1>0, <1>2, ConfigNeedsTrust, InputFacts DEF ConfigError
  <2>. QED  BY <1>2, <2>1 DEF ConfigError, LoopInv, ReportInv, ErrorInv
<1>3. ASSUME NEW up \in BOOLEAN, CandidatePasses(up)
      PROVE  IInv'
  <2>1. /\ checks' = trueChecks(i)
        /\ Authentic(in, in.bundles[i])
    BY <1>3, EvaluationIsTrue DEF CandidatePasses
  <2>2. /\ pc = "loop" /\ pc' = "report" /\ winner' = i /\ in' = in
        /\ i \in 1..Len(in.bundles)
        /\ i' = i /\ firstChecks' = firstChecks
    BY <1>3, <1>0 DEF CandidatePasses
  <2>3. \A k \in authenticCandidates : i <= k
    BY <1>0, <2>2 DEF LoopInv, authenticCandidates
  <2>4. authenticCandidates' = authenticCandidates
    BY <2>2 DEF authenticCandidates
  <2>5. trueChecks(i)' = trueChecks(i)
    BY <2>2 DEF trueChecks
  <2>6. i \in authenticCandidates
    BY <1>0, <2>1, <2>2 DEF authenticCandidates
  <2>7. ReportInv'
    BY <2>1, <2>2, <2>3, <2>4, <2>6 DEF ReportInv, trueChecks
  <2>8. TypeOK'
    BY <1>0, <2>1, <2>2, ChecksTyped DEF trueChecks
  <2>. QED  BY <2>2, <2>7, <2>8 DEF LoopInv, ErrorInv
<1>4. ASSUME NEW up \in BOOLEAN, CandidateFails(up)
      PROVE  IInv'
  <2>1. /\ firstChecks' = IF i = 1 THEN trueChecks(i) ELSE firstChecks
        /\ ~Authentic(in, in.bundles[i])
    BY <1>4, EvaluationIsTrue DEF CandidateFails
  <2>2. /\ pc = "loop" /\ pc' = pc /\ winner' = winner /\ in' = in
        /\ i \in 1..Len(in.bundles)
        /\ i' = i + 1 /\ checks' = checks
    BY <1>4, <1>0 DEF CandidateFails
  <2>3. \A k \in 1..(i' - 1) : ~Authentic(in, in.bundles[k])
    BY <2>1, <2>2 DEF LoopInv
  <2>4. firstChecks' = trueChecks(1)
    BY <2>1, <2>2 DEF LoopInv
  <2>5. LoopInv'
    BY <1>0, <2>2, <2>3, <2>4 DEF LoopInv, trueChecks
  <2>6. TypeOK'
    BY <1>0, <2>2, <2>4, ChecksTyped DEF trueChecks
  <2>. QED  BY <2>2, <2>5, <2>6 DEF ReportInv, ErrorInv
<1>5. CASE ReportFirst
  <2>1. /\ pc = "loop" /\ pc' = "report" /\ winner' = winner /\ in' = in
        /\ i > Len(in.bundles) /\ in.bundles # <<>>
        /\ i' = i /\ checks' = firstChecks /\ firstChecks' = firstChecks
    BY <1>5 DEF ReportFirst
  <2>2. authenticCandidates' = {}
    BY <1>0, <2>1 DEF LoopInv, authenticCandidates
  <2>3. checks' = trueChecks(1)
    BY <1>0, <2>1 DEF LoopInv
  <2>4. ReportInv'
    BY <2>1, <2>2, <2>3 DEF LoopInv, ReportInv, trueChecks
  <2>. QED  BY <2>1, <2>4 DEF LoopInv, ErrorInv
<1>6. CASE UNCHANGED vars
  BY <1>6 DEF vars, LoopInv, ReportInv, ErrorInv, trueChecks,
              authenticCandidates
<1>. QED  BY <1>1, <1>2, <1>3, <1>4, <1>5, <1>6 DEF Next

\* The inductive invariant holds in every state of a run.
THEOREM InvariantHolds == Spec => []IInv
BY InvInit, InvNext, PTL DEF Spec

\* Every variable of the core keeps its type.
THEOREM TypeCorrect == Spec => []TypeOK
BY InvariantHolds, PTL DEF IInv

-----------------------------------------------------------------------------
\* The invariants a caller relies on.

\* What the true checks of candidate k say, in terms of the candidate.
LEMMA TrueChecksSay ==
  ASSUME in \in Input, NEW k \in 1..Len(in.bundles)
  PROVE  LET b == in.bundles[k]
             signed == SignedByTrusted(in, b)
         IN  /\ trueChecks(k)["ATTESTATION_MISSING"] = "pass"
             /\ trueChecks(k)["SIGNATURE_VALID"] = IF signed THEN "pass" ELSE "fail"
             /\ ~signed =>
                  \A c \in {"PREDICATE_VERSION_UNSUPPORTED",
                           "SUBJECT_DIGEST_MATCH", "MANIFEST_SCHEMA_VALID",
                           "REKOR_INCLUSION_VALID", "DEPENDENCY_SBOM_MISSING"} :
                    trueChecks(k)[c] = "skip"
             /\ trueChecks(k)["SUBJECT_DIGEST_MATCH"] = "fail" <=>
                  signed /\ b.stmt.parses /\ b.stmt.subject # in.ref
             /\ passedFailing(trueChecks(k)) <=> Authentic(in, b)
<1> DEFINE b == in.bundles[k]
           signed == SignedByTrusted(in, b)
           sig == IF signed THEN "ok" ELSE "bad"
<1>1. b \in Bundles
  BY InputFacts
<1>2. /\ b.stmt.parses \in BOOLEAN /\ b.stmt.valid \in BOOLEAN
      /\ b.stmt.subject \in DigestSets
      /\ in.ref \in DigestSets \cup {<<>>}
  BY <1>1, CoreAssumption DEF Bundle, Statement, Input
<1>3. digestMatch(in.ref, b.stmt.subject) <=> b.stmt.subject = in.ref
  BY <1>2, DigestMatchIsEquality
<1>4. trueChecks(k) = evaluateCandidate(in, b, sig)
  BY DEF trueChecks
<1>5. /\ trueChecks(k)["ATTESTATION_MISSING"] = "pass"
      /\ trueChecks(k)["SIGNATURE_VALID"] = outcome(TRUE, sig = "ok")
      /\ trueChecks(k)["REKOR_INCLUSION_VALID"] =
           outcome(sig = "ok", keylessRequested(in.trust))
      /\ trueChecks(k)["PREDICATE_VERSION_UNSUPPORTED"] =
           outcome(sig = "ok", b.stmt.parses)
      /\ trueChecks(k)["SUBJECT_DIGEST_MATCH"] =
           outcome(sig = "ok" /\ b.stmt.parses, digestMatch(in.ref, b.stmt.subject))
      /\ trueChecks(k)["MANIFEST_SCHEMA_VALID"] =
           outcome(sig = "ok" /\ b.stmt.parses, b.stmt.valid)
      /\ trueChecks(k)["DEPENDENCY_SBOM_MISSING"] =
           outcome(sig = "ok" /\ b.stmt.parses, b.stmt.sbom)
  BY <1>4 DEF evaluateCandidate
<1>6. passedFailing(trueChecks(k)) <=>
        /\ trueChecks(k)["SIGNATURE_VALID"] = "pass"
        /\ trueChecks(k)["PREDICATE_VERSION_UNSUPPORTED"] = "pass"
        /\ trueChecks(k)["SUBJECT_DIGEST_MATCH"] = "pass"
        /\ trueChecks(k)["MANIFEST_SCHEMA_VALID"] = "pass"
  BY DEF passedFailing, FailingClass
<1>7. (sig = "ok") <=> signed
  OBVIOUS
<1> HIDE DEF sig, b, signed
<1>8. /\ trueChecks(k)["SIGNATURE_VALID"] = IF signed THEN "pass" ELSE "fail"
      /\ ~signed =>
           /\ trueChecks(k)["PREDICATE_VERSION_UNSUPPORTED"] = "skip"
           /\ trueChecks(k)["SUBJECT_DIGEST_MATCH"] = "skip"
           /\ trueChecks(k)["MANIFEST_SCHEMA_VALID"] = "skip"
           /\ trueChecks(k)["REKOR_INCLUSION_VALID"] = "skip"
           /\ trueChecks(k)["DEPENDENCY_SBOM_MISSING"] = "skip"
  BY <1>5, <1>7 DEF outcome
<1>9. trueChecks(k)["SUBJECT_DIGEST_MATCH"] = "fail" <=>
        signed /\ b.stmt.parses /\ b.stmt.subject # in.ref
  BY <1>2, <1>3, <1>5, <1>7 DEF outcome
<1>10. passedFailing(trueChecks(k)) <=>
         /\ signed /\ b.stmt.parses /\ b.stmt.valid
         /\ digestMatch(in.ref, b.stmt.subject)
  BY <1>2, <1>5, <1>6, <1>7 DEF outcome
<1>. QED  BY <1>3, <1>5, <1>8, <1>9, <1>10 DEF Authentic, b, signed

\* In a state of the invariant, the checks of a report fail exactly without a
\* winner, and say that the attestation is missing exactly without a candidate.
LEMMA ReportAgrees == IInv => ExitAgreesWithWinner
<1> SUFFICES ASSUME IInv, pc = "report"
             PROVE  FailingChecksFailed(checks) <=> winner = 0
  BY DEF ExitAgreesWithWinner
<1>1. /\ in \in Input /\ DOMAIN in.bundles = 1..Len(in.bundles)
      /\ Len(in.bundles) \in Nat
      /\ in.bundles = <<>> <=> Len(in.bundles) = 0
  BY InputFacts, BoundIsNat DEF IInv, TypeOK
<1>2. \A cs : FailingChecksFailed(cs) <=>
               ~(cs["ATTESTATION_MISSING"] = "pass" /\ passedFailing(cs))
  BY DEF FailingChecksFailed, passedFailing, FailingClass
<1>3. CASE winner # 0
  <2>1. winner \in 1..Len(in.bundles) /\ Authentic(in, in.bundles[winner])
        /\ checks = trueChecks(winner)
    BY <1>1, <1>3 DEF IInv, ReportInv, authenticCandidates
  <2>. QED  BY <1>1, <1>2, <1>3, <2>1, TrueChecksSay
<1>4. CASE winner = 0 /\ in.bundles # <<>>
  <2>1. 1 \in 1..Len(in.bundles) /\ ~Authentic(in, in.bundles[1])
        /\ checks = trueChecks(1)
    BY <1>1, <1>4 DEF IInv, ReportInv, authenticCandidates
  <2>. QED  BY <1>1, <1>2, <1>4, <2>1, TrueChecksSay
<1>5. CASE winner = 0 /\ in.bundles = <<>>
  <2>1. checks["ATTESTATION_MISSING"] = "fail"
    BY <1>5 DEF IInv, ReportInv, missingAttestationChecks, FailingClass
  <2>. QED  BY <1>2, <1>5, <2>1
<1>. QED  BY <1>3, <1>4, <1>5

LEMMA MissingIsSaid ==
  ASSUME IInv, pc = "report"
  PROVE  checks["ATTESTATION_MISSING"] = "fail" <=> in.bundles = <<>>
<1>1. /\ in \in Input /\ DOMAIN in.bundles = 1..Len(in.bundles)
      /\ Len(in.bundles) \in Nat
      /\ in.bundles = <<>> <=> Len(in.bundles) = 0
  BY InputFacts, BoundIsNat DEF IInv, TypeOK
<1>2. CASE in.bundles = <<>>
  BY <1>1, <1>2
     DEF IInv, ReportInv, authenticCandidates, missingAttestationChecks, FailingClass
<1>3. CASE in.bundles # <<>>
  <2>1. PICK k \in 1..Len(in.bundles) : checks = trueChecks(k)
    BY <1>1, <1>3 DEF IInv, ReportInv, authenticCandidates
  <2>. QED  BY <1>1, <1>3, <2>1, TrueChecksSay
<1>. QED  BY <1>2, <1>3

\* FailingChecksFailed and WinningBundle agree in every report: a process exits
\* as verified exactly if a winner, and so evidence, exists.
THEOREM ExitAgrees == Spec => []ExitAgreesWithWinner
BY ReportAgrees, InvariantHolds, PTL

\* A rejecting report blames what is true of the first candidate.
THEOREM BlameIsAlwaysTrue == Spec => []BlameIsTrue
<1>1. IInv => BlameIsTrue
  <2> SUFFICES ASSUME IInv, pc = "report", winner = 0, in.bundles # <<>>
               PROVE  BlameIsTrue
    BY DEF BlameIsTrue
  <2>1. in \in Input /\ 1 \in 1..Len(in.bundles) /\ checks = trueChecks(1)
    BY InputFacts, BoundIsNat DEF IInv, TypeOK, ReportInv
  <2>. QED  BY <2>1, TrueChecksSay DEF BlameIsTrue
<1>. QED  BY <1>1, InvariantHolds, PTL

\* No verdict of a report is read from a statement nobody trusted signed.
THEOREM UnverifiedNeverRead == Spec => []UnverifiedStatementNotRead
<1>1. IInv => UnverifiedStatementNotRead
  <2> DEFINE content == {"PREDICATE_VERSION_UNSUPPORTED",
                         "SUBJECT_DIGEST_MATCH", "MANIFEST_SCHEMA_VALID",
                         "REKOR_INCLUSION_VALID", "DEPENDENCY_SBOM_MISSING"}
             reflected == IF winner = 0 THEN 1 ELSE winner
  <2> SUFFICES ASSUME IInv, pc = "report",
                      NEW c \in content, checks[c] # "skip"
               PROVE  /\ in.bundles # <<>>
                      /\ SignedByTrusted(in, in.bundles[reflected])
    BY DEF UnverifiedStatementNotRead
  <2>1. /\ in \in Input /\ DOMAIN in.bundles = 1..Len(in.bundles)
        /\ Len(in.bundles) \in Nat
        /\ in.bundles = <<>> <=> Len(in.bundles) = 0
    BY InputFacts, BoundIsNat DEF IInv, TypeOK
  <2>2. in.bundles # <<>>
    <3> SUFFICES ASSUME in.bundles = <<>> PROVE FALSE
      OBVIOUS
    <3>1. winner = 0
      BY <2>1 DEF IInv, ReportInv, authenticCandidates
    <3>2. checks = missingAttestationChecks(in)
      BY <3>1 DEF IInv, ReportInv
    <3>3. missingAttestationChecks(in)[c] = "skip"
      BY DEF missingAttestationChecks, evalProvenance, FailingClass, Informational
    <3>. QED  BY <3>2, <3>3
  <2>3. reflected \in 1..Len(in.bundles) /\ checks = trueChecks(reflected)
    BY <2>1, <2>2 DEF IInv, ReportInv, authenticCandidates
  <2>. QED  BY <2>1, <2>2, <2>3, TrueChecksSay
<1>. QED  BY <1>1, InvariantHolds, PTL

-----------------------------------------------------------------------------
\* The loop implements the promise.

\* Every step of the core that keeps its invariant is a step of the promise.
LEMMA CoreStepKeepsPromise ==
  IInv /\ IInv' /\ [Next]_vars => [Promise!Next]_(Promise!pvars)
<1> SUFFICES ASSUME IInv, IInv', [Next]_vars
             PROVE  [Promise!Next]_(Promise!pvars)
  OBVIOUS
<1>0. in' = in
  BY DEF Next, vars, ReportMissing, ConfigError, CandidatePasses,
         CandidateFails, ReportFirst
<1>1. /\ authenticCandidates' = authenticCandidates
      /\ mayFail(in.trust)' = mayFail(in.trust)
  BY <1>0 DEF authenticCandidates
<1>2. CASE ReportMissing \/ ReportFirst
  <2>1. /\ pc = "loop" /\ pc' = "report" /\ winner = 0 /\ winner' = 0
    BY <1>2 DEF ReportMissing, ReportFirst, IInv, LoopInv
  <2>2. authenticCandidates = {}
    BY <1>1, <2>1 DEF IInv, ReportInv
  <2>3. Promise!Reject
    BY <1>1, <2>1, <2>2 DEF Promise!Reject, verdict
  <2>. QED  BY <2>3 DEF Promise!Next
<1>3. ASSUME NEW up \in BOOLEAN, ConfigError(up)
      PROVE  Promise!GiveUp
  <2>1. /\ pc = "loop" /\ pc' = "error" /\ winner' = winner
    BY <1>3 DEF ConfigError
  <2>2. mayFail(in.trust)
    BY <1>1, <2>1 DEF IInv, ErrorInv
  <2>. QED  BY <1>1, <2>1, <2>2 DEF Promise!GiveUp, verdict
<1>4. ASSUME NEW up \in BOOLEAN, CandidatePasses(up)
      PROVE  Promise!Accept
  <2>1. /\ pc = "loop" /\ pc' = "report" /\ winner' = i /\ winner' # 0
    BY <1>4 DEF CandidatePasses, IInv, TypeOK
  <2>2. winner' \in authenticCandidates /\ \A k \in authenticCandidates : winner' <= k
    BY <1>1, <2>1 DEF IInv, ReportInv
  <2>. QED  BY <1>1, <2>1, <2>2 DEF Promise!Accept, verdict
<1>5. ASSUME NEW up \in BOOLEAN, CandidateFails(up)
      PROVE  UNCHANGED Promise!pvars
  BY <1>1, <1>5 DEF CandidateFails, Promise!pvars, verdict
<1>6. CASE UNCHANGED vars
  BY <1>1, <1>6 DEF vars, Promise!pvars, verdict
<1>. QED  BY <1>2, <1>3, <1>4, <1>5, <1>6 DEF Next, Promise!Next

\* Every run of the loop is a run of VerifyPromise: the verdict accepts the first
\* authentic candidate, rejects only without one, and is withheld only when
\* the trust configuration may be unusable.  (Its fairness is left to TLC.)
THEOREM Implements == Spec => Promise!Spec
<1>1. Init => Promise!Init
  <2> SUFFICES ASSUME Init PROVE Promise!Init
    OBVIOUS
  <2>1. authenticCandidates \in SUBSET (1..MaxBundles)
    BY InputFacts, BoundIsNat DEF Init, authenticCandidates
  <2>. QED  BY <2>1 DEF Init, Promise!Init, verdict, mayFail
<1>. QED  BY <1>1, CoreStepKeepsPromise, InvariantHolds, PTL DEF Spec, Promise!Spec

-----------------------------------------------------------------------------
\* The command.

\* The steps before the core runs, and whether the command got past a step.
Before == {"flags", "entry", "discover", "trust"}
past(steps) == cmd \notin steps /\ (cmd = "ended" => word # "")

unusable ==
  IF keyless THEN flags.sigstoreRoot = "unreadable"
  ELSE flags.trustRoot \in {"unset", "unreadable"}

CommandTypes ==
  /\ flags \in Invocations /\ {tree, digested} \subseteq Tree
  /\ linted \in BOOLEAN /\ entry \in {"none", "npm", "other"}
  /\ edits \in Nat
  /\ cmd \in Before \cup {"run", "evidence", "lint", "report", "ended"}

\* Where the core stands when the command is at a step of its own.
PhaseInv ==
  /\ cmd \in Before => pc = "loop" /\ i = 1
  /\ cmd = "run" => pc = "loop"
  /\ cmd = "evidence" => pc # "loop"
  /\ past(Before \cup {"run", "evidence"}) /\ entry # "other" => pc = "report"

EntryInv ==
  /\ cmd = "entry" \/ entry # "none" => flags.command = "registryCheck"
  /\ entry = "other" => evidence = 0 /\ cmd \in {"report", "ended"}

\* Candidates are only ever judged under the usable trust the flags name.
TrustInv ==
  /\ past({"flags"}) => validateVerifyTrustMode
  /\ past(Before) /\ entry # "other" /\ in.bundles # <<>> =>
       ~unusable /\ in.trust = trustFrom(flags)

EvidenceInv ==
  /\ cmd \in Before \cup {"run", "evidence"} => evidence = 0
  /\ past(Before \cup {"run", "evidence"}) /\ entry # "other" => evidence = winner

\* The tree is the digested one as long as nobody edits it.
TreeInv ==
  /\ edits = 0 => tree = digested
  /\ flags.target = "skill" /\ past({"flags", "entry", "discover"}) =>
       in.ref = digested.digest /\ ~digested.gone
  /\ flags.target = "skill" /\ edits = 0
       /\ past(Before \cup {"run", "evidence", "lint"}) =>
       linted = digested.undeclared

ExitInv ==
  /\ cmd # "ended" => word = ""
  /\ word # "" => exit = verifyExitCode /\ word = verdictWord(exit)
  /\ cmd = "ended" => (exit = 3 <=> word = "")

CommandInv ==
  /\ IInv /\ CommandTypes /\ PhaseInv /\ EntryInv /\ TrustInv /\ EvidenceInv
  /\ TreeInv /\ ExitInv

-----------------------------------------------------------------------------
\* Facts about the operators of the command.

\* The invocations have their type, and those of registry check are plain.
LEMMA FlagFacts ==
  ASSUME flags \in Invocations
  PROVE  /\ flags \in Invocation
         /\ flags.command = "registryCheck" => flags.target = "remote" /\ ~flags.strict
BY CommandAssumption

\* A completed verification has three exit codes.
LEMMA ExitCodeRange == verifyExitCode \in 0..2
BY DEF verifyExitCode

\* It is 1 exactly if the checks of the report say so.
LEMMA ExitCodeOne ==
  verifyExitCode = 1 <=> anyFailingClassCheckRan /\ FailingChecksFailed(checks)
BY DEF verifyExitCode

\* The registry serves no candidate before it is asked.
LEMMA NothingIsInput == NothingFound \in Input /\ NothingFound.bundles = <<>>
<1>1. NoTrust \in Trusts
  BY CommandAssumption DEF NoTrust, Trust
<1>2. <<>> \in [1..0 -> Bundles]
  OBVIOUS
<1>3. 0 \in 0..MaxBundles
  BY BoundIsNat
<1>. QED  BY <1>1, <1>2, <1>3 DEF NothingFound, Input, Provenance

\* Material, names and root of their types make a trust configuration.
LEMMA TrustRecords ==
  ASSUME NEW m \in Keys \cup {"empty", "notPEM", "unloadable"},
         NEW n \in Names \cup {""}, NEW u \in Names \cup {""},
         NEW r \in {"live", "good", "bad"}
  PROVE  [material |-> m, identity |-> n, issuer |-> u, trustRoot |-> r] \in Trust
BY DEF Trust

\* Usable flags make one the core can run with.
LEMMA TrustIsTyped ==
  ASSUME flags \in Invocation, ~unusable
  PROVE  trustFrom(flags) \in Trust
<1>1. /\ flags.identity \in Names \cup {""} /\ flags.issuer \in Names \cup {""}
      /\ flags.sigstoreRoot \in {"unset", "unreadable", "good", "bad"}
      /\ flags.trustRoot \in
           Keys \cup {"unset", "unreadable", "empty", "notPEM", "unloadable"}
  BY DEF Invocation
<1>2. CASE keyless
  <2> DEFINE root == IF flags.sigstoreRoot = "unset" THEN "live"
                     ELSE flags.sigstoreRoot
  <2>1. trustFrom(flags)
          = [material |-> "empty", identity |-> flags.identity,
             issuer |-> flags.issuer, trustRoot |-> root]
    BY <1>2 DEF trustFrom, NoTrust
  <2>2. root \in {"live", "good", "bad"}
    BY <1>1, <1>2 DEF unusable
  <2>. HIDE DEF root
  <2>3. /\ "empty" \in Keys \cup {"empty", "notPEM", "unloadable"}
        /\ flags.identity \in Names \cup {""} /\ flags.issuer \in Names \cup {""}
    BY <1>1
  <2>4. [material |-> "empty", identity |-> flags.identity,
         issuer |-> flags.issuer, trustRoot |-> root] \in Trust
    BY <2>2, <2>3, TrustRecords
  <2>. HIDE DEF trustFrom
  <2>. QED  BY <2>1, <2>4
<1>3. CASE ~keyless
  <2>1. trustFrom(flags)
          = [material |-> flags.trustRoot, identity |-> "", issuer |-> "",
             trustRoot |-> "live"]
    BY <1>3 DEF trustFrom, NoTrust
  <2>2. flags.trustRoot \in Keys \cup {"empty", "notPEM", "unloadable"}
    BY <1>1, <1>3 DEF unusable
  <2>. HIDE DEF trustFrom
  <2>. QED  BY <2>1, <2>2, TrustRecords
<1>. QED  BY <1>2, <1>3

\* Before its first step the core's invariant holds of every input.
LEMMA FreshCore ==
  ASSUME IInv, pc = "loop", i = 1, in' \in Input,
         UNCHANGED <<pc, i, firstChecks, checks, winner>>
  PROVE  IInv'
<1>1. TypeOK'
  BY DEF IInv, TypeOK
<1>2. Len(in'.bundles) \in Nat
  <2>1. PICK n \in 0..MaxBundles : in'.bundles \in [1..n -> Bundles]
    BY DEF Input
  <2>2. n \in Nat
    BY BoundIsNat
  <2>. QED  BY <2>1, <2>2, SeqDef, LenProperties
<1>3. LoopInv'
  BY <1>2 DEF IInv, LoopInv
<1>. QED  BY <1>1, <1>3 DEF IInv, ReportInv, ErrorInv

\* An operational failure leaves nothing behind to answer for.
LEMMA FailKeeps ==
  ASSUME CommandInv, NEW step, fail(step), cmd # "ended", UNCHANGED vars
  PROVE  CommandInv'
<1>1. /\ cmd' = "ended" /\ exit' = 3 /\ word' = ""
      /\ UNCHANGED <<flags, entry, tree, edits, digested, linted, evidence>>
      /\ UNCHANGED <<in, pc, i, firstChecks, checks, winner>>
  BY DEF fail, vars, CommandInv, ExitInv
<1>2. IInv'
  BY InvNext DEF CommandInv
<1>3. CommandTypes' /\ EntryInv'
  BY <1>1 DEF CommandInv, CommandTypes, EntryInv
<1>4. \A S : ~past(S)'
  BY <1>1 DEF past
<1>5. PhaseInv' /\ TrustInv' /\ EvidenceInv' /\ TreeInv' /\ ExitInv'
  BY <1>1, <1>4 DEF CommandInv, PhaseInv, TrustInv, EvidenceInv, TreeInv,
                    ExitInv, Before
<1>. QED  BY <1>2, <1>3, <1>5 DEF CommandInv

\* A step of the command that leaves the core and the tree alone keeps the core's
\* invariant and the words of a report that is not written yet.
LEMMA ContinueKeeps ==
  ASSUME CommandInv, NEW step, continueWith(step), cmd # "ended", step # "ended"
  PROVE  /\ cmd' = step /\ ExitInv' /\ past({"flags"})' = (step # "flags")
         /\ \A S : past(S)' <=> step \notin S
         /\ \A S : past(S) <=> cmd \notin S
         /\ UNCHANGED <<flags, tree, edits, why, word, exit>> /\ word = ""
BY DEF CommandInv, ExitInv, continueWith, past

-----------------------------------------------------------------------------
\* The inductive invariant.

LEMMA CommandInvInit == CommandInit => CommandInv
<1> SUFFICES ASSUME CommandInit PROVE CommandInv
  OBVIOUS
<1>1. IInv
  <2>1. /\ in \in Input /\ in.bundles = <<>> /\ Len(in.bundles) = 0
        /\ pc = "loop" /\ i = 1 /\ winner = 0
        /\ firstChecks \in Checks /\ checks \in Checks
    BY NothingIsInput, ChecksTyped DEF CommandInit
  <2>2. TypeOK
    BY <2>1, BoundIsNat DEF TypeOK
  <2>3. LoopInv
    BY <2>1 DEF LoopInv
  <2>. QED  BY <2>1, <2>2, <2>3 DEF IInv, ReportInv, ErrorInv
<1>2. CommandTypes
  BY CommandAssumption DEF CommandInit, CommandTypes, Before
<1>3. ~past({"flags"}) /\ \A S : "flags" \in S => ~past(S)
  BY DEF CommandInit, past
<1>4. PhaseInv /\ EntryInv /\ TrustInv /\ EvidenceInv /\ TreeInv /\ ExitInv
  BY <1>3 DEF CommandInit, PhaseInv, EntryInv, TrustInv, EvidenceInv, TreeInv,
              ExitInv, Before
<1>. QED  BY <1>1, <1>2, <1>4 DEF CommandInv

LEMMA CommandInvNext == CommandInv /\ [CommandNext]_allVars => CommandInv'
<1> SUFFICES ASSUME CommandInv, [CommandNext]_allVars PROVE CommandInv'
  OBVIOUS
<1> USE DEF CommandInv
<1>0. /\ flags \in Invocation /\ flags.command \in {"verify", "registryCheck"}
      /\ flags.command = "registryCheck" => flags.target = "remote" /\ ~flags.strict
  BY FlagFacts DEF CommandTypes, Invocation
<1>1. CASE CheckFlags
  <2>1. cmd = "flags" /\ UNCHANGED vars
    BY <1>1 DEF CheckFlags
  <2>2. CASE fail("flags")
    BY <2>1, <2>2, FailKeeps
  <2>3. CASE ~fail("flags")
    <3>1. /\ validateVerifyTrustMode
          /\ continueWith(IF flags.command = "verify" THEN "discover" ELSE "entry")
          /\ UNCHANGED <<entry, digested, linted, evidence>>
      BY <1>1, <2>3 DEF CheckFlags
    <3>2. /\ cmd' = IF flags.command = "verify" THEN "discover" ELSE "entry"
          /\ ExitInv' /\ word = ""
          /\ UNCHANGED <<flags, tree, edits, why, word, exit>>
      BY <2>1, <3>1, ContinueKeeps
    <3>3. IInv'
      BY <2>1, InvNext
    <3>4. ~past(Before)' /\ ~past({"flags", "entry", "discover"})'
          /\ ~past(Before \cup {"run", "evidence"})'
          /\ ~past(Before \cup {"run", "evidence", "lint"})'
      BY <3>2 DEF past, Before
    <3>5. PhaseInv'
      BY <2>1, <3>2, <3>4 DEF PhaseInv, Before, vars
    <3>6. CommandTypes' /\ EntryInv' /\ EvidenceInv'
      BY <1>0, <2>1, <3>1, <3>2, <3>4
         DEF CommandTypes, EntryInv, EvidenceInv, Before
    <3>7. TrustInv' /\ TreeInv'
      BY <3>1, <3>2, <3>4
         DEF TrustInv, TreeInv, validateVerifyTrustMode, keyless
    <3>. QED  BY <3>2, <3>3, <3>5, <3>6, <3>7
  <2>. QED  BY <2>2, <2>3
<1>2. CASE FetchRegistryEntry
  <2>1. cmd = "entry" /\ UNCHANGED vars
    BY <1>2 DEF FetchRegistryEntry
  <2>2. CASE fail("discovery")
    BY <2>1, <2>2, FailKeeps
  <2>3. ASSUME NEW e \in {"npm", "other"}, entry' = e,
               continueWith(IF e = "npm" THEN "discover" ELSE "report"),
               UNCHANGED <<digested, linted, evidence>>
        PROVE  CommandInv'
    <3>1. cmd' = (IF e = "npm" THEN "discover" ELSE "report")
          /\ ExitInv' /\ word = ""
          /\ UNCHANGED <<flags, tree, edits, why, word, exit>>
      BY <2>1, <2>3, ContinueKeeps
    <3>2. flags.command = "registryCheck" /\ flags.target # "skill"
      BY <1>0, <2>1 DEF EntryInv
    <3>3. IInv'
      BY <2>1, InvNext
    <3>4. pc' = "loop" /\ i' = 1
      BY <2>1 DEF PhaseInv, Before, vars
    <3>5. past({"flags"})
      BY <2>1 DEF past
    <3>6. e = "npm" => ~past(Before)' /\ ~past(Before \cup {"run", "evidence"})'
      BY <3>1 DEF past, Before
    <3>7. evidence = 0
      BY <2>1 DEF EvidenceInv, Before
    <3>8. PhaseInv' /\ EvidenceInv'
      BY <2>3, <3>1, <3>4, <3>6, <3>7 DEF PhaseInv, EvidenceInv, Before
    <3>9. CommandTypes' /\ EntryInv'
      BY <2>3, <3>1, <3>2, <3>7 DEF CommandTypes, EntryInv, Before
    <3>10. TrustInv'
      BY <2>3, <3>1, <3>5, <3>6
         DEF TrustInv, validateVerifyTrustMode, keyless
    <3>11. TreeInv'
      BY <2>3, <3>1, <3>2 DEF TreeInv
    <3>. QED  BY <3>1, <3>3, <3>8, <3>9, <3>10, <3>11
  <2>. QED  BY <1>2, <2>2, <2>3 DEF FetchRegistryEntry
<1>3. CASE Discover
  <2>1. /\ cmd = "discover" /\ UNCHANGED <<pc, i, firstChecks, checks, winner>>
        /\ pc = "loop" /\ i = 1 /\ entry # "other"
    BY <1>3 DEF Discover, PhaseInv, EntryInv, Before
  <2>2. CASE fail("discovery") /\ UNCHANGED in
    BY <2>1, <2>2, FailKeeps DEF vars
  <2>3. CASE ~(fail("discovery") /\ UNCHANGED in)
    <3>1. /\ flags.target \in {"skill", "npmDir"} => ~tree.gone /\ ~tree.malformed
          /\ in' \in [ref: IF flags.target = "skill" THEN {tree.digest}
                           ELSE DigestSets \cup {<<>>},
                      bundles: {bs \in UNION {[1..n -> Bundles] : n \in 0..MaxBundles} :
                                  flags.bundle = "read" => Len(bs) = 1},
                      npmProvenance: IF flags.target = "skill" \/ flags.bundle = "read"
                                     THEN {"none"} ELSE Provenance,
                      trust: {NoTrust}]
          /\ digested' = tree
          /\ continueWith("trust")
          /\ UNCHANGED <<entry, linted, evidence>>
      BY <1>3, <2>3 DEF Discover
    <3>2. /\ cmd' = "trust" /\ ExitInv' /\ word = ""
          /\ UNCHANGED <<flags, tree, edits, why, word, exit>>
      BY <2>1, <3>1, ContinueKeeps
    <3>3. in' \in Input
      <4>1. NoTrust \in Trusts /\ {"none"} \subseteq Provenance
        BY CommandAssumption DEF NoTrust, Trust, Provenance
      <4>2. tree.digest \in DigestSets
        BY DEF CommandTypes, Tree
      <4>. QED  BY <3>1, <4>1, <4>2 DEF Input
    <3>4. IInv'
      BY <2>1, <3>3, FreshCore
    <3>5. past({"flags"}) /\ ~past(Before)' /\ ~past(Before \cup {"run", "evidence"})'
          /\ ~past(Before \cup {"run", "evidence", "lint"})'
      BY <2>1, <3>2 DEF past, Before
    <3>6. PhaseInv' /\ EntryInv'
      BY <2>1, <3>1, <3>2, <3>5 DEF PhaseInv, EntryInv, Before
    <3>7. CommandTypes' /\ EvidenceInv'
      BY <2>1, <3>1, <3>2, <3>5 DEF CommandTypes, EvidenceInv, Before
    <3>8. TrustInv'
      BY <3>2, <3>5 DEF TrustInv, validateVerifyTrustMode, keyless
    <3>9. TreeInv'
      BY <3>1, <3>2, <3>5 DEF TreeInv
    <3>. QED  BY <3>2, <3>4, <3>6, <3>7, <3>8, <3>9
  <2>. QED  BY <2>2, <2>3
<1>4. CASE ReadTrust
  <2>1. /\ cmd = "trust" /\ UNCHANGED <<pc, i, firstChecks, checks, winner>>
        /\ pc = "loop" /\ i = 1 /\ entry # "other"
    BY <1>4 DEF ReadTrust, PhaseInv, EntryInv, Before
  <2>2. CASE in.bundles # <<>> /\ unusable
    <3>1. fail("trust") /\ UNCHANGED vars
      BY <1>4, <2>1, <2>2 DEF ReadTrust, unusable, vars
    <3>. QED  BY <2>1, <3>1, FailKeeps
  <2>3. CASE ~(in.bundles # <<>> /\ unusable)
    <3>1. /\ continueWith("run")
          /\ in' = IF in.bundles = <<>> THEN in
                   ELSE [in EXCEPT !.trust = trustFrom(flags)]
          /\ UNCHANGED <<entry, digested, linted, evidence>>
      BY <1>4, <2>3 DEF ReadTrust, unusable
    <3>2. /\ cmd' = "run" /\ ExitInv' /\ word = ""
          /\ UNCHANGED <<flags, tree, edits, why, word, exit>>
      BY <2>1, <3>1, ContinueKeeps
    <3>3. /\ in' \in Input /\ in'.ref = in.ref
          /\ in'.bundles # <<>> => ~unusable /\ in'.trust = trustFrom(flags)
      <4>1. CASE in.bundles = <<>>
        BY <3>1, <4>1 DEF IInv, TypeOK
      <4>2. CASE in.bundles # <<>>
        <5>1. trustFrom(flags) \in Trusts /\ in \in Input
          BY <1>0, <2>3, <4>2, TrustIsTyped, CommandAssumption DEF IInv, TypeOK
        <5>2. in' = [in EXCEPT !.trust = trustFrom(flags)]
          BY <3>1, <4>2
        <5>. QED  BY <2>3, <4>2, <5>1, <5>2 DEF Input
      <4>. QED  BY <4>1, <4>2
    <3>4. IInv'
      BY <2>1, <3>3, FreshCore
    <3>5. /\ past({"flags"}) /\ past({"flags", "entry", "discover"})
          /\ ~past(Before \cup {"run", "evidence"})'
          /\ ~past(Before \cup {"run", "evidence", "lint"})'
      BY <2>1, <3>2 DEF past, Before
    <3>6. PhaseInv' /\ EntryInv'
      BY <2>1, <3>1, <3>2, <3>5 DEF PhaseInv, EntryInv, Before
    <3>7. CommandTypes' /\ EvidenceInv'
      BY <2>1, <3>1, <3>2, <3>5 DEF CommandTypes, EvidenceInv, Before
    <3>8. TrustInv'
      BY <3>2, <3>3, <3>5
         DEF TrustInv, validateVerifyTrustMode, keyless, unusable, trustFrom
    <3>9. TreeInv'
      BY <3>1, <3>2, <3>3, <3>5 DEF TreeInv
    <3>. QED  BY <3>2, <3>4, <3>6, <3>7, <3>8, <3>9
  <2>. QED  BY <2>2, <2>3
<1>5. CASE RunCore
  <2>1. /\ cmd = "run" /\ Next /\ entry # "other" /\ pc = "loop"
        /\ continueWith(IF pc' = "loop" THEN "run" ELSE "evidence")
        /\ UNCHANGED <<entry, digested, linted, evidence>>
    BY <1>5 DEF RunCore, PhaseInv, EntryInv
  <2>2. /\ cmd' = IF pc' = "loop" THEN "run" ELSE "evidence"
        /\ ExitInv' /\ word = ""
        /\ UNCHANGED <<flags, tree, edits, why, word, exit>>
    BY <2>1, ContinueKeeps
  <2>3. IInv'
    BY <2>1, InvNext
  <2>4. in' = in
    BY <2>1 DEF Next, ReportMissing, ConfigError, CandidatePasses, CandidateFails,
                ReportFirst
  <2>5. /\ past({"flags"}) /\ past({"flags", "entry", "discover"}) /\ past(Before)
        /\ ~past(Before \cup {"run", "evidence"})'
        /\ ~past(Before \cup {"run", "evidence", "lint"})'
    BY <2>1, <2>2 DEF past, Before
  <2>6. PhaseInv' /\ EntryInv' /\ CommandTypes' /\ EvidenceInv'
    BY <2>1, <2>2, <2>5 DEF PhaseInv, EntryInv, CommandTypes, EvidenceInv, Before
  <2>7. TrustInv'
    BY <2>1, <2>2, <2>4, <2>5
       DEF TrustInv, validateVerifyTrustMode, keyless, unusable, trustFrom
  <2>8. TreeInv'
    BY <2>1, <2>2, <2>4, <2>5 DEF TreeInv
  <2>. QED  BY <2>2, <2>3, <2>6, <2>7, <2>8
<1>6. CASE BuildEvidence
  <2>1. cmd = "evidence" /\ UNCHANGED vars /\ entry # "other"
    BY <1>6 DEF BuildEvidence, EntryInv
  <2>2. CASE \E step : fail(step)
    BY <2>1, <2>2, FailKeeps
  <2>3. CASE ~\E step : fail(step)
    <3>1. /\ pc # "error" /\ evidence' = winner
          /\ continueWith(IF flags.command = "verify" THEN "lint" ELSE "report")
          /\ UNCHANGED <<entry, digested, linted>>
      BY <1>6, <2>3 DEF BuildEvidence
    <3>2. /\ cmd' = IF flags.command = "verify" THEN "lint" ELSE "report"
          /\ ExitInv' /\ word = ""
          /\ UNCHANGED <<flags, tree, edits, why, word, exit>>
      BY <2>1, <3>1, ContinueKeeps
    <3>3. IInv'
      BY <2>1, InvNext
    <3>4. pc = "report"
      BY <2>1, <3>1 DEF PhaseInv, IInv, TypeOK
    <3>5. past({"flags"}) /\ past({"flags", "entry", "discover"}) /\ past(Before)
      BY <2>1 DEF past, Before
    <3>6. flags.target = "skill" => ~past(Before \cup {"run", "evidence", "lint"})'
      BY <1>0, <3>2 DEF past, Before
    <3>7. PhaseInv' /\ EntryInv' /\ CommandTypes' /\ EvidenceInv'
      BY <2>1, <3>1, <3>2, <3>4
         DEF PhaseInv, EntryInv, CommandTypes, EvidenceInv, Before, vars
    <3>8. TrustInv'
      BY <2>1, <3>1, <3>2, <3>5
         DEF TrustInv, validateVerifyTrustMode, keyless, unusable, trustFrom, vars
    <3>9. TreeInv'
      BY <2>1, <3>1, <3>2, <3>5, <3>6 DEF TreeInv, vars
    <3>. QED  BY <3>2, <3>3, <3>7, <3>8, <3>9
  <2>. QED  BY <2>2, <2>3
<1>7. CASE Lint
  <2>1. cmd = "lint" /\ UNCHANGED vars /\ entry # "other"
    BY <1>7 DEF Lint, EntryInv
  <2>2. CASE fail("lint")
    BY <2>1, <2>2, FailKeeps
  <2>3. CASE ~fail("lint")
    <3>1. /\ continueWith("report")
          /\ UNCHANGED <<entry, digested, evidence>>
          /\ IF flags.target = "remote" \/ tree.gone THEN linted' = linted
             ELSE linted' = tree.undeclared
      BY <1>7, <2>3 DEF Lint
    <3>2. /\ cmd' = "report" /\ ExitInv' /\ word = ""
          /\ UNCHANGED <<flags, tree, edits, why, word, exit>>
      BY <2>1, <3>1, ContinueKeeps
    <3>3. IInv'
      BY <2>1, InvNext
    <3>4. /\ past({"flags"}) /\ past({"flags", "entry", "discover"}) /\ past(Before)
          /\ past(Before \cup {"run", "evidence"})
      BY <2>1 DEF past, Before
    <3>5. linted' \in BOOLEAN
      BY <3>1 DEF CommandTypes, Tree
    <3>6. PhaseInv' /\ EntryInv' /\ CommandTypes' /\ EvidenceInv'
      BY <2>1, <3>1, <3>2, <3>4, <3>5
         DEF PhaseInv, EntryInv, CommandTypes, EvidenceInv, Before, vars
    <3>7. TrustInv'
      BY <2>1, <3>1, <3>2, <3>4
         DEF TrustInv, validateVerifyTrustMode, keyless, unusable, trustFrom, vars
    <3>8. TreeInv'
      BY <2>1, <3>1, <3>2, <3>4 DEF TreeInv, vars
    <3>. QED  BY <3>2, <3>3, <3>6, <3>7, <3>8
  <2>. QED  BY <2>2, <2>3
<1>8. CASE WriteReport
  <2>1. cmd = "report" /\ UNCHANGED vars
    BY <1>8 DEF WriteReport
  <2>2. CASE fail("stdout")
    BY <2>1, <2>2, FailKeeps
  <2>3. CASE ~fail("stdout")
    <3>1. /\ cmd' = "ended" /\ exit' = verifyExitCode /\ word' = verdictWord(exit')
          /\ UNCHANGED <<flags, entry, tree, edits, digested, linted, evidence, why>>
      BY <1>8, <2>3 DEF WriteReport
    <3>2. IInv'
      BY <2>1, InvNext
    <3>3. exit' # 3 /\ word' # ""
      <4>1. verifyExitCode \in 0..2
        BY ExitCodeRange
      <4>2. verdictWord(exit') # ""
        BY DEF verdictWord
      <4>3. exit' # 3
        BY <3>1, <4>1
      <4>4. word' # ""
        BY <3>1, <4>2
      <4>. QED  BY <4>3, <4>4
    <3>4. \A S \in SUBSET (Before \cup {"run", "evidence", "lint"}) : past(S)
      BY <2>1 DEF past, Before
    <3>5. verifyExitCode' = verifyExitCode
      BY <2>1, <3>1
         DEF verifyExitCode, anyFailingClassCheckRan, FailingChecksFailed, vars
    <3>6. ExitInv'
      BY <3>1, <3>3, <3>5 DEF ExitInv, verdictWord, anyFailingClassCheckRan
    <3>7. PhaseInv' /\ EntryInv' /\ CommandTypes' /\ EvidenceInv'
      BY <2>1, <3>1, <3>4
         DEF PhaseInv, EntryInv, CommandTypes, EvidenceInv, Before, vars
    <3>8. TrustInv' /\ TreeInv'
      BY <2>1, <3>1, <3>4
         DEF TrustInv, TreeInv, validateVerifyTrustMode, keyless, unusable,
             trustFrom, vars, Before
    <3>. QED  BY <3>2, <3>6, <3>7, <3>8
  <2>. QED  BY <2>2, <2>3
<1>9. CASE EditTree
  <2>1. /\ cmd # "ended" /\ tree' \in Trees /\ edits' = edits + 1
        /\ UNCHANGED <<flags, cmd, entry, digested, linted, evidence, why, word, exit>>
        /\ UNCHANGED vars
    BY <1>9 DEF EditTree
  <2>2. IInv'
    BY <2>1, InvNext
  <2>3. edits' \in Nat /\ edits' # 0 /\ tree' \in Tree
    <3>1. edits \in Nat
      BY DEF CommandTypes
    <3>2. Trees \subseteq Tree
      BY CommandAssumption
    <3>. QED  BY <2>1, <3>1, <3>2
  <2>4. \A S : past(S)' <=> past(S)
    BY <2>1 DEF past
  <2>5. PhaseInv' /\ EntryInv' /\ CommandTypes' /\ EvidenceInv' /\ ExitInv'
    BY <2>1, <2>3, <2>4
       DEF PhaseInv, EntryInv, CommandTypes, EvidenceInv, ExitInv, Before, vars
  <2>6. TrustInv' /\ TreeInv'
    BY <2>1, <2>3, <2>4
       DEF TrustInv, TreeInv, validateVerifyTrustMode, keyless, unusable,
           trustFrom, vars
  <2>. QED  BY <2>2, <2>5, <2>6
<1>10. CASE UNCHANGED allVars
  <2>1. UNCHANGED vars /\ UNCHANGED cmdVars
    BY <1>10 DEF allVars
  <2>2. IInv'
    BY <2>1, InvNext
  <2>3. \A S : past(S)' <=> past(S)
    BY <2>1 DEF past, cmdVars
  <2>4. PhaseInv' /\ EntryInv' /\ CommandTypes' /\ EvidenceInv' /\ TreeInv'
    BY <2>1, <2>3
       DEF PhaseInv, EntryInv, CommandTypes, EvidenceInv, TreeInv, vars, cmdVars
  <2>5. TrustInv'
    BY <2>1, <2>3 DEF TrustInv, validateVerifyTrustMode, keyless, unusable,
                      trustFrom, vars, cmdVars
  <2>6. ExitInv'
    BY <2>1 DEF ExitInv, verifyExitCode, verdictWord, anyFailingClassCheckRan,
                FailingChecksFailed, vars, cmdVars
  <2>. QED  BY <2>2, <2>4, <2>5, <2>6
<1>. QED
  BY <1>1, <1>2, <1>3, <1>4, <1>5, <1>6, <1>7, <1>8, <1>9, <1>10
     DEF CommandNext, Step

LEMMA CommandInvAlways == CommandSpec => []CommandInv
BY CommandInvInit, CommandInvNext, PTL DEF CommandSpec

-----------------------------------------------------------------------------
\* What a run promises its caller.

\* A report comes from the core unless the entry has no npm package, and then it
\* accepts exactly if there is a winner.
LEMMA ReportSays ==
  ASSUME CommandInv, word # ""
  PROVE  /\ cmd = "ended" /\ exit = verifyExitCode /\ word = verdictWord(exit)
         /\ exit \in 0..2
         /\ entry = "other" => exit = 0 /\ word = "NOT_EVALUATED" /\ evidence = 0
         /\ entry # "other" =>
              /\ pc = "report" /\ evidence = winner
              /\ exit = 1 <=> winner = 0
              /\ word = IF winner = 0 THEN "FAILED"
                        ELSE IF exit = 2 THEN "FLAGGED" ELSE "VERIFIED"
<1>1. cmd = "ended" /\ exit = verifyExitCode /\ word = verdictWord(exit)
  BY DEF CommandInv, ExitInv
<1>2. CASE entry = "other"
  <2>1. ~flags.strict /\ evidence = 0
    BY <1>2, FlagFacts DEF CommandInv, EntryInv, CommandTypes
  <2>2. exit = 0
    BY <1>1, <1>2, <2>1 DEF verifyExitCode, anyFailingClassCheckRan
  <2>3. word = "NOT_EVALUATED"
    BY <1>1, <1>2, <2>2 DEF verdictWord, anyFailingClassCheckRan
  <2>. QED  BY <1>1, <1>2, <2>1, <2>2, <2>3, ExitCodeRange
<1>3. CASE entry # "other"
  <2>1. past(Before \cup {"run", "evidence"})
    BY <1>1 DEF past, Before
  <2>2. pc = "report" /\ evidence = winner
    BY <1>3, <2>1 DEF CommandInv, PhaseInv, EvidenceInv
  <2>3. FailingChecksFailed(checks) <=> winner = 0
    BY <2>2, ReportAgrees DEF CommandInv, ExitAgreesWithWinner
  <2>4. exit = IF winner = 0 THEN 1 ELSE IF flags.strict /\ linted THEN 2 ELSE 0
    BY <1>1, <1>3, <2>3 DEF verifyExitCode, anyFailingClassCheckRan
  <2>5. exit = 1 <=> winner = 0
    BY <1>1, <1>3, <2>3, ExitCodeOne DEF anyFailingClassCheckRan
  <2>6. word = IF winner = 0 THEN "FAILED"
               ELSE IF exit = 2 THEN "FLAGGED" ELSE "VERIFIED"
    BY <1>1, <1>3, <2>4 DEF verdictWord, anyFailingClassCheckRan
  <2>. QED  BY <1>1, <1>3, <2>2, <2>5, <2>6, ExitCodeRange
<1>. QED  BY <1>2, <1>3

\* A winner is an authentic candidate; without one there is none.
LEMMA WinnerIsAuthentic ==
  ASSUME CommandInv, pc = "report"
  PROVE  /\ winner = 0 => authenticCandidates = {}
         /\ winner # 0 => /\ winner \in authenticCandidates
                          /\ winner \in 1..Len(in.bundles)
                          /\ Authentic(in, in.bundles[winner])
                          /\ in.bundles # <<>> /\ in.bundles[winner] \in Bundles
<1>1. /\ in \in Input /\ DOMAIN in.bundles = 1..Len(in.bundles)
      /\ Len(in.bundles) \in Nat
      /\ in.bundles = <<>> <=> Len(in.bundles) = 0
      /\ \A k \in 1..Len(in.bundles) : in.bundles[k] \in Bundles
  BY InputFacts, BoundIsNat DEF CommandInv, IInv, TypeOK
<1>2. CASE winner = 0
  BY <1>2 DEF CommandInv, IInv, ReportInv
<1>3. CASE winner # 0
  <2>1. winner \in authenticCandidates
    BY <1>3 DEF CommandInv, IInv, ReportInv
  <2>2. winner \in 1..Len(in.bundles) /\ Authentic(in, in.bundles[winner])
    BY <1>1, <2>1 DEF authenticCandidates
  <2>. QED  BY <1>1, <1>3, <2>1, <2>2
<1>. QED  BY <1>2, <1>3

\* The exit code of every run tells the truth about the candidates: 0 and 2 need
\* an authentic one, 1 that there is none, 3 that there is no verdict.
THEOREM ExitCodeIsTrue == CommandSpec => []ExitCodeTellsTheTruth
<1>1. CommandInv => ExitCodeTellsTheTruth
  <2> SUFFICES ASSUME CommandInv, cmd = "ended"
               PROVE  ExitCodeTellsTheTruth
    BY DEF ExitCodeTellsTheTruth
  <2>1. exit = 3 <=> word = ""
    BY DEF CommandInv, ExitInv
  <2>2. CASE word = ""
    <3>1. exit = 3
      BY <2>1, <2>2
    <3>2. exit \notin {0, 2} /\ exit # 1 /\ exit # 2
      BY <3>1
    <3>. QED  BY <2>1, <3>2 DEF ExitCodeTellsTheTruth
  <2>3. CASE word # "" /\ entry = "other"
    <3>1. exit = 0 /\ word = "NOT_EVALUATED"
      BY <2>3, ReportSays
    <3>. QED  BY <3>1 DEF ExitCodeTellsTheTruth
  <2>4. CASE word # "" /\ entry # "other"
    <3>1. pc = "report" /\ (exit = 1 <=> winner = 0)
          /\ (winner = 0 => word = "FAILED") /\ exit = verifyExitCode
          /\ exit \in 0..2
      BY <2>4, ReportSays
    <3>2. exit = 2 => flags.strict /\ linted
      BY <3>1 DEF verifyExitCode
    <3>3. winner # 0 => authenticCandidates # {}
      BY <3>1, WinnerIsAuthentic
    <3>4. winner = 0 => authenticCandidates = {}
      BY <3>1, WinnerIsAuthentic
    <3>. QED
      BY <2>1, <2>4, <3>1, <3>2, <3>3, <3>4 DEF ExitCodeTellsTheTruth
  <2>. QED  BY <2>2, <2>3, <2>4
<1>. QED  BY <1>1, CommandInvAlways, PTL

\* The evidence of a report is the winner's, in every report that accepts and in
\* no other.
THEOREM EvidenceIsAlwaysAuthentic == CommandSpec => []EvidenceIsAuthentic
<1>1. CommandInv => EvidenceIsAuthentic
  <2> SUFFICES ASSUME CommandInv, word # ""
               PROVE  EvidenceIsAuthentic
    BY DEF EvidenceIsAuthentic
  <2>1. CASE entry = "other"
    BY <2>1, ReportSays DEF EvidenceIsAuthentic
  <2>2. CASE entry # "other"
    <3>1. /\ pc = "report" /\ evidence = winner
          /\ word = IF winner = 0 THEN "FAILED"
                    ELSE IF exit = 2 THEN "FLAGGED" ELSE "VERIFIED"
      BY <2>2, ReportSays
    <3>2. winner # 0 => winner \in authenticCandidates
      BY <3>1, WinnerIsAuthentic
    <3>. QED  BY <3>1, <3>2 DEF EvidenceIsAuthentic
  <2>. QED  BY <2>1, <2>2
<1>. QED  BY <1>1, CommandInvAlways, PTL

\* What is accepted was signed by what the one complete trust mode of the flags
\* names.
LEMMA AcceptedByTheMode ==
  ASSUME CommandInv, word \in {"VERIFIED", "FLAGGED"}, entry # "other"
  PROVE  LET b == in.bundles[winner]
         IN  IF flags.trustRoot \in Keys
             THEN b.signedBy = flags.trustRoot /\ flags.identity = ""
             ELSE b.chain /\ b.san = flags.identity /\ b.issuer = flags.issuer
<1> DEFINE b == in.bundles[winner]
<1>1. word # "" /\ word # "FAILED"
  OBVIOUS
<1>2. cmd = "ended" /\ pc = "report" /\ winner # 0
  BY <1>1, ReportSays
<1>3. SignedByTrusted(in, b) /\ in.bundles # <<>> /\ b \in Bundles
  BY <1>2, WinnerIsAuthentic DEF Authentic
<1>4. past({"flags"}) /\ past(Before)
  BY <1>1, <1>2 DEF past, Before
<1>5. validateVerifyTrustMode /\ ~unusable /\ in.trust = trustFrom(flags)
  BY <1>3, <1>4 DEF CommandInv, TrustInv
<1>6. flags \in Invocation
  BY FlagFacts DEF CommandInv, CommandTypes
<1>7. CASE keyless
  <2>1. /\ flags.trustRoot = "unset"
        /\ flags.identity # "" /\ flags.issuer # ""
    BY <1>5, <1>7 DEF validateVerifyTrustMode
  <2>2. flags.trustRoot \notin Keys
    BY <2>1, CommandAssumption
  <2>3. in.trust.identity = flags.identity /\ in.trust.issuer = flags.issuer
    BY <1>5, <1>7 DEF trustFrom, NoTrust
  <2>. QED  BY <1>3, <2>1, <2>2, <2>3 DEF SignedByTrusted, keylessRequested
<1>8. CASE ~keyless
  <2>1. /\ flags.identity = "" /\ flags.issuer = ""
        /\ flags.trustRoot \notin {"unset", "unreadable"}
    BY <1>5, <1>8 DEF keyless, unusable
  <2>2. /\ in.trust.identity = "" /\ in.trust.issuer = ""
        /\ in.trust.material = flags.trustRoot
    BY <1>5, <1>8 DEF trustFrom, NoTrust
  <2>3. b.signedBy = flags.trustRoot
    BY <1>3, <2>2 DEF SignedByTrusted, keylessRequested
  <2>4. b.signedBy \in Keys \cup {"none"}
    BY <1>3, CoreAssumption DEF Bundle
  <2>5. flags.trustRoot \in Keys \cup {"empty", "notPEM", "unloadable"}
    BY <1>6, <2>1 DEF Invocation
  <2>6. flags.trustRoot \in Keys
    BY <2>3, <2>4, <2>5
  <2>. QED  BY <2>1, <2>3, <2>6
<1>. QED  BY <1>7, <1>8

\* Every verdict is one under a single complete trust mode, and what it accepts
\* is signed by what that mode names.
THEOREM VerdictsUnderOneTrustMode == CommandSpec => []VerdictUnderOneTrustMode
<1>1. CommandInv => VerdictUnderOneTrustMode
  <2> SUFFICES ASSUME CommandInv, word # "", entry # "other"
               PROVE  VerdictUnderOneTrustMode
    BY DEF VerdictUnderOneTrustMode
  <2>1. cmd = "ended" /\ pc = "report"
    BY ReportSays
  <2>2. checks["ATTESTATION_MISSING"] = "fail" <=> in.bundles = <<>>
    BY <2>1, MissingIsSaid DEF CommandInv
  <2>3. past({"flags"}) /\ past(Before)
    BY <2>1 DEF past, Before
  <2>4. in.bundles # <<>> => validateVerifyTrustMode /\ ~unusable
    BY <2>3 DEF CommandInv, TrustInv
  <2>5. in.bundles # <<>> =>
          (flags.identity # "" /\ flags.issuer # "") # (flags.trustRoot # "unset")
    BY <2>4 DEF validateVerifyTrustMode, unusable, keyless
  <2>. QED  BY <2>2, <2>5, AcceptedByTheMode DEF VerdictUnderOneTrustMode
<1>. QED  BY <1>1, CommandInvAlways, PTL

\* A skill that passes --strict is attested as it was digested, and the lint that
\* cleared it read that tree unless somebody edited it.
THEOREM StrictAlwaysCoversTheTree == CommandSpec => []StrictCoversTheTree
<1>1. CommandInv => StrictCoversTheTree
  <2> SUFFICES ASSUME CommandInv, word = "VERIFIED", flags.strict,
                      flags.target = "skill"
               PROVE  StrictCoversTheTree
    BY DEF StrictCoversTheTree
  <2>1. word # "" /\ word # "FAILED" /\ word # "FLAGGED" /\ word # "NOT_EVALUATED"
    OBVIOUS
  <2>2. cmd = "ended" /\ entry # "other" /\ winner # 0 /\ pc = "report"
    BY <2>1, ReportSays
  <2>3. /\ past({"flags", "entry", "discover"})
        /\ past(Before \cup {"run", "evidence", "lint"})
    BY <2>1, <2>2 DEF past, Before
  <2>4. /\ in.ref = digested.digest
        /\ edits = 0 => linted = digested.undeclared
    BY <2>3 DEF CommandInv, TreeInv
  <2>5. winner \in authenticCandidates /\ Authentic(in, in.bundles[winner])
    BY <2>2, WinnerIsAuthentic
  <2>6. \E k \in authenticCandidates : in.bundles[k].stmt.subject = digested.digest
    BY <2>4, <2>5 DEF Authentic
  <2>7. exit = verifyExitCode /\ exit # 2
    BY <2>1, <2>2, ReportSays
  <2>8. ~linted
    BY <2>2, <2>7, ExitCodeOne, ReportSays, <2>1
       DEF verifyExitCode, anyFailingClassCheckRan
  <2>. QED  BY <2>4, <2>6, <2>8 DEF StrictCoversTheTree
<1>. QED  BY <1>1, CommandInvAlways, PTL
-----------------------------------------------------------------------------
\* The command keeps what the core promises.

\* Seen at its core, a command begins when discovery and the trust flags have been
\* read and from there on only takes steps of the promise.
KeepsPromise ==
  /\ Promise!Init
  /\ [][IF cmd \in Before THEN (Promise!Init)'
        ELSE [Promise!Next]_(Promise!pvars)]_allVars

\* A core that has not begun is at the start of a run of the promise.
LEMMA FreshPromise == IInv /\ pc = "loop" /\ i = 1 => Promise!Init
<1> SUFFICES ASSUME IInv, pc = "loop", i = 1 PROVE Promise!Init
  OBVIOUS
<1>1. in \in Input /\ winner = 0
  BY DEF IInv, TypeOK, LoopInv
<1>2. authenticCandidates \in SUBSET (1..MaxBundles)
  BY <1>1, InputFacts, BoundIsNat DEF authenticCandidates
<1>. QED  BY <1>1, <1>2 DEF Promise!Init, verdict, mayFail

\* A step that changes neither the input nor the outcome of the core is a stutter
\* of the promise.
LEMMA CoreStands ==
  ASSUME UNCHANGED vars
  PROVE  UNCHANGED Promise!pvars
BY DEF vars, Promise!pvars, authenticCandidates, mayFail, verdict

\* Until the core runs, every step of the command leaves it where it begins.
LEMMA BeforeTheCore ==
  ASSUME CommandInv, CommandInv', [CommandNext]_allVars, cmd \in Before
  PROVE  (Promise!Init)'
<1>1. pc = "loop" /\ i = 1 /\ cmd \notin {"run", "evidence", "lint", "report"}
  BY DEF CommandInv, PhaseInv, Before
<1>2. pc' = pc /\ i' = i
  BY <1>1 DEF CommandNext, Step, CheckFlags, FetchRegistryEntry, Discover, ReadTrust,
              RunCore, BuildEvidence, Lint, WriteReport, EditTree, allVars, vars
<1>3. IInv' /\ (pc = "loop")' /\ (i = 1)'
  BY <1>1, <1>2 DEF CommandInv
<1>. QED  BY <1>3, FreshPromise, PTL

\* verify.Run keeps its promise inside both commands (runVerify,
\* runRegistryCheck, verifyDiscovered): no other step of the command, and no edit
\* of the tree, changes what the core was given or takes its verdict back.
THEOREM CommandKeepsPromise == CommandSpec => KeepsPromise
<1>1. CommandInit => Promise!Init
  <2> SUFFICES ASSUME CommandInit PROVE Promise!Init
    OBVIOUS
  <2>. QED  BY CommandInvInit, FreshPromise DEF CommandInv, CommandInit
<1>2. ASSUME CommandInv, CommandInv', [CommandNext]_allVars
      PROVE  [IF cmd \in Before THEN (Promise!Init)'
              ELSE [Promise!Next]_(Promise!pvars)]_allVars
  <2>1. CASE cmd \in Before
    BY <1>2, <2>1, BeforeTheCore
  <2>2. CASE cmd \notin Before /\ RunCore
    <3>1. IInv /\ IInv' /\ Next
      BY <1>2, <2>2 DEF CommandInv, RunCore
    <3>. QED  BY <2>2, <3>1, CoreStepKeepsPromise
  <2>3. CASE cmd \notin Before /\ ~RunCore
    <3>1. UNCHANGED vars
      BY <1>2, <2>3 DEF CommandNext, Step, CheckFlags, FetchRegistryEntry, Discover,
                        ReadTrust, BuildEvidence, Lint, WriteReport, EditTree,
                        Before, allVars
    <3>. QED  BY <2>3, <3>1, CoreStands
  <2>. QED  BY <2>1, <2>2, <2>3
<1>. QED  BY <1>1, <1>2, CommandInvAlways, PTL DEF CommandSpec, KeepsPromise

-----------------------------------------------------------------------------
\* Types.

\* What the invariant does not say of the types.
MoreTypes ==
  /\ in.trust \in Trust /\ edits \in 0..MaxEdits /\ evidence \in 0..MaxBundles
  /\ word \in {"", "VERIFIED", "FAILED", "FLAGGED", "NOT_EVALUATED"}
  /\ exit \in -1..3

LEMMA EditsAreBounded ==
  ASSUME NEW n \in 0..MaxEdits, n < MaxEdits
  PROVE  n + 1 \in 0..MaxEdits
<1>1. MaxEdits \in Nat
  BY CommandAssumption
<1>. QED  BY <1>1

LEMMA MoreTypesInit == CommandInit => MoreTypes
<1> SUFFICES ASSUME CommandInit PROVE MoreTypes
  OBVIOUS
<1>1. in.trust \in Trust /\ word = ""
  BY DEF CommandInit, NothingFound, NoTrust, Trust
<1>2. edits \in 0..MaxEdits
  <2>1. edits = 0 /\ MaxEdits \in Nat
    BY CommandAssumption DEF CommandInit
  <2>. QED  BY <2>1
<1>3. evidence \in 0..MaxBundles
  <2>1. evidence = 0
    BY DEF CommandInit
  <2>. QED  BY <2>1, BoundIsNat
<1>4. exit \in -1..3
  <2>1. exit = -1
    BY DEF CommandInit
  <2>. QED  BY <2>1
<1>. QED  BY <1>1, <1>2, <1>3, <1>4 DEF MoreTypes

LEMMA MoreTypesNext ==
  CommandInv /\ MoreTypes /\ [CommandNext]_allVars => MoreTypes'
<1> SUFFICES ASSUME CommandInv, MoreTypes, [CommandNext]_allVars PROVE MoreTypes'
  OBVIOUS
<1>1. in.trust \in Trust => in'.trust \in Trust
  <2>1. CASE in' = in
    BY <2>1
  <2>2. CASE Discover /\ in' # in
    <3>1. in'.trust = NoTrust
      BY <2>2 DEF Discover
    <3>. QED  BY <3>1, TrustRecords DEF NoTrust
  <2>3. CASE ReadTrust /\ in' # in
    <3>1. in.bundles # <<>> /\ ~unusable /\ in' = [in EXCEPT !.trust = trustFrom(flags)]
      BY <2>3 DEF ReadTrust, unusable
    <3>2. trustFrom(flags) \in Trust /\ in \in Input
      BY <3>1, FlagFacts, TrustIsTyped DEF CommandInv, CommandTypes, IInv, TypeOK
    <3>. HIDE DEF trustFrom, unusable
    <3>. QED  BY <3>1, <3>2 DEF Input
  <2>4. in' = in \/ Discover \/ ReadTrust
    BY DEF CommandNext, Step, CheckFlags, FetchRegistryEntry, RunCore, Next,
           ReportMissing, ConfigError, CandidatePasses, CandidateFails, ReportFirst,
           BuildEvidence, Lint, WriteReport, EditTree, allVars, vars
  <2>. QED  BY <2>1, <2>2, <2>3, <2>4
<1>2. edits' \in 0..MaxEdits
  <2>1. \/ edits' = edits
        \/ edits < MaxEdits /\ edits' = edits + 1
    BY DEF CommandNext, Step, CheckFlags, FetchRegistryEntry, Discover, ReadTrust,
           RunCore, BuildEvidence, Lint, WriteReport, EditTree, fail, continueWith,
           allVars, cmdVars
  <2>2. edits \in 0..MaxEdits
    BY DEF MoreTypes
  <2>. QED  BY <2>1, <2>2, EditsAreBounded
<1>3. evidence' \in 0..MaxBundles
  <2>1. evidence' \in {evidence, winner}
    BY DEF CommandNext, Step, CheckFlags, FetchRegistryEntry, Discover, ReadTrust,
           RunCore, BuildEvidence, Lint, WriteReport, EditTree, fail, continueWith,
           allVars, cmdVars
  <2>2. evidence \in 0..MaxBundles /\ winner \in 0..MaxBundles
    BY DEF MoreTypes, CommandInv, IInv, TypeOK
  <2>. QED  BY <2>1, <2>2
<1>4. word' \in {"", "VERIFIED", "FAILED", "FLAGGED", "NOT_EVALUATED"}
  <2>1. word' = word \/ word' = verdictWord(exit')
    BY DEF CommandNext, Step, CheckFlags, FetchRegistryEntry, Discover, ReadTrust,
           RunCore, BuildEvidence, Lint, WriteReport, EditTree, fail, continueWith,
           allVars, cmdVars
  <2>2. \A c : verdictWord(c) \in {"VERIFIED", "FAILED", "FLAGGED", "NOT_EVALUATED"}
    BY DEF verdictWord
  <2>. HIDE DEF verdictWord
  <2>. QED  BY <2>1, <2>2 DEF MoreTypes
<1>5. exit' \in -1..3
  <2>1. exit' = exit \/ exit' = 3 \/ exit' = verifyExitCode
    BY DEF CommandNext, Step, CheckFlags, FetchRegistryEntry, Discover, ReadTrust,
           RunCore, BuildEvidence, Lint, WriteReport, EditTree, fail, continueWith,
           allVars, cmdVars
  <2>2. exit \in -1..3
    BY DEF MoreTypes
  <2>. QED  BY <2>1, <2>2, ExitCodeRange
<1>. QED  BY <1>1, <1>2, <1>3, <1>4, <1>5 DEF MoreTypes

\* Every variable of the command and of its core keeps its type; the core never
\* runs under a trust configuration no flags name.
THEOREM CommandTypeCorrect == CommandSpec => []CommandTypeOK
<1>1. CommandInv /\ MoreTypes => CommandTypeOK
  <2> SUFFICES ASSUME CommandInv, MoreTypes PROVE CommandTypeOK
    OBVIOUS
  <2>1. in \in Input /\ pc \in {"loop", "report", "error"} /\ winner \in 0..MaxBundles
    BY DEF CommandInv, IInv, TypeOK
  <2>2. in.ref \in DigestSets \cup {<<>>} /\ Len(in.bundles) <= MaxBundles
    BY <2>1, InputFacts, BoundIsNat DEF Input
  <2>3. flags \in Invocation
    BY FlagFacts DEF CommandInv, CommandTypes
  <2>. QED
    BY <2>1, <2>2, <2>3
       DEF CommandTypeOK, CommandInv, CommandTypes, MoreTypes, Before
<1>. QED  BY <1>1, CommandInvAlways, MoreTypesInit, MoreTypesNext, PTL DEF CommandSpec
=============================================================================
