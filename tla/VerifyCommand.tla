---------------------------- MODULE VerifyCommand ----------------------------
(***************************************************************************)
(* The two commands around the verification core: `smithmark verify` and   *)
(* `smithmark registry check`.  A run checks its flags, discovers          *)
(* candidates, reads the trust material, runs the core, builds the         *)
(* evidence block of the winner, lints a local tree and classifies the     *)
(* report into an exit code.  The core's variables are those of            *)
(* VerifyCore; what discovery finds is its input.                          *)
(*                                                                         *)
(* A local tree belongs to somebody who may edit it at any time, between   *)
(* the digest discovery takes of it and the lint that reads it again.      *)
(***************************************************************************)
EXTENDS VerifyCore, Integers

CONSTANTS
  Invocations,  \* the flag combinations that occur
  Trees,        \* states a local source tree may be in
  MaxEdits      \* bound on the edits during one run

\* "skill" is a local directory whose digest is that of its files, "npmDir" one
\* whose digest comes from the npm registry, "remote" anything else.
Invocation ==
  [command: {"verify", "registryCheck"}, target: {"skill", "npmDir", "remote"},
   output: {"summary", "json", "unknown"}, strict: BOOLEAN,
   trustRoot: Keys \cup {"unset", "unreadable", "empty", "notPEM", "unloadable"},
   identity: Names \cup {""}, issuer: Names \cup {""},
   sigstoreRoot: {"unset", "unreadable", "good", "bad"},
   bundle: {"unset", "unreadable", "read"}]

\* gone is a tree that is no directory any more, malformed one whose
\* smithmark.yaml does not load; undeclared says lint has such a finding.
Tree == [gone: BOOLEAN, malformed: BOOLEAN, digest: DigestSets,
         undeclared: BOOLEAN]

ASSUME CommandAssumption ==
  /\ Invocations \subseteq Invocation
  /\ \A f \in Invocations : f.command = "registryCheck" =>
       /\ f.target = "remote" /\ ~f.strict /\ f.bundle = "unset"
       /\ f.identity = "" /\ f.issuer = "" /\ f.sigstoreRoot = "unset"
  /\ Trees \subseteq Tree
  /\ MaxEdits \in Nat
  /\ Keys \cap {"unset", "unreadable"} = {}
  /\ Trust \subseteq Trusts  \* the run's trust is what the flags say

VARIABLES
  flags,      \* the invocation
  cmd,        \* the step of the command
  entry,      \* the MCP Registry entry: not fetched, with or without npm
  tree,       \* the local tree as it is now
  edits,      \* how often it was edited
  digested,   \* the tree discovery took the digest of
  linted,     \* the findings of lint include an undeclared capability
  evidence,   \* the candidate the evidence block was built from, 0 for null
  why,        \* the step that failed
  word,       \* the verdict of the report on stdout, "" without a report
  exit        \* the exit code, -1 while the process runs

cmdVars == <<flags, cmd, entry, tree, edits, digested, linted, evidence, why,
             word, exit>>
allVars == <<vars, cmdVars>>

NoTrust ==
  [material |-> "empty", identity |-> "", issuer |-> "", trustRoot |-> "live"]

NothingFound ==
  [ref |-> <<>>, bundles |-> <<>>, npmProvenance |-> "none", trust |-> NoTrust]

CommandInit ==
  /\ in = NothingFound
  /\ pc = "loop" /\ i = 1 /\ winner = 0
  /\ firstChecks = NoChecks /\ checks = NoChecks
  /\ flags \in Invocations
  /\ cmd = "flags" /\ entry = "none"
  /\ tree \in Trees /\ edits = 0 /\ digested = tree
  /\ linted = FALSE /\ evidence = 0
  /\ why = "" /\ word = "" /\ exit = -1

-----------------------------------------------------------------------------
\* An operational failure: one error line on stderr, no report, exit 3.
fail(step) ==
  /\ cmd' = "ended" /\ why' = step /\ exit' = 3
  /\ UNCHANGED <<flags, entry, tree, edits, digested, linted, evidence, word>>

continueWith(step) ==
  /\ cmd' = step
  /\ UNCHANGED <<flags, tree, edits, why, word, exit>>

keyless == flags.identity # "" \/ flags.issuer # ""

\* Mutation: a key and a certificate identity may be given together.
validateVerifyTrustMode_both ==
  /\ keyless => flags.identity # "" /\ flags.issuer # ""
  /\ ~keyless => flags.sigstoreRoot = "unset"

validateVerifyTrustMode ==
  /\ ~(keyless /\ flags.trustRoot # "unset")
  /\ keyless => flags.identity # "" /\ flags.issuer # ""
  /\ ~keyless => flags.sigstoreRoot = "unset"

CheckFlags ==
  /\ cmd = "flags"
  /\ IF flags.output = "unknown" \/ ~validateVerifyTrustMode
     THEN fail("flags")
     ELSE /\ continueWith(IF flags.command = "verify" THEN "discover" ELSE "entry")
          /\ UNCHANGED <<entry, digested, linted, evidence>>
  /\ UNCHANGED vars

\* FetchRegistryEntry and buildRegistryReport: without an npm package the report
\* holds the registry checks alone and no stage of verification runs.
FetchRegistryEntry ==
  /\ cmd = "entry"
  /\ \/ fail("discovery")
     \/ \E e \in {"npm", "other"} :
          /\ entry' = e
          /\ continueWith(IF e = "npm" THEN "discover" ELSE "report")
          /\ UNCHANGED <<digested, linted, evidence>>
  /\ UNCHANGED vars

\* discover.Resolve: identity first, then an explicit bundle or whatever the
\* registry holds.  Without a digest there is nothing to look candidates up by.
Discover ==
  /\ cmd = "discover"
  /\ \/ fail("discovery") /\ UNCHANGED in
     \/ /\ flags.bundle # "unreadable"
        /\ flags.target \in {"skill", "npmDir"} => ~tree.gone /\ ~tree.malformed
        /\ in' \in [ref: IF flags.target = "skill" THEN {tree.digest}
                         ELSE DigestSets \cup {<<>>},
                    bundles: {bs \in UNION {[1..n -> Bundles] : n \in 0..MaxBundles} :
                                flags.bundle = "read" => Len(bs) = 1},
                    npmProvenance: IF flags.target = "skill" \/ flags.bundle = "read"
                                   THEN {"none"} ELSE Provenance,
                    trust: {NoTrust}]
        /\ in'.ref = <<>> /\ flags.bundle = "unset" => in'.bundles = <<>>
        /\ digested' = tree
        /\ continueWith("trust")
        /\ UNCHANGED <<entry, linted, evidence>>
  /\ UNCHANGED <<pc, i, firstChecks, checks, winner>>

\* verifyDiscovered up to the core: trust is only read if there are candidates,
\* and then there must be some.
trustFrom(f) ==
  IF keyless
  THEN [NoTrust EXCEPT !.identity = f.identity, !.issuer = f.issuer,
          !.trustRoot = IF f.sigstoreRoot = "unset" THEN "live"
                        ELSE f.sigstoreRoot]
  ELSE [NoTrust EXCEPT !.material = f.trustRoot]

ReadTrust ==
  /\ cmd = "trust"
  /\ LET unusable == IF keyless THEN flags.sigstoreRoot = "unreadable"
                     ELSE flags.trustRoot \in {"unset", "unreadable"}
     IN  IF in.bundles # <<>> /\ unusable
         THEN fail("trust") /\ UNCHANGED in
         ELSE /\ continueWith("run")
              /\ in' = IF in.bundles = <<>> THEN in
                       ELSE [in EXCEPT !.trust = trustFrom(flags)]
              /\ UNCHANGED <<entry, digested, linted, evidence>>
  /\ UNCHANGED <<pc, i, firstChecks, checks, winner>>

\* One step of verify.Run.
RunCore ==
  /\ cmd = "run" /\ Next
  /\ continueWith(IF pc' = "loop" THEN "run" ELSE "evidence")
  /\ UNCHANGED <<entry, digested, linted, evidence>>

\* Mutation: the evidence is built from the first candidate.
BuildEvidence_first ==
  /\ cmd = "evidence"
  /\ IF pc = "error" THEN fail("verifier")
     ELSE IF winner # 0 /\ in.bundles[1].spelling = "lenient"
          THEN fail("evidence")
     ELSE /\ evidence' = IF winner = 0 THEN 0 ELSE 1
          /\ continueWith(IF flags.command = "verify" THEN "lint" ELSE "report")
          /\ UNCHANGED <<entry, digested, linted>>
  /\ UNCHANGED vars

\* Mutation: a configuration error starts the verification over.
BuildEvidence_retries ==
  /\ cmd = "evidence"
  /\ evidence' = winner
  /\ continueWith(IF pc = "error" THEN "run"
                  ELSE IF flags.command = "verify" THEN "lint" ELSE "report")
  /\ pc' = IF pc = "error" THEN "loop" ELSE pc
  /\ i' = IF pc = "error" THEN 1 ELSE i
  /\ UNCHANGED <<entry, digested, linted, in, firstChecks, checks, winner>>

\* verifyDiscovered after the core.  EvidenceBlock reads the winner's bundle
\* again, and only in one spelling of it.
BuildEvidence ==
  /\ cmd = "evidence"
  /\ IF pc = "error" THEN fail("verifier")
     ELSE IF winner # 0 /\ in.bundles[winner].spelling = "lenient"
          THEN fail("evidence")
     ELSE /\ evidence' = winner
          /\ continueWith(IF flags.command = "verify" THEN "lint" ELSE "report")
          /\ UNCHANGED <<entry, digested, linted>>
  /\ UNCHANGED vars

\* Mutation: with an explicit bundle there are no local sources to lint.
Lint_noBundle ==
  /\ cmd = "lint"
  /\ IF flags.target = "remote" \/ tree.gone \/ flags.bundle = "read"
     THEN /\ continueWith("report")
          /\ UNCHANGED <<entry, digested, linted, evidence>>
     ELSE \/ fail("lint")
          \/ /\ ~tree.malformed
             /\ linted' = tree.undeclared
             /\ continueWith("report")
             /\ UNCHANGED <<entry, digested, evidence>>
  /\ UNCHANGED vars

\* attachLintFindings: the tree as it is by now.  What is no directory any more
\* is not linted; a malformed declaration, or a root that cannot be walked, is
\* an operational failure.
Lint ==
  /\ cmd = "lint"
  /\ IF flags.target = "remote" \/ tree.gone
     THEN /\ continueWith("report")
          /\ UNCHANGED <<entry, digested, linted, evidence>>
     ELSE \/ fail("lint")
          \/ /\ ~tree.malformed
             /\ linted' = tree.undeclared
             /\ continueWith("report")
             /\ UNCHANGED <<entry, digested, evidence>>
  /\ UNCHANGED vars

\* Does the report carry any check that can fail a verification?
anyFailingClassCheckRan == entry # "other"

\* Mutation: the strict gate is asked first.
verifyExitCode_strictFirst ==
  IF flags.strict /\ linted THEN 2
  ELSE IF anyFailingClassCheckRan /\ FailingChecksFailed(checks) THEN 1 ELSE 0

verifyExitCode ==
  IF anyFailingClassCheckRan /\ FailingChecksFailed(checks) THEN 1
  ELSE IF flags.strict /\ linted THEN 2 ELSE 0

verdictWord(code) ==
  IF code = 0 /\ ~anyFailingClassCheckRan THEN "NOT_EVALUATED"
  ELSE IF code = 0 THEN "VERIFIED"
  ELSE IF code = 2 THEN "FLAGGED" ELSE "FAILED"

\* The report goes to stdout, which may refuse it.
WriteReport ==
  /\ cmd = "report"
  /\ \/ fail("stdout")
     \/ /\ cmd' = "ended" /\ exit' = verifyExitCode /\ word' = verdictWord(exit')
        /\ UNCHANGED <<flags, entry, tree, edits, digested, linted, evidence, why>>
  /\ UNCHANGED vars

\* The owner of the tree edits it.
EditTree ==
  /\ cmd # "ended" /\ flags.target # "remote" /\ edits < MaxEdits
  /\ tree' \in Trees
  /\ edits' = edits + 1
  /\ UNCHANGED <<flags, cmd, entry, digested, linted, evidence, why, word, exit>>
  /\ UNCHANGED vars

Step ==
  \/ CheckFlags \/ FetchRegistryEntry \/ Discover \/ ReadTrust \/ RunCore
  \/ BuildEvidence \/ Lint \/ WriteReport

CommandNext == Step \/ EditTree

\* The command is one goroutine that runs until it exits; the bodies it reads
\* are capped and its requests are answered or refused.
CommandSpec == CommandInit /\ [][CommandNext]_allVars /\ WF_allVars(Step)

-----------------------------------------------------------------------------
\* Properties.

\* Every variable has its type.
CommandTypeOK ==
  /\ in.ref \in DigestSets \cup {<<>>} /\ Len(in.bundles) <= MaxBundles
  /\ in.trust \in Trust
  /\ pc \in {"loop", "report", "error"} /\ winner \in 0..MaxBundles
  /\ cmd \in {"flags", "entry", "discover", "trust", "run", "evidence", "lint",
              "report", "ended"}
  /\ flags \in Invocation /\ entry \in {"none", "npm", "other"}
  /\ {tree, digested} \subseteq Tree /\ edits \in 0..MaxEdits
  /\ linted \in BOOLEAN /\ evidence \in 0..MaxBundles
  /\ word \in {"", "VERIFIED", "FAILED", "FLAGGED", "NOT_EVALUATED"}
  /\ exit \in -1..3

\* What the exit code says is so: 0 and 2 stand for an artifact with an
\* authentic candidate (or, in so many words, for nothing evaluated), 1 for one
\* without, 3 for no verdict at all (runVerify, runRegistryCheck, runMain).
ExitCodeTellsTheTruth ==
  cmd = "ended" =>
    /\ exit \in {0, 2} => authenticCandidates # {} \/ word = "NOT_EVALUATED"
    /\ exit = 1 => authenticCandidates = {} /\ word = "FAILED"
    /\ exit = 2 => flags.strict /\ linted
    /\ exit = 3 <=> word = ""

\* A report says that the attestation is missing exactly if discovery found none;
\* candidates are judged under one complete trust mode or not at all, and what is
\* accepted was signed by what that mode names: the key of --trust-root alone, or
\* a certificate with both the identity and the issuer asked for
\* (validateVerifyTrustMode, enforceKeylessIdentity, and verifyDiscovered: "never a
\* silent skip of signature verification").
VerdictUnderOneTrustMode ==
  word # "" /\ entry # "other" =>
    /\ checks["ATTESTATION_MISSING"] = "fail" <=> in.bundles = <<>>
    /\ in.bundles # <<>> =>
         (flags.identity # "" /\ flags.issuer # "") # (flags.trustRoot # "unset")
    /\ word \in {"VERIFIED", "FLAGGED"} =>
         LET b == in.bundles[winner]
         IN  IF flags.trustRoot \in Keys
             THEN b.signedBy = flags.trustRoot /\ flags.identity = ""
             ELSE b.chain /\ b.san = flags.identity /\ b.issuer = flags.issuer

\* The evidence a report carries is that of an authentic candidate, and a report
\* that names one accepts.
EvidenceIsAuthentic ==
  word # "" => (evidence # 0 <=> word \in {"VERIFIED", "FLAGGED"})
               /\ (evidence # 0 => evidence \in authenticCandidates)

\* A skill that passes --strict is attested as it was when its digest was taken;
\* unless it was edited since, the lint that cleared it read the same tree.
StrictCoversTheTree ==
  word = "VERIFIED" /\ flags.strict /\ flags.target = "skill" =>
    /\ \E k \in authenticCandidates : in.bundles[k].stmt.subject = digested.digest
    /\ edits = 0 => ~digested.undeclared

\* Every run ends with an exit code.
EveryRunExits == <>(exit # -1)

\* What cmd/smithmark/verify.go:96-100 says of runVerify: "a completed
\* verification instead writes its report to stdout"; only the lint, which its
\* own comment excepts, and stdout itself may still take the report away.  This
\* does not hold: the evidence block is the third step that may.
CompletedVerificationIsReported ==
  cmd = "ended" /\ pc = "report" => word # "" \/ why \in {"lint", "stdout"}
=============================================================================
