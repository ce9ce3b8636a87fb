# A verification development for smithmark

smithmark lets the maker of an agent skill or an MCP server sign a *capability
manifest* about one artifact (`smithmark attest`), publishes the signed in-toto
statement as an OCI artifact, and lets a consumer find and check it (`smithmark
verify`, `smithmark registry check`). Two thin scripts carry the verdict further:
a GitHub Action and a Claude Code hook.

This directory holds TLA+ modules translated from that code, TLC configurations
that check them on small instances, and TLAPS proofs for every instance. The
modules follow the source, not its documentation; where the two disagree, the
section *Disagreements* says so. `PROJECT.json` maps every definition to the lines
it stands for.

    tlc -config VerifyCore.cfg MCVerifyCore      # any run: <cfg> and its module
    tlapm VerifyCommand_proofs.tla               # any proof module

## 1. Inventory

| component (code) | state it keeps | operations | what is hard | what makes it correct |
|---|---|---|---|---|
| verification core, `pkg/core/verify` | the candidate loop, the first candidate's checks, the report | `Run`, `evaluateCandidate`, `EvidenceBlock`, `RegistryChecks` | several candidates in any order; stages that must not read what is not yet verified; errors in the middle | accepts the first authentic candidate, rejects only without one, reports the truth |
| bundle verifiers, `pkg/compose/verify_*` | none | `VerifyBundle`, `VerifyKeylessBundle` | the order of checks decides between "bad bundle" and "bad configuration"; the live trusted root is fetched per candidate | "ok" exactly for bundles of the trusted signer |
| `verify`, `registry check`, `cmd/smithmark` | one run | flags, discovery, trust, core, evidence, lint, report, exit code | three places compute one verdict; the tree is read twice | exit code, verdict and evidence agree, and are true |
| discovery, `pkg/discover/{resolve,npm,oci,refmap,attestbase}.go` | one `Resolve` | identity, place, bundles, provenance | npm and the OCI registry change between requests; maker and consumer compute the place apart | what was attested is found, for the right artifact |
| publishing, `pkg/compose/push.go` | an OCI registry | `PushAttestation`, `AttachReferrer` | three requests, lost answers, crashes, retries, overwritten tags, floods | no reader sees half of a publish, retries add nothing |
| `attest`, `cmd/smithmark/attest.go` | one run, two files | the pipeline from declaration to publication | concurrent runs, kills, a project that is edited, a log that keeps what a failed run put there | the outcome is what was signed, and true of the project |
| tool listing, `pkg/discover/mcptools*.go` | a child process and its pipes | `ExtractTools`, `ToolsFromFile`, cross check | an uncooperative server; a deadline, process groups, inherited pipes | the listing is the server's, it ends, nothing is left running |
| local artifacts, `pkg/discover/{local,tarball}.go`, `pkg/core/bundle` | none | `LoadDeclared`, `WalkSkill`, `TarballDigest`, `Digest` | listed, then read file by file; links, executable bits, other systems | a genuine copy has the digest, nothing else has |
| manifest and statement, `pkg/core/manifest` | none | `Validate`, `NewStatement`, canonical JSON | many field rules | canonical, and rejects what is malformed |
| forgeseal and signing, `pkg/compose/{forgeseal,sign*}.go` | Rekor's log | `Generate`, `SignStatement` | subprocess and network; the log cannot be undone | an error never looks like a success |
| capability lint, `pkg/core/lint`, `walksources.go` | none | detectors, `Gaps`, `WalkSources` | several patterns, codes and entries meet in one line; the tree is read while edited; files it cannot read | a finding for everything detected and not declared, and nothing skipped in silence |
| GitHub Action, `action/entrypoint.sh` | step output, temporary directories | find a binary, run it, exit | `set -e`, fallbacks, replaced traps | only verify's own code is a verdict |
| Claude Code hook, `surfaces/claude-code-hook/verify-mcp.sh` | one decision | read call, configuration, verify, decide | `set -e`, a sidecar read field by field | admits only what passed |

How they meet: `attest` calls the tool listing, forgeseal, the signer and
publishing; `verify` calls discovery, the core with an injected verifier, and
lint; the scripts run the `verify` binary and see its exit code alone. Maker and
consumer share nothing but the OCI registry and the rule that computes a place in
it. All of smithmark is single-goroutine except the deadline that os/exec watches
in `ExtractTools`; its concurrency is between processes: makers, readers,
strangers, servers, editors.

## 2. Plan

Done in this order, the most consequential first:

1. `VerifyCore`, with `VerifyPromise` and the proofs;
2. `AttestationStore`, with `AttestationRegister` and the proofs;
3. `VerifyCommand`, which composes `VerifyCore` with the command around it;
4. `ToolListing`; 5. `HookGate` and `ActionEntrypoint`; 6. `AttestCommand`;
7. `Discovery`;
8. `CapabilityLint`, and `LocalTree`, which composes it with the two walks of a
   tree, with proofs about both;
9. the log, the token and forgeseal in `AttestCommand`, and its proofs;
10. proofs about the command around the core, `VerifyCommand`, and about the two
    scripts, `ActionEntrypoint` and `HookGate`;
11. proofs of every safety invariant the runs check: `Discovery`, `ToolListing`, and
    what was left of `AttestCommand` and `LocalTree`; that the command keeps the
    promise of its core.

Left: the grammars of section 7, as operators against reference definitions; one
abstract specification of a whole installation, from `attest` to `verify`.

Two abstract specifications are worth stating and are stated: what the core
promises its caller, and what publishing and discovering promise together.

## 3. The modules and the code

Every module declares what varies as `CONSTANTS` with one named assumption; the
`MC` modules give them values. A definition whose name ends in `_something` and
whose comment begins with *Mutation* is a plausible bug; it is part of no
specification and serves to show that a property would notice.

### VerifyCore, VerifyPromise

`verify.Run` and what it calls. A bundle is a record of the facts verification can
tell bundles apart by: what decoding finds, whose signature it carries, what its
certificate says, what its statement says. `VerifyBundle` and
`VerifyKeylessBundle` decide "ok", "bad" or "config" in the order of the code's
checks, which matters: a key no verifier can be loaded for is noticed after the
envelope was read, a bundle without a certificate is refused before the trusted
root is fetched. Whether the live trusted root can be reached is chosen anew for
each candidate (`up`), as the code fetches it anew.

The state is that of the loop: `in` (the `Input`), `i`, `firstChecks`, the
report's `checks`, `winner` (`WinningBundle`, with 0 for -1), and `pc`. One
iteration is one action, split by its outcome (`ConfigError`, `CandidatePasses`,
`CandidateFails`); `ReportMissing` and `ReportFirst` are the other ways out.

`VerifyPromise` knows no checks and no stages: there is a set of authentic
candidates, and the verdict accepts the first of them, rejects if there is none,
or is not given because the trust configuration may be unusable. `VerifyCore`
implements it with `authentic <- authenticCandidates`, where `Authentic` is
defined from the facts of the bundle without the order of the stages.

### AttestationStore, AttestationRegister

`PushAttestation`, `AttachReferrer` (`push.go`), `discoverByTag`,
`discoverReferrers` and `fetchManifestLayers`. The registry is a set of layers, a
content-addressed set of manifests, and tags. Every request is an action of its
own. A maker's request may be carried out and its answer lost (`heard`), fail
without effect, or never be sent because the maker died (`MakerFails`); then the
maker may run again. A reader resolves its place at one moment and fetches what
it saw there one candidate at a time, while makers go on.

`AttestationRegister` has neither layers nor requests: a place shows a set of
items, a reader looks once and delivers all it saw, at most the cap, or fails. The
refinement maps what a place shows to the manifests that discovery would collect
there.

### VerifyCommand

`runVerify`, `runRegistryCheck`, `verifyDiscovered` and `runMain`'s mapping to
exit codes, around `VerifyCore`, whose variables it shares: `RunCore` is one step
of `VerifyCore!Next`. Discovery is one step with every result it may have (module
`Discovery` takes it apart). `tree` is the local source tree, which `EditTree` may
change at any time; `digested` is the tree discovery saw, and `Lint` reads the tree
again as it is then.

### Discovery

`discover.Resolve` for a directory, an npm name or an OCI image, against
`pushAttestation` on the maker's side. Both compute a place by
`ResolveAttestationBase` and `AttestationRef`, modelled by what they tell apart: a
name loses the marker of its scope and its case, an npm digest the half that does
not fit in a tag. The packument and the provenance are two requests to npm, with
unpublished versions and moving dist-tags in between. Publishing and reading a
place are single steps here; `AttestationStore` has the requests.

### ToolListing

`resolveMCPTools`, `ExtractTools`, `speakMCP`, `readRPCResult` and the cross check.
The client is a program counter over the conversation; `stdout` is the pipe, a
queue of lines with an id and a kind. The server is the environment: it answers or
not, well or with an error, sends notifications, requests of its own with any id
and junk, exits, and leaves a descendant outside its process group that holds some
of the pipe ends. `Deadline` is the context's cancellation, which kills the group;
`WaitDelayOver` is what os/exec does `WaitDelay` later, and it closes the client's
pipe ends only while its own copying of stderr is still stuck.

### AttestCommand

`runAttest` for several runs on one project. Each read of the project is an action
(`LoadDeclared`, `ReadFirst`, `ReadSecond`, and forgeseal's version and output in
`GateForgeseal` and `GenerateSBOM`), so an edit may fall between any two, and an
edit may replace forgeseal as well. `os.WriteFile` is an open that truncates and a
write, which may also fail when all of it is there: two runs with one `--output` may
overwrite each other or leave a mixture (`Torn`), and a run may be killed in between. A keyless signature needs a token
(`RequestToken`) and leaves an entry in the public log (`logged`), also when the
answer is lost and the run fails (`SignKeyless`); a signature with a key is made
offline. The place of a push is worked out last, in `Publish`, and may turn out not
to exist. `Publish` stands for the three requests of `AttestationStore` and is carried
out with the last of them: its answer may be lost, and then the bundle is published and
the run ends with 3. Leaving with 0 is a step of its own (`Report`), so a run may also
be killed when its bundle is already where it belongs. A project's facts are those the pipeline asks for: does the declaration
load, does its identity agree, is the manifest valid, can its name be mapped, which
forgeseal is there, what are its parts and dependencies.

### CapabilityLint

`pkg/core/lint` as functions. A line is what each pattern of a table finds in it
(`matchSymbols`): symbols of constructs, or names of variables that a pattern
captures. `scanLine` is the loop body of `scanSource` with its gate, one detection
per class unless names are captured; `scannedLines` ends at a line that does not
fit the scanner's buffer. `GapsOfLine` is `Gaps` for one line: the findings are
keyed by code and location, the detections come sorted by class and symbol, so of
each class the undeclared detection that sorts first becomes the finding. Beside
them stands what all this is for, without order, gate or duplicates
(`usesUndeclared`, `namesUndeclared`, `isTheGap`).

The one fact about the tables the module assumes is that a name, spelled
`env:NAME`, sorts before every construct of class env (`process.env`, `os.environ`,
...): it is what makes a finding name its variable whenever there is one.

### LocalTree

A skill at its maker and where it is installed. `attest`'s side is `LoadDeclared`,
the walk of `WalkSkill` and `Sign`. A walk goes through the tree in the order of
`filepath.WalkDir`: `todo` is what was listed and not visited, and the next of it is
either a directory, which is listed (`List`), or a file, which is read (`WalkSkill`).
The consumer's side is the same walk and the comparison of digests (`Identify`), then
the lint: `LintLoad`, the resolution of the root (`LintRoot`), one `LintList` per
directory, one `LintRead` per source, `Report`. The same actions are `smithmark lint` on
a tree or on one file; `verify` alone passes over the lint when the tree cannot be
stat'ed any more (`SkipLint`). `EditTree` may change either tree between any two steps.

What fails does so by choice: a directory that cannot be listed ends `WalkSkill`, and is
noted by the lint unless it is the root, which is fatal; the root may not resolve; the
report may not be written. The history variable `fault` keeps which of these met the
command as a whole, for the properties that must except it; no action reads it. The
shape of a tree is constant: `Dirs`, `Root`, and `Above`, the directories a path lies
in, with `AboveAssumption` saying that these form a tree. Whether a path exists, and
as what, is in `tree`. The digest is the set of paths, modes and
contents it is computed from; a content is a value whose lines `TextOf` gives and
whose declaration `DeclaredBy` gives, if it loads as `smithmark.yaml`.

### HookGate, ActionEntrypoint

The two shell scripts, command by command where a command's failure matters.
Outside a condition `set -e` ends the script (`abort`, and the output that cannot
be written in `exit_with_code`); functions called as conditions run with it off
(`download_release`). A failing command ends `HookGate` with
its own status, which for `mktemp` is 1 and for `jq` may be 2. `HookGate` reads the
sidecar once per field, and `EditSidecar` may rewrite it between two reads; the history
variable `said` keeps every entry the sidecar has held, and `fellBack` whether the
artifact came from the environment.

## 4. The runs

| run | asks | bounds, and why they are enough | states |
|---|---|---|---|
| `verify_core` | does `Run` do what `VerifyPromise` says, and does its report tell the truth? | up to 2 candidates, each a good bundle of either mode or one with a single deviation; every key and keyless trust configuration, usable or not; four digest sets, among them a subset and an overlap. The loop keeps nothing but the first candidate's checks and the index, so two candidates show every interplay; the proofs cover the rest | 201 k |
| `store` | can a reader be given anything but what its place showed, or meet a half-pushed bundle, a retry or a flood? | 2 makers, 2 runs each, two good bundles and a bad one; either a valid and an invalid tag or an image, never both kinds at once, which share only layers; foreign manifests that may lack their layer; the cap at 2 (16 in the code), so that three candidates exceed it. Two makers overwrite each other, two runs make a retry | 232 k |
| `verify_command` | do exit code, verdict and evidence agree, and are they true? | every combination of trust flags; local trees with one edit; registry check; up to 2 candidates of 5 kinds | 239 k |
| `tool_listing` | is an accepted listing the server's, does it end, is nothing left running? | pipes of 2 lines, listings of up to two tools or two pages, files that agree, differ in each way or name a tool twice; descendants with stderr, or both pipes | 272 k |
| `tool_listing_deadline` | does the deadline bound a descendant that holds stdout alone? (no) | as above, without a file | violated |
| `attest_command` | what is published, logged and left lying around after concurrent, killed runs, lost answers and files that fail to close? | 2 runs with every kind of flags, projects that fail each check, 2 edits, so that one can be undone. The runs are interchangeable, hence the symmetry | 4.4 M |
| `discovery` | is what was attested found, and nothing else? | 6 argument shapes, 6 sources of the base, names and digests that collide, 2 of 6 offers published, one change of npm between two requests | 388 k |
| `discovery_cwd` | does the base of an npm argument come from the working directory? (yes) | as above | violated |
| `hook_gate` | what is admitted, and with whose trust material? | 5 sidecars, 3 environments, 1 rewrite, every exit code, every field read or not | 27 k |
| `hook_abort` | does the hook always fail closed? (no) | as above | violated |
| `action_entrypoint` | does only verify speak for the step and its output? | every path, an output that can be written or not, and the exit codes 0 to 3, 126, 127 and those of two signals | 112 |
| `local_tree` | is a genuine copy accepted and nothing else, and is the lint's gap the right one, whatever the trees hold, whoever edits them and whatever cannot be read? | 5 paths in the root, a directory and an excluded one: declaration, `SKILL.md`, a source, an excluded source and a path with a backslash; nodes with and without bit, link, unreadable; both systems for each role; declarations with a blank, a wildcard, an inadmissible and no entry; 2 edits anywhere; any directory, the root and the report may fail | 4.8 M |

Deadlock checking is off in every run because every modelled process ends: the
last state has no successor by design. That they do end is a liveness property
where it is not obvious (`ImplementsPromise`, `ImplementsRegister`,
`EveryRunExits`, `ListingEnds`).

Bounds: `MaxBundles`, `MaxRuns`, `MaxEdits` (three modules), `MaxChanges`,
`MaxOffers` and `PipeLines` keep instances finite and stand for nothing in the
code. `Cap` stands for `maxReferrerCandidates`.

The type invariants of `VerifyCore` and `AttestationStore` are checked and proved.
Those of the other modules are proved, and their runs spend their time on what could
really be wrong; `LocalTree` has none of its own, its types are in the invariant of its
proofs.

What the properties say:

- **VerifyCore.** `ImplementsPromise`; `ExitAgreesWithWinner`: the exit code, read
  off the checks, and the evidence, read off `WinningBundle`, never disagree;
  `BlameIsTrue`: a rejection says of the first candidate what is so;
  `UnverifiedStatementNotRead`: no check that reads a statement is decided unless
  the trusted signer made it.
- **AttestationStore.** `ImplementsRegister`; `NoHalfPublishSeen`: content is
  there before anything names it, except for strangers' manifests;
  `RefusedRunWritesNothing`, a property of steps: no step of a run that is refused,
  for its bundle or for its tag, changes the registry; `RepushIsIdempotent`: retries make no second manifest,
  so they cannot fill the cap.
- **VerifyCommand.** `ExitCodeTellsTheTruth`; `VerdictUnderOneTrustMode`: no candidate
  is judged without one complete trust mode, and what is accepted was signed by
  what that mode names; `EvidenceIsAuthentic`; `StrictCoversTheTree`: an unedited
  skill was linted as it was attested; `EveryRunExits`.
- **Discovery.** `AttestedIsFound`: whatever was published for the artifact before
  the reader looked is found, or its tag was taken by one of the same name up to
  case, kind and half digest; `PlacesAreApart`: nothing else is ever found there;
  `ProvenanceOfTheVersion`: the provenance is that of the version whose digest the
  report is about.
- **ToolListing.** `LiveListingIsServed`, `CrossCheckedListing`,
  `NoServerLeftBehind`, `ListingEnds`.
- **AttestCommand.** `DryRunLeavesNoTrace`; `SidecarBelongsToBundle`;
  `SuccessIsPublication`: exit 0 means that the bundle is where the run was told to put
  it. Failure does not mean the opposite, and the property does not say so; but what a
  run leaves, however it ended, is signed and valid, at the one place it was told, and
  never of a dry run. `OnlyTheSignedReplace`, a property of steps: a run that is
  refused, fails to sign or is a dry run leaves an earlier bundle in the `--output`
  file alone (its sidecar it does replace). `PublishedIsTrue`;
  `LogMatchesPublication`: what is published with a keyless signature is in the log
  word for word, a key never reaches it, and nothing invalid is there.
- **LocalTree.** `GenuineInstallIsAccepted`: a copy of what was attested passes on
  every system and with whatever bits, if its executables are declared;
  `AcceptedIsWhatWasSigned`: an unedited tree that passes is file by file what was
  signed; `StrictMeansSigned`: it uses nothing the maker did not sign for, in what the
  lint did not say it skipped, although the lint asks the tree's declaration and not
  the attested one; `SignedIsValid`; `FindingsAreTheGap`; `SkippedIsNoted`: a source was
  scanned or is noted, or a directory it lies in is; `LintIsAdvisory`: no file or
  subdirectory takes a completed verification away, only a declaration that does not
  load, a root that cannot be walked and a report that cannot be written. `FindingsAreTheGap`
  and `LintIsAdvisory` hold of trees that are edited meanwhile; `AcceptedIsWhatWasSigned`
  and `SkippedIsNoted` except a consumer's tree that is, `GenuineInstallIsAccepted` and
  `StrictMeansSigned` either tree: an edit between the digest and the lint does go
  unnoticed.
- **HookGate.** `OnlyAPassAdmits`: the override for errors never admits what verify
  rejected; `SidecarArtifactSidecarTrust`: an artifact the sidecar names is judged with
  trust material the sidecar held during the call, never the environment's. The
  converse does not hold (an artifact of the environment keeps the trust material the
  sidecar has for the server), and a sidecar rewritten between two reads gives fields
  of both its entries.
- **ActionEntrypoint.** `VerdictIsVerifys`: a verdict, as exit code or in the step
  output, is that of a `verify` that ran; the one exception is exit 1 beside an empty
  output, when the output could not be written. `NothingLeftBehind`.

### Fairness

- `VerifyCore!FairSpec`: `WF(Next)`. `Run` is one call on one goroutine and every
  verifier call returns.
- `VerifyCommand!CommandSpec`: `WF(Step)`. One process, requests that are answered
  or fail. Nothing is assumed of whoever edits the tree.
- `AttestationStore!FairSpec`: `WF` of each reader. A reader is a process that goes
  on issuing requests. Makers may stop for ever at any point.
- `ToolListing!FairSpec`: `WF` of the client, the deadline and `WaitDelay`, which
  are the program's own goroutines and the clock. Nothing is assumed of the server;
  if it keeps its pipes open and silent, that is a behaviour too.
- The other modules state safety alone.

## 5. The proofs

For every value of the constants their named assumptions admit:

`VerifyCommand_proofs`, first part: `VerifyCore` (assumption `CoreAssumption`). The
invariant the runs check is not inductive: that a rejection is right depends on what
the loop already passed over. `IInv` adds it: while the loop runs, no candidate before
`i` is authentic and `firstChecks` is true of candidate 1 (`LoopInv`); a report is true
of the candidate it reflects, and a winner is the first authentic one (`ReportInv`); an
error comes from a trust configuration that may fail (`ErrorInv`). The key lemmas
are that the verifier says "ok" exactly for the bundles of the trusted signer
(`SignatureSound`), that `digestMatch` is equality of digest sets
(`DigestMatchIsEquality`), and that a candidate passes exactly if it is authentic
(`PassingIsAuthentic`). From `IInv`: `TypeCorrect`, `ExitAgrees`,
`BlameIsAlwaysTrue`, `UnverifiedNeverRead`, and `Implements`, that every step of
`VerifyCore` is a step of `VerifyPromise` or leaves it unchanged
(`CoreStepKeepsPromise`).

`AttestationStore_proofs` (assumption `StoreAssumption`). `IInv` is the rule
"content before what names it", stated wherever a name may be held: in the
registry (`StoreInv`), by a maker between two requests (`MakerInv`), by a reader
between two fetches (`ReaderInv`, with the count of what it collected). It is
stable because the registry only grows and only a tag is ever replaced, by a
manifest that is already there. From it: `TypeCorrect`, `NoHalfPublishIsSeen`,
`RefusedWritesNothing`, `RepushAddsNothing`, and `Implements`, that
`AttestationStore` implements `AttestationRegister`.

`LocalTree_proofs`, first part: `CapabilityLint` (assumption `LintAssumption`), for
every table, line and declaration. `NothingIsMasked`: the findings of a line are the
gap (`isTheGap`). The argument: of a class that a line uses undeclared, some detection
fires that is undeclared (the gate passes over a pattern only behind another of its
class, and a declaration without captures is per class); among finitely many ranks
there is a least, and it becomes the finding, alone of its class.
`DeclaringMoreFindsLess` and `BlankDeclaresNothing` follow from what `undeclared` looks
at.

`LocalTree_proofs`, second part (adding `TreeAssumption`). `FindingsAlwaysTheGap` needs
only that what lint has read are sources, each once (`LintInv`), and then
`NothingIsMasked`. That nothing is read
twice is `Ahead`: what is still to be visited lies in no directory that is, so a listing
adds only what was not there (`AheadAfterListing`). The other six theorems rest on
`TreeInv`, which accounts for both sides of an installation at once:

- `WalkInv(r)`: while nobody edits the tree of role `r`, every path is still ahead (it
  or a directory it lies in is to be visited, `pending`), or was seen as the tree holds
  it (`Seen`); that a link cannot be among them is what `List` refuses. A directory that
  is listed hands what lies below it on to its entries, because each path below has one
  of them on its way (`ListingCovers`, by `AboveAssumption`). With equal digests it
  gives `AcceptedAlwaysSigned`.
- `OrderInv` and `SignInv` hold edits or not: the consumer starts after the signature,
  lints after the digests were compared, and what was signed is what the maker read
  and declared, in the grammar. They give `SignedAlwaysValid`.
- `SourcesInv`: the lint of an unedited tree, unless it is skipped, holds the declaration
  in it (`Asked`), and each
  source is still ahead in the same sense, read as it is, or noted with a directory it
  lies in (`Covered`). `SkippedAlwaysNoted` is its last
  line. `StrictAlwaysMeansSigned` puts it together with the others: no findings means
  that no line uses anything undeclared, by `NothingIsMasked`, and the declaration
  that says so is the signed one, because the trees are equal file by file.
- `OutcomeInv` says what an exit code stands for, and that a copy of the signed files
  is not rejected, nor failed but for a `fault` (`Genuine`): what the maker could walk the consumer
  can (`GenuineCanBeWalked`), and with equal modes, or modes the declaration supplies,
  both walks see the same files (`GenuineLooksTheSame`). Hence `GenuineAlwaysAccepted`
  and `LintAlwaysAdvisory`.

`AttestCommand_proofs` (assumption `AttestAssumption`), for every number of runs:
`RunInv` says of one run what is true at each of its steps and of what it left
behind, among it that the only writer finds the file as it truncated it. A step of
one run keeps it for the others because it touches nothing of theirs (`Frame`), and
a file only if it is a writer itself. From it: `TypeCorrect`, `DryRunsLeaveNoTrace`,
`SuccessIsAlwaysPublication`, `OnlyTheSignedEverReplace` (a step property, by `RunInv` at
the steps that touch the file), `LogAlwaysMatches`.
`FullInv` adds two accounts. `SidecarInv` follows the sidecar from the manifest that
refers to it to the bundle that does: a run past writing its own has left it there,
and only another writer can have replaced it; it gives `SidecarAlwaysBelongs`. `TruthInv`
says how much of a project nobody edits a run knows at each step, so that what was
signed is true of the project as it is: `PublishedAlwaysTrue`.

`VerifyCommand_proofs`, second part (adding `CommandAssumption`), composes: the core is a step
`RunCore` of the command, so the core's `InvNext` keeps `IInv` through it, and
`FreshCore` through discovery and the reading of trust, which change the input of a
core that has not begun. `CommandInv` adds what the command knows: where the core
stands (`PhaseInv`), under which trust (`TrustInv`), whose evidence it holds
(`EvidenceInv`), what the tree was when it was digested and linted (`TreeInv`), and
how exit code, verdict and report go together (`ExitInv`). From it and the core's
`ReportAgrees`: `ExitCodeIsTrue`, `VerdictsUnderOneTrustMode`,
`EvidenceIsAlwaysAuthentic`, `StrictAlwaysCoversTheTree`. `CommandKeepsPromise` is the
composition as a refinement: seen at its core a command begins when the trust flags
have been read (`BeforeTheCore`), its step `RunCore` is a step of `VerifyPromise` by
`CoreStepKeepsPromise`, and every other step leaves what the core was given and found
alone. `CommandTypeCorrect` adds the bounds of what the command counts and that the
trust of the core is one the flags can name.

`Discovery_proofs` (assumption `DiscoveryAssumption`), for any number of makers and of
changes of npm. `PlaceIsOfTheArtifact` says what a place tells apart, and
`SameBaseSamePlace` that maker and consumer who were told the same base compute the
same place, although they read different configurations. `Inv` is then: which steps an
argument leads through (`PathInv`); every offer published has a place, and somebody's
offer is there (`StoreInv`), which survives that a later offer takes a tag; from the
moment npm answered, the digest is that of the version (`VersionInv`); what was in the
store when it was read was found, or what had taken its tag (`LookedUp`). From it:
`AttestedAlwaysFound`, `ProvenanceAlwaysOfTheVersion`, `PlacesAlwaysApart`. The
provenance is right because nobody can publish another `dist.integrity` for a version,
and `VersionKeys`: asked for a version, `resolveVersionKey` answers that one or none.
`TypeCorrect` holds by itself, with the fact that a place shows one offer at a time. The
assumption says that `Nothing` is no digest; it stands for the absence of one, which
the code tells from every digest (an empty `DigestSet`).

`ToolListing_proofs` (assumption `ListingAssumption`), for every set of tools, every
server and every order of messages, exits and timeouts. `AskedInv`: the listing is
asked for once, and only the server's answer to it is in the pipe with id 2 and a
result, whatever notifications, requests and junk stand before it. `ResultInv`: what
the client has in hand at each step, the cross check included, which becomes one on
names and schemas (`CrossCheckedListing`) because a listing that agrees names no tool
twice. `GroupInv`: a process group lives only while the client talks to it. From
them: `TypesAlways`, `LiveListingAlwaysServed`, `CrossCheckAlwaysHolds`,
`NeverAServerLeftBehind`. The assumption says that a listing is a non-empty sequence of
pages, each a sequence of tools, which is what answers to `tools/list` are.

`ActionEntrypoint_proofs` (assumption `EntrypointAssumption`), for every set of exit
codes: nothing is decided before the end (`UndecidedInv`), and every directory is the
one the trap in force removes (`TempsInv`); that a trap replaces another loses
nothing because `download_release` has removed its own by then. From it:
`TypeCorrect`, `VerdictsAreVerifys`, `NothingIsLeftBehind`.

`HookGate_proofs` (assumption `HookAssumption`), for any number of fields and of
rewrites of the sidecar: each variable is empty or holds what some entry of the
sidecar during the call said, or, once the script fell back, what the environment does
(`SourceInv`). From it: `OnlyAPassEverAdmits`, `TrustFollowsTheArtifact`. `TypeCorrect` is by `ReadingInv`: while
fields are read there is one more to read.

What stays with TLC: every safety invariant the runs check is a theorem, and so is the
safety part of both refinements (`Promise!Spec`, `Register!Spec`). Their fair versions
(`ImplementsPromise`, `ImplementsRegister`), and with them that every run and every
discovery ends, `EveryRunExits` and `ListingEnds` are only model-checked: liveness under
fairness rests on `ENABLED`, which is beyond the prover.

## 6. Disagreements

Three have a run that shows them:

- **A deadline that bounds nothing** (`tool_listing_deadline`,
  `DeadlineBoundsExtraction`). `mcptools.go:134` calls the deadline what bounds an
  unhelpful server. `readRPCResult` reads until the stream ends; the deadline kills
  the process group, and `WaitDelay` closes the pipes only while stderr is still
  being copied. A descendant in another group that kept stdout and not stderr
  holds `attest` for as long as it likes. With stderr among what it kept the
  extraction does end (`ListingEnds`).
- **A hook that ends without a decision** (`hook_abort`, `FailsClosed`). The hook's
  comment says it fails closed by default. A failing `mktemp` ends the script
  under `set -e` with exit 1, and a failing `jq` inside a decision with `jq`'s own
  status, either without output; by the hook's own README such an exit blocks nothing
  unless the status happens to be 2.
- **A base from the wrong directory** (`discovery_cwd`, `BaseIsTheArtifacts`). For
  an npm argument `artifactRoot` is empty and the `package.json` of the working
  directory supplies the base, where `resolve.go:36` says "for local args only".

The following statements of the code's comments are written down next to the
properties and do not hold either; put in place of the `INVARIANTS` of the
module's cfg, TLC shows how:

| statement | what the code does |
|---|---|
| `VerifyCore!ErrorAppliesToEveryCandidate` (`verify.go:145`, `:194`) | a configuration error is noticed only if a candidate gets as far as the trusted root or the key; candidates that are refused earlier, or one that wins first, hide it |
| `VerifyCommand!CompletedVerificationIsReported` (`cmd/smithmark/verify.go:96`) | `EvidenceBlock` decodes the winner again with `encoding/json`, which does not read every spelling `protojson` accepted; a verification that passed then ends with exit 3 and no report |
| `ToolListing!ListedAfterInitialize` (`mcptools.go:293`) | a *request* of the server with id 1 is taken for the answer to `initialize` |
| `ToolListing!ListingIsWhole` (`attest.go:349`) | `nextCursor` is not read: the first page is attested as the listing |
| `Discovery!ExplicitBundleKeepsIdentity` (`resolve.go:43`) | with `--bundle` the command sets no `NewTarget`, so an OCI image cannot be resolved at all |
| `LocalTree!EveryLineIsScanned` (`lint.go:395`) | the scanner stops for good at a line over ten megabytes and its error is not asked for: the rest of the file is passed over in silence |
| `LocalTree!EveryGapCanBeDeclared` (`lint.go:524`, `:630`) | `Gaps` has a bare `*` as the way to declare any variable; the grammar of a manifest (`manifest.go:534`) has neither it nor lower case names, so no declaration that can be attested answers such a finding |
| `LocalTree!OnlyTheRootFailsLint` (`cmd/smithmark/verify.go:326`) | lint loads the declaration again; one that was edited since ends a completed verification with exit 3, whatever the root does |
| `ActionEntrypoint!ExitInContract` (`entrypoint.sh:6`, `action.yml:50`) | a binary that cannot be run, or is killed, leaves 126, 127 or 128+n |
| `ActionEntrypoint!NeverMasked` (`entrypoint.sh:250`) | a step output that cannot be written ends the step with 1 |

Three more things happen that no comment denies, so that no property states the
opposite: `--strict` passes without a lint, and with a note alone, when the tree cannot
be stat'ed any more after verification (`cmd/smithmark/verify.go:333`,
`SkipLint`); a run of `attest` that fails after the sidecar was written leaves it beside
an older bundle that names another list; and a push whose last answer is lost is
published although the run ends with 3.

## 7. Abstractions, and what is not modelled

- Cryptography is a fact about a bundle: whom its signature verifies for, whether
  its chain and log entry do. Certificates, keys and digests are values.
- Statements and manifests are records of the facts that decide a stage. The field
  rules of `Validate`, the canonical encoding, and the formatting of reports and
  messages are left out, as are notes and details of checks.
- Not every argument grammar is modelled: `looksLikeOCIRef`, `parseNPMArg`, the PyPI
  mapping, `ValidOCITag` (a set of valid tags here), the registry pagination of
  `registry check`.
- A regular expression is a fact about a line, and a line is what the patterns find
  in it; the order of findings in a report is left out. So are the YAML grammar of
  the declaration, the frontmatter's version, and the canonical encoding that makes
  the digest of a set of files (`LocalTree` compares the sets).
- `LocalTree` has skills alone: an MCP server's digest is that of its tarball,
  which `AttestCommand` reads. The trusted signature between the two sides is
  `VerifyCore`'s and holds there.
- `smithmark manifest init` turns flags into a template: one stat and one
  `os.WriteFile`, nothing before or after. The one thing that can go wrong, a file
  that appears between the two and is overwritten, needs no model to be seen.
- The Windows process tree and the wasip1 stubs, the table of error codes and the
  test data have no module: no state, or only an error.
