---------------------------- MODULE AttestCommand ----------------------------
(***************************************************************************)
(* `smithmark attest`: read the declaration, digest the artifact, have     *)
(* forgeseal list its dependencies, validate, sign, and print, write or    *)
(* push the result.  Several runs may be under way on one project, with    *)
(* the same --output file; each may be killed at any point; and the        *)
(* project may be edited, or forgeseal replaced, while they are at it.     *)
(*                                                                         *)
(* The artifact is read in two steps (the files of a skill one after the   *)
(* other; an npm tarball once for its digest, once for its identity).  The *)
(* SBOM goes to a sidecar file before the manifest that points at it is    *)
(* validated, signed and written.  A keyless signature goes to a public    *)
(* log before anything is written or pushed.                               *)
(***************************************************************************)
EXTENDS Naturals, FiniteSets

CONSTANTS
  Runs,      \* the runs of attest
  Flags,     \* the flag combinations that occur
  Parts,     \* contents of a part of the artifact
  Deps,      \* dependency lists
  Kinds,     \* the kinds of artifact that occur
  Projects,  \* the states of the project that occur
  MaxEdits   \* bound on the edits of the project

Flag ==
  [key: BOOLEAN, keyless: BOOLEAN, skipSBOM: BOOLEAN, output: BOOLEAN,
   dryRun: BOOLEAN]

\* declared: smithmark.yaml loads; agrees: its identity is that of the artifact;
\* valid: what it declares, completed, passes Validate; mappable: its name and
\* its attestation base make a place in a registry; forgeseal: the one on PATH.
Project ==
  [declared: BOOLEAN, agrees: BOOLEAN, valid: BOOLEAN, mappable: BOOLEAN,
   forgeseal: {"missing", "unsupported", "supported"},
   first: Parts, second: Parts, deps: Deps]

ASSUME AttestAssumption ==
  /\ Projects \subseteq Project
  /\ Flags \subseteq Flag
  /\ Kinds \subseteq {"skill", "mcp-server"}
  /\ MaxEdits \in Nat
  /\ {"none", "empty", "torn"} \cap (Runs \cup Parts \cup Deps) = {}

Empty == [first |-> "none", second |-> "none", sbom |-> "none", valid |-> FALSE]

NoFile == [by |-> "none", first |-> "none", second |-> "none", sbom |-> "none"]
Truncated == [NoFile EXCEPT !.by = "empty"]
Torn == [NoFile EXCEPT !.by = "torn"]

VARIABLES
  kind,      \* the kind of the artifact
  project,   \* the project as it is now
  edits,     \* edits so far
  flags,     \* the flags of each run
  pc,        \* the step of each run
  man,       \* the manifest and subject each run has put together
  signed,    \* the statement each run has a signature of, Empty before
  logged,    \* the statement of each run that is in the Rekor log
  bundleFile,   \* the --output file
  sidecarFile,  \* the .sbom.json next to it
  pushed,    \* the runs whose bundle reached the registry
  exit       \* exit code of each run, 4 while it runs, 5 if it was killed

vars == <<kind, project, edits, flags, pc, man, signed, logged, bundleFile,
          sidecarFile, pushed, exit>>

Init ==
  /\ kind \in Kinds
  /\ project \in Projects /\ edits = 0
  /\ flags \in [Runs -> Flags]
  /\ pc = [r \in Runs |-> "flags"]
  /\ man = [r \in Runs |-> Empty] /\ signed = [r \in Runs |-> Empty]
  /\ logged = [r \in Runs |-> Empty]
  /\ bundleFile = NoFile /\ sidecarFile = NoFile
  /\ pushed = {} /\ exit = [r \in Runs |-> 4]

-----------------------------------------------------------------------------
go(r, step) == pc' = [pc EXCEPT ![r] = step] /\ UNCHANGED exit

leave(r, code) ==
  /\ pc' = [pc EXCEPT ![r] = "ended"]
  /\ exit' = [exit EXCEPT ![r] = code]

inputs == <<kind, project, edits, flags>>
signatures == <<signed, logged>>
files == <<bundleFile, sidecarFile>>

CheckFlags(r) ==
  /\ pc[r] = "flags"
  /\ IF flags[r].key /\ flags[r].keyless THEN leave(r, 3) ELSE go(r, "declared")
  /\ UNCHANGED <<inputs, man, signatures, files, pushed>>

\* LoadDeclared.
LoadDeclared(r) ==
  /\ pc[r] = "declared"
  /\ IF project.declared
     THEN go(r, "first") /\ man' = [man EXCEPT ![r].valid = project.valid]
     ELSE leave(r, 3) /\ UNCHANGED man
  /\ UNCHANGED <<inputs, signatures, files, pushed>>

\* completeSkillSurface and completeMCPSurface up to the first read: the walk may
\* fail, and so may the tool listing.
ReadFirst(r) ==
  /\ pc[r] = "first"
  /\ \/ leave(r, 3) /\ UNCHANGED man
     \/ go(r, "second") /\ man' = [man EXCEPT ![r].first = project.first]
  /\ UNCHANGED <<inputs, signatures, files, pushed>>

\* Mutation: the declared identity is not compared with the tarball's.
ReadSecond_trusting(r) ==
  /\ pc[r] = "second"
  /\ go(r, IF flags[r].skipSBOM THEN "validate" ELSE "gate")
  /\ man' = [man EXCEPT ![r].second =
               IF kind = "skill" THEN project.second ELSE man[r].first]
  /\ UNCHANGED <<inputs, signatures, files, pushed>>

\* The second read, and the cross check of the identity against the declaration.
\* The digest of a tarball was taken with the first.
ReadSecond(r) ==
  /\ pc[r] = "second"
  /\ IF ~project.agrees THEN leave(r, 3) /\ UNCHANGED man
     ELSE /\ go(r, IF flags[r].skipSBOM THEN "validate" ELSE "gate")
          /\ man' = [man EXCEPT ![r].second =
                       IF kind = "skill" THEN project.second ELSE man[r].first]
  /\ UNCHANGED <<inputs, signatures, files, pushed>>

\* Mutation: the manifest points at a sidecar nobody wrote.
GenerateSBOM_unwritten(r) ==
  /\ pc[r] = "sbom"
  /\ \/ leave(r, 3) /\ UNCHANGED man
     \/ go(r, "validate") /\ man' = [man EXCEPT ![r].sbom = project.deps]
  /\ UNCHANGED <<inputs, signatures, files, pushed>>

\* forgesealCLI.Generate up to the version gate.
GateForgeseal(r) ==
  /\ pc[r] = "gate"
  /\ \/ leave(r, 3)
     \/ project.forgeseal = "supported" /\ go(r, "sbom")
  /\ UNCHANGED <<inputs, man, signatures, files, pushed>>

\* The rest of it, on the binary that was found: it may fail, leave no output or
\* write what is no CycloneDX document.
GenerateSBOM(r) ==
  /\ pc[r] = "sbom"
  /\ \/ leave(r, 3) /\ UNCHANGED man
     \/ /\ man' = [man EXCEPT ![r].sbom = project.deps]
        /\ go(r, IF flags[r].output /\ ~flags[r].dryRun THEN "openSidecar"
                 ELSE "validate")
  /\ UNCHANGED <<inputs, signatures, files, pushed>>

\* os.WriteFile is an open that truncates, which may fail and leave the file, and a
\* write from the start of the file, which may fail half way.
truncate(r, file, step) ==
  \/ file' = file /\ leave(r, 3)
  \/ file' = Truncated /\ go(r, step)

\* What a write of `content` may leave: where another run has written since the
\* truncation, the end of a longer text remains.
written(file, content) ==
  {content} \cup (IF file \in {NoFile, Truncated} THEN {} ELSE {Torn})

\* The write may fail before the first byte, half way, or at the close, when all
\* of it is there.
write(r, file, content, step) ==
  \/ file' \in written(file, content) \cup {file, Torn} /\ leave(r, 3)
  \/ file' \in written(file, content) /\ go(r, step)

OpenSidecar(r) ==
  /\ pc[r] = "openSidecar" /\ truncate(r, sidecarFile, "sidecar")
  /\ UNCHANGED <<inputs, man, signatures, bundleFile, pushed>>

sidecarOf(r) == [NoFile EXCEPT !.by = r, !.sbom = man[r].sbom]

WriteSidecar(r) ==
  /\ pc[r] = "sidecar" /\ write(r, sidecarFile, sidecarOf(r), "validate")
  /\ UNCHANGED <<inputs, man, signatures, bundleFile, pushed>>

Validate(r) ==
  /\ pc[r] = "validate"
  /\ IF man[r].valid THEN go(r, "sign") ELSE leave(r, 3)
  /\ UNCHANGED <<inputs, man, signatures, files, pushed>>

\* Mutation: a dry run is one that has nothing to sign with.
Sign_orDry(r) ==
  /\ pc[r] = "sign"
  /\ IF ~flags[r].key /\ ~flags[r].keyless
     THEN leave(r, IF flags[r].dryRun THEN 0 ELSE 3) /\ UNCHANGED signed
     ELSE \/ leave(r, 3) /\ UNCHANGED signed
          \/ flags[r].key /\ go(r, "publish") /\ signed' = [signed EXCEPT ![r] = man[r]]
          \/ ~flags[r].key /\ go(r, "token") /\ UNCHANGED signed
  /\ UNCHANGED <<inputs, man, logged, files, pushed>>

\* Mutation: the output is created before the signature is made, to fail early.
Sign_createsOutput(r) ==
  /\ pc[r] = "sign"
  /\ \/ leave(r, 3) /\ UNCHANGED signed
     \/ flags[r].dryRun /\ leave(r, 0) /\ UNCHANGED signed
     \/ /\ ~flags[r].dryRun /\ flags[r].key /\ go(r, "publish")
        /\ signed' = [signed EXCEPT ![r] = man[r]]
     \/ ~flags[r].dryRun /\ ~flags[r].key /\ flags[r].keyless /\ go(r, "token") /\ UNCHANGED signed
  /\ bundleFile' = IF flags[r].output /\ ~flags[r].dryRun THEN Truncated ELSE bundleFile
  /\ UNCHANGED <<inputs, man, logged, sidecarFile, pushed>>

\* A dry run ends with the statement on stdout, if that can be written.  Otherwise
\* there must be a key, which may not load and signs offline (signWithKey), or
\* --keyless.
Sign(r) ==
  /\ pc[r] = "sign"
  /\ \/ leave(r, 3) /\ UNCHANGED signed
     \/ flags[r].dryRun /\ leave(r, 0) /\ UNCHANGED signed
     \/ /\ ~flags[r].dryRun /\ flags[r].key /\ go(r, "publish")
        /\ signed' = [signed EXCEPT ![r] = man[r]]
     \/ ~flags[r].dryRun /\ ~flags[r].key /\ flags[r].keyless /\ go(r, "token") /\ UNCHANGED signed
  /\ UNCHANGED <<inputs, man, logged, files, pushed>>

\* buildSignOptions: the identity token of the job, if it has one.
RequestToken(r) ==
  /\ pc[r] = "token" /\ (leave(r, 3) \/ go(r, "keyless"))
  /\ UNCHANGED <<inputs, man, signatures, files, pushed>>

\* Mutation: no transparency log among the options of the signature.
SignKeyless_unlogged(r) ==
  /\ pc[r] = "keyless" /\ UNCHANGED logged
  /\ \/ leave(r, 3) /\ UNCHANGED signed
     \/ go(r, "publish") /\ signed' = [signed EXCEPT ![r] = man[r]]
  /\ UNCHANGED <<inputs, man, files, pushed>>

\* signKeyless: a certificate from Fulcio, an entry in Rekor, the bundle. It may
\* fail before the entry, and after it, when the answer does not arrive or the
\* bundle cannot be put together.
SignKeyless(r) ==
  /\ pc[r] = "keyless"
  /\ \/ leave(r, 3) /\ UNCHANGED signatures
     \/ /\ logged' = [logged EXCEPT ![r] = man[r]]
        /\ \/ leave(r, 3) /\ UNCHANGED signed
           \/ go(r, "publish") /\ signed' = [signed EXCEPT ![r] = man[r]]
  /\ UNCHANGED <<inputs, man, files, pushed>>

bundleOf(r) ==
  [by |-> r, first |-> signed[r].first, second |-> signed[r].second,
   sbom |-> signed[r].sbom]

\* Mutation: the error of the push is not looked at.
Publish_unheard(r) ==
  /\ pc[r] = "publish"
  /\ IF flags[r].output
     THEN truncate(r, bundleFile, "write") /\ UNCHANGED pushed
     ELSE /\ UNCHANGED bundleFile /\ go(r, "report")
          /\ \/ UNCHANGED pushed
             \/ project.mappable /\ pushed' = pushed \cup {r}
  /\ UNCHANGED <<inputs, man, signatures, sidecarFile>>

\* With --output the bundle goes to the file, and only without it is it pushed,
\* to a place that is worked out no earlier than here (pushAttestation).  The push
\* is the three requests of AttestationStore: it is carried out when the last of
\* them is, and may be although the answer does not arrive.
Publish(r) ==
  /\ pc[r] = "publish"
  /\ IF flags[r].output
     THEN truncate(r, bundleFile, "write") /\ UNCHANGED pushed
     ELSE /\ UNCHANGED bundleFile
          /\ \/ leave(r, 3) /\ UNCHANGED pushed
             \/ /\ project.mappable /\ pushed' = pushed \cup {r}
                /\ leave(r, 3) \/ go(r, "report")
  /\ UNCHANGED <<inputs, man, signatures, sidecarFile>>

WriteBundle(r) ==
  /\ pc[r] = "write" /\ write(r, bundleFile, bundleOf(r), "report")
  /\ UNCHANGED <<inputs, man, signatures, sidecarFile, pushed>>

\* The line that says where the bundle went, which may be lost, and the end.
Report(r) ==
  /\ pc[r] = "report" /\ leave(r, 0)
  /\ UNCHANGED <<inputs, man, signatures, files, pushed>>

\* The process is killed, at a write perhaps in the middle of it.
Kill(r) ==
  /\ pc[r] # "ended" /\ leave(r, 5)
  /\ sidecarFile' \in {sidecarFile} \cup (IF pc[r] = "sidecar" THEN {Torn} ELSE {})
  /\ bundleFile' \in {bundleFile} \cup (IF pc[r] = "write" THEN {Torn} ELSE {})
  /\ UNCHANGED <<inputs, man, signatures, pushed>>

\* Somebody edits the project, or replaces what is installed with it.
Edit ==
  /\ edits < MaxEdits
  /\ project' \in Projects /\ project' # project
  /\ edits' = edits + 1
  /\ UNCHANGED <<kind, flags, pc, man, signatures, files, pushed, exit>>

Step(r) ==
  \/ CheckFlags(r) \/ LoadDeclared(r) \/ ReadFirst(r) \/ ReadSecond(r)
  \/ GateForgeseal(r) \/ GenerateSBOM(r) \/ OpenSidecar(r) \/ WriteSidecar(r)
  \/ Validate(r) \/ Sign(r) \/ RequestToken(r) \/ SignKeyless(r)
  \/ Publish(r) \/ WriteBundle(r) \/ Report(r)

Next == (\E r \in Runs : Step(r)) \/ (\E r \in Runs : Kill(r)) \/ Edit

Spec == Init /\ [][Next]_vars

-----------------------------------------------------------------------------
\* Properties.

Steps ==
  {"flags", "declared", "first", "second", "gate", "sbom", "openSidecar", "sidecar",
   "validate", "sign", "token", "keyless", "publish", "write", "report", "ended"}

Statement ==
  [first: Parts \cup {"none"}, second: Parts \cup {"none"}, sbom: Deps \cup {"none"},
   valid: BOOLEAN]

File ==
  [by: Runs \cup {"none", "empty", "torn"}, first: Parts \cup {"none"},
   second: Parts \cup {"none"}, sbom: Deps \cup {"none"}]

\* Every variable has its type.
TypeOK ==
  /\ kind \in Kinds /\ project \in Projects /\ edits \in 0..MaxEdits
  /\ flags \in [Runs -> Flags]
  /\ pc \in [Runs -> Steps]
  /\ {man, signed, logged} \subseteq [Runs -> Statement]
  /\ {bundleFile, sidecarFile} \subseteq File
  /\ pushed \subseteq Runs /\ exit \in [Runs -> {0, 3, 4, 5}]

\* A dry run leaves no trace: no signature, no file, nothing in the registry or in
\* the public log, whatever else it was asked for.
DryRunLeavesNoTrace ==
  \A r \in Runs : flags[r].dryRun =>
    /\ signed[r] = Empty /\ logged[r] = Empty
    /\ r \notin pushed /\ r \notin {bundleFile.by, sidecarFile.by}

\* The runs that write files.
writers == {r \in Runs : flags[r].output /\ ~flags[r].dryRun}

\* A bundle in the file points at a sidecar that is there, and only another run
\* can have made it another one than the signature covers.
SidecarBelongsToBundle ==
  bundleFile.by \in Runs /\ bundleFile.sbom # "none" =>
    /\ sidecarFile # NoFile
    /\ sidecarFile.by = bundleFile.by => sidecarFile.sbom = bundleFile.sbom
    /\ sidecarFile.by # bundleFile.by => writers # {bundleFile.by}

published(r) == r \in pushed \/ bundleFile.by = r

\* A run that reports success has put its bundle where it was told to, as far as no
\* other run writes the same file.  Failure does not mean the opposite: the answer
\* to the last request may be lost, the file fail to close, the run be killed
\* before it ends.  But what a run leaves behind, however it ended, it leaves at the
\* one place it was told, and never if it was refused before it signed.
SuccessIsPublication ==
  \A r \in Runs :
    /\ exit[r] = 0 /\ ~flags[r].dryRun =>
         IF flags[r].output THEN writers = {r} => bundleFile = bundleOf(r)
                            ELSE r \in pushed
    /\ published(r) => signed[r].valid /\ ~flags[r].dryRun
    /\ r \in pushed => ~flags[r].output
    /\ bundleFile.by = r => flags[r].output

\* An earlier bundle outlives every run that is refused, fails to sign or is a dry
\* run: only a run with the signature of a valid statement in hand touches the
\* --output file (the order of runAttest; the sidecar has no such protection).
OnlyTheSignedReplace ==
  [][bundleFile' # bundleFile => \E r \in writers : exit[r] = 4 /\ signed[r].valid]_vars

\* What was published about a project nobody edited is true of it, and without an
\* edit nothing invalid, or of another identity, was published.
PublishedIsTrue ==
  edits = 0 /\ (bundleFile.by \in Runs \/ pushed # {}) =>
    /\ project.declared /\ project.agrees /\ project.valid
    /\ pushed # {} => project.mappable
    /\ \A r \in pushed \cup ({bundleFile.by} \cap Runs) :
         /\ signed[r].first = project.first
         /\ kind = "skill" => signed[r].second = project.second
         /\ ~flags[r].skipSBOM <=> signed[r].sbom = project.deps
         /\ ~flags[r].skipSBOM => project.forgeseal = "supported"

\* The public log, which nothing can be taken back from: what is published with a
\* keyless signature is in it, word for word; signing with a key stays offline
\* (signWithKey, "never touches the network"); and what is there has passed
\* Validate, whatever became of the run afterwards.
LogMatchesPublication ==
  \A r \in Runs :
    /\ published(r) /\ flags[r].keyless => logged[r] = signed[r]
    /\ logged[r] # Empty => flags[r].keyless /\ ~flags[r].key /\ logged[r].valid
    /\ logged[r] # Empty /\ exit[r] = 0 => r \in pushed \/ flags[r].output
=============================================================================
