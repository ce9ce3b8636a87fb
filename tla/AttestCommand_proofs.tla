-------------------------- MODULE AttestCommand_proofs --------------------------
(***************************************************************************)
(* Proofs about attest, for every number of runs, every mixture of flags   *)
(* and every number of edits.                                              *)
(***************************************************************************)
EXTENDS AttestCommand, TLAPS

\* What is true of a run at each of its steps, and of what it leaves behind.
RunInv(r) ==
  /\ pc[r] # "ended" => exit[r] = 4
  /\ pc[r] \notin {"flags", "ended"} => ~(flags[r].key /\ flags[r].keyless)
  /\ pc[r] \in {"openSidecar", "sidecar"} => flags[r].output /\ ~flags[r].dryRun
  /\ pc[r] \in {"sign", "token", "keyless"} => man[r].valid
  /\ pc[r] \in {"token", "keyless"} =>
       flags[r].keyless /\ ~flags[r].key /\ ~flags[r].dryRun
  /\ pc[r] \notin {"publish", "write", "report", "ended"} =>
       signed[r] = Empty /\ logged[r] = Empty
  /\ pc[r] \in {"publish", "write", "report"} =>
       /\ signed[r].valid /\ ~flags[r].dryRun
       /\ flags[r].keyless => logged[r] = signed[r]
  /\ pc[r] = "write" => flags[r].output
  /\ signed[r] # Empty => ~flags[r].dryRun
  /\ logged[r] # Empty =>
       flags[r].keyless /\ ~flags[r].key /\ ~flags[r].dryRun /\ logged[r].valid
  /\ r \in pushed =>
       /\ pc[r] \in {"report", "ended"} /\ ~flags[r].output /\ ~flags[r].dryRun
       /\ signed[r].valid
       /\ flags[r].keyless => logged[r] = signed[r]
  /\ bundleFile.by = r =>
       /\ pc[r] \in {"report", "ended"} /\ flags[r].output /\ ~flags[r].dryRun
       /\ bundleFile = bundleOf(r) /\ signed[r].valid
       /\ flags[r].keyless => logged[r] = signed[r]
  /\ sidecarFile.by = r => ~flags[r].dryRun
  /\ /\ pc[r] = "report" \/ exit[r] = 0
     /\ ~flags[r].dryRun /\ ~flags[r].output
     => r \in pushed
  /\ writers = {r} =>
       /\ pc[r] = "write" => bundleFile = Truncated
       /\ pc[r] = "report" \/ exit[r] = 0 => bundleFile = bundleOf(r)

Inv == TypeOK /\ \A r \in Runs : RunInv(r)

-----------------------------------------------------------------------------
\* Every conjunct of the properties is one about a run.
LEMMA InvGivesProperties ==
  Inv => DryRunLeavesNoTrace /\ SuccessIsPublication /\ LogMatchesPublication
<1>. SUFFICES ASSUME Inv
              PROVE  DryRunLeavesNoTrace /\ SuccessIsPublication /\ LogMatchesPublication
  OBVIOUS
<1>1. DryRunLeavesNoTrace
  BY DEF Inv, RunInv, DryRunLeavesNoTrace
<1>2. SuccessIsPublication
  BY DEF Inv, RunInv, SuccessIsPublication, writers, published
<1>3. LogMatchesPublication
  BY DEF Inv, RunInv, LogMatchesPublication, published
<1>. QED  BY <1>1, <1>2, <1>3

LEMMA InitKeepsInv == Init => Inv
<1>. SUFFICES ASSUME Init PROVE Inv
  OBVIOUS
<1>1. TypeOK
  BY AttestAssumption
     DEF Init, TypeOK, Steps, Statement, File, Empty, NoFile
<1>2. ASSUME NEW r \in Runs PROVE RunInv(r)
  BY AttestAssumption DEF Init, RunInv, NoFile
<1>. QED  BY <1>1, <1>2 DEF Inv

\* What a step of a run may touch.
Frame(r) ==
  /\ UNCHANGED flags
  /\ \A q \in Runs \ {r} :
       UNCHANGED <<pc[q], exit[q], man[q], signed[q], logged[q]>>
       /\ (q \in pushed' <=> q \in pushed)
  /\ \/ UNCHANGED bundleFile
     \/ r \in writers /\ bundleFile'.by \in {r, "empty", "torn"}
  /\ UNCHANGED sidecarFile \/ sidecarFile'.by \in {r, "empty", "torn"}

LEMMA OthersKeepRunInv ==
  ASSUME Inv, NEW r \in Runs, Frame(r), NEW q \in Runs \ {r}
  PROVE  RunInv(q)'
<1>1. RunInv(q) /\ UNCHANGED <<pc[q], exit[q], man[q], signed[q], logged[q], flags>>
  BY DEF Inv, Frame
<1>2. UNCHANGED bundleOf(q)
  BY <1>1 DEF bundleOf
<1>3. UNCHANGED writers
  BY <1>1 DEF writers
<1>4. q \notin {"empty", "torn"} /\ q # r
  BY AttestAssumption
<1>5. UNCHANGED bundleFile \/ (bundleFile'.by # q /\ writers # {q})
  BY <1>4 DEF Frame
<1>6. sidecarFile'.by = q => sidecarFile.by = q
  BY <1>4 DEF Frame
<1>7. q \in pushed' <=> q \in pushed
  BY DEF Frame
<1>. QED  BY <1>1, <1>2, <1>3, <1>5, <1>6, <1>7 DEF RunInv

-----------------------------------------------------------------------------
\* One step of a run.

LEMMA Leaving ==
  ASSUME TypeOK, NEW r \in Runs, NEW code \in {0, 3, 4, 5}, leave(r, code)
  PROVE  /\ pc' \in [Runs -> Steps] /\ exit' \in [Runs -> {0, 3, 4, 5}]
         /\ pc'[r] = "ended" /\ exit'[r] = code
         /\ \A q \in Runs \ {r} : UNCHANGED <<pc[q], exit[q]>>
<1>1. pc \in [Runs -> Steps] /\ exit \in [Runs -> {0, 3, 4, 5}] /\ "ended" \in Steps
  BY DEF TypeOK, Steps
<1>2. pc' = [pc EXCEPT ![r] = "ended"] /\ exit' = [exit EXCEPT ![r] = code]
  BY DEF leave
<1>. QED  BY <1>1, <1>2

LEMMA Going ==
  ASSUME TypeOK, NEW r \in Runs, NEW step \in Steps, go(r, step)
  PROVE  /\ pc' \in [Runs -> Steps] /\ exit' \in [Runs -> {0, 3, 4, 5}]
         /\ pc'[r] = step /\ exit'[r] = exit[r]
         /\ \A q \in Runs \ {r} : UNCHANGED <<pc[q], exit[q]>>
<1>1. pc \in [Runs -> Steps] /\ exit \in [Runs -> {0, 3, 4, 5}]
  BY DEF TypeOK
<1>2. pc' = [pc EXCEPT ![r] = step] /\ exit' = exit
  BY DEF go
<1>. QED  BY <1>1, <1>2

\* The files and records are well formed, whatever the run puts into them.
LEMMA FileFacts ==
  ASSUME TypeOK, NEW r \in Runs
  PROVE  /\ bundleOf(r) \in File /\ sidecarOf(r) \in File /\ NoFile \in File
         /\ Truncated \in File /\ Torn \in File
         /\ bundleOf(r).by = r /\ sidecarOf(r).by = r
         /\ Truncated.by = "empty" /\ Torn.by = "torn"
<1>1. man[r] \in Statement /\ signed[r] \in Statement
  BY DEF TypeOK
<1>. QED
  BY <1>1 DEF bundleOf, sidecarOf, File, NoFile, Truncated, Torn, Statement

\* A step before anything is signed: it may only put the manifest together.
LEMMA PreparingKeepsInv ==
  ASSUME Inv, NEW r \in Runs,
         UNCHANGED <<inputs, signatures, files, pushed>>,
         pc[r] \notin {"sign", "token", "keyless", "publish", "write", "report", "ended"},
         pc' \in [Runs -> Steps], exit' \in [Runs -> {0, 3, 4, 5}],
         man' \in [Runs -> Statement],
         \A q \in Runs \ {r} : UNCHANGED <<pc[q], exit[q], man[q]>>,
         \/ pc'[r] = "ended" /\ exit'[r] \in {3, 5}
         \/ /\ exit'[r] = 4
            /\ pc'[r] \notin {"token", "keyless", "publish", "write", "report", "ended"}
            /\ pc'[r] # "flags" => ~(flags[r].key /\ flags[r].keyless)
            /\ pc'[r] \in {"openSidecar", "sidecar"} =>
                 flags[r].output /\ ~flags[r].dryRun
            /\ pc'[r] = "sign" => man'[r].valid
  PROVE  Inv'
<1>1. TypeOK'
  BY DEF Inv, TypeOK, inputs, signatures, files
<1>2. Frame(r)
  BY DEF Frame, inputs, signatures, files
<1>3. /\ UNCHANGED <<flags, signed[r], logged[r], bundleFile, sidecarFile, pushed>>
      /\ UNCHANGED <<writers, bundleOf(r)>>
  BY DEF inputs, signatures, files, writers, bundleOf
<1>4. RunInv(r) /\ exit[r] = 4
  BY DEF Inv, RunInv
<1>5. RunInv(r)'
  <2>1. CASE pc'[r] = "ended" /\ exit'[r] \in {3, 5}
    BY <1>3, <1>4, <2>1 DEF RunInv
  <2>2. CASE /\ exit'[r] = 4
             /\ pc'[r] \notin {"token", "keyless", "publish", "write", "report", "ended"}
             /\ pc'[r] # "flags" => ~(flags[r].key /\ flags[r].keyless)
             /\ pc'[r] \in {"openSidecar", "sidecar"} =>
                  flags[r].output /\ ~flags[r].dryRun
             /\ pc'[r] = "sign" => man'[r].valid
    BY <1>3, <1>4, <2>2 DEF RunInv
  <2>. QED  BY <2>1, <2>2
<1>. QED  BY <1>1, <1>2, <1>5, OthersKeepRunInv DEF Inv

LEMMA PreparationsKeepInv ==
  ASSUME Inv, NEW r \in Runs,
         \/ CheckFlags(r) \/ LoadDeclared(r) \/ ReadFirst(r) \/ ReadSecond(r)
         \/ GateForgeseal(r) \/ GenerateSBOM(r) \/ Validate(r)
  PROVE  Inv'
<1>1. /\ UNCHANGED <<inputs, signatures, files, pushed>>
      /\ pc[r] \notin {"openSidecar", "sidecar", "sign", "token", "keyless", "publish",
                       "write", "report", "ended"}
  BY DEF CheckFlags, LoadDeclared, ReadFirst, ReadSecond, GateForgeseal, GenerateSBOM,
         Validate
<1>2. TypeOK /\ RunInv(r) /\ exit[r] = 4
  BY <1>1 DEF Inv, RunInv
<1>3. man' \in [Runs -> Statement] /\ \A q \in Runs \ {r} : UNCHANGED man[q]
  <2>1. /\ man \in [Runs -> Statement] /\ project \in Project /\ kind \in Kinds
        /\ man[r] \in Statement
    BY <1>2, AttestAssumption DEF TypeOK
  <2>2. CASE UNCHANGED man
    BY <2>1, <2>2
  <2>3. CASE man' = [man EXCEPT ![r].valid = project.valid]
    BY <2>1, <2>3 DEF Statement, Project
  <2>4. CASE man' = [man EXCEPT ![r].first = project.first]
    BY <2>1, <2>4 DEF Statement, Project
  <2>5. CASE man' = [man EXCEPT ![r].second =
                       IF kind = "skill" THEN project.second ELSE man[r].first]
    BY <2>1, <2>5 DEF Statement, Project
  <2>6. CASE man' = [man EXCEPT ![r].sbom = project.deps]
    BY <2>1, <2>6 DEF Statement, Project
  <2>. QED
    BY <2>2, <2>3, <2>4, <2>5, <2>6
       DEF CheckFlags, LoadDeclared, ReadFirst, ReadSecond, GateForgeseal,
           GenerateSBOM, Validate
<1>4. \/ leave(r, 3)
      \/ go(r, "declared") /\ ~(flags[r].key /\ flags[r].keyless)
      \/ go(r, "first") \/ go(r, "second") \/ go(r, "gate") \/ go(r, "sbom")
      \/ go(r, "validate")
      \/ go(r, "openSidecar") /\ flags[r].output /\ ~flags[r].dryRun
      \/ go(r, "sign") /\ man[r].valid /\ UNCHANGED man
  BY DEF CheckFlags, LoadDeclared, ReadFirst, ReadSecond, GateForgeseal, GenerateSBOM,
         Validate
<1>5. pc[r] # "flags" => ~(flags[r].key /\ flags[r].keyless)
  BY <1>1, <1>2 DEF RunInv
<1>6. pc[r] = "flags" =>
        \/ leave(r, 3)
        \/ go(r, "declared") /\ ~(flags[r].key /\ flags[r].keyless)
  BY DEF CheckFlags, LoadDeclared, ReadFirst, ReadSecond, GateForgeseal, GenerateSBOM,
         Validate
<1>7. CASE leave(r, 3)
  BY <1>1, <1>2, <1>3, <1>7, Leaving, PreparingKeepsInv
<1>8. CASE ~leave(r, 3)
  <2>1. ~(flags[r].key /\ flags[r].keyless)
    BY <1>5, <1>6, <1>8
  <2>2. PICK step \in {"declared", "first", "second", "gate", "sbom", "validate",
                       "openSidecar", "sign"} :
          /\ go(r, step)
          /\ step = "openSidecar" => flags[r].output /\ ~flags[r].dryRun
          /\ step = "sign" => man[r].valid /\ UNCHANGED man
    BY <1>4, <1>8
  <2>3. /\ pc' \in [Runs -> Steps] /\ exit' \in [Runs -> {0, 3, 4, 5}]
        /\ pc'[r] = step /\ exit'[r] = 4
        /\ \A q \in Runs \ {r} : UNCHANGED <<pc[q], exit[q]>>
    BY <1>2, <2>2, Going DEF Steps
  <2>4. step = "sign" => man'[r].valid
    BY <2>2
  <2>. QED  BY <1>1, <1>3, <2>1, <2>2, <2>3, <2>4, PreparingKeepsInv
<1>. QED  BY <1>7, <1>8

LEMMA SidecarKeepsInv ==
  ASSUME Inv, NEW r \in Runs, OpenSidecar(r) \/ WriteSidecar(r)
  PROVE  Inv'
<1>1. /\ UNCHANGED <<inputs, man, signatures, bundleFile, pushed>>
      /\ pc[r] \in {"openSidecar", "sidecar"}
  BY DEF OpenSidecar, WriteSidecar
<1>2. TypeOK /\ RunInv(r) /\ exit[r] = 4 /\ flags[r].output /\ ~flags[r].dryRun
  BY <1>1 DEF Inv, RunInv
<1>3. leave(r, 3) \/ go(r, "sidecar") \/ go(r, "validate")
  BY DEF OpenSidecar, WriteSidecar, truncate, write
<1>4. /\ pc' \in [Runs -> Steps] /\ exit' \in [Runs -> {0, 3, 4, 5}]
      /\ \/ pc'[r] = "ended" /\ exit'[r] = 3
         \/ pc'[r] \in {"sidecar", "validate"} /\ exit'[r] = 4
      /\ \A q \in Runs \ {r} : UNCHANGED <<pc[q], exit[q]>>
  BY <1>2, <1>3, Leaving, Going DEF Steps
<1>5. sidecarFile' \in {sidecarFile, Truncated, Torn, sidecarOf(r)}
  BY DEF OpenSidecar, WriteSidecar, truncate, write, written
<1>6. /\ sidecarFile' \in File
      /\ UNCHANGED sidecarFile \/ sidecarFile'.by \in {r, "empty", "torn"}
  BY <1>2, <1>5, FileFacts DEF TypeOK
<1>7. TypeOK'
  BY <1>1, <1>2, <1>4, <1>6 DEF TypeOK, inputs, signatures
<1>8. Frame(r)
  BY <1>1, <1>4, <1>6 DEF Frame, inputs, signatures
<1>9. RunInv(r)'
  <2>1. UNCHANGED <<flags, man, signed, logged, bundleFile, pushed, writers, bundleOf(r)>>
    BY <1>1 DEF inputs, signatures, writers, bundleOf
  <2>. QED  BY <1>1, <1>2, <1>4, <2>1 DEF RunInv
<1>. QED  BY <1>7, <1>8, <1>9, OthersKeepRunInv DEF Inv

LEMMA SigningKeepsInv ==
  ASSUME Inv, NEW r \in Runs, Sign(r) \/ RequestToken(r) \/ SignKeyless(r)
  PROVE  Inv'
<1>1. /\ UNCHANGED <<inputs, man, files, pushed>>
      /\ pc[r] \in {"sign", "token", "keyless"}
  BY DEF Sign, RequestToken, SignKeyless
<1>2. /\ TypeOK /\ RunInv(r) /\ exit[r] = 4 /\ man[r].valid
      /\ signed[r] = Empty /\ logged[r] = Empty
      /\ man[r] \in Statement /\ signed \in [Runs -> Statement]
      /\ logged \in [Runs -> Statement]
      /\ ~(flags[r].key /\ flags[r].keyless)
  BY <1>1 DEF Inv, RunInv, TypeOK
<1>3. \/ UNCHANGED signatures
         /\ \/ leave(r, 3)
            \/ leave(r, 0) /\ flags[r].dryRun
            \/ /\ go(r, "token") \/ go(r, "keyless")
               /\ flags[r].keyless /\ ~flags[r].key /\ ~flags[r].dryRun
      \/ /\ flags[r].key /\ ~flags[r].keyless /\ ~flags[r].dryRun /\ go(r, "publish")
         /\ signed' = [signed EXCEPT ![r] = man[r]] /\ UNCHANGED logged
      \/ /\ flags[r].keyless /\ ~flags[r].key /\ ~flags[r].dryRun
         /\ logged' = [logged EXCEPT ![r] = man[r]]
         /\ \/ leave(r, 3) /\ UNCHANGED signed
            \/ go(r, "publish") /\ signed' = [signed EXCEPT ![r] = man[r]]
  BY <1>2 DEF Sign, RequestToken, SignKeyless, signatures, RunInv
<1>4. /\ pc' \in [Runs -> Steps] /\ exit' \in [Runs -> {0, 3, 4, 5}]
      /\ signed' \in [Runs -> Statement] /\ logged' \in [Runs -> Statement]
      /\ \A q \in Runs \ {r} : UNCHANGED <<pc[q], exit[q], signed[q], logged[q]>>
  BY <1>2, <1>3, Leaving, Going DEF Steps, signatures
<1>5. UNCHANGED <<flags, man, bundleFile, sidecarFile, pushed, writers>>
  BY <1>1 DEF inputs, files, writers
<1>6. TypeOK'
  BY <1>1, <1>2, <1>4 DEF TypeOK, inputs, files
<1>7. Frame(r)
  BY <1>4, <1>5 DEF Frame
<1>8. r \notin pushed /\ bundleFile.by # r
  BY <1>1, <1>2 DEF RunInv
<1>9. RunInv(r)'
  <2>1. CASE /\ UNCHANGED signatures
             /\ leave(r, 3) \/ (leave(r, 0) /\ flags[r].dryRun)
    <3>1. pc'[r] = "ended" /\ exit'[r] \in {0, 3} /\ (exit'[r] = 0 => flags[r].dryRun)
      BY <1>2, <2>1, Leaving
    <3>2. UNCHANGED <<signed, logged>> /\ (flags[r].dryRun => writers # {r})
      BY <2>1 DEF signatures, writers
    <3>. QED  BY <1>2, <1>5, <1>8, <3>1, <3>2 DEF RunInv
  <2>2. CASE /\ UNCHANGED signatures
             /\ go(r, "token") \/ go(r, "keyless")
             /\ flags[r].keyless /\ ~flags[r].key /\ ~flags[r].dryRun
    <3>1. pc'[r] \in {"token", "keyless"} /\ exit'[r] = 4
      BY <1>2, <2>2, Going DEF Steps
    <3>. QED  BY <1>2, <1>5, <1>8, <2>2, <3>1 DEF RunInv, signatures
  <2>3. CASE /\ flags[r].key /\ ~flags[r].keyless /\ ~flags[r].dryRun
             /\ go(r, "publish")
             /\ signed' = [signed EXCEPT ![r] = man[r]] /\ UNCHANGED logged
    <3>1. pc'[r] = "publish" /\ exit'[r] = 4 /\ signed'[r] = man[r]
      BY <1>2, <2>3, Going DEF Steps
    <3>. QED  BY <1>2, <1>5, <1>8, <2>3, <3>1 DEF RunInv
  <2>4. CASE /\ flags[r].keyless /\ ~flags[r].key /\ ~flags[r].dryRun
             /\ logged' = [logged EXCEPT ![r] = man[r]]
             /\ leave(r, 3) /\ UNCHANGED signed
    <3>1. pc'[r] = "ended" /\ exit'[r] = 3 /\ logged'[r] = man[r]
      BY <1>2, <2>4, Leaving
    <3>. QED  BY <1>2, <1>5, <1>8, <2>4, <3>1 DEF RunInv
  <2>5. CASE /\ flags[r].keyless /\ ~flags[r].key /\ ~flags[r].dryRun
             /\ logged' = [logged EXCEPT ![r] = man[r]]
             /\ go(r, "publish") /\ signed' = [signed EXCEPT ![r] = man[r]]
    <3>1. /\ pc'[r] = "publish" /\ exit'[r] = 4
          /\ signed'[r] = man[r] /\ logged'[r] = man[r]
      BY <1>2, <2>5, Going DEF Steps
    <3>. QED  BY <1>2, <1>5, <1>8, <2>5, <3>1 DEF RunInv
  <2>. QED  BY <1>3, <2>1, <2>2, <2>3, <2>4, <2>5
<1>. QED  BY <1>6, <1>7, <1>9, OthersKeepRunInv DEF Inv

LEMMA PublishKeepsInv ==
  ASSUME Inv, NEW r \in Runs, Publish(r)
  PROVE  Inv'
<1>1. UNCHANGED <<inputs, man, signatures, sidecarFile>> /\ pc[r] = "publish"
  BY DEF Publish
<1>2. TypeOK /\ RunInv(r) /\ exit[r] = 4 /\ ~flags[r].dryRun
  BY <1>1 DEF Inv, RunInv
<1>3. UNCHANGED <<flags, man, signed, logged, sidecarFile, writers, bundleOf(r)>>
  BY <1>1 DEF inputs, signatures, writers, bundleOf
<1>4. CASE flags[r].output
  <2>1. /\ UNCHANGED pushed
        /\ \/ UNCHANGED bundleFile /\ leave(r, 3)
           \/ bundleFile' = Truncated /\ go(r, "write")
    BY <1>4 DEF Publish, truncate
  <2>2. /\ pc' \in [Runs -> Steps] /\ exit' \in [Runs -> {0, 3, 4, 5}]
        /\ \/ UNCHANGED bundleFile /\ pc'[r] = "ended" /\ exit'[r] = 3
           \/ bundleFile' = Truncated /\ pc'[r] = "write" /\ exit'[r] = 4
        /\ \A q \in Runs \ {r} : UNCHANGED <<pc[q], exit[q]>>
    BY <1>2, <2>1, Leaving, Going DEF Steps
  <2>3. r \in writers /\ (UNCHANGED bundleFile \/ bundleFile'.by = "empty")
    BY <1>2, <1>4, <2>2, FileFacts DEF writers
  <2>4. TypeOK'
    BY <1>1, <1>2, <2>1, <2>2, FileFacts DEF TypeOK, inputs, signatures
  <2>5. Frame(r)
    BY <1>3, <2>1, <2>2, <2>3 DEF Frame
  <2>6. RunInv(r)'
    <3>1. r # "empty" /\ r \notin pushed /\ bundleFile.by # r
      BY <1>1, <1>2, AttestAssumption DEF RunInv
    <3>. QED  BY <1>1, <1>2, <1>3, <1>4, <2>1, <2>2, <2>3, <3>1 DEF RunInv
  <2>. QED  BY <2>4, <2>5, <2>6, OthersKeepRunInv DEF Inv
<1>5. CASE ~flags[r].output
  <2>1. /\ UNCHANGED bundleFile
        /\ \/ leave(r, 3) /\ UNCHANGED pushed
           \/ leave(r, 3) /\ pushed' = pushed \cup {r}
           \/ go(r, "report") /\ pushed' = pushed \cup {r}
    BY <1>5 DEF Publish
  <2>2. /\ pc' \in [Runs -> Steps] /\ exit' \in [Runs -> {0, 3, 4, 5}]
        /\ \/ pc'[r] = "ended" /\ exit'[r] = 3 /\ UNCHANGED pushed
           \/ pc'[r] = "ended" /\ exit'[r] = 3 /\ pushed' = pushed \cup {r}
           \/ pc'[r] = "report" /\ exit'[r] = 4 /\ pushed' = pushed \cup {r}
        /\ \A q \in Runs \ {r} : UNCHANGED <<pc[q], exit[q]>>
    BY <1>2, <2>1, Leaving, Going DEF Steps
  <2>3. TypeOK'
    BY <1>1, <1>2, <2>1, <2>2 DEF TypeOK, inputs, signatures
  <2>4. Frame(r)
    BY <1>3, <2>1, <2>2 DEF Frame
  <2>5. RunInv(r)'
    <3>1. r \notin pushed /\ bundleFile.by # r /\ writers # {r}
      BY <1>1, <1>2, <1>5 DEF RunInv, writers
    <3>. QED  BY <1>1, <1>2, <1>3, <1>5, <2>1, <2>2, <3>1 DEF RunInv
  <2>. QED  BY <2>3, <2>4, <2>5, OthersKeepRunInv DEF Inv
<1>. QED  BY <1>4, <1>5

LEMMA WriteBundleKeepsInv ==
  ASSUME Inv, NEW r \in Runs, WriteBundle(r)
  PROVE  Inv'
<1>1. UNCHANGED <<inputs, man, signatures, sidecarFile, pushed>> /\ pc[r] = "write"
  BY DEF WriteBundle
<1>2. /\ TypeOK /\ RunInv(r) /\ exit[r] = 4 /\ r \notin pushed
      /\ flags[r].output /\ ~flags[r].dryRun
  BY <1>1 DEF Inv, RunInv
<1>3. UNCHANGED <<flags, man, signed, logged, sidecarFile, pushed, writers, bundleOf(r)>>
  BY <1>1 DEF inputs, signatures, writers, bundleOf
<1>4. \/ bundleFile' \in written(bundleFile, bundleOf(r)) \cup {bundleFile, Torn} /\ leave(r, 3)
      \/ bundleFile' \in written(bundleFile, bundleOf(r)) /\ go(r, "report")
  BY DEF WriteBundle, write
<1>5. /\ pc' \in [Runs -> Steps] /\ exit' \in [Runs -> {0, 3, 4, 5}]
      /\ \/ /\ pc'[r] = "ended" /\ exit'[r] = 3
            /\ bundleFile' \in {bundleFile, Torn, bundleOf(r)}
         \/ /\ pc'[r] = "report" /\ exit'[r] = 4
            /\ bundleFile' \in written(bundleFile, bundleOf(r))
      /\ \A q \in Runs \ {r} : UNCHANGED <<pc[q], exit[q]>>
  BY <1>2, <1>4, Leaving, Going DEF Steps, written
<1>6. bundleFile' \in {bundleFile, Torn, bundleOf(r)}
  BY <1>5 DEF written
<1>7. TypeOK'
  BY <1>1, <1>2, <1>5, <1>6, FileFacts DEF TypeOK, inputs, signatures
<1>8. Frame(r)
  BY <1>2, <1>3, <1>5, <1>6, FileFacts DEF Frame, writers
<1>9. RunInv(r)'
  <2>1. writers = {r} => bundleFile = Truncated
    BY <1>1, <1>2 DEF RunInv
  <2>2. writers = {r} /\ pc'[r] = "report" => bundleFile' = bundleOf(r)
    BY <1>5, <2>1 DEF written
  <2>3. bundleFile'.by = r => bundleFile' = bundleOf(r)
    <3>1. r # "torn" /\ Torn.by = "torn" /\ bundleFile.by # r
      BY <1>1, <1>2, AttestAssumption, FileFacts DEF RunInv
    <3>2. bundleFile'.by = r => bundleFile' # Torn /\ bundleFile' # bundleFile
      BY <3>1
    <3>. QED  BY <1>6, <3>2
  <2>. QED  BY <1>1, <1>2, <1>3, <1>5, <2>2, <2>3 DEF RunInv
<1>. QED  BY <1>7, <1>8, <1>9, OthersKeepRunInv DEF Inv

\* The end of a run that has said where its bundle went.
LEMMA ReportKeepsInv ==
  ASSUME Inv, NEW r \in Runs, Report(r)
  PROVE  Inv'
<1>1. UNCHANGED <<inputs, man, signatures, files, pushed>> /\ pc[r] = "report"
      /\ leave(r, 0)
  BY DEF Report
<1>2. TypeOK /\ RunInv(r) /\ exit[r] = 4
  BY <1>1 DEF Inv, RunInv
<1>3. UNCHANGED <<flags, man, signed, logged, bundleFile, sidecarFile, pushed, writers,
                  bundleOf(r)>>
  BY <1>1 DEF inputs, signatures, files, writers, bundleOf
<1>4. /\ pc' \in [Runs -> Steps] /\ exit' \in [Runs -> {0, 3, 4, 5}]
      /\ pc'[r] = "ended" /\ exit'[r] = 0
      /\ \A q \in Runs \ {r} : UNCHANGED <<pc[q], exit[q]>>
  BY <1>1, <1>2, Leaving
<1>5. TypeOK'
  BY <1>1, <1>2, <1>3, <1>4 DEF TypeOK, inputs
<1>6. Frame(r)
  BY <1>3, <1>4 DEF Frame
<1>7. RunInv(r)'
  BY <1>1, <1>2, <1>3, <1>4 DEF RunInv
<1>. QED  BY <1>5, <1>6, <1>7, OthersKeepRunInv DEF Inv

LEMMA KillKeepsInv ==
  ASSUME Inv, NEW r \in Runs, Kill(r)
  PROVE  Inv'
<1>1. /\ UNCHANGED <<inputs, man, signatures, pushed>>
      /\ pc[r] # "ended" /\ leave(r, 5)
      /\ UNCHANGED sidecarFile \/ sidecarFile' = Torn
      /\ UNCHANGED bundleFile \/ (bundleFile' = Torn /\ pc[r] = "write")
  BY DEF Kill
<1>2. TypeOK /\ RunInv(r) /\ (pc[r] = "write" => bundleFile.by # r)
  BY <1>1 DEF Inv, RunInv
<1>3. UNCHANGED <<flags, man, signed, logged, pushed, writers, bundleOf(r)>>
  BY <1>1 DEF inputs, signatures, writers, bundleOf
<1>4. /\ pc' \in [Runs -> Steps] /\ exit' \in [Runs -> {0, 3, 4, 5}]
      /\ pc'[r] = "ended" /\ exit'[r] = 5
      /\ \A q \in Runs \ {r} : UNCHANGED <<pc[q], exit[q]>>
  BY <1>1, <1>2, Leaving
<1>5. Torn \in File /\ Torn.by = "torn" /\ r # "torn"
  BY <1>2, FileFacts, AttestAssumption
<1>6. TypeOK'
  BY <1>1, <1>2, <1>4, <1>5 DEF TypeOK, inputs, signatures
<1>7. pc[r] = "write" => r \in writers
  BY <1>2 DEF RunInv, writers
<1>8. Frame(r)
  BY <1>1, <1>3, <1>4, <1>5, <1>7 DEF Frame
<1>9. RunInv(r)'
  BY <1>1, <1>2, <1>3, <1>4, <1>5 DEF RunInv
<1>. QED  BY <1>6, <1>8, <1>9, OthersKeepRunInv DEF Inv

LEMMA EditKeepsInv == Inv /\ Edit => Inv'
<1>. SUFFICES ASSUME Inv, Edit PROVE Inv'
  OBVIOUS
<1>1. /\ UNCHANGED <<kind, flags, pc, man, signed, logged, bundleFile, sidecarFile,
                     pushed, exit>>
      /\ project' \in Projects /\ edits' \in 0..MaxEdits
  BY AttestAssumption DEF Edit, signatures, files, Inv, TypeOK
<1>2. TypeOK'
  BY <1>1 DEF Inv, TypeOK
<1>3. ASSUME NEW r \in Runs PROVE RunInv(r)'
  <2>1. RunInv(r) /\ UNCHANGED <<bundleOf(r), writers>>
    BY <1>1 DEF Inv, bundleOf, writers
  <2>. QED  BY <1>1, <2>1 DEF RunInv
<1>. QED  BY <1>2, <1>3 DEF Inv

-----------------------------------------------------------------------------
LEMMA NextKeepsInv == Inv /\ [Next]_vars => Inv'
<1>. SUFFICES ASSUME Inv, [Next]_vars PROVE Inv'
  OBVIOUS
<1>1. CASE \E r \in Runs : Step(r)
  BY <1>1, PreparationsKeepInv, SidecarKeepsInv, SigningKeepsInv, PublishKeepsInv,
     WriteBundleKeepsInv, ReportKeepsInv DEF Step
<1>2. CASE \E r \in Runs : Kill(r)
  BY <1>2, KillKeepsInv
<1>3. CASE Edit
  BY <1>3, EditKeepsInv
<1>4. CASE UNCHANGED vars
  <2>1. UNCHANGED <<kind, project, edits, flags, pc, man, signed, logged, bundleFile,
                    sidecarFile, pushed, exit>>
    BY <1>4 DEF vars
  <2>2. UNCHANGED TypeOK
    BY <2>1 DEF TypeOK
  <2>3. ASSUME NEW r \in Runs PROVE RunInv(r)'
    <3>1. RunInv(r) /\ UNCHANGED <<bundleOf(r), writers>>
      BY <2>1 DEF Inv, bundleOf, writers
    <3>. QED  BY <2>1, <3>1 DEF RunInv
  <2>. QED  BY <2>2, <2>3 DEF Inv
<1>. QED  BY <1>1, <1>2, <1>3, <1>4 DEF Next

LEMMA AlwaysInv == Spec => []Inv
<1>. QED  BY InitKeepsInv, NextKeepsInv, PTL DEF Spec

\* Every variable keeps its type, the files and statements of every run included.
THEOREM TypeCorrect == Spec => []TypeOK
<1>1. Inv => TypeOK
  BY DEF Inv
<1>. QED  BY <1>1, AlwaysInv, PTL

\* A dry run of attest leaves neither a file nor a signature nor an entry in a
\* registry or a log, however many other runs and edits there are.
THEOREM DryRunsLeaveNoTrace == Spec => []DryRunLeavesNoTrace
<1>. QED  BY AlwaysInv, InvGivesProperties, PTL

\* What exit code 0 of attest promises, and what any other leaves possible, for
\* every mixture of flags and whatever other runs write to the same --output file,
\* through lost answers, failing writes and kills.
THEOREM SuccessIsAlwaysPublication == Spec => []SuccessIsPublication
<1>. QED  BY AlwaysInv, InvGivesProperties, PTL

\* Only opening and writing the --output file, and a kill in the middle, change it,
\* and all three happen to a run that has signed.
LEMMA TheSignedReplace ==
  ASSUME Inv, Next, bundleFile' # bundleFile
  PROVE  \E r \in writers : exit[r] = 4 /\ signed[r].valid
<1>1. PICK r \in Runs : Step(r) \/ Kill(r)
  BY DEF Next, Edit, files
<1>2. pc[r] \in {"publish", "write"} /\ (pc[r] = "publish" => flags[r].output)
  BY <1>1 DEF Step, Kill, CheckFlags, LoadDeclared, ReadFirst, ReadSecond, GateForgeseal,
              GenerateSBOM, OpenSidecar, WriteSidecar, Validate, Sign, RequestToken,
              SignKeyless, Publish, WriteBundle, Report, files
<1>. QED  BY <1>1, <1>2 DEF Inv, RunInv, writers

\* An --output file outlives every run that does not come as far as a signature,
\* however many runs write it.
THEOREM OnlyTheSignedEverReplace == Spec => OnlyTheSignedReplace
<1>1. Inv /\ [Next]_vars =>
        [bundleFile' # bundleFile => \E r \in writers : exit[r] = 4 /\ signed[r].valid]_vars
  BY TheSignedReplace
<1>. QED  BY <1>1, AlwaysInv, PTL DEF Spec, OnlyTheSignedReplace

\* A keyless bundle is in the public log wherever it is published, a key never
\* reaches the log, and nothing in the log failed Validate.
THEOREM LogAlwaysMatches == Spec => []LogMatchesPublication
<1>. QED  BY AlwaysInv, InvGivesProperties, PTL
-----------------------------------------------------------------------------
\* The sidecar, and the truth of what is published.

\* The steps at which there is no SBOM yet, and those after the sidecar.
Fresh == {"flags", "declared", "first", "second", "gate", "sbom"}
Late == {"validate", "sign", "token", "keyless", "publish", "write", "report"}

\* How the sidecar and the statement of a run go together.
SidecarInv(r) ==
  /\ pc[r] \in Fresh => man[r].sbom = "none"
  /\ signed[r] # Empty => signed[r] = man[r] /\ pc[r] \in {"publish", "write", "report", "ended"}
  /\ r \in pushed => signed[r].valid
  /\ sidecarFile.by = r =>
       sidecarFile.sbom = man[r].sbom /\ pc[r] \in Late \cup {"ended"}
  /\ pc[r] = "sidecar" =>
       sidecarFile # NoFile /\ (writers = {r} => sidecarFile = Truncated)
  /\ /\ pc[r] \in Late \/ bundleFile.by = r
     /\ flags[r].output /\ ~flags[r].dryRun /\ man[r].sbom # "none"
     => sidecarFile # NoFile /\ (writers = {r} => sidecarFile.by = r)

\* What a run knows of a project nobody edits is true of it, as far as it got.
Truth(r) ==
  /\ pc[r] \notin {"flags", "declared", "ended"} =>
       project.declared /\ (man[r].valid => project.valid)
  /\ pc[r] \notin {"flags", "declared", "first", "ended"} =>
       man[r].first = project.first
  /\ pc[r] \notin {"flags", "declared", "first", "second", "ended"} =>
       project.agrees /\ (kind = "skill" => man[r].second = project.second)
  /\ pc[r] \in {"gate", "sbom", "openSidecar", "sidecar"} => ~flags[r].skipSBOM
  /\ pc[r] \in {"sbom", "openSidecar", "sidecar"} \cup Late =>
       flags[r].skipSBOM \/ project.forgeseal = "supported"
  /\ pc[r] \in {"openSidecar", "sidecar"} \cup Late =>
       man[r].sbom = IF flags[r].skipSBOM THEN "none" ELSE project.deps
  /\ signed[r] # Empty =>
       /\ project.declared /\ project.agrees /\ project.valid
       /\ signed[r].first = project.first
       /\ kind = "skill" => signed[r].second = project.second
       /\ signed[r].sbom = IF flags[r].skipSBOM THEN "none" ELSE project.deps
       /\ flags[r].skipSBOM \/ project.forgeseal = "supported"
  /\ r \in pushed => project.mappable

TruthInv == edits = 0 => \A r \in Runs : Truth(r)

FullInv == Inv /\ (\A r \in Runs : SidecarInv(r)) /\ TruthInv

LEMMA InitKeepsFullInv == Init => FullInv
<1>. SUFFICES ASSUME Init PROVE FullInv
  OBVIOUS
<1>1. ASSUME NEW r \in Runs PROVE SidecarInv(r) /\ Truth(r)
  <2>1. /\ pc[r] = "flags" /\ man[r] = Empty /\ signed[r] = Empty /\ pushed = {}
        /\ bundleFile.by = "none" /\ sidecarFile.by = "none" /\ r # "none"
    BY AttestAssumption DEF Init, NoFile
  <2>. QED  BY <2>1 DEF SidecarInv, Truth, Fresh, Late, Empty
<1>. QED  BY <1>1, InitKeepsInv DEF FullInv, TruthInv

\* A step of one run is none of another, which at most loses the files to it.
OthersStand(r) ==
  /\ UNCHANGED inputs
  /\ \A q \in Runs \ {r} : UNCHANGED <<pc[q], man[q], signed[q]>>
                           /\ (q \in pushed' <=> q \in pushed)
  /\ UNCHANGED bundleFile \/ bundleFile'.by \in {r, "empty", "torn"}
  /\ UNCHANGED sidecarFile
     \/ (r \in writers /\ sidecarFile'.by \in {r, "empty", "torn"})

LEMMA OthersKeepSidecar ==
  ASSUME NEW r \in Runs, NEW q \in Runs \ {r}, OthersStand(r), SidecarInv(q)
  PROVE  SidecarInv(q)'
<1>1. /\ UNCHANGED <<flags, pc[q], man[q], signed[q], writers>>
      /\ q \in pushed' <=> q \in pushed
  BY DEF OthersStand, inputs, writers
<1>2. q \notin {"empty", "torn"} /\ q # r /\ r # "none" /\ NoFile.by = "none"
  BY AttestAssumption DEF NoFile
<1>3. bundleFile'.by = q => bundleFile.by = q
  BY <1>2 DEF OthersStand
<1>4. \/ UNCHANGED sidecarFile
      \/ writers # {q} /\ sidecarFile'.by # q /\ sidecarFile' # NoFile
  BY <1>2 DEF OthersStand
<1>. QED  BY <1>1, <1>3, <1>4 DEF SidecarInv

LEMMA OthersKeepTruth ==
  ASSUME NEW r \in Runs, NEW q \in Runs \ {r}, OthersStand(r), Truth(q)
  PROVE  Truth(q)'
<1>1. UNCHANGED <<kind, project, flags, pc[q], man[q], signed[q]>>
      /\ (q \in pushed' <=> q \in pushed)
  BY DEF OthersStand, inputs
<1>. QED  BY <1>1 DEF Truth

\* What is to be shown of a step of a run, or of its end.
LEMMA OneRunKeepsFullInv ==
  ASSUME FullInv, NEW r \in Runs, Inv', OthersStand(r),
         SidecarInv(r)', Truth(r) => Truth(r)'
  PROVE  FullInv'
<1>1. ASSUME NEW q \in Runs PROVE SidecarInv(q)'
  BY OthersKeepSidecar DEF FullInv
<1>2. edits' = edits
  BY DEF OthersStand, inputs
<1>3. ASSUME \A q \in Runs : Truth(q), NEW q \in Runs PROVE Truth(q)'
  BY <1>3, OthersKeepTruth
<1>. QED  BY <1>1, <1>2, <1>3 DEF FullInv, TruthInv

\* A run that puts its manifest together touches nothing that is seen.
LEMMA PreparationsKeepFullInv ==
  ASSUME FullInv, NEW r \in Runs,
         \/ CheckFlags(r) \/ LoadDeclared(r) \/ ReadFirst(r) \/ ReadSecond(r)
         \/ GateForgeseal(r) \/ GenerateSBOM(r) \/ Validate(r)
  PROVE  FullInv'
<1>1. /\ UNCHANGED <<inputs, signatures, files, pushed>>
      /\ pc[r] \in Fresh \cup {"validate"}
  BY DEF CheckFlags, LoadDeclared, ReadFirst, ReadSecond, GateForgeseal, GenerateSBOM,
         Validate, Fresh
<1>2. TypeOK /\ RunInv(r) /\ SidecarInv(r)
  BY DEF FullInv, Inv
<1>3. /\ man \in [Runs -> Statement] /\ man[r] \in Statement /\ kind \in Kinds
      /\ project \in Project
  BY <1>2, AttestAssumption DEF TypeOK
<1>4. ASSUME NEW code \in {3}, leave(r, code)
      PROVE  pc'[r] = "ended" /\ \A q \in Runs \ {r} : UNCHANGED pc[q]
  BY <1>2, <1>4, Leaving
<1>5. ASSUME NEW step \in Steps, go(r, step)
      PROVE  pc'[r] = step /\ \A q \in Runs \ {r} : UNCHANGED pc[q]
  BY <1>2, <1>5, Going
<1>6. /\ signed[r] = Empty /\ UNCHANGED <<flags, signed[r], bundleFile, sidecarFile>>
      /\ r \notin pushed /\ r \notin pushed' /\ bundleFile.by # r
      /\ UNCHANGED <<kind, project, writers>>
  BY <1>1, <1>2 DEF RunInv, inputs, signatures, files, writers, Fresh
<1>7. sidecarFile.by = r => pc[r] = "validate"
  BY <1>1, <1>2 DEF SidecarInv, Fresh, Late
<1>8. ASSUME \A q \in Runs \ {r} : UNCHANGED <<pc[q], man[q]>>
      PROVE  OthersStand(r)
  BY <1>1, <1>8 DEF OthersStand, signatures, files
<1>9. ASSUME pc'[r] = "ended", UNCHANGED man[r]
      PROVE  SidecarInv(r)' /\ (Truth(r) => Truth(r)')
  <2>1. SidecarInv(r)'
    BY <1>2, <1>6, <1>9 DEF SidecarInv, Fresh, Late
  <2>2. Truth(r) => Truth(r)'
    BY <1>6, <1>9 DEF Truth, Late
  <2>. QED  BY <2>1, <2>2
<1>10. CASE leave(r, 3) /\ UNCHANGED man
  BY <1>4, <1>8, <1>9, <1>10, OneRunKeepsFullInv, PreparationsKeepInv DEF FullInv
<1>11. CASE ~(leave(r, 3) /\ UNCHANGED man)
  <2>1. /\ \A q \in Runs \ {r} : UNCHANGED <<pc[q], man[q]>>
        /\ SidecarInv(r)' /\ (Truth(r) => Truth(r)')
    <3>1. CASE CheckFlags(r) \/ GateForgeseal(r) \/ Validate(r)
      <4>1. /\ UNCHANGED man
            /\ \/ pc[r] = "flags" /\ go(r, "declared")
               \/ pc[r] = "gate" /\ project.forgeseal = "supported" /\ go(r, "sbom")
               \/ pc[r] = "validate" /\ go(r, "sign")
        BY <1>11, <3>1 DEF CheckFlags, GateForgeseal, Validate
      <4>2. /\ \/ pc[r] = "flags" /\ pc'[r] = "declared"
               \/ pc[r] = "gate" /\ project.forgeseal = "supported" /\ pc'[r] = "sbom"
               \/ pc[r] = "validate" /\ pc'[r] = "sign"
            /\ \A q \in Runs \ {r} : UNCHANGED pc[q]
        BY <4>1, <1>5 DEF Steps
      <4>3. SidecarInv(r)'
        BY <1>2, <1>6, <1>7, <4>1, <4>2 DEF SidecarInv, Fresh, Late
      <4>4. Truth(r) => Truth(r)'
        BY <1>6, <4>1, <4>2 DEF Truth, Late
      <4>. QED  BY <4>1, <4>2, <4>3, <4>4
    <3>2. CASE LoadDeclared(r) \/ ReadFirst(r) \/ ReadSecond(r)
      <4>1. \/ /\ pc[r] = "declared" /\ project.declared /\ go(r, "first")
               /\ man' = [man EXCEPT ![r].valid = project.valid]
            \/ /\ pc[r] = "first" /\ go(r, "second")
               /\ man' = [man EXCEPT ![r].first = project.first]
            \/ /\ pc[r] = "second" /\ project.agrees
               /\ go(r, IF flags[r].skipSBOM THEN "validate" ELSE "gate")
               /\ man' = [man EXCEPT ![r].second =
                            IF kind = "skill" THEN project.second ELSE man[r].first]
        BY <1>11, <3>2 DEF LoadDeclared, ReadFirst, ReadSecond
      <4>2. /\ \/ /\ pc[r] = "declared" /\ project.declared /\ pc'[r] = "first"
                  /\ man'[r] = [man[r] EXCEPT !.valid = project.valid]
               \/ /\ pc[r] = "first" /\ pc'[r] = "second"
                  /\ man'[r] = [man[r] EXCEPT !.first = project.first]
               \/ /\ pc[r] = "second" /\ project.agrees
                  /\ pc'[r] = IF flags[r].skipSBOM THEN "validate" ELSE "gate"
                  /\ man'[r] = [man[r] EXCEPT !.second =
                                 IF kind = "skill" THEN project.second ELSE man[r].first]
            /\ \A q \in Runs \ {r} : UNCHANGED <<pc[q], man[q]>>
        BY <1>3, <4>1, <1>5 DEF Steps
      <4>3. SidecarInv(r)'
        BY <1>2, <1>3, <1>6, <1>7, <4>2 DEF SidecarInv, Fresh, Late, Statement
      <4>4. Truth(r) => Truth(r)'
        BY <1>2, <1>3, <1>6, <4>2 DEF Truth, SidecarInv, Fresh, Late, Statement
      <4>. QED  BY <4>2, <4>3, <4>4
    <3>3. CASE GenerateSBOM(r)
      <4>1. /\ pc[r] = "sbom" /\ man' = [man EXCEPT ![r].sbom = project.deps]
            /\ go(r, IF flags[r].output /\ ~flags[r].dryRun THEN "openSidecar"
                     ELSE "validate")
        BY <1>11, <3>3 DEF GenerateSBOM
      <4>2. /\ pc'[r] = IF flags[r].output /\ ~flags[r].dryRun THEN "openSidecar"
                        ELSE "validate"
            /\ man'[r] = [man[r] EXCEPT !.sbom = project.deps]
            /\ \A q \in Runs \ {r} : UNCHANGED <<pc[q], man[q]>>
        BY <1>3, <4>1, <1>5 DEF Steps
      <4>3. SidecarInv(r)'
        BY <1>2, <1>3, <1>6, <1>7, <4>1, <4>2 DEF SidecarInv, Fresh, Late, Statement
      <4>4. Truth(r) => Truth(r)'
        BY <1>3, <1>6, <4>1, <4>2 DEF Truth, Late, Statement
      <4>. QED  BY <4>2, <4>3, <4>4
    <3>. QED  BY <3>1, <3>2, <3>3
  <2>. QED  BY <1>8, <2>1, OneRunKeepsFullInv, PreparationsKeepInv DEF FullInv
<1>. QED  BY <1>10, <1>11

\* The sidecar is there before anything says so, and is the run's own unless
\* somebody else writes it.
LEMMA SidecarKeepsFullInv ==
  ASSUME FullInv, NEW r \in Runs, OpenSidecar(r) \/ WriteSidecar(r)
  PROVE  FullInv'
<1>1. /\ UNCHANGED <<inputs, man, signatures, bundleFile, pushed>>
      /\ pc[r] \in {"openSidecar", "sidecar"}
  BY DEF OpenSidecar, WriteSidecar
<1>2. TypeOK /\ RunInv(r) /\ SidecarInv(r)
  BY DEF FullInv, Inv
<1>3. /\ signed[r] = Empty /\ r \notin pushed /\ bundleFile.by # r
      /\ flags[r].output /\ ~flags[r].dryRun /\ r \in writers
  BY <1>1, <1>2 DEF RunInv, writers
<1>4. UNCHANGED <<kind, project, flags, signed[r], man[r], writers>>
  BY <1>1 DEF inputs, signatures, writers
<1>5. \/ leave(r, 3) /\ sidecarFile' \in {sidecarFile, Torn, sidecarOf(r)}
      \/ pc[r] = "openSidecar" /\ sidecarFile' = Truncated /\ go(r, "sidecar")
      \/ /\ pc[r] = "sidecar" /\ go(r, "validate")
         /\ sidecarFile' \in written(sidecarFile, sidecarOf(r))
  BY DEF OpenSidecar, WriteSidecar, truncate, write, written
<1>6. /\ \/ pc'[r] = "ended" /\ sidecarFile' \in {sidecarFile, Torn, sidecarOf(r)}
         \/ pc[r] = "openSidecar" /\ sidecarFile' = Truncated /\ pc'[r] = "sidecar"
         \/ /\ pc[r] = "sidecar" /\ pc'[r] = "validate"
            /\ sidecarFile' \in written(sidecarFile, sidecarOf(r))
      /\ \A q \in Runs \ {r} : UNCHANGED pc[q]
  BY <1>2, <1>5, Leaving, Going DEF Steps
<1>7. /\ Torn.by = "torn" /\ Truncated.by = "empty" /\ sidecarOf(r).by = r
      /\ sidecarOf(r).sbom = man[r].sbom /\ NoFile.by = "none"
      /\ r \notin {"none", "empty", "torn"}
  BY <1>2, AttestAssumption DEF Torn, Truncated, NoFile, sidecarOf
<1>8. sidecarFile' \in {sidecarFile, Truncated, Torn, sidecarOf(r)}
  BY <1>6 DEF written
<1>9. OthersStand(r)
  BY <1>1, <1>3, <1>6, <1>7, <1>8 DEF OthersStand, signatures
<1>10. SidecarInv(r)'
  <2>1. sidecarFile.by # r
    BY <1>1, <1>2 DEF SidecarInv, Late
  <2>2. CASE pc'[r] = "ended" /\ sidecarFile' \in {sidecarFile, Torn, sidecarOf(r)}
    BY <1>1, <1>3, <1>4, <1>7, <2>1, <2>2 DEF SidecarInv, Fresh, Late
  <2>3. CASE sidecarFile' = Truncated /\ pc'[r] = "sidecar"
    BY <1>1, <1>3, <1>4, <1>7, <2>3 DEF SidecarInv, Fresh, Late
  <2>4. CASE /\ pc[r] = "sidecar" /\ pc'[r] = "validate"
             /\ sidecarFile' \in written(sidecarFile, sidecarOf(r))
    <3>1. writers = {r} => sidecarFile' = sidecarOf(r)
      BY <1>2, <2>4 DEF SidecarInv, written
    <3>2. sidecarFile' \in {Torn, sidecarOf(r)}
      BY <2>4 DEF written
    <3>3. /\ sidecarFile' # NoFile
          /\ sidecarFile'.by = r => sidecarFile'.sbom = man[r].sbom
      BY <1>7, <3>2
    <3>4. writers = {r} => sidecarFile'.by = r
      BY <1>7, <3>1
    <3>. QED  BY <1>1, <1>3, <1>4, <2>4, <3>3, <3>4 DEF SidecarInv, Fresh, Late
  <2>. QED  BY <1>6, <2>2, <2>3, <2>4
<1>11. Truth(r) => Truth(r)'
  BY <1>1, <1>3, <1>4, <1>6 DEF Truth, Late
<1>. QED  BY <1>9, <1>10, <1>11, OneRunKeepsFullInv, SidecarKeepsInv DEF FullInv

\* What is signed is what was put together.
LEMMA SigningKeepsFullInv ==
  ASSUME FullInv, NEW r \in Runs, Sign(r) \/ RequestToken(r) \/ SignKeyless(r)
  PROVE  FullInv'
<1>1. /\ UNCHANGED <<inputs, man, files, pushed>>
      /\ pc[r] \in {"sign", "token", "keyless"}
  BY DEF Sign, RequestToken, SignKeyless
<1>2. TypeOK /\ RunInv(r) /\ SidecarInv(r) /\ signed \in [Runs -> Statement]
  BY DEF FullInv, Inv, TypeOK
<1>3. /\ signed[r] = Empty /\ r \notin pushed /\ bundleFile.by # r /\ man[r].valid
      /\ UNCHANGED <<kind, project, flags, man[r], bundleFile, sidecarFile, pushed,
                     writers>>
  BY <1>1, <1>2 DEF RunInv, inputs, files, writers
<1>4. \/ leave(r, 3) /\ UNCHANGED signed
      \/ leave(r, 0) /\ UNCHANGED signed
      \/ (go(r, "token") \/ go(r, "keyless")) /\ UNCHANGED signed
      \/ go(r, "publish") /\ signed' = [signed EXCEPT ![r] = man[r]]
  BY DEF Sign, RequestToken, SignKeyless, signatures
<1>5. /\ \/ pc'[r] \in {"token", "keyless", "ended"} /\ UNCHANGED signed[r]
         \/ pc'[r] = "publish" /\ signed'[r] = man[r]
      /\ \A q \in Runs \ {r} : UNCHANGED <<pc[q], signed[q]>>
  BY <1>2, <1>4, Leaving, Going DEF Steps
<1>6. OthersStand(r)
  BY <1>1, <1>3, <1>5 DEF OthersStand
<1>7. SidecarInv(r)'
  BY <1>1, <1>2, <1>3, <1>5 DEF SidecarInv, Fresh, Late
<1>8. Truth(r) => Truth(r)'
  BY <1>1, <1>3, <1>5 DEF Truth, Late
<1>. QED  BY <1>6, <1>7, <1>8, OneRunKeepsFullInv, SigningKeepsInv DEF FullInv

\* Publishing and being killed: nothing is put together or signed any more.
LEMMA ClosingKeepsFullInv ==
  ASSUME FullInv, NEW r \in Runs, Publish(r) \/ WriteBundle(r) \/ Report(r) \/ Kill(r)
  PROVE  FullInv'
<1>1. UNCHANGED <<inputs, man, signatures>>
  BY DEF Publish, WriteBundle, Report, Kill
<1>2. TypeOK /\ RunInv(r) /\ SidecarInv(r)
  BY DEF FullInv, Inv
<1>3. /\ UNCHANGED <<kind, project, flags, man[r], signed[r], writers>>
      /\ pc[r] # "ended"
      /\ pc[r] = "sidecar" => r \in writers
      /\ pc[r] \in {"publish", "write", "report"} => signed[r].valid /\ ~flags[r].dryRun
      /\ pc[r] = "write" => flags[r].output
  BY <1>1, <1>2 DEF Publish, WriteBundle, Report, Kill, RunInv, inputs, signatures, writers
<1>4. /\ Torn.by = "torn" /\ Truncated.by = "empty" /\ bundleOf(r).by = r
      /\ NoFile.by = "none" /\ r \notin {"none", "empty", "torn"}
  BY AttestAssumption DEF Torn, Truncated, NoFile, bundleOf
<1>5. /\ leave(r, 3) \/ leave(r, 0) \/ leave(r, 5)
         \/ (pc[r] = "publish" /\ (go(r, "write") \/ go(r, "report")))
         \/ (pc[r] = "write" /\ go(r, "report"))
      /\ UNCHANGED sidecarFile \/ (pc[r] = "sidecar" /\ sidecarFile' = Torn)
      /\ \/ bundleFile' \in {bundleFile, Truncated, Torn}
         \/ pc[r] = "write" /\ bundleFile' = bundleOf(r)
      /\ \/ UNCHANGED pushed
         \/ pc[r] = "publish" /\ pushed' = pushed \cup {r} /\ project.mappable
  BY DEF Publish, WriteBundle, Report, Kill, truncate, write, written, files
<1>6. /\ \/ pc'[r] = "ended"
         \/ pc[r] = "publish" /\ pc'[r] \in {"write", "report"}
         \/ pc[r] = "write" /\ pc'[r] = "report"
      /\ \A q \in Runs \ {r} : UNCHANGED pc[q]
  BY <1>2, <1>5, Leaving, Going DEF Steps
<1>7. OthersStand(r)
  BY <1>1, <1>3, <1>4, <1>5, <1>6 DEF OthersStand, signatures
<1>8. SidecarInv(r)'
  <2>1. sidecarFile.by = r => pc[r] \in Late /\ UNCHANGED sidecarFile
    BY <1>2, <1>3, <1>5 DEF SidecarInv, Late
  <2>2. sidecarFile'.by = r => sidecarFile.by = r
    BY <1>4, <1>5
  <2>3. bundleFile'.by = r => pc[r] = "write" \/ bundleFile.by = r
    BY <1>3, <1>4, <1>5
  <2>4. pc[r] \in {"publish", "write", "report"} => UNCHANGED sidecarFile
    BY <1>5
  <2>5. bundleFile.by = r => pc[r] = "report"
    BY <1>2, <1>3 DEF RunInv
  <2>6. r \in pushed' => signed'[r].valid
    BY <1>2, <1>3, <1>5 DEF SidecarInv
  <2>. QED
    BY <1>2, <1>3, <1>5, <1>6, <2>1, <2>2, <2>3, <2>4, <2>5, <2>6 DEF SidecarInv, Fresh, Late
<1>9. Truth(r) => Truth(r)'
  BY <1>3, <1>5, <1>6 DEF Truth, Late
<1>10. Inv'
  BY PublishKeepsInv, WriteBundleKeepsInv, ReportKeepsInv, KillKeepsInv DEF FullInv
<1>. QED  BY <1>7, <1>8, <1>9, <1>10, OneRunKeepsFullInv

LEMMA EditKeepsFullInv == ASSUME FullInv, Edit PROVE FullInv'
<1>1. UNCHANGED <<flags, pc, man, signed, bundleFile, sidecarFile, pushed>>
  BY DEF Edit, signatures, files
<1>2. ASSUME NEW r \in Runs PROVE SidecarInv(r)'
  <2>1. UNCHANGED writers
    BY <1>1 DEF writers
  <2>. QED  BY <1>1, <2>1 DEF FullInv, SidecarInv
<1>3. edits' # 0
  BY AttestAssumption DEF Edit, FullInv, Inv, TypeOK
<1>. QED  BY <1>2, <1>3, EditKeepsInv DEF FullInv, TruthInv

LEMMA NextKeepsFullInv == FullInv /\ [Next]_vars => FullInv'
<1>. SUFFICES ASSUME FullInv, [Next]_vars PROVE FullInv'
  OBVIOUS
<1>1. CASE \E r \in Runs : Step(r)
  BY <1>1, PreparationsKeepFullInv, SidecarKeepsFullInv, SigningKeepsFullInv,
     ClosingKeepsFullInv DEF Step
<1>2. CASE \E r \in Runs : Kill(r)
  BY <1>2, ClosingKeepsFullInv
<1>3. CASE UNCHANGED vars
  <2>1. /\ Inv' /\ UNCHANGED <<kind, project, edits, flags, pc, man, signed, bundleFile,
                                sidecarFile, pushed>>
    BY <1>3, NextKeepsInv DEF vars, FullInv
  <2>2. UNCHANGED writers
    BY <2>1 DEF writers
  <2>3. ASSUME NEW r \in Runs PROVE SidecarInv(r)' /\ (Truth(r) => Truth(r)')
    BY <2>1, <2>2 DEF FullInv, SidecarInv, Truth
  <2>. QED  BY <2>1, <2>3 DEF FullInv, TruthInv
<1>. QED  BY <1>1, <1>2, <1>3, EditKeepsFullInv DEF Next

LEMMA AlwaysFullInv == Spec => []FullInv
BY InitKeepsFullInv, NextKeepsFullInv, PTL DEF Spec

LEMMA FullInvGivesTheSidecar == FullInv => SidecarBelongsToBundle
<1>. SUFFICES ASSUME FullInv, bundleFile.by \in Runs, bundleFile.sbom # "none"
              PROVE  SidecarBelongsToBundle
  BY DEF SidecarBelongsToBundle
<1>. DEFINE r == bundleFile.by
<1>1. RunInv(r) /\ SidecarInv(r) /\ TypeOK
  BY DEF FullInv, Inv
<1>2. bundleFile.sbom = signed[r].sbom /\ signed[r].valid
      /\ flags[r].output /\ ~flags[r].dryRun
  <2>1. bundleFile = bundleOf(r) /\ signed[r].valid
        /\ flags[r].output /\ ~flags[r].dryRun
    BY <1>1 DEF RunInv
  <2>. HIDE DEF r
  <2>2. bundleOf(r).sbom = signed[r].sbom
    BY DEF bundleOf
  <2>. QED  BY <2>1, <2>2
<1>3. signed[r] = man[r]
  BY <1>1, <1>2 DEF SidecarInv, Empty
<1>. QED  BY <1>1, <1>2, <1>3 DEF SidecarInv, SidecarBelongsToBundle

LEMMA FullInvGivesTheTruth == FullInv => PublishedIsTrue
<1>1. ASSUME FullInv, \A r \in Runs : Truth(r),
             NEW r \in pushed \cup ({bundleFile.by} \cap Runs)
      PROVE  /\ project.declared /\ project.agrees /\ project.valid
             /\ r \in pushed => project.mappable
             /\ signed[r].first = project.first
             /\ kind = "skill" => signed[r].second = project.second
             /\ ~flags[r].skipSBOM <=> signed[r].sbom = project.deps
             /\ ~flags[r].skipSBOM => project.forgeseal = "supported"
  <2>1. r \in Runs /\ project \in Project
    BY <1>1, AttestAssumption DEF FullInv, Inv, TypeOK
  <2>2. signed[r] # Empty
    BY <1>1, <2>1 DEF FullInv, Inv, RunInv, SidecarInv, Empty
  <2>3. project.deps # "none"
    BY <2>1, AttestAssumption DEF Project
  <2>. QED  BY <1>1, <2>1, <2>2, <2>3 DEF Truth
<1>. SUFFICES ASSUME FullInv, edits = 0, bundleFile.by \in Runs \/ pushed # {}
              PROVE  PublishedIsTrue
  BY DEF PublishedIsTrue
<1>2. \A r \in Runs : Truth(r)
  BY DEF FullInv, TruthInv
<1>. QED  BY <1>1, <1>2 DEF PublishedIsTrue

\* However many runs share an --output file, wherever they are killed and whatever
\* is edited, a bundle that points at a sidecar has one beside it, which only
\* another run that writes there can have replaced (runAttest).
THEOREM SidecarAlwaysBelongs == Spec => []SidecarBelongsToBundle
BY AlwaysFullInv, FullInvGivesTheSidecar, PTL

\* What is published of a project nobody edits is what the project is, part by part:
\* every check and every read that stands between it and the signature was passed.
THEOREM PublishedAlwaysTrue == Spec => []PublishedIsTrue
BY AlwaysFullInv, FullInvGivesTheTruth, PTL
=============================================================================
