------------------------------- MODULE LocalTree -------------------------------
(***************************************************************************)
(* A skill as a tree of files, at its maker and where it is installed.     *)
(* `attest` reads the declaration, walks the maker's tree and signs the    *)
(* digest of what it saw with the capabilities declared.  `verify          *)
(* --strict` does the same reading on the consumer's tree, compares the    *)
(* digests, and then lints the tree: it loads the declaration again and    *)
(* walks the sources by rules of their own.  `lint` does the last part     *)
(* alone, on a tree or on one file.                                        *)
(*                                                                         *)
(* A walk lists the tree directory by directory and reads it file by file, *)
(* and either tree may be edited between any two of these steps.  A        *)
(* directory that cannot be listed, and a report that cannot be written,   *)
(* may meet any command.                                                   *)
(***************************************************************************)
EXTENDS CapabilityLint, FiniteSets

CONSTANTS
  Paths,       \* the paths files may have
  Dirs,        \* the directories
  Root,        \* the one a walk begins in
  Above,       \* the directories each path and each directory lies in
  Position,    \* the order of a walk
  Excluded,    \* node_modules, dist and dot directories, and what lies in them
  Unclean,     \* those bundle.ValidPath refuses, as with a backslash in them
  Language,    \* the detector of a path, by its extension, or "none"
  Contents,    \* contents of files, which stand for their digests as well
  TextOf,      \* a content as the lines each detector sees in it
  DeclaredBy,  \* the contents that load as smithmark.yaml, and as what
  NameIn,      \* the name in a content's frontmatter, "" without one
  Admitted,    \* the entries whose grammar Validate accepts
  Trees,       \* the states the trees begin in
  LintTrees,   \* those of a tree that is only linted
  Edits,       \* what an edit may make of a path
  MaxEdits     \* bound on the edits of both trees together

Roles == {"maker", "consumer"}

\* A link has the content of its target, and its language. A file that is not readable cannot be
\* opened.
Node ==
  [kind: {"none", "file", "link"}, exec: BOOLEAN, readable: BOOLEAN,
   content: Contents]

\* listed says that smithmark.yaml has the executables key.
Declared ==
  [caps: Declaration, name: STRING, listed: BOOLEAN, executables: SUBSET STRING]

ASSUME TreeAssumption ==
  /\ {"SKILL.md", "smithmark.yaml"} \subseteq Paths
  /\ Root \in Dirs /\ Paths \cap Dirs = {}
  /\ Position \in [Paths \cup Dirs -> Nat]
  /\ \A x, y \in Paths \cup Dirs : Position[x] = Position[y] => x = y
  /\ Excluded \subseteq (Paths \cup Dirs) \ {Root} /\ Unclean \subseteq Paths
  /\ \A p \in Paths \ Excluded : Above[p] \cap Excluded = {}
  /\ Language \in [Paths -> Languages \cup {"none"}]
  /\ \A l \in Languages : TextOf[l] \in [Contents -> Seq(Line(Tables[l]))]
  /\ DOMAIN DeclaredBy \subseteq Contents
  /\ DeclaredBy \in [DOMAIN DeclaredBy -> Declared]
  /\ NameIn \in [Contents -> STRING]
  /\ Trees \cup LintTrees \subseteq [Paths -> Node]
  /\ Edits \in [Paths -> SUBSET Node]
  /\ Admitted \subseteq Entries \ {Blank}
  /\ MaxEdits \in Nat

\* What lies in a directory lies in those above it, and in one of them directly.
ASSUME AboveAssumption ==
  /\ Above \in [Paths \cup Dirs -> SUBSET Dirs]
  /\ \A x \in (Paths \cup Dirs) \ {Root} : Root \in Above[x]
  /\ \A x \in Paths \cup Dirs : x \notin Above[x]
  /\ \A x \in Paths \cup Dirs : \A d \in Above[x] :
       /\ Above[d] \subseteq Above[x]
       /\ \E y \in {x} \cup Above[x] : Above[y] = Above[d] \cup {d}

NothingSigned == [files |-> {}, caps |-> [c \in Classes |-> {}]]
NothingDeclared ==
  [caps |-> [c \in Classes |-> {}], name |-> "", listed |-> FALSE,
   executables |-> {}]

VARIABLES
  command,   \* what the consumer runs
  target,    \* the file lint is given, "" for the tree
  os,        \* the operating system of each role
  tree,      \* the tree of each role as it is now
  edits,     \* how often each was edited
  pc,        \* the step of each role
  decl,      \* the declaration each loaded
  todo,      \* what it has listed and not visited: paths, and directories to list
  got,       \* the files it has seen: path, mode, content
  signed,    \* what the maker's statement says
  verified,  \* how the digests compared, "none" before
  caps,      \* the capabilities lint loaded
  sources,   \* the sources it read
  notes,     \* the paths and directories it noted as skipped
  findings,  \* its findings
  fault,     \* history: what failed under a command as a whole, or "none"
  exit       \* the exit code of each role, 4 while it runs

roleVars == <<command, target, os>>
walkVars == <<decl, todo, got, signed, verified>>
lintVars == <<caps, sources, notes, findings>>
vars == <<roleVars, tree, edits, pc, walkVars, lintVars, fault, exit>>

Init ==
  /\ command \in {"verify", "lint"}
  /\ target \in IF command = "lint" THEN {""} \cup {p \in Paths : Language[p] # "none"}
                                    ELSE {""}
  /\ os \in [Roles -> {"unix", "windows"}]
  /\ IF command = "verify" THEN tree \in [Roles -> Trees]
     ELSE \E t \in LintTrees : tree = [r \in Roles |-> t] /\ os = [r \in Roles |-> "unix"]
  /\ \A r \in Roles, p \in Unclean : os[r] = "windows" => tree[r][p].kind = "none"
  /\ edits = [r \in Roles |-> 0]
  /\ pc = IF command = "verify" THEN [r \in Roles |-> "load"]
          ELSE [maker |-> "ended", consumer |-> "lintLoad"]
  /\ exit = [r \in Roles |-> 4]
  /\ decl = [r \in Roles |-> NothingDeclared]
  /\ todo = [r \in Roles |-> {}] /\ got = [r \in Roles |-> {}]
  /\ signed = NothingSigned /\ verified = "none"
  /\ caps = NothingDeclared.caps
  /\ sources = {} /\ notes = {} /\ findings = {} /\ fault = "none"

-----------------------------------------------------------------------------
goto(r, step) == pc' = [pc EXCEPT ![r] = step] /\ UNCHANGED exit

leave(r, code) ==
  pc' = [pc EXCEPT ![r] = "ended"] /\ exit' = [exit EXCEPT ![r] = code]

readable(node) == node.kind # "none" /\ node.readable

\* manifest.LoadDeclared of such a file succeeds.
loads(node) == readable(node) /\ node.content \in DOMAIN DeclaredBy

\* What a walk comes to next.
next(r) ==
  CHOOSE x \in todo[r] : \A y \in todo[r] : Position[x] <= Position[y]

\* What a walk finds in a directory, but for the links.
entries(r, d) ==
  {x \in Paths \cup Dirs : /\ Above[x] = Above[d] \cup {d}
                           /\ x \in Paths => tree[r][x].kind = "file"}

linksIn(r, d) == {p \in Paths : Above[p] = Above[d] \cup {d} /\ tree[r][p].kind = "link"}

-----------------------------------------------------------------------------
\* The walk whose digest is signed and compared.

\* LoadDeclared, by runAttest and by resolveLocalIdentity.
LoadDeclared(r) ==
  /\ pc[r] = "load"
  /\ r = "consumer" => exit["maker"] = 0
  /\ LET node == tree[r]["smithmark.yaml"]
     IN  IF loads(node)
         THEN /\ decl' = [decl EXCEPT ![r] = DeclaredBy[node.content]]
              /\ todo' = [todo EXCEPT ![r] = {Root}] /\ goto(r, "walk")
         ELSE leave(r, 3) /\ UNCHANGED <<decl, todo>>
  /\ UNCHANGED <<roleVars, tree, edits, got, signed, verified, lintVars, fault>>

\* Mutation: a symlink is passed over, as by the walk of the sources.
List_followsLinks(r) ==
  /\ pc[r] = "walk" /\ todo[r] # {} /\ next(r) \in Dirs
  /\ todo' = [todo EXCEPT ![r] = (@ \ {next(r)}) \cup entries(r, next(r))]
  /\ UNCHANGED <<roleVars, tree, edits, pc, decl, got, signed, verified, lintVars,
                 fault, exit>>

\* One directory of WalkSkill: it accepts no symlink, and none that it cannot list.
List(r) ==
  /\ pc[r] = "walk" /\ todo[r] # {} /\ next(r) \in Dirs
  /\ \/ leave(r, 3) /\ fault' = "walk" /\ UNCHANGED todo
     \/ /\ linksIn(r, next(r)) # {}
        /\ leave(r, 3) /\ UNCHANGED <<todo, fault>>
     \/ /\ linksIn(r, next(r)) = {}
        /\ todo' = [todo EXCEPT ![r] = (@ \ {next(r)}) \cup entries(r, next(r))]
        /\ UNCHANGED <<pc, exit, fault>>
  /\ UNCHANGED <<roleVars, tree, edits, decl, got, signed, verified, lintVars>>

\* Mutation: the executable bit counts beside the declaration.
mode_orBit(r, p) ==
  IF \/ decl[r].listed /\ p \in decl[r].executables
     \/ os[r] = "unix" /\ tree[r][p].exec
  THEN "executable" ELSE "regular"

\* The declared executables are exhaustive; without the key the bit decides,
\* which Windows does not have.
mode(r, p) ==
  IF IF decl[r].listed THEN p \in decl[r].executables
     ELSE os[r] = "unix" /\ tree[r][p].exec
  THEN "executable" ELSE "regular"

\* One file of WalkSkill. What was listed as a file is opened by its name.
WalkSkill(r) ==
  /\ pc[r] = "walk" /\ todo[r] # {} /\ next(r) \in Paths
  /\ LET node == tree[r][next(r)]
     IN  IF readable(node)
         THEN /\ got' = [got EXCEPT ![r] = @ \cup
                   {[path |-> next(r), mode |-> mode(r, next(r)),
                     content |-> node.content]}]
              /\ todo' = [todo EXCEPT ![r] = @ \ {next(r)}]
              /\ UNCHANGED <<pc, exit>>
         ELSE leave(r, 3) /\ UNCHANGED <<got, todo>>
  /\ UNCHANGED <<roleVars, tree, edits, decl, signed, verified, lintVars, fault>>

\* After the walk: every declared executable is there, so is SKILL.md, and Digest
\* finds no path it refuses.
digestible(r) ==
  LET paths == {f.path : f \in got[r]}
  IN  /\ decl[r].listed => decl[r].executables \subseteq paths
      /\ "SKILL.md" \in paths /\ paths \cap Unclean = {}

\* Mutation: what is declared is not validated.
Sign_unvalidated ==
  /\ pc["maker"] = "walk" /\ todo["maker"] = {}
  /\ IF /\ digestible("maker")
        /\ \A f \in got["maker"] : f.path = "SKILL.md" =>
             NameIn[f.content] \in {"", decl["maker"].name}
     THEN /\ signed' = [files |-> got["maker"], caps |-> decl["maker"].caps]
          /\ leave("maker", 0)
     ELSE leave("maker", 3) /\ UNCHANGED signed
  /\ UNCHANGED <<roleVars, tree, edits, decl, todo, got, verified, lintVars, fault>>

\* completeSkillSurface from the walk on, Validate and the signature: nothing is
\* read from the tree any more.
Sign ==
  /\ pc["maker"] = "walk" /\ todo["maker"] = {}
  /\ IF /\ digestible("maker")
        /\ \A f \in got["maker"] : f.path = "SKILL.md" =>
             NameIn[f.content] \in {"", decl["maker"].name}
        /\ \A c \in Classes : decl["maker"].caps[c] \subseteq Admitted
     THEN /\ signed' = [files |-> got["maker"], caps |-> decl["maker"].caps]
          /\ leave("maker", 0)
     ELSE leave("maker", 3) /\ UNCHANGED signed
  /\ UNCHANGED <<roleVars, tree, edits, decl, todo, got, verified, lintVars, fault>>

\* resolveLocalIdentity after the walk, and the core's comparison of the digests
\* (with a trusted signature, which VerifyCore is about). A tree that is rejected
\* is linted all the same.
Identify ==
  /\ pc["consumer"] = "walk" /\ todo["consumer"] = {}
  /\ IF digestible("consumer")
     THEN /\ verified' = IF got["consumer"] = signed.files THEN "match" ELSE "mismatch"
          /\ goto("consumer", "lintLoad")
     ELSE leave("consumer", 3) /\ UNCHANGED verified
  /\ UNCHANGED <<roleVars, tree, edits, decl, todo, got, signed, lintVars, fault>>

-----------------------------------------------------------------------------
\* The lint.

\* attachLintFindings cannot stat the tree any more: verify goes on without a lint,
\* with a note.
SkipLint ==
  /\ command = "verify" /\ pc["consumer"] = "lintLoad"
  /\ notes' = notes \cup {Root} /\ goto("consumer", "lintRead")
  /\ UNCHANGED <<roleVars, tree, edits, walkVars, caps, sources, findings, fault>>

\* declaredCapabilities: no file is an empty declaration and a note, any other
\* failure to load it an operational error.
LintLoad ==
  /\ pc["consumer"] = "lintLoad"
  /\ LET node == tree["consumer"]["smithmark.yaml"]
     IN  IF node.kind = "none"
         THEN /\ caps' = NothingDeclared.caps /\ notes' = notes \cup {"smithmark.yaml"}
              /\ goto("consumer", "lintList")
         ELSE IF loads(node)
         THEN /\ caps' = DeclaredBy[node.content].caps
              /\ goto("consumer", "lintList") /\ UNCHANGED notes
         ELSE leave("consumer", 3) /\ UNCHANGED <<caps, notes>>
  /\ UNCHANGED <<roleVars, tree, edits, walkVars, sources, findings, fault>>

\* WalkSources begins: a root that cannot be resolved ends the command. A file that
\* is named itself is the root, wherever it lies, and its link is followed.
LintRoot ==
  /\ pc["consumer"] = "lintList"
  /\ \/ leave("consumer", 3) /\ fault' = "root" /\ UNCHANGED todo
     \/ /\ target # "" => tree["consumer"][target].kind # "none"
        /\ todo' = [todo EXCEPT !["consumer"] = {IF target = "" THEN Root ELSE target}]
        /\ goto("consumer", "lintRead") /\ UNCHANGED fault
  /\ UNCHANGED <<roleVars, tree, edits, decl, got, signed, verified, lintVars>>

\* What WalkSources takes of a directory, passing over symlinks, excluded
\* directories and files of no language.
sourceEntries(d) ==
  {x \in entries("consumer", d) \ Excluded : x \in Paths => Language[x] # "none"}

\* One directory of WalkSources: the root is fatal when it cannot be listed, any
\* other is noted.
LintList ==
  /\ pc["consumer"] = "lintRead" /\ todo["consumer"] # {} /\ next("consumer") \in Dirs
  /\ LET d == next("consumer")
     IN  \/ /\ d = Root /\ leave("consumer", 3) /\ fault' = "root"
            /\ UNCHANGED <<todo, notes>>
         \/ /\ d # Root /\ notes' = notes \cup {d}
            /\ todo' = [todo EXCEPT !["consumer"] = @ \ {d}]
            /\ UNCHANGED <<pc, exit, fault>>
         \/ /\ todo' = [todo EXCEPT !["consumer"] = (@ \ {d}) \cup sourceEntries(d)]
            /\ UNCHANGED <<pc, exit, notes, fault>>
  /\ UNCHANGED <<roleVars, tree, edits, decl, got, signed, verified, caps, sources,
                 findings>>

\* Mutation: a file that cannot be read is passed over like a symlink.
LintRead_silent ==
  /\ pc["consumer"] = "lintRead" /\ todo["consumer"] # {} /\ next("consumer") \in Paths
  /\ LET p == next("consumer")
         node == tree["consumer"][p]
     IN  /\ todo' = [todo EXCEPT !["consumer"] = @ \ {p}]
         /\ sources' = IF readable(node)
                       THEN sources \cup {[path |-> p, content |-> node.content]}
                       ELSE sources
  /\ UNCHANGED <<roleVars, tree, edits, decl, got, signed, verified, caps, findings, notes,
                 fault, pc, exit>>

\* Mutation: a file that cannot be read ends the command.
LintRead_fatal ==
  /\ pc["consumer"] = "lintRead" /\ todo["consumer"] # {} /\ next("consumer") \in Paths
  /\ LET p == next("consumer")
         node == tree["consumer"][p]
     IN  /\ todo' = [todo EXCEPT !["consumer"] = @ \ {p}]
         /\ IF readable(node)
            THEN /\ sources' = sources \cup {[path |-> p, content |-> node.content]}
                 /\ UNCHANGED <<pc, exit>>
            ELSE leave("consumer", 3) /\ UNCHANGED sources
  /\ UNCHANGED <<roleVars, tree, edits, decl, got, signed, verified, caps, findings, notes,
                 fault>>

\* One file of WalkSources: in a tree one that cannot be read is noted, alone it
\* is fatal.
LintRead ==
  /\ pc["consumer"] = "lintRead" /\ todo["consumer"] # {} /\ next("consumer") \in Paths
  /\ LET p == next("consumer")
         node == tree["consumer"][p]
     IN  /\ todo' = [todo EXCEPT !["consumer"] = @ \ {p}]
         /\ IF readable(node)
            THEN /\ sources' = sources \cup {[path |-> p, content |-> node.content]}
                 /\ UNCHANGED <<notes, pc, exit>>
            ELSE /\ IF target = "" THEN notes' = notes \cup {p} /\ UNCHANGED <<pc, exit>>
                    ELSE leave("consumer", 3) /\ UNCHANGED notes
                 /\ UNCHANGED sources
  /\ UNCHANGED <<roleVars, tree, edits, decl, got, signed, verified, caps, findings, fault>>

\* Both detectors over the sources, and Gaps.
gapsOf(src) ==
  LET lines == TextOf[Language[src.path]][src.content]
      T == Tables[Language[src.path]]
  IN  UNION {{[path |-> src.path, line |-> n, gap |-> g] :
                g \in GapsOfLine(caps, scanLine(T, lines[n]))} : n \in scannedLines(lines)}

\* Mutation: --strict asks only for findings that are not low.
exitCode_notLow ==
  IF command = "lint" THEN 0
  ELSE IF verified # "match" THEN 1
  ELSE IF \E f \in findings' : f.gap.severity # "low" THEN 2 ELSE 0

exitCode ==
  IF command = "lint" THEN 0
  ELSE IF verified # "match" THEN 1 ELSE IF findings' # {} THEN 2 ELSE 0

\* The findings are reported, if the report can be written.
Report ==
  /\ pc["consumer"] = "lintRead" /\ todo["consumer"] = {}
  /\ findings' = UNION {gapsOf(src) : src \in sources}
  /\ \/ leave("consumer", exitCode) /\ UNCHANGED fault
     \/ leave("consumer", 3) /\ fault' = "report"
  /\ UNCHANGED <<roleVars, tree, edits, walkVars, caps, sources, notes>>

-----------------------------------------------------------------------------
\* The owner of a tree edits a path of it while it is being read.
EditTree(r) ==
  /\ edits["maker"] + edits["consumer"] < MaxEdits
  /\ pc[r] # "ended"
  /\ r = "consumer" => pc["maker"] = "ended"
  /\ \E p \in Paths : \E node \in Edits[p] \ {tree[r][p]} :
       tree' = [tree EXCEPT ![r][p] = node]
  /\ edits' = [edits EXCEPT ![r] = @ + 1]
  /\ UNCHANGED <<roleVars, pc, walkVars, lintVars, fault, exit>>

Walk(r) == LoadDeclared(r) \/ List(r) \/ WalkSkill(r)

Lint == SkipLint \/ LintLoad \/ LintRoot \/ LintList \/ LintRead \/ Report

Next ==
  \/ \E r \in Roles : Walk(r) \/ EditTree(r)
  \/ Sign \/ Identify \/ Lint

Spec == Init /\ [][Next]_vars
-----------------------------------------------------------------------------
\* Properties.

unedited == \A r \in Roles : edits[r] = 0

files(r) == {p \in Paths : tree[r][p].kind # "none"}

\* What lint says it skipped: itself, or within a directory that was.
skipped(p) == ({p} \cup Above[p]) \cap notes # {}

verdict == IF command = "verify" THEN exit["consumer"] ELSE 4

\* An installed copy of what was attested is never rejected, on whatever system
\* either side runs and whatever became of the executable bits, if the executables
\* are declared; without the key it takes equal bits and systems that have them
\* (local.go: "the resulting bundle digest is platform independent").  It may end
\* with 3 instead, when a directory cannot be listed or the report not be written.
GenuineInstallIsAccepted ==
  verdict # 4 /\ fault = "none" /\ unedited /\ files("maker") = files("consumer") =>
    \/ \E p \in files("maker") :
         tree["maker"][p].content # tree["consumer"][p].content
    \/ \E p \in files("consumer") :
         \/ ~readable(tree["consumer"][p]) \/ tree["consumer"][p].kind = "link"
         \/ /\ ~decl["maker"].listed
            /\ \/ tree["maker"][p].exec # tree["consumer"][p].exec
               \/ os["maker"] # os["consumer"]
    \/ verdict \in {0, 2}

\* A tree that is accepted, and that nobody edited meanwhile, is file by file what
\* the maker signed: nothing is missing, changed, added or linked to, in places
\* lint does not look at either, and all of it is readable.
AcceptedIsWhatWasSigned ==
  verdict \in {0, 2} /\ edits["consumer"] = 0 =>
    /\ {[path |-> p, content |-> tree["consumer"][p].content] : p \in files("consumer")}
         = {[path |-> f.path, content |-> f.content] : f \in signed.files}
    /\ \A p \in files("consumer") :
         tree["consumer"][p].kind = "file" /\ tree["consumer"][p].readable

\* What the sources of a role's tree use, line by line, as far as lint looks.
linesOf(r) ==
  UNION {{[path |-> p, line |-> n] :
            n \in scannedLines(TextOf[Language[p]][tree[r][p].content])} :
         p \in {q \in files(r) \ Excluded : Language[q] # "none"}}

\* A skill that passes --strict uses nothing, in the lines lint looks at and does not
\* say it skipped, that the maker did not sign for: although lint asks the
\* declaration in the tree and not the attested one, and although that file was
\* loaded three times.  Nothing is said of a tree that is edited.
StrictMeansSigned ==
  verdict = 0 /\ unedited =>
    \A at \in linesOf("consumer") : \A c \in Classes :
      LET l == Language[at.path]
      IN  skipped(at.path) \/ ~usesUndeclared(Tables[l],
             TextOf[l][tree["consumer"][at.path].content][at.line], signed.caps, c)

\* Nothing is attested whose declaration could not have been validated, nor under
\* another name than its own (Validate, completeSkillSurface).
SignedIsValid ==
  signed # NothingSigned =>
    /\ \A c \in Classes : signed.caps[c] \subseteq Admitted
    /\ edits["maker"] = 0 =>
         LET declared == DeclaredBy[tree["maker"]["smithmark.yaml"].content]
         IN  /\ signed.caps = declared.caps
             /\ NameIn[tree["maker"]["SKILL.md"].content] \in {"", declared.name}

\* The findings are the gap between what was read and what was declared, line by
\* line and class by class, and name no line that was not read.
FindingsAreTheGap ==
  exit["consumer"] \in 0..2 /\ pc["consumer"] = "ended" =>
    /\ \A src \in sources :
         LET l == Language[src.path]
         IN  \A n \in scannedLines(TextOf[l][src.content]) :
               isTheGap(Tables[l], TextOf[l][src.content][n], caps,
                 {f.gap : f \in {g \in findings : g.path = src.path /\ g.line = n}})
    /\ \A f \in findings : \E src \in sources :
         f.path = src.path
         /\ f.line \in scannedLines(TextOf[Language[src.path]][src.content])

\* What lint did not look at is known: without edits each regular source outside
\* the excluded directories was scanned or is noted, or a directory it lies in is,
\* and so is a missing declaration (WalkSources: "the returned notes name every
\* skipped path").
SkippedIsNoted ==
  exit["consumer"] \in 0..2 /\ pc["consumer"] = "ended" /\ edits["consumer"] = 0 =>
    LET scanned == {src.path : src \in sources}
    IN  /\ target = "" => \A p \in files("consumer") \ Excluded :
             tree["consumer"][p].kind = "file" /\ Language[p] # "none" =>
               p \in scanned \/ skipped(p)
        /\ target # "" => target \in scanned
        /\ "smithmark.yaml" \in files("consumer") \cup notes

\* The lint is advisory: whatever it meets in a tree, edits included, files and
\* subdirectories that cannot be read, takes no completed verification away and
\* ends no lint, but for a declaration that does not load, a root that cannot be
\* walked and a report that cannot be written (WalkSources: "only a failure at the
\* ROOT itself").
LintIsAdvisory ==
  exit["consumer"] = 3 /\ target = "" /\ (command = "lint" \/ verified # "none") =>
    LET node == tree["consumer"]["smithmark.yaml"]
    IN  fault \in {"root", "report"} \/ (node.kind # "none" /\ ~loads(node))

\* lint.go:395-397 raises the limit of the scanner "so such a line is still
\* scanned rather than silently dropped". This does not hold: what follows a line
\* over the new limit is dropped, and no note says so.
EveryLineIsScanned ==
  pc["consumer"] = "ended" /\ exit["consumer"] \in 0..2 =>
    \A src \in sources :
      LET lines == TextOf[Language[src.path]][src.content]
      IN  scannedLines(lines) = DOMAIN lines

\* lint.go:524-527 and :630-631 have a bare "*" as the way to declare any variable.
\* This does not hold of what can be attested: the grammar of env entries
\* (manifest.go:534) has neither a bare "*" nor lower case, so there are findings
\* no maker can answer by declaring.
EveryGapCanBeDeclared ==
  \A f \in findings : f.gap.symbol \in Names =>
    \E e \in Admitted : f.gap.symbol \in Covers[e]

\* cmd/smithmark/verify.go:326-329: discovery "already loaded its declaration, so
\* the only error attachLintFindings can surface is an operational one from a root
\* walk failure". This does not hold of a tree edited in between.
OnlyTheRootFailsLint ==
  verified # "none" /\ exit["consumer"] = 3 => fault \in {"root", "report"}
=============================================================================
