----------------------------- MODULE MCLocalTree -----------------------------
(***************************************************************************)
(* Instances of LocalTree for TLC.                                         *)
(***************************************************************************)
EXTENDS LocalTree, TLC

mcTables ==
  [js |-> << [class |-> "network", symbol |-> "fetch", captures |-> FALSE],
             [class |-> "env", symbol |-> "process.env", captures |-> TRUE],
             [class |-> "env", symbol |-> "process.env", captures |-> TRUE],
             [class |-> "env", symbol |-> "process.env", captures |-> FALSE] >>,
   py |-> << [class |-> "network", symbol |-> "requests", captures |-> FALSE],
             [class |-> "network", symbol |-> "httpx", captures |-> FALSE],
             [class |-> "env", symbol |-> "os.environ", captures |-> TRUE],
             [class |-> "env", symbol |-> "os.environ", captures |-> FALSE] >>]

mcNames == {"AWS_A", "AWS_B", "lower"}
mcConstructs == {"fetch", "process.env", "requests", "httpx", "os.environ"}
mcRank ==
  ("AWS_A" :> 1) @@ ("AWS_B" :> 2) @@ ("lower" :> 3) @@ ("fetch" :> 4)
  @@ ("httpx" :> 5) @@ ("os.environ" :> 6) @@ ("process.env" :> 7) @@ ("requests" :> 8)

\* Entries: blank, the bare star, a variable, a prefix, and a host.
mcEntries == {"", "*", "AWS_A", "AWS_*", "host"}
mcAdmitted == {"AWS_A", "AWS_*", "host"}
mcCovers ==
  ("" :> {}) @@ ("*" :> mcNames) @@ ("AWS_A" :> {"AWS_A"})
  @@ ("AWS_*" :> {"AWS_A", "AWS_B"}) @@ ("host" :> {})

mcPaths == {"SKILL.md", "scripts/run.py", "smithmark.yaml", "node_modules/m.js", "a\\b"}
\* Directories.
mcDirs == {".", "node_modules", "scripts"}
mcAbove ==
  ("." :> {}) @@ ("node_modules" :> {"."}) @@ ("scripts" :> {"."})
  @@ ("node_modules/m.js" :> {".", "node_modules"})
  @@ ("scripts/run.py" :> {".", "scripts"})
  @@ [p \in {"SKILL.md", "smithmark.yaml", "a\\b"} |-> {"."}]
mcExcluded == {"node_modules", "node_modules/m.js"}
mcUnclean == {"a\\b"}
mcPosition ==
  ("." :> 0) @@ ("SKILL.md" :> 1) @@ ("a\\b" :> 2) @@ ("node_modules" :> 3)
  @@ ("node_modules/m.js" :> 4) @@ ("scripts" :> 5) @@ ("scripts/run.py" :> 6)
  @@ ("smithmark.yaml" :> 7)
mcLanguage ==
  ("SKILL.md" :> "none") @@ ("a\\b" :> "none") @@ ("node_modules/m.js" :> "js")
  @@ ("scripts/run.py" :> "py") @@ ("smithmark.yaml" :> "none")

\* Contents: Python sources of some lines, declarations, and SKILL.md.
pyLine(net, names, bare) ==
  [long |-> FALSE,
   found |-> << net \cap {"requests"}, net \cap {"httpx"}, names, bare >>]
tooLong == [long |-> TRUE, found |-> << {}, {}, {}, {} >>]

source(lines) == [as |-> "source", lines |-> lines]
yaml(network, env, listed) ==
  [as |-> "yaml", network |-> network, env |-> env, listed |-> listed]
broken == [as |-> "broken"]
md(name) == [as |-> "md", name |-> name]

usesA == source(<<pyLine({}, {"AWS_A"}, {"os.environ"})>>)
usesBare == source(<<pyLine({}, {}, {"os.environ"})>>)
usesNet == source(<<tooLong, pyLine({"requests"}, {}, {})>>)

\* Every line a Python source may have.
allLines ==
  {pyLine(net, names, bare) : net \in SUBSET {"requests", "httpx"},
                              names \in SUBSET mcNames, bare \in SUBSET {"os.environ"}}
lintSources == {source(<<l>>) : l \in allLines} \cup {usesNet}
lintYamls ==
  {yaml(n, e, FALSE) : n \in {{}, {""}, {"host"}},
                       e \in {{}, {""}, {"*"}, {"AWS_A"}, {"", "AWS_*"}}}

yamlListed == yaml({}, {"AWS_A"}, TRUE)
yamlBits == yaml({}, {"AWS_A"}, FALSE)
yamlNone == yaml({}, {}, TRUE)
yamlStar == yaml({}, {"*"}, TRUE)

mcContents ==
  lintSources \cup lintYamls \cup {usesA, usesBare, yamlListed, yamlNone, yamlStar,
                                   broken, md("s"), md("t")}

mcTextOf ==
  [js |-> [c \in mcContents |-> <<>>],
   py |-> [c \in mcContents |-> IF c.as = "source" THEN c.lines ELSE <<>>]]

mcDeclaredBy ==
  [c \in {d \in mcContents : d.as = "yaml"} |->
     [caps |-> [network |-> c.network, filesystem |-> {}, exec |-> {}, env |-> c.env],
      name |-> "s", listed |-> c.listed,
      executables |-> IF c.listed THEN {"scripts/run.py"} ELSE {}]]

mcNameIn == [c \in mcContents |-> IF c.as = "md" THEN c.name ELSE ""]

\* Trees.
file(c) == [kind |-> "file", exec |-> FALSE, readable |-> TRUE, content |-> c]
script(c) == [file(c) EXCEPT !.exec = TRUE]
link(c) == [file(c) EXCEPT !.kind = "link"]
locked(c) == [file(c) EXCEPT !.readable = FALSE]
none == [file(broken) EXCEPT !.kind = "none"]

skill(y, m, s) ==
  ("smithmark.yaml" :> y) @@ ("SKILL.md" :> m) @@ ("scripts/run.py" :> s)
  @@ [p \in mcPaths |-> none]

mcTrees ==
  {skill(file(yamlListed), file(md("s")), script(usesA)),
   skill(file(yamlListed), file(md("s")), file(usesA)),
   skill(file(yamlBits), file(md("s")), script(usesA)),
   skill(file(yamlBits), file(md("s")), file(usesA)),
   skill(file(yamlNone), file(md("s")), file(usesBare)),
   skill(file(yamlListed), script(md("s")), file(usesA)),
   skill(file(yamlStar), file(md("s")), file(usesA)),
   skill(file(yamlListed), file(md("t")), file(usesA)),
   [skill(file(yamlListed), file(md("s")), file(usesA))
      EXCEPT !["node_modules/m.js"] = link(usesNet)],
   [skill(file(yamlListed), file(md("s")), file(usesNet))
      EXCEPT !["node_modules/m.js"] = file(usesNet)],
   [skill(file(yamlListed), file(md("s")), file(usesA)) EXCEPT !["a\\b"] = file(usesA)]}

mcLintTrees ==
  {skill(y, none, file(s)) : y \in {file(c) : c \in lintYamls} \cup {none},
                             s \in lintSources}
    \cup {skill(file(broken), none, locked(usesA)), skill(none, none, locked(usesA)),
          skill(none, none, link(usesA))}

mcEdits ==
  ("smithmark.yaml" :> {file(yamlNone), file(broken), none})
  @@ ("SKILL.md" :> {file(md("t"))})
  @@ ("scripts/run.py" :> {file(usesBare), link(usesA), locked(usesA), none})
  @@ ("node_modules/m.js" :> {file(usesNet)})
  @@ ("a\\b" :> {})
=============================================================================
