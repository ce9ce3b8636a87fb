---------------------------- MODULE CapabilityLint ----------------------------
(***************************************************************************)
(* The capability lint as functions: what the detectors find in a source,  *)
(* and the gap between that and a declaration.  A source is a sequence of  *)
(* lines, a line what each pattern of its language's table finds in it; a  *)
(* declaration is, for each class, a set of entries.  Entries need not be  *)
(* valid: lint reads smithmark.yaml as it lies in the tree.                *)
(***************************************************************************)
EXTENDS Naturals, Sequences

CONSTANTS
  Languages,  \* the detectors: DetectJS, DetectPython
  Tables,     \* their pattern tables
  Names,      \* environment variables, the symbols that carry a name
  Constructs, \* fetch, child_process, process.env, ..., the other symbols
  Rank,       \* the byte order of the symbols; a name is spelled "env:NAME"
  Entries,    \* entries of a declaration
  Blank,      \* the empty string among them
  Covers      \* the names an env entry covers: itself, or those it is a prefix of

Classes == {"network", "filesystem", "exec", "env"}
Symbols == Names \cup Constructs

\* A pattern captures names, or reports its own symbol.
Pattern ==
  [class: Classes \ {"env"}, symbol: Constructs, captures: {FALSE}]
    \cup [class: {"env"}, symbol: Constructs, captures: BOOLEAN]

\* What the regular expressions find in a line: none of them looks further. A
\* line may be longer than the buffer of the scanner.
Line(T) ==
  [long: BOOLEAN,
   found: {f \in [DOMAIN T -> SUBSET Symbols] :
             \A p \in DOMAIN T :
               f[p] \subseteq IF T[p].captures THEN Names ELSE {T[p].symbol}}]

Declaration == [Classes -> SUBSET Entries]

ASSUME LintAssumption ==
  /\ Tables \in [Languages -> Seq(Pattern)]
  /\ \A l \in Languages : \A p, q \in DOMAIN Tables[l] :
       Tables[l][p].symbol = Tables[l][q].symbol
         => Tables[l][p].class = Tables[l][q].class
  /\ Names \cap Constructs = {}
  /\ Rank \in [Symbols -> Nat]
  /\ \A s, t \in Symbols : Rank[s] = Rank[t] => s = t
  /\ \A n \in Names, l \in Languages : \A p \in DOMAIN Tables[l] :
       Tables[l][p].class = "env" => Rank[n] < Rank[Tables[l][p].symbol]
  /\ Blank \in Entries
  /\ Covers \in [Entries -> SUBSET Names]

-----------------------------------------------------------------------------
\* The detectors.

\* One detection per class and line, except that every captured name is one.
fires(T, line, p) ==
  /\ line.found[p] # {}
  /\ \/ T[p].captures
     \/ \A q \in 1..(p - 1) : T[q].class = T[p].class => line.found[q] = {}

scanLine(T, line) ==
  {d \in [class: Classes, symbol: Symbols] :
     \E p \in DOMAIN T : /\ fires(T, line, p)
                         /\ d.class = T[p].class /\ d.symbol \in line.found[p]}

\* The scanner stops for good at a line that does not fit, and its error is not
\* asked for.
scannedLines(lines) ==
  {n \in DOMAIN lines : \A k \in 1..n : ~lines[k].long}

-----------------------------------------------------------------------------
\* The gap.

\* A blank entry declares nothing (anyDeclaredEgress and its three siblings).
anyDeclared(decl, class) == decl[class] \ {Blank} # {}

envDeclared(decl, name) ==
  \E e \in decl["env"] \ {Blank} : name \in Covers[e]

undeclared(decl, d) ==
  IF d.symbol \in Names THEN ~envDeclared(decl, d.symbol)
                        ELSE ~anyDeclared(decl, d.class)

severity(d) ==
  IF d.class \in {"network", "exec"} THEN "high"
  ELSE IF d.class = "env" /\ d.symbol \notin Names THEN "low" ELSE "medium"

\* Mutation: of a class and line the detection that sorts first speaks, whether
\* it is declared or not.
GapsOfLine_first(decl, detections) ==
  {[class |-> d.class, symbol |-> d.symbol, severity |-> severity(d)] :
     d \in {e \in detections :
              /\ undeclared(decl, e)
              /\ \A f \in detections :
                   f.class = e.class => Rank[e.symbol] <= Rank[f.symbol]}}

\* Gaps, for the detections of one line: of each class (that is, of each code)
\* the undeclared detection that sorts first becomes the finding, and the others
\* are duplicates of it.
GapsOfLine(decl, detections) ==
  {[class |-> d.class, symbol |-> d.symbol, severity |-> severity(d)] :
     d \in {e \in detections :
              /\ undeclared(decl, e)
              /\ \A f \in detections :
                   f.class = e.class /\ undeclared(decl, f)
                     => Rank[e.symbol] <= Rank[f.symbol]}}

-----------------------------------------------------------------------------
\* What lint is for, with no order of patterns, no gating and no duplicates.

\* A line uses something of a class that the declaration does not cover.
usesUndeclared(T, line, decl, class) ==
  \E p \in DOMAIN T : /\ T[p].class = class
                      /\ \E s \in line.found[p] :
                           undeclared(decl, [class |-> class, symbol |-> s])

\* A line names a variable that the declaration does not cover.
namesUndeclared(line, decl) ==
  \E p \in DOMAIN line.found :
    \E n \in line.found[p] \cap Names : ~envDeclared(decl, n)

\* What the findings of a line must be: one of a class exactly if the line uses
\* something undeclared of that class, never two, and about env a "medium" one
\* exactly if there is a variable to name.
isTheGap(T, line, decl, findings) ==
  /\ \A c \in Classes : (\E f \in findings : f.class = c)
                          <=> usesUndeclared(T, line, decl, c)
  /\ \A f, g \in findings : f.class = g.class => f = g
  /\ \A f \in findings : f.class = "env" =>
       (f.severity = "medium" <=> namesUndeclared(line, decl))
=============================================================================
