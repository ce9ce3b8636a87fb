---------------------------- MODULE LocalTree_proofs ----------------------------
(***************************************************************************)
(* Proofs about the capability lint, for every pattern table that keeps    *)
(* LintAssumption, every set of names and entries, every line and every    *)
(* declaration; and then about local trees, for every set of paths and     *)
(* contents, every order of edits and any number of them.                  *)
(***************************************************************************)
EXTENDS LocalTree, WellFoundedInduction, TLAPS

LEMMA LeastExists ==
  ASSUME NEW S \in SUBSET Nat, S # {}
  PROVE  \E m \in S : \A n \in S : m <= n
<1>. DEFINE R == {ss \in Nat \X Nat : ss[1] < ss[2]}
<1>1. IsWellFoundedOn(R, Nat)
  BY NatLessThanWellFounded DEF OpToRel
<1>. HIDE DEF R
<1>2. PICK m \in S : \A n \in S : ~(<<n, m>> \in R)
  BY <1>1, WFMin
<1>3. \A n \in S : ~(n < m)
  BY <1>2 DEF R
<1>. QED  BY <1>3

-----------------------------------------------------------------------------
\* Facts about the tables, the lines and the detections.

LEMMA TableFacts ==
  ASSUME NEW l \in Languages, NEW line \in Line(Tables[l]),
         NEW p \in DOMAIN Tables[l]
  PROVE  /\ p \in Nat \ {0} /\ 1..p \subseteq DOMAIN Tables[l]
         /\ Tables[l][p].class \in Classes /\ Tables[l][p].symbol \in Constructs
         /\ Tables[l][p].captures => Tables[l][p].class = "env"
         /\ line.found[p] \subseteq Symbols
         /\ IF Tables[l][p].captures THEN line.found[p] \subseteq Names
                                     ELSE line.found[p] \subseteq {Tables[l][p].symbol}
<1>. DEFINE T == Tables[l]
<1>1. T \in Seq(Pattern)
  BY LintAssumption
<1>2. p \in Nat \ {0} /\ 1..p \subseteq DOMAIN T /\ T[p] \in Pattern
  BY <1>1
<1>3. /\ T[p].class \in Classes /\ T[p].symbol \in Constructs
      /\ T[p].captures => T[p].class = "env"
  BY <1>2 DEF Pattern, Classes
<1>4. /\ line.found \in [DOMAIN T -> SUBSET Symbols]
      /\ line.found[p] \subseteq IF T[p].captures THEN Names ELSE {T[p].symbol}
  BY DEF Line
<1>. QED  BY <1>2, <1>3, <1>4

\* Only a pattern that captures finds a name, and only about env.
LEMMA NamesAreCaptured ==
  ASSUME NEW l \in Languages, NEW line \in Line(Tables[l]),
         NEW p \in DOMAIN Tables[l], NEW s \in line.found[p]
  PROVE  /\ s \in Names <=> Tables[l][p].captures
         /\ s \in Names => Tables[l][p].class = "env"
         /\ s \notin Names => s = Tables[l][p].symbol
BY TableFacts, LintAssumption

LEMMA DetectionFacts ==
  ASSUME NEW l \in Languages, NEW line \in Line(Tables[l]),
         NEW d \in scanLine(Tables[l], line)
  PROVE  /\ d.class \in Classes /\ d.symbol \in Symbols
         /\ d = [class |-> d.class, symbol |-> d.symbol]
         /\ \E p \in DOMAIN Tables[l] :
              Tables[l][p].class = d.class /\ d.symbol \in line.found[p]
BY DEF scanLine

LEMMA FiringDetects ==
  ASSUME NEW l \in Languages, NEW line \in Line(Tables[l]),
         NEW p \in DOMAIN Tables[l], fires(Tables[l], line, p),
         NEW s \in line.found[p]
  PROVE  [class |-> Tables[l][p].class, symbol |-> s] \in scanLine(Tables[l], line)
BY TableFacts DEF scanLine

LEMMA UndeclaredByFields ==
  ASSUME NEW declared, NEW c, NEW s
  PROVE  undeclared(declared, [class |-> c, symbol |-> s])
           <=> IF s \in Names THEN ~envDeclared(declared, s) ELSE ~anyDeclared(declared, c)
BY DEF undeclared

-----------------------------------------------------------------------------
\* One detection per class and line is enough: the others of the class that are
\* not reported are declared or stand for the same.
LEMMA UndeclaredUseIsDetected ==
  ASSUME NEW l \in Languages, NEW line \in Line(Tables[l]), NEW declared \in Declaration,
         NEW p \in DOMAIN Tables[l], NEW s \in line.found[p],
         undeclared(declared, [class |-> Tables[l][p].class, symbol |-> s])
  PROVE  \E d \in scanLine(Tables[l], line) :
           d.class = Tables[l][p].class /\ undeclared(declared, d)
<1>. DEFINE T == Tables[l]
            c == T[p].class
<1>1. CASE T[p].captures
  <2>1. fires(T, line, p)
    BY <1>1 DEF fires
  <2>. QED  BY <2>1, FiringDetects
<1>2. CASE ~T[p].captures
  <2>1. ~anyDeclared(declared, c)
    BY <1>2, NamesAreCaptured, UndeclaredByFields
  <2>. DEFINE Q == {q \in DOMAIN T : T[q].class = c /\ line.found[q] # {}}
  <2>2. Q \in SUBSET Nat /\ p \in Q
    BY TableFacts
  <2>3. PICK q \in Q : \A r \in Q : q <= r
    BY <2>2, LeastExists
  <2>4. q \in DOMAIN T /\ T[q].class = c /\ line.found[q] # {}
    BY <2>3
  <2>5. fires(T, line, q)
    <3>1. SUFFICES ASSUME NEW r \in 1..(q - 1), T[r].class = c, line.found[r] # {}
                   PROVE  FALSE
      BY <2>4 DEF fires
    <3>2. r \in DOMAIN T /\ r < q /\ q \in Nat
      BY <2>4, TableFacts
    <3>. QED  BY <2>3, <3>1, <3>2
  <2>6. PICK t \in line.found[q] : TRUE
    BY <2>4
  <2>7. [class |-> c, symbol |-> t] \in scanLine(T, line)
    BY <2>4, <2>5, FiringDetects
  <2>8. undeclared(declared, [class |-> c, symbol |-> t])
    <3>1. CASE t \in Names
      <4>1. c = "env"
        BY <2>4, <3>1, NamesAreCaptured
      <4>2. ~envDeclared(declared, t)
        BY <2>1, <4>1 DEF envDeclared, anyDeclared
      <4>. QED  BY <3>1, <4>2, UndeclaredByFields
    <3>2. CASE t \notin Names
      BY <2>1, <3>2, UndeclaredByFields
    <3>. QED  BY <3>1, <3>2
  <2>. QED  BY <2>7, <2>8
<1>. QED  BY <1>1, <1>2

\* Of the undeclared detections of a class one sorts first.
LEMMA OneSortsFirst ==
  ASSUME NEW l \in Languages, NEW line \in Line(Tables[l]), NEW declared \in Declaration,
         NEW e \in scanLine(Tables[l], line), undeclared(declared, e)
  PROVE  \E f \in GapsOfLine(declared, scanLine(Tables[l], line)) : f.class = e.class
<1>. DEFINE D == scanLine(Tables[l], line)
            U == {d \in D : d.class = e.class /\ undeclared(declared, d)}
            S == {Rank[d.symbol] : d \in U}
<1>1. S \in SUBSET Nat /\ S # {}
  BY DetectionFacts, LintAssumption
<1>2. PICK m \in S : \A n \in S : m <= n
  BY <1>1, LeastExists
<1>3. PICK d \in U : m = Rank[d.symbol]
  OBVIOUS
<1>4. \A f \in D : f.class = d.class /\ undeclared(declared, f)
                     => Rank[d.symbol] <= Rank[f.symbol]
  BY <1>2, <1>3
<1>5. [class |-> d.class, symbol |-> d.symbol, severity |-> severity(d)]
        \in GapsOfLine(declared, D)
  BY <1>4 DEF GapsOfLine
<1>. QED  BY <1>5

\* A finding is a detection that is undeclared and sorts first in its class.
LEMMA FindingIsADetection ==
  ASSUME NEW l \in Languages, NEW line \in Line(Tables[l]), NEW declared \in Declaration,
         NEW f \in GapsOfLine(declared, scanLine(Tables[l], line))
  PROVE  \E d \in scanLine(Tables[l], line) :
           /\ undeclared(declared, d)
           /\ f = [class |-> d.class, symbol |-> d.symbol, severity |-> severity(d)]
           /\ \A e \in scanLine(Tables[l], line) :
                e.class = d.class /\ undeclared(declared, e)
                  => Rank[d.symbol] <= Rank[e.symbol]
BY DEF GapsOfLine

LEMMA SeverityOfEnv ==
  ASSUME NEW d, d.class = "env"
  PROVE  severity(d) = "medium" <=> d.symbol \in Names
BY DEF severity

-----------------------------------------------------------------------------
\* The first match per class and line (scanSource) and the first finding per code
\* and line (Gaps) hide nothing of what they are meant to report: whatever the
\* patterns find in a line, there is a finding of a class exactly if the line uses
\* something of it that is not declared, it is the only one, and a variable that
\* can be named is named.
THEOREM NothingIsMasked ==
  ASSUME NEW l \in Languages, NEW line \in Line(Tables[l]), NEW declared \in Declaration
  PROVE  isTheGap(Tables[l], line, declared,
                  GapsOfLine(declared, scanLine(Tables[l], line)))
<1>. DEFINE T == Tables[l]
            D == scanLine(T, line)
            G == GapsOfLine(declared, D)
<1>1. ASSUME NEW f \in G
      PROVE  usesUndeclared(T, line, declared, f.class)
  <2>1. PICK d \in D : /\ undeclared(declared, d)
                       /\ f = [class |-> d.class, symbol |-> d.symbol,
                               severity |-> severity(d)]
    BY FindingIsADetection
  <2>2. PICK p \in DOMAIN T : T[p].class = d.class /\ d.symbol \in line.found[p]
    BY DetectionFacts
  <2>3. undeclared(declared, [class |-> d.class, symbol |-> d.symbol])
    BY <2>1, DetectionFacts
  <2>. QED  BY <2>1, <2>2, <2>3 DEF usesUndeclared
<1>2. ASSUME NEW c \in Classes, usesUndeclared(T, line, declared, c)
      PROVE  \E f \in G : f.class = c
  <2>1. PICK p \in DOMAIN T : /\ T[p].class = c
                             /\ \E s \in line.found[p] :
                                  undeclared(declared, [class |-> c, symbol |-> s])
    BY <1>2 DEF usesUndeclared
  <2>2. PICK d \in D : d.class = c /\ undeclared(declared, d)
    BY <2>1, UndeclaredUseIsDetected
  <2>. QED  BY <2>2, OneSortsFirst
<1>3. ASSUME NEW f \in G, NEW g \in G, f.class = g.class
      PROVE  f = g
  <2>1. PICK d \in D :
          /\ undeclared(declared, d)
          /\ f = [class |-> d.class, symbol |-> d.symbol, severity |-> severity(d)]
          /\ \A e \in D : e.class = d.class /\ undeclared(declared, e)
                            => Rank[d.symbol] <= Rank[e.symbol]
    BY FindingIsADetection
  <2>2. PICK e \in D :
          /\ undeclared(declared, e)
          /\ g = [class |-> e.class, symbol |-> e.symbol, severity |-> severity(e)]
          /\ \A h \in D : h.class = e.class /\ undeclared(declared, h)
                            => Rank[e.symbol] <= Rank[h.symbol]
    BY FindingIsADetection
  <2>3. /\ d.class = e.class
        /\ Rank[d.symbol] <= Rank[e.symbol] /\ Rank[e.symbol] <= Rank[d.symbol]
    BY <1>3, <2>1, <2>2
  <2>4. d.symbol = e.symbol
    BY <2>3, DetectionFacts, LintAssumption
  <2>5. d = e
    BY <2>3, <2>4, DetectionFacts
  <2>. QED  BY <2>1, <2>2, <2>5
<1>4. ASSUME NEW f \in G, f.class = "env"
      PROVE  f.severity = "medium" <=> namesUndeclared(line, declared)
  <2>1. PICK d \in D :
          /\ undeclared(declared, d)
          /\ f = [class |-> d.class, symbol |-> d.symbol, severity |-> severity(d)]
          /\ \A e \in D : e.class = d.class /\ undeclared(declared, e)
                            => Rank[d.symbol] <= Rank[e.symbol]
    BY FindingIsADetection
  <2>2. d.class = "env" /\ (f.severity = "medium" <=> d.symbol \in Names)
    BY <1>4, <2>1, SeverityOfEnv
  <2>3. PICK p \in DOMAIN T : T[p].class = d.class /\ d.symbol \in line.found[p]
    BY DetectionFacts
  <2>4. DOMAIN line.found = DOMAIN T
    BY DEF Line
  <2>5. ASSUME d.symbol \in Names
        PROVE  namesUndeclared(line, declared)
    BY <2>1, <2>3, <2>4, <2>5 DEF undeclared, namesUndeclared
  <2>6. ASSUME namesUndeclared(line, declared), d.symbol \notin Names
        PROVE  FALSE
    <3>0. PICK q \in DOMAIN T :
            \E n \in line.found[q] \cap Names : ~envDeclared(declared, n)
      BY <2>4, <2>6 DEF namesUndeclared
    <3>1. PICK n \in line.found[q] \cap Names : ~envDeclared(declared, n)
      BY <3>0
    <3>2. T[q].captures /\ T[q].class = "env"
      BY <3>1, NamesAreCaptured
    <3>3. fires(T, line, q)
      BY <3>1, <3>2 DEF fires
    <3>. DEFINE e == [class |-> "env", symbol |-> n]
    <3>4. e \in D
      BY <3>1, <3>2, <3>3, FiringDetects
    <3>5. undeclared(declared, e)
      BY <3>1, UndeclaredByFields
    <3>6. Rank[d.symbol] <= Rank[n]
      BY <2>1, <2>2, <3>4, <3>5
    <3>7. d.symbol = T[p].symbol
      BY <2>3, <2>6, NamesAreCaptured
    <3>8. Rank[n] < Rank[d.symbol]
      BY <2>2, <2>3, <3>1, <3>7, LintAssumption
    <3>9. Rank[n] \in Nat /\ Rank[d.symbol] \in Nat
      BY <3>1, DetectionFacts, LintAssumption DEF Symbols
    <3>. QED  BY <3>6, <3>8, <3>9
  <2>. QED  BY <2>2, <2>5, <2>6
<1>5. \A c \in Classes : (\E f \in G : f.class = c) <=> usesUndeclared(T, line, declared, c)
  BY <1>1, <1>2
<1>. QED  BY <1>3, <1>4, <1>5 DEF isTheGap

-----------------------------------------------------------------------------
\* Declaring more never brings a finding of a class the line had none of: the two
\* rules of suppression, one for names and one for everything else, agree on what
\* "more" is (Gaps).
THEOREM DeclaringMoreFindsLess ==
  ASSUME NEW l \in Languages, NEW line \in Line(Tables[l]),
         NEW declared \in Declaration, NEW more \in Declaration,
         \A c \in Classes : declared[c] \subseteq more[c],
         NEW f \in GapsOfLine(more, scanLine(Tables[l], line))
  PROVE  \E g \in GapsOfLine(declared, scanLine(Tables[l], line)) : g.class = f.class
<1>. DEFINE T == Tables[l]
            D == scanLine(T, line)
<1>1. PICK d \in D : undeclared(more, d) /\ f.class = d.class
  BY FindingIsADetection
<1>2. d.class \in Classes /\ "env" \in Classes
  BY DetectionFacts DEF Classes
<1>3. undeclared(declared, d)
  BY <1>1, <1>2 DEF undeclared, envDeclared, anyDeclared
<1>. QED  BY <1>1, <1>3, OneSortsFirst

\* A blank entry declares nothing, wherever it stands and whatever else is declared
\* (the "defensive hygiene" of Gaps).
THEOREM BlankDeclaresNothing ==
  ASSUME NEW detections, NEW declared \in Declaration, NEW same \in Declaration,
         \A c \in Classes : declared[c] \ {Blank} = same[c] \ {Blank},
         \A d \in detections : d.class \in Classes
  PROVE  GapsOfLine(declared, detections) = GapsOfLine(same, detections)
<1>1. \A d \in detections : undeclared(declared, d) <=> undeclared(same, d)
  BY DEF undeclared, envDeclared, anyDeclared, Classes
<1>. QED  BY <1>1 DEF GapsOfLine

-----------------------------------------------------------------------------
\* Local trees.

Sources == [path: {p \in Paths : Language[p] # "none"}, content: Contents]

Steps == {"load", "walk", "lintLoad", "lintList", "lintRead", "ended"}

\* What a walk comes to: files and directories.
Places == Paths \cup Dirs

LintTypeOK ==
  /\ tree \in [Roles -> [Paths -> Node]]
  /\ pc \in [Roles -> Steps] /\ exit \in [Roles -> 0..4]
  /\ todo \in [Roles -> SUBSET Places]
  /\ caps \in Declaration /\ sources \in SUBSET Sources

\* A target is a file of some language.
TargetOK == target # "" => target \in Paths /\ Language[target] # "none"

\* What is to be visited, T, is not visited yet, and no directory is that either lies
\* in: none of it can be listed once more.
Ahead(T, S) == T \cap S = {} /\ \A x \in T \cup S : Above[x] \cap T = {}

\* A path is read once, whatever is done to the tree.
ReadOnce ==
  /\ \A s, t \in sources : s.path = t.path => s = t
  /\ pc["consumer"] = "lintRead" =>
       /\ Ahead(todo["consumer"], {s.path : s \in sources})
       /\ \A p \in todo["consumer"] \cap Paths : Language[p] # "none"
  /\ pc["consumer"] \notin {"lintRead", "ended"} => sources = {}
  /\ pc["consumer"] \in {"lintLoad", "lintList"} => todo["consumer"] = {}

\* Whoever completed has reported on what was read.
Reported ==
  exit["consumer"] \in 0..2 =>
    pc["consumer"] = "ended" /\ findings = UNION {gapsOf(src) : src \in sources}

LintInv == LintTypeOK /\ TargetOK /\ ReadOnce /\ Reported

-----------------------------------------------------------------------------
LEMMA TargetStands == TargetOK /\ UNCHANGED target => TargetOK'
BY DEF TargetOK

LEMMA NextIsListed ==
  ASSUME LintTypeOK, NEW r \in Roles, todo[r] # {}
  PROVE  next(r) \in todo[r] /\ next(r) \in Places
<1>. DEFINE S == {Position[p] : p \in todo[r]}
<1>1. todo[r] \subseteq Places
  BY DEF LintTypeOK
<1>2. S \in SUBSET Nat /\ S # {}
  BY <1>1, TreeAssumption DEF Places
<1>3. PICK m \in S : \A n \in S : m <= n
  BY <1>2, LeastExists
<1>4. \E p \in todo[r] : \A q \in todo[r] : Position[p] <= Position[q]
  BY <1>3
<1>. QED  BY <1>1, <1>4 DEF next

LEMMA AheadAfterListing ==
  ASSUME NEW T \in SUBSET Places, NEW S \in SUBSET Places, Ahead(T, S), NEW d \in T,
         NEW E \in SUBSET Places, \A x \in E : Above[x] = Above[d] \cup {d}
  PROVE  Ahead((T \ {d}) \cup E, S)
<1>. DEFINE U == (T \ {d}) \cup E
<1>1. ASSUME NEW x \in T \cup S PROVE Above[x] \cap E = {}
  <2>1. SUFFICES ASSUME NEW e \in E, e \in Above[x] PROVE FALSE
    OBVIOUS
  <2>2. Above[e] \subseteq Above[x]
    BY <1>1, <2>1, AboveAssumption DEF Places
  <2>3. d \in Above[x]
    BY <2>1, <2>2
  <2>. QED  BY <1>1, <2>3 DEF Ahead
<1>2. ASSUME NEW x \in E PROVE Above[x] \cap U = {}
  <2>1. Above[d] \cap T = {} /\ Above[d] \cap E = {} /\ d \notin Above[d]
    BY <1>1, AboveAssumption DEF Ahead, Places
  <2>2. d \notin E
    BY <2>1
  <2>. QED  BY <1>2, <2>1, <2>2
<1>3. E \cap S = {}
  BY DEF Ahead
<1>. QED  BY <1>1, <1>2, <1>3 DEF Ahead

LEMMA AheadAfterReading ==
  ASSUME NEW T \in SUBSET Places, NEW S \in SUBSET Places, Ahead(T, S), NEW p \in T
  PROVE  Ahead(T \ {p}, S) /\ Ahead(T \ {p}, S \cup {p})
BY DEF Ahead

LEMMA AheadAtFirst ==
  ASSUME NEW x \in Places
  PROVE  Ahead({x}, {}) /\ Ahead({}, {})
BY AboveAssumption DEF Ahead, Places

LEMMA RootIsADirectory ==
  /\ Root \in Dirs /\ Root \in Places /\ Root \notin Paths /\ Root # "smithmark.yaml"
  /\ "smithmark.yaml" \in Paths
BY TreeAssumption DEF Places

LEMMA EntriesAreBelow ==
  ASSUME NEW r, NEW d
  PROVE  /\ entries(r, d) \in SUBSET Places
         /\ \A x \in entries(r, d) : Above[x] = Above[d] \cup {d}
BY DEF entries, Places

LEMMA LoadedIsADeclaration ==
  ASSUME NEW c \in DOMAIN DeclaredBy
  PROVE  DeclaredBy[c].caps \in Declaration
BY TreeAssumption DEF Declared

LEMMA NothingIsADeclaration == NothingDeclared.caps \in Declaration
BY DEF NothingDeclared, Declaration

LEMMA InitKeepsLintInv == Init => LintInv
<1>. SUFFICES ASSUME Init PROVE LintInv
  OBVIOUS
<1>1. tree \in [Roles -> [Paths -> Node]]
  <2>1. Trees \cup LintTrees \subseteq [Paths -> Node]
    BY TreeAssumption
  <2>2. \/ tree \in [Roles -> Trees]
        \/ \E t \in LintTrees : tree = [r \in Roles |-> t]
    BY DEF Init
  <2>. QED  BY <2>1, <2>2
<1>5. exit = [r \in Roles |-> 4] /\ todo = [r \in Roles |-> {}] /\ sources = {}
  BY DEF Init
<1>2. /\ exit \in [Roles -> 0..4] /\ exit["consumer"] = 4
      /\ todo \in [Roles -> SUBSET Places] /\ todo["consumer"] = {}
  BY <1>5 DEF Roles
<1>4. pc \in [Roles -> Steps] /\ pc["consumer"] \notin {"lintRead", "ended"}
  <2>1. \/ pc = [r \in Roles |-> "load"]
        \/ pc = [maker |-> "ended", consumer |-> "lintLoad"]
    BY DEF Init
  <2>. QED  BY <2>1 DEF Roles, Steps
<1>3. caps \in Declaration
  BY NothingIsADeclaration DEF Init
<1>6. TargetOK
  BY DEF Init, TargetOK
<1>. QED  BY <1>1, <1>2, <1>3, <1>4, <1>5, <1>6 DEF LintInv, LintTypeOK, ReadOnce, Reported

\* A step that leaves the lint of the consumer alone, and does not enter its end.
LEMMA OtherStepKeepsLintInv ==
  ASSUME LintInv, UNCHANGED <<target, caps, sources, findings>>,
         tree' \in [Roles -> [Paths -> Node]],
         pc' \in [Roles -> Steps], exit' \in [Roles -> 0..4],
         todo' \in [Roles -> SUBSET Places],
         \/ UNCHANGED <<pc["consumer"], exit["consumer"], todo["consumer"]>>
         \/ /\ pc["consumer"] \notin {"lintRead", "ended"}
            /\ pc'["consumer"] # "lintRead"
            /\ pc'["consumer"] \in {"lintLoad", "lintList"} => todo'["consumer"] = {}
            /\ exit'["consumer"] \in 3..4
  PROVE  LintInv'
<1>1. LintTypeOK' /\ TargetOK'
  BY TargetStands DEF LintInv, LintTypeOK
<1>2. ReadOnce'
  BY DEF LintInv, ReadOnce
<1>3. CASE UNCHANGED <<pc["consumer"], exit["consumer"], todo["consumer"]>>
  BY <1>1, <1>2, <1>3 DEF LintInv, Reported, gapsOf
<1>4. CASE exit'["consumer"] \in 3..4
  BY <1>1, <1>2, <1>4 DEF LintInv, Reported
<1>. QED  BY <1>3, <1>4

-----------------------------------------------------------------------------
LEMMA EndedAreLeft ==
  ASSUME NEW r \in Roles, NEW code \in 0..4, leave(r, code),
         pc \in [Roles -> Steps], exit \in [Roles -> 0..4]
  PROVE  /\ pc' \in [Roles -> Steps] /\ exit' \in [Roles -> 0..4]
         /\ pc'[r] = "ended" /\ exit'[r] = code
         /\ \A s \in Roles \ {r} : UNCHANGED <<pc[s], exit[s]>>
<1>1. pc' = [pc EXCEPT ![r] = "ended"] /\ exit' = [exit EXCEPT ![r] = code]
  BY DEF leave
<1>2. pc' \in [Roles -> Steps] /\ exit' \in [Roles -> 0..4]
  BY <1>1 DEF Steps
<1>. QED  BY <1>1, <1>2

LEMMA GoingTo ==
  ASSUME NEW r \in Roles, NEW step \in Steps, goto(r, step),
         pc \in [Roles -> Steps], exit \in [Roles -> 0..4]
  PROVE  /\ pc' \in [Roles -> Steps] /\ exit' \in [Roles -> 0..4]
         /\ pc'[r] = step /\ exit'[r] = exit[r]
         /\ \A s \in Roles \ {r} : UNCHANGED <<pc[s], exit[s]>>
BY DEF goto

\* Whoever has not ended has no code yet, and what has no code has not reported.
LEMMA RunningHasNoCode ==
  ASSUME LintInv, pc["consumer"] # "ended"
  PROVE  exit["consumer"] \in 3..4
<1>1. exit["consumer"] \in 0..4
  BY DEF LintInv, LintTypeOK, Roles
<1>2. exit["consumer"] \notin 0..2
  BY DEF LintInv, Reported
<1>. QED  BY <1>1, <1>2

\* What a step of a walk may do to the places to visit.
LEMMA WalkVisits ==
  ASSUME LintInv, NEW r \in Roles, Walk(r)
  PROVE  \E T \in SUBSET Places : todo' = [todo EXCEPT ![r] = T]
<1>1. todo \in [Roles -> SUBSET Places]
  BY DEF LintInv, LintTypeOK
<1>2. CASE UNCHANGED todo
  <2>1. todo' = [todo EXCEPT ![r] = todo[r]]
    BY <1>1, <1>2
  <2>. QED  BY <1>1, <2>1
<1>3. CASE todo' = [todo EXCEPT ![r] = {Root}]
  BY <1>3, RootIsADirectory
<1>4. CASE todo' = [todo EXCEPT ![r] = (@ \ {next(r)}) \cup entries(r, next(r))]
  <2>1. todo' = [todo EXCEPT ![r] = (todo[r] \ {next(r)}) \cup entries(r, next(r))]
    BY <1>1, <1>4
  <2>2. (todo[r] \ {next(r)}) \cup entries(r, next(r)) \in SUBSET Places
    BY <1>1, EntriesAreBelow
  <2>. QED  BY <2>1, <2>2
<1>5. CASE todo' = [todo EXCEPT ![r] = @ \ {next(r)}]
  <2>1. todo' = [todo EXCEPT ![r] = todo[r] \ {next(r)}]
    BY <1>1, <1>5
  <2>. QED  BY <1>1, <2>1
<1>. QED  BY <1>2, <1>3, <1>4, <1>5 DEF Walk, LoadDeclared, List, WalkSkill

LEMMA WalkKeepsLintInv ==
  ASSUME LintInv, NEW r \in Roles, Walk(r)
  PROVE  LintInv'
<1>. USE DEF Roles
<1>1. /\ pc \in [Roles -> Steps] /\ exit \in [Roles -> 0..4]
      /\ todo \in [Roles -> SUBSET Places] /\ tree \in [Roles -> [Paths -> Node]]
  BY DEF LintInv, LintTypeOK
<1>2. /\ UNCHANGED <<target, caps, sources, findings, tree>>
      /\ pc[r] \in {"load", "walk"}
  BY DEF Walk, LoadDeclared, List, WalkSkill, roleVars, lintVars
<1>3. \/ leave(r, 3) \/ goto(r, "walk") \/ UNCHANGED <<pc, exit>>
  BY DEF Walk, LoadDeclared, List, WalkSkill
<1>4. /\ pc' \in [Roles -> Steps] /\ exit' \in [Roles -> 0..4]
      /\ pc'[r] \in {"load", "walk", "ended"} /\ exit'[r] \in {3, exit[r]}
      /\ \A s \in Roles \ {r} : UNCHANGED <<pc[s], exit[s]>>
  BY <1>1, <1>2, <1>3, EndedAreLeft, GoingTo DEF Steps
<1>5. /\ todo' \in [Roles -> SUBSET Places]
      /\ \A s \in Roles \ {r} : UNCHANGED todo[s]
  BY <1>1, WalkVisits
<1>6. CASE r = "consumer"
  BY <1>1, <1>2, <1>4, <1>5, <1>6, RunningHasNoCode, OtherStepKeepsLintInv
<1>7. CASE r = "maker"
  BY <1>1, <1>2, <1>4, <1>5, <1>7, OtherStepKeepsLintInv
<1>. QED  BY <1>6, <1>7

LEMMA EditKeepsLintInv ==
  ASSUME LintInv, NEW r \in Roles, EditTree(r)
  PROVE  LintInv'
<1>1. tree' \in [Roles -> [Paths -> Node]]
  <2>1. PICK p \in Paths : \E node \in Edits[p] \ {tree[r][p]} :
          tree' = [tree EXCEPT ![r][p] = node]
    BY DEF EditTree
  <2>2. PICK node \in Edits[p] \ {tree[r][p]} : tree' = [tree EXCEPT ![r][p] = node]
    BY <2>1
  <2>3. node \in Node
    BY TreeAssumption
  <2>. QED  BY <2>2, <2>3 DEF LintInv, LintTypeOK
<1>2. UNCHANGED <<target, caps, sources, findings, pc, exit, todo>>
  BY DEF EditTree, roleVars, lintVars, walkVars
<1>. QED
  BY <1>1, <1>2, OtherStepKeepsLintInv DEF LintInv, LintTypeOK

LEMMA SignKeepsLintInv == ASSUME LintInv, Sign PROVE LintInv'
<1>. USE DEF Roles
<1>1. /\ pc \in [Roles -> Steps] /\ exit \in [Roles -> 0..4]
      /\ todo \in [Roles -> SUBSET Places] /\ tree \in [Roles -> [Paths -> Node]]
  BY DEF LintInv, LintTypeOK
<1>2. UNCHANGED <<target, caps, sources, findings, tree, todo>>
  BY DEF Sign, roleVars, lintVars
<1>3. leave("maker", 3) \/ leave("maker", 0)
  BY DEF Sign
<1>4. /\ pc' \in [Roles -> Steps] /\ exit' \in [Roles -> 0..4]
      /\ UNCHANGED <<pc["consumer"], exit["consumer"]>>
  BY <1>1, <1>3, EndedAreLeft
<1>. QED  BY <1>1, <1>2, <1>4, OtherStepKeepsLintInv

LEMMA IdentifyKeepsLintInv == ASSUME LintInv, Identify PROVE LintInv'
<1>. USE DEF Roles
<1>1. /\ pc \in [Roles -> Steps] /\ exit \in [Roles -> 0..4]
      /\ todo \in [Roles -> SUBSET Places] /\ tree \in [Roles -> [Paths -> Node]]
  BY DEF LintInv, LintTypeOK
<1>2. /\ UNCHANGED <<target, caps, sources, findings, tree, todo>>
      /\ pc["consumer"] = "walk" /\ todo["consumer"] = {}
  BY DEF Identify, roleVars, lintVars
<1>3. leave("consumer", 3) \/ goto("consumer", "lintLoad")
  BY DEF Identify
<1>4. /\ pc' \in [Roles -> Steps] /\ exit' \in [Roles -> 0..4]
      /\ pc'["consumer"] # "lintRead" /\ exit'["consumer"] \in 3..4
  BY <1>1, <1>2, <1>3, EndedAreLeft, GoingTo, RunningHasNoCode DEF Steps
<1>. QED  BY <1>1, <1>2, <1>4, OtherStepKeepsLintInv

LEMMA SkipLintKeepsLintInv == ASSUME LintInv, SkipLint PROVE LintInv'
<1>. USE DEF Roles
<1>1. /\ pc \in [Roles -> Steps] /\ exit \in [Roles -> 0..4]
      /\ sources = {} /\ pc["consumer"] = "lintLoad" /\ todo["consumer"] = {}
  BY DEF LintInv, LintTypeOK, ReadOnce, SkipLint
<1>2. UNCHANGED <<target, caps, sources, tree, todo>>
  BY DEF SkipLint, roleVars, walkVars
<1>3. /\ pc' \in [Roles -> Steps] /\ exit' \in [Roles -> 0..4]
      /\ pc'["consumer"] = "lintRead" /\ exit'["consumer"] \in 3..4
  BY <1>1, GoingTo, RunningHasNoCode DEF SkipLint, Steps
<1>4. Ahead({}, {})
  BY DEF Ahead
<1>. QED
  BY <1>1, <1>2, <1>3, <1>4, TargetStands DEF LintInv, LintTypeOK, ReadOnce, Reported

LEMMA LintLoadKeepsLintInv == ASSUME LintInv, LintLoad PROVE LintInv'
<1>. USE DEF Roles
<1>1. /\ pc \in [Roles -> Steps] /\ exit \in [Roles -> 0..4]
      /\ sources = {} /\ pc["consumer"] = "lintLoad" /\ caps \in Declaration
      /\ todo["consumer"] = {}
  BY DEF LintInv, LintTypeOK, ReadOnce, LintLoad
<1>2. UNCHANGED <<target, sources, tree, todo>>
  BY DEF LintLoad, roleVars, walkVars
<1>3. leave("consumer", 3) \/ goto("consumer", "lintList")
  BY DEF LintLoad
<1>4. /\ pc' \in [Roles -> Steps] /\ exit' \in [Roles -> 0..4]
      /\ pc'["consumer"] # "lintRead" /\ exit'["consumer"] \in 3..4
  BY <1>1, <1>3, EndedAreLeft, GoingTo, RunningHasNoCode DEF Steps
<1>5. caps' \in Declaration
  BY <1>1, LoadedIsADeclaration, NothingIsADeclaration DEF LintLoad, loads
<1>. QED
  BY <1>1, <1>2, <1>4, <1>5, TargetStands DEF LintInv, LintTypeOK, ReadOnce, Reported

LEMMA LintRootKeepsLintInv == ASSUME LintInv, LintRoot PROVE LintInv'
<1>. USE DEF Roles
<1>. DEFINE start == IF target = "" THEN Root ELSE target
<1>1. /\ pc \in [Roles -> Steps] /\ exit \in [Roles -> 0..4]
      /\ todo \in [Roles -> SUBSET Places]
      /\ sources = {} /\ pc["consumer"] = "lintList" /\ todo["consumer"] = {}
  BY DEF LintInv, LintTypeOK, ReadOnce, LintRoot
<1>2. UNCHANGED <<target, caps, sources, tree>>
  BY DEF LintRoot, roleVars, lintVars
<1>3. CASE leave("consumer", 3) /\ UNCHANGED todo
  <2>1. /\ pc' \in [Roles -> Steps] /\ exit' \in [Roles -> 0..4]
        /\ pc'["consumer"] = "ended" /\ exit'["consumer"] = 3
    BY <1>1, <1>3, EndedAreLeft
  <2>. QED
    BY <1>1, <1>2, <1>3, <2>1, TargetStands DEF LintInv, LintTypeOK, ReadOnce, Reported
<1>4. CASE /\ goto("consumer", "lintRead")
           /\ todo' = [todo EXCEPT !["consumer"] = {start}]
  <2>1. /\ pc' \in [Roles -> Steps] /\ exit' \in [Roles -> 0..4]
        /\ pc'["consumer"] = "lintRead" /\ exit'["consumer"] \in 3..4
    BY <1>1, <1>4, GoingTo, RunningHasNoCode DEF Steps
  <2>2. /\ start \in Places
        /\ start \in Paths => Language[start] # "none"
    BY RootIsADirectory DEF LintInv, TargetOK, Places
  <2>. HIDE DEF start
  <2>3. todo' \in [Roles -> SUBSET Places] /\ todo'["consumer"] = {start}
    BY <1>1, <1>4, <2>2
  <2>4. Ahead({start}, {})
    BY <2>2, AheadAtFirst
  <2>5. LintTypeOK'
    BY <1>2, <2>1, <2>3 DEF LintInv, LintTypeOK
  <2>6. {s.path : s \in sources} = {}
    BY <1>1
  <2>7. ReadOnce'
    BY <1>1, <1>2, <2>1, <2>2, <2>3, <2>4, <2>6 DEF ReadOnce
  <2>. QED  BY <1>2, <2>1, <2>5, <2>7, TargetStands DEF LintInv, Reported
<1>. QED  BY <1>3, <1>4 DEF LintRoot

LEMMA LintListKeepsLintInv == ASSUME LintInv, LintList PROVE LintInv'
<1>. USE DEF Roles
<1>0. PICK d : d = next("consumer")
  OBVIOUS
<1>. DEFINE T == todo["consumer"]
            S == {s.path : s \in sources}
<1>1. /\ pc \in [Roles -> Steps] /\ exit \in [Roles -> 0..4]
      /\ todo \in [Roles -> SUBSET Places]
      /\ pc["consumer"] = "lintRead"
      /\ Ahead(T, S) /\ S \in SUBSET Places /\ T \in SUBSET Places
      /\ \A p \in T \cap Paths : Language[p] # "none"
  <2>1. /\ pc["consumer"] = "lintRead" /\ LintTypeOK /\ ReadOnce
    BY DEF LintInv, LintList
  <2>2. S \in SUBSET Paths
    BY <2>1 DEF LintTypeOK, Sources
  <2>. QED  BY <2>1, <2>2 DEF LintTypeOK, ReadOnce, Places
<1>2. UNCHANGED <<target, caps, sources, tree>> /\ UNCHANGED S
  BY DEF LintList, roleVars
<1>3. d \in T
  BY <1>0, NextIsListed DEF LintInv, LintList
<1>4. CASE leave("consumer", 3) /\ UNCHANGED todo
  <2>1. /\ pc' \in [Roles -> Steps] /\ exit' \in [Roles -> 0..4]
        /\ pc'["consumer"] = "ended" /\ exit'["consumer"] = 3
    BY <1>1, <1>4, EndedAreLeft
  <2>. QED
    BY <1>1, <1>2, <1>4, <2>1, TargetStands DEF LintInv, LintTypeOK, ReadOnce, Reported
<1>5. ASSUME NEW E \in SUBSET sourceEntries(d), UNCHANGED <<pc, exit>>,
             todo' = [todo EXCEPT !["consumer"] = (@ \ {d}) \cup E]
      PROVE  LintInv'
  <2>1. /\ E \in SUBSET Places /\ \A x \in E : Above[x] = Above[d] \cup {d}
        /\ \A p \in E \cap Paths : Language[p] # "none"
    BY EntriesAreBelow DEF sourceEntries
  <2>2. /\ todo' \in [Roles -> SUBSET Places]
        /\ todo'["consumer"] = (T \ {d}) \cup E
    BY <1>1, <1>5, <2>1
  <2>3. Ahead((T \ {d}) \cup E, S)
    BY <1>1, <1>3, <2>1, AheadAfterListing
  <2>4. \A p \in ((T \ {d}) \cup E) \cap Paths : Language[p] # "none"
    BY <1>1, <2>1
  <2>5. LintTypeOK'
    BY <1>1, <1>2, <1>5, <2>2 DEF LintInv, LintTypeOK
  <2>6. ReadOnce'
    BY <1>1, <1>2, <1>5, <2>2, <2>3, <2>4 DEF LintInv, ReadOnce
  <2>7. Reported'
    BY <1>1, <1>5, RunningHasNoCode DEF Reported
  <2>. QED  BY <1>2, <2>5, <2>6, <2>7, TargetStands DEF LintInv
<1>6. \/ leave("consumer", 3) /\ UNCHANGED todo
      \/ UNCHANGED <<pc, exit>> /\ todo' = [todo EXCEPT !["consumer"] = @ \ {d}]
      \/ /\ UNCHANGED <<pc, exit>>
         /\ todo' = [todo EXCEPT !["consumer"] = (@ \ {d}) \cup sourceEntries(d)]
  BY <1>0 DEF LintList
<1>7. CASE UNCHANGED <<pc, exit>> /\ todo' = [todo EXCEPT !["consumer"] = @ \ {d}]
  <2>1. todo' = [todo EXCEPT !["consumer"] = (@ \ {d}) \cup {}]
    BY <1>7
  <2>2. {} \in SUBSET sourceEntries(d)
    OBVIOUS
  <2>. QED  BY <1>5, <1>7, <2>1, <2>2
<1>8. CASE /\ UNCHANGED <<pc, exit>>
           /\ todo' = [todo EXCEPT !["consumer"] = (@ \ {d}) \cup sourceEntries(d)]
  <2>1. sourceEntries(d) \in SUBSET sourceEntries(d)
    OBVIOUS
  <2>. QED  BY <1>5, <1>8, <2>1
<1>. QED  BY <1>4, <1>6, <1>7, <1>8

LEMMA LintReadKeepsLintInv == ASSUME LintInv, LintRead PROVE LintInv'
<1>. USE DEF Roles
<1>0. PICK p : p = next("consumer")
  OBVIOUS
<1>. DEFINE node == tree["consumer"][p]
            src == [path |-> p, content |-> node.content]
            T == todo["consumer"]
            S == {s.path : s \in sources}
<1>1. /\ pc \in [Roles -> Steps] /\ exit \in [Roles -> 0..4]
      /\ todo \in [Roles -> SUBSET Places] /\ tree \in [Roles -> [Paths -> Node]]
      /\ sources \in SUBSET Sources /\ pc["consumer"] = "lintRead"
      /\ Ahead(T, S) /\ S \in SUBSET Places /\ T \in SUBSET Places
      /\ \A q \in T \cap Paths : Language[q] # "none"
  <2>1. /\ pc["consumer"] = "lintRead" /\ LintTypeOK /\ ReadOnce
    BY DEF LintInv, LintRead
  <2>2. S \in SUBSET Paths
    BY <2>1 DEF LintTypeOK, Sources
  <2>. QED  BY <2>1, <2>2 DEF LintTypeOK, ReadOnce, Places
<1>2. UNCHANGED <<target, caps, tree>>
  BY DEF LintRead, roleVars
<1>3. /\ p \in T /\ p \in Paths
      /\ todo' = [todo EXCEPT !["consumer"] = @ \ {p}]
  BY <1>0, NextIsListed DEF LintInv, LintRead
<1>4. Language[p] # "none" /\ \A s \in sources : s.path # p
  BY <1>1, <1>3 DEF Ahead
<1>5. sources' = sources \cup {src} \/ sources' = sources
  BY <1>0 DEF LintRead
<1>6. src \in Sources
  <2>1. node \in Node
    BY <1>1, <1>3
  <2>. QED  BY <1>3, <1>4, <2>1 DEF Node, Sources
<1>7. /\ pc' \in [Roles -> Steps] /\ exit' \in [Roles -> 0..4]
      /\ pc'["consumer"] \in {"lintRead", "ended"} /\ exit'["consumer"] \in 3..4
  <2>1. leave("consumer", 3) \/ UNCHANGED <<pc, exit>>
    BY DEF LintRead
  <2>. QED  BY <1>1, <2>1, EndedAreLeft, RunningHasNoCode
<1>8. /\ todo' \in [Roles -> SUBSET Places]
      /\ todo'["consumer"] = T \ {p}
  BY <1>1, <1>3
<1>9. LintTypeOK'
  BY <1>1, <1>2, <1>5, <1>6, <1>7, <1>8 DEF LintInv, LintTypeOK
<1>10. \A s, t \in sources' : s.path = t.path => s = t
  BY <1>4, <1>5 DEF LintInv, ReadOnce
<1>11. S' = S \cup {p} \/ S' = S
  BY <1>5
<1>12. Ahead(T \ {p}, S) /\ Ahead(T \ {p}, S \cup {p})
  BY <1>1, <1>3, AheadAfterReading
<1>. HIDE DEF S
<1>13. Ahead(T \ {p}, S')
  BY <1>11, <1>12
<1>14. Ahead(T, S)'
  BY <1>8, <1>13 DEF Ahead
<1>15. \A q \in todo'["consumer"] \cap Paths : Language[q] # "none"
  BY <1>1, <1>8
<1>. QED
  BY <1>2, <1>7, <1>9, <1>10, <1>14, <1>15, TargetStands
  DEF LintInv, ReadOnce, Reported, S

LEMMA ReportKeepsLintInv == ASSUME LintInv, Report PROVE LintInv'
<1>. USE DEF Roles
<1>1. pc \in [Roles -> Steps] /\ exit \in [Roles -> 0..4] /\ pc["consumer"] = "lintRead"
  BY DEF LintInv, LintTypeOK, Report
<1>2. /\ UNCHANGED <<target, caps, tree, todo, sources>>
      /\ findings' = UNION {gapsOf(src) : src \in sources}
  BY DEF Report, roleVars, walkVars
<1>3. /\ exitCode \in 0..4
      /\ leave("consumer", exitCode) \/ leave("consumer", 3)
  BY DEF Report, exitCode
<1>4. /\ pc' \in [Roles -> Steps] /\ exit' \in [Roles -> 0..4]
      /\ pc'["consumer"] = "ended"
  BY <1>1, <1>3, EndedAreLeft
<1>5. LintTypeOK' /\ ReadOnce'
  BY <1>2, <1>4 DEF LintInv, LintTypeOK, ReadOnce
<1>6. Reported'
  BY <1>2, <1>4 DEF Reported, gapsOf
<1>. QED  BY <1>2, <1>5, <1>6, TargetStands DEF LintInv

LEMMA NextKeepsLintInv == LintInv /\ [Next]_vars => LintInv'
<1>. SUFFICES ASSUME LintInv, [Next]_vars PROVE LintInv'
  OBVIOUS
<1>1. ASSUME NEW r \in Roles, Walk(r) PROVE LintInv'
  BY <1>1, WalkKeepsLintInv
<1>2. ASSUME NEW r \in Roles, EditTree(r) PROVE LintInv'
  BY <1>2, EditKeepsLintInv
<1>3. CASE Sign
  BY <1>3, SignKeepsLintInv
<1>4. CASE Identify
  BY <1>4, IdentifyKeepsLintInv
<1>5. CASE Lint
  BY <1>5, SkipLintKeepsLintInv, LintLoadKeepsLintInv, LintRootKeepsLintInv,
     LintListKeepsLintInv, LintReadKeepsLintInv, ReportKeepsLintInv DEF Lint
<1>6. CASE UNCHANGED vars
  BY <1>6, TargetStands
  DEF vars, roleVars, walkVars, lintVars, LintInv, LintTypeOK, ReadOnce, Reported, gapsOf
<1>. QED  BY <1>1, <1>2, <1>3, <1>4, <1>5, <1>6 DEF Next

-----------------------------------------------------------------------------
\* The findings of one line are those of its source and number, since no path was
\* read twice.
LEMMA FindingsOfALine ==
  ASSUME LintInv, NEW src \in sources, exit["consumer"] \in 0..2,
         NEW n \in scannedLines(TextOf[Language[src.path]][src.content])
  PROVE  {f.gap : f \in {g \in findings : g.path = src.path /\ g.line = n}}
           = GapsOfLine(caps, scanLine(Tables[Language[src.path]],
                                       TextOf[Language[src.path]][src.content][n]))
<1>. DEFINE G == GapsOfLine(caps, scanLine(Tables[Language[src.path]],
                                           TextOf[Language[src.path]][src.content][n]))
<1>1. findings = UNION {gapsOf(s) : s \in sources}
  BY DEF LintInv, Reported
<1>2. \A s \in sources : \A f \in gapsOf(s) : f.path = s.path
  BY DEF gapsOf
<1>3. \A f \in findings : f.path = src.path => f \in gapsOf(src)
  BY <1>1, <1>2 DEF LintInv, ReadOnce
<1>4. \A f \in gapsOf(src) : f.line = n => f.gap \in G
  BY DEF gapsOf
<1>5. \A g \in G : [path |-> src.path, line |-> n, gap |-> g] \in gapsOf(src)
  BY DEF gapsOf
<1>. HIDE DEF G
<1>6. ASSUME NEW f \in findings, f.path = src.path, f.line = n PROVE f.gap \in G
  BY <1>3, <1>4, <1>6
<1>7. ASSUME NEW g \in G
      PROVE  \E f \in findings : f.path = src.path /\ f.line = n /\ f.gap = g
  <2>. DEFINE f == [path |-> src.path, line |-> n, gap |-> g]
  <2>1. f \in findings
    BY <1>1, <1>5
  <2>. QED  BY <2>1
<1>8. {f.gap : f \in {g \in findings : g.path = src.path /\ g.line = n}} = G
  BY <1>6, <1>7
<1>. QED  BY <1>8 DEF G

LEMMA LintInvGivesTheGap == LintInv => FindingsAreTheGap
<1>. SUFFICES ASSUME LintInv, exit["consumer"] \in 0..2
              PROVE  FindingsAreTheGap
  BY DEF FindingsAreTheGap
<1>1. ASSUME NEW src \in sources,
             NEW n \in scannedLines(TextOf[Language[src.path]][src.content])
      PROVE  isTheGap(Tables[Language[src.path]],
               TextOf[Language[src.path]][src.content][n], caps,
               {f.gap : f \in {g \in findings : g.path = src.path /\ g.line = n}})
  <2>. DEFINE l == Language[src.path]
              lines == TextOf[l][src.content]
  <2>1. src.path \in Paths /\ l \in Languages /\ src.content \in Contents
    BY TreeAssumption DEF LintInv, LintTypeOK, Sources
  <2>2. lines \in Seq(Line(Tables[l]))
    BY <2>1, TreeAssumption
  <2>3. n \in DOMAIN lines
    BY <1>1 DEF scannedLines
  <2>4. lines[n] \in Line(Tables[l])
    BY <2>2, <2>3
  <2>5. caps \in Declaration
    BY DEF LintInv, LintTypeOK
  <2>6. isTheGap(Tables[l], lines[n], caps, GapsOfLine(caps, scanLine(Tables[l], lines[n])))
    BY <2>1, <2>4, <2>5, NothingIsMasked
  <2>. QED  BY <2>6, FindingsOfALine
<1>2. ASSUME NEW f \in findings
      PROVE  \E src \in sources :
               /\ f.path = src.path
               /\ f.line \in scannedLines(TextOf[Language[src.path]][src.content])
  <2>1. PICK src \in sources : f \in gapsOf(src)
    BY DEF LintInv, Reported
  <2>. QED  BY <2>1 DEF gapsOf
<1>. QED  BY <1>1, <1>2 DEF FindingsAreTheGap

\* Whatever is edited while the tree is read, and however often, the findings of a
\* command that completes are exactly the gap between the sources it read and the
\* declaration it loaded (WalkSources, Gaps, Report).
THEOREM FindingsAlwaysTheGap == Spec => []FindingsAreTheGap
BY InitKeepsLintInv, NextKeepsLintInv, LintInvGivesTheGap, PTL DEF Spec

-----------------------------------------------------------------------------
\* The walks.

Files == [path: Paths, mode: {"executable", "regular"}, content: Contents]

yamlOf(r) == tree[r]["smithmark.yaml"]
regular(r) == {p \in Paths : tree[r][p].kind = "file"}

\* A file as the walk of a role sees it.
seen(r, p) ==
  [path |-> p, mode |-> mode(r, p), content |-> tree[r][p].content]

\* The role goes by the declaration in its tree, has met no link, and has seen the
\* files at these paths as they are.
Declares(r) ==
  loads(yamlOf(r)) /\ decl[r] = DeclaredBy[yamlOf(r).content]
NoLinks(r) == \A p \in Paths : tree[r][p].kind # "link"
Read(r, paths) ==
  /\ \A p \in paths : readable(tree[r][p])
  /\ got[r] = {seen(r, p) : p \in paths}

\* A path, or a directory it lies in, is to be visited.
pending(r, p) == ({p} \cup Above[p]) \cap todo[r] # {}

\* A walk has seen these paths, and has the others of the tree still before it.
Seen(r, paths) ==
  /\ Read(r, paths) /\ paths \subseteq regular(r) /\ todo[r] \cap Paths \subseteq regular(r)
  /\ \A p \in files(r) : p \in paths \/ pending(r, p)

\* The walk of a role came to its end.
Walked(r) == IF r = "maker" THEN exit["maker"] = 0 ELSE verified # "none"

\* A walk of a tree nobody edits sees all of it.
WalkInv(r) ==
  edits[r] = 0 =>
    /\ pc[r] = "load" => got[r] = {}
    /\ pc[r] = "walk" => Declares(r) /\ \E paths \in SUBSET Paths : Seen(r, paths)
    /\ Walked(r) => Declares(r) /\ NoLinks(r) /\ Read(r, files(r))

\* The order of the steps, edits or not: the consumer starts when the maker has
\* signed, and lints when the digests were compared. Only verify skips the lint.
OrderInv ==
  /\ edits \in [Roles -> Nat] /\ got \in [Roles -> SUBSET Files]
  /\ DOMAIN decl = Roles
  /\ command = "verify" => target = ""
  /\ \A r \in Roles : exit[r] # 4 => pc[r] = "ended"
  /\ pc["maker"] \in {"load", "walk", "ended"}
  /\ pc["consumer"] # "load" => pc["maker"] = "ended"
  /\ command = "verify" /\ pc["consumer"] # "load" => exit["maker"] = 0
  /\ verified # "none" => command = "verify"
  /\ Root \in notes => verified # "none"
  /\ pc["consumer"] \in {"load", "walk"} =>
       command = "verify" /\ verified = "none"
  /\ pc["consumer"] \in {"lintLoad", "lintList", "lintRead"} =>
       command = "lint" \/ verified # "none"

\* What the maker signed is what it saw and what it declared.
SignInv ==
  /\ signed # NothingSigned => exit["maker"] = 0
  /\ exit["maker"] = 0 =>
       /\ signed = [files |-> got["maker"], caps |-> decl["maker"].caps]
       /\ digestible("maker")
       /\ \A f \in got["maker"] : f.path = "SKILL.md" =>
            NameIn[f.content] \in {"", decl["maker"].name}
       /\ \A c \in Classes : decl["maker"].caps[c] \subseteq Admitted

\* The lint completed.
Linted == exit["consumer"] \in 0..2

scanned == {src.path : src \in sources}

\* What lint is to look at was scanned, is noted, or is still before it.
Covered ==
  /\ target = "" => \A p \in regular("consumer") \ Excluded :
       Language[p] # "none" => p \in scanned \/ skipped(p) \/ pending("consumer", p)
  /\ target # "" => target \in scanned \cup todo["consumer"]

\* The declaration lint goes by is the tree's, unless there was no lint.
Asked ==
  IF yamlOf("consumer").kind = "none" THEN "smithmark.yaml" \in notes
  ELSE /\ loads(yamlOf("consumer"))
       /\ caps = DeclaredBy[yamlOf("consumer").content].caps

\* The lint of a tree nobody edits takes it as it is: what it has loaded, read and
\* noted.
SourcesInv ==
  edits["consumer"] = 0 =>
    /\ pc["consumer"] \in {"lintList", "lintRead"} \/ Linted => Root \in notes \/ Asked
    /\ \A src \in sources : src.content = tree["consumer"][src.path].content
    /\ pc["consumer"] = "lintRead" \/ Linted => Covered
    /\ Linted => todo["consumer"] = {}

\* The consumer's tree is the maker's, as far as a verification asks.
Genuine ==
  /\ unedited /\ files("maker") = files("consumer")
  /\ \A p \in files("consumer") :
       /\ tree["maker"][p].content = tree["consumer"][p].content
       /\ readable(tree["consumer"][p]) /\ tree["consumer"][p].kind # "link"
       /\ \/ decl["maker"].listed
          \/ /\ tree["maker"][p].exec = tree["consumer"][p].exec
             /\ os["maker"] = os["consumer"]

\* What the exit code of the consumer stands for, and what cannot happen to a
\* genuine tree.
OutcomeInv ==
  /\ verified \in {"none", "match", "mismatch"}
  /\ verified = "match" => got["consumer"] = signed.files
  /\ command = "verify" /\ Linted =>
       /\ verified # "none"
       /\ exit["consumer"] = 1 <=> verified # "match"
       /\ exit["consumer"] = 0 => findings = {}
  /\ LintIsAdvisory
  /\ Genuine /\ exit["maker"] = 0 =>
       /\ verified \in {"none", "match"}
       /\ command = "verify" /\ fault = "none" => exit["consumer"] # 3

TreeInv ==
  /\ LintInv /\ OrderInv /\ SignInv /\ SourcesInv /\ OutcomeInv
  /\ \A r \in Roles : WalkInv(r)

-----------------------------------------------------------------------------
LEMMA InitKeepsTreeInv == Init => TreeInv
<1>. SUFFICES ASSUME Init PROVE TreeInv
  OBVIOUS
<1>. USE DEF Roles
<1>1. /\ edits = [r \in Roles |-> 0] /\ got = [r \in Roles |-> {}]
      /\ exit = [r \in Roles |-> 4] /\ verified = "none" /\ signed = NothingSigned
      /\ notes = {} /\ sources = {} /\ decl = [r \in Roles |-> NothingDeclared]
  BY DEF Init
<1>2. /\ command \in {"verify", "lint"}
      /\ pc = IF command = "verify" THEN [r \in Roles |-> "load"]
              ELSE [maker |-> "ended", consumer |-> "lintLoad"]
      /\ command = "verify" => target = ""
  BY DEF Init
<1>3. LintInv
  BY InitKeepsLintInv
<1>4. OrderInv
  <2>2. /\ edits \in [Roles -> Nat] /\ got \in [Roles -> SUBSET Files]
        /\ DOMAIN decl = Roles
    BY <1>1
  <2>3. /\ exit["maker"] = 4 /\ exit["consumer"] = 4
    BY <1>1
  <2>4. CASE command = "verify"
    BY <1>1, <1>2, <2>2, <2>3, <2>4 DEF OrderInv
  <2>5. CASE command = "lint"
    BY <1>1, <1>2, <2>2, <2>3, <2>5 DEF OrderInv
  <2>. QED  BY <1>2, <2>4, <2>5
<1>5. SignInv /\ SourcesInv /\ OutcomeInv
  <2>1. /\ exit["maker"] = 4 /\ exit["consumer"] = 4
        /\ pc["consumer"] \notin {"lintList", "lintRead"}
    BY <1>1, <1>2
  <2>. QED  BY <1>1, <2>1 DEF SignInv, SourcesInv, OutcomeInv, Linted, LintIsAdvisory
<1>6. ASSUME NEW r \in Roles PROVE WalkInv(r)
  <2>1. got[r] = {} /\ ~Walked(r)
    BY <1>1 DEF Walked
  <2>2. pc[r] # "walk"
    <3>1. \/ pc = [q \in Roles |-> "load"]
          \/ pc = [maker |-> "ended", consumer |-> "lintLoad"]
      BY <1>2
    <3>. QED  BY <3>1
  <2>. QED  BY <2>1, <2>2 DEF WalkInv
<1>. QED  BY <1>3, <1>4, <1>5, <1>6 DEF TreeInv

-----------------------------------------------------------------------------
\* What the parts need to stand.

LEMMA WalkInvStands ==
  ASSUME NEW r \in Roles, WalkInv(r),
         UNCHANGED <<tree[r], os[r], decl[r], got[r], edits[r]>>,
         \/ UNCHANGED <<pc[r], todo[r]>>
         \/ pc'[r] \notin {"load", "walk"},
         Walked(r)' => Walked(r)
  PROVE  WalkInv(r)'
<1>1. UNCHANGED files(r) /\ UNCHANGED regular(r)
  BY DEF files, regular
<1>2. Declares(r) => Declares(r)'
  BY DEF Declares, yamlOf, loads, readable
<1>3. NoLinks(r) => NoLinks(r)'
  BY DEF NoLinks
<1>4. ASSUME NEW ps PROVE Read(r, ps) => Read(r, ps)'
  BY DEF Read, seen, mode, readable
<1>5. Read(r, files(r)) => Read(r, files(r))'
  BY <1>1, <1>4 DEF Read
<1>6. ASSUME UNCHANGED todo[r], NEW ps PROVE Seen(r, ps) => Seen(r, ps)'
  BY <1>1, <1>4, <1>6 DEF Seen, pending
<1>. QED  BY <1>1, <1>2, <1>3, <1>5, <1>6 DEF WalkInv

LEMMA SignInvStands ==
  ASSUME SignInv, UNCHANGED <<signed, exit["maker"], got["maker"], decl["maker"]>>
  PROVE  SignInv'
BY DEF SignInv, digestible

\* What the lint of a tree that stays as it is has to do with it.
LEMMA SameTree ==
  ASSUME UNCHANGED tree["consumer"]
  PROVE  /\ UNCHANGED <<yamlOf("consumer"), regular("consumer"), files("consumer")>>
         /\ \A p : readable(tree["consumer"][p])' = readable(tree["consumer"][p])
         /\ loads(yamlOf("consumer"))' = loads(yamlOf("consumer"))
         /\ notes \subseteq notes' /\ UNCHANGED caps => (Asked => Asked')
<1>1. UNCHANGED <<yamlOf("consumer"), regular("consumer"), files("consumer")>>
  BY DEF yamlOf, regular, files
<1>2. /\ \A p : readable(tree["consumer"][p])' = readable(tree["consumer"][p])
      /\ loads(yamlOf("consumer"))' = loads(yamlOf("consumer"))
  BY <1>1 DEF loads, readable
<1>. QED  BY <1>1, <1>2 DEF Asked

LEMMA SourcesInvStands ==
  ASSUME SourcesInv, UNCHANGED <<target, tree["consumer"], edits["consumer"], notes,
                                 sources, caps>>,
         \/ UNCHANGED <<pc["consumer"], exit["consumer"], todo["consumer"]>>
         \/ pc'["consumer"] \notin {"lintList", "lintRead"} /\ exit'["consumer"] \in 3..4
  PROVE  SourcesInv'
<1>1. UNCHANGED regular("consumer") /\ (Asked => Asked')
  BY SameTree
<1>4. CASE UNCHANGED <<pc["consumer"], exit["consumer"], todo["consumer"]>>
  <2>1. Covered => Covered'
    BY <1>1, <1>4 DEF Covered, scanned, skipped, pending
  <2>. QED  BY <1>1, <1>4, <2>1 DEF SourcesInv, Linted
<1>5. CASE pc'["consumer"] \notin {"lintList", "lintRead"} /\ exit'["consumer"] \in 3..4
  <2>1. ~Linted'
    BY <1>5 DEF Linted
  <2>. QED  BY <1>1, <1>5, <2>1 DEF SourcesInv
<1>. QED  BY <1>4, <1>5

LEMMA GenuineStands ==
  ASSUME Genuine', UNCHANGED <<tree, edits, os, decl["maker"]>>
  PROVE  Genuine
BY DEF Genuine, unedited, files, readable

LEMMA AdvisoryStands ==
  ASSUME LintIsAdvisory, UNCHANGED <<command, target, verified, fault, exit["consumer"],
                                     tree["consumer"]>>
  PROVE  LintIsAdvisory'
BY SameTree DEF LintIsAdvisory, loads, readable, yamlOf

-----------------------------------------------------------------------------
\* Listing a directory loses nothing of what lies in it.
LEMMA ListingCovers ==
  ASSUME NEW d \in Dirs, NEW p \in Paths, d \in Above[p]
  PROVE  \E y \in {p} \cup Above[p] :
           /\ Above[y] = Above[d] \cup {d} /\ y \in Places
           /\ y \in Paths => y = p
<1>1. Above[p] \subseteq Dirs /\ Paths \cap Dirs = {}
  BY AboveAssumption, TreeAssumption
<1>2. PICK y \in {p} \cup Above[p] : Above[y] = Above[d] \cup {d}
  BY AboveAssumption
<1>. QED  BY <1>1, <1>2 DEF Places

LEMMA AboveAreDirectories ==
  ASSUME NEW p \in Paths
  PROVE  Above[p] \subseteq Dirs /\ p \notin Dirs /\ Root \in Above[p]
BY AboveAssumption, TreeAssumption

-----------------------------------------------------------------------------
\* The steps of the walks.

\* What the types and the order say of a role, ready for the steps below.
LEMMA TreeTypes ==
  ASSUME TreeInv
  PROVE  /\ pc \in [Roles -> Steps] /\ exit \in [Roles -> 0..4]
         /\ todo \in [Roles -> SUBSET Places] /\ tree \in [Roles -> [Paths -> Node]]
         /\ got \in [Roles -> SUBSET Files] /\ edits \in [Roles -> Nat]
         /\ DOMAIN decl = Roles
         /\ \A r \in Roles : pc[r] # "ended" => exit[r] = 4
BY DEF TreeInv, LintInv, LintTypeOK, OrderInv

\* Without links, what is there is what is a file.
LEMMA FilesWithoutLinks ==
  ASSUME TreeInv, NEW r \in Roles
  PROVE  /\ NoLinks(r) => files(r) = regular(r)
         /\ files(r) = regular(r) => NoLinks(r)
<1>1. \A p \in Paths : tree[r][p].kind \in {"none", "file", "link"}
  BY TreeTypes DEF Node
<1>. QED  BY <1>1 DEF files, NoLinks, regular

\* What a step of a walk does to its role, and that it does nothing else.
LEMMA WalkSteps ==
  ASSUME TreeInv, NEW r \in Roles, Walk(r)
  PROVE  /\ UNCHANGED <<roleVars, tree, edits, signed, verified, lintVars>>
         /\ \A s \in Roles \ {r} :
              UNCHANGED <<pc[s], exit[s], decl[s], todo[s], got[s]>>
         /\ pc[r] \in {"load", "walk"}
         /\ r = "consumer" => exit["maker"] = 0
         /\ pc'[r] \in {"walk", "ended"}
         /\ pc'[r] # "ended" => exit'[r] = 4
         /\ pc'[r] = "ended" => exit'[r] = 3
<1>. USE DEF Roles
<1>1. /\ UNCHANGED <<roleVars, tree, edits, signed, verified, lintVars>>
      /\ pc[r] \in {"load", "walk"}
  BY DEF Walk, LoadDeclared, List, WalkSkill
<1>2. \/ leave(r, 3) \/ goto(r, "walk")
      \/ pc[r] = "walk" /\ UNCHANGED <<pc, exit>>
  <2>1. CASE WalkSkill(r) \/ List(r)
    <3>1. pc[r] = "walk" /\ (leave(r, 3) \/ UNCHANGED <<pc, exit>>)
      BY <2>1 DEF WalkSkill, List
    <3>. QED  BY <3>1
  <2>2. CASE LoadDeclared(r)
    BY <2>2 DEF LoadDeclared
  <2>. QED  BY <2>1, <2>2 DEF Walk
<1>3. /\ pc'[r] \in {"walk", "ended"}
      /\ pc'[r] # "ended" => exit'[r] = 4
      /\ pc'[r] = "ended" => exit'[r] = 3
      /\ \A s \in Roles \ {r} : UNCHANGED <<pc[s], exit[s]>>
  BY <1>1, <1>2, TreeTypes, EndedAreLeft, GoingTo DEF Steps
<1>4. \A s \in Roles \ {r} : UNCHANGED <<decl[s], todo[s], got[s]>>
  <2>1. /\ UNCHANGED decl \/ \E d : decl' = [decl EXCEPT ![r] = d]
        /\ UNCHANGED got \/ \E d : got' = [got EXCEPT ![r] = d]
    <3>1. CASE LoadDeclared(r)
      BY <3>1 DEF LoadDeclared
    <3>2. CASE List(r)
      BY <3>2 DEF List
    <3>3. CASE WalkSkill(r)
      BY <3>3 DEF WalkSkill
    <3>. QED  BY <3>1, <3>2, <3>3 DEF Walk
  <2>2. \E T : todo' = [todo EXCEPT ![r] = T]
    BY WalkVisits DEF TreeInv
  <2>. QED  BY <2>1, <2>2, TreeTypes
<1>6. r = "consumer" => exit["maker"] = 0
  <2>1. CASE LoadDeclared(r)
    BY <2>1 DEF LoadDeclared
  <2>2. CASE List(r) \/ WalkSkill(r)
    <3>1. pc[r] = "walk"
      BY <2>2 DEF List, WalkSkill
    <3>. QED  BY <3>1 DEF TreeInv, OrderInv
  <2>. QED  BY <2>1, <2>2 DEF Walk
<1>. QED  BY <1>1, <1>3, <1>4, <1>6

\* A walk has just loaded, listed a directory, read a file, or failed.
LEMMA LoadGives ==
  ASSUME TreeInv, NEW r \in Roles, LoadDeclared(r)
  PROVE  /\ pc[r] = "load" /\ pc'[r] \in {"walk", "ended"}
         /\ UNCHANGED got[r]
         /\ pc'[r] = "walk" => Declares(r)' /\ todo'[r] = {Root}
         /\ pc'[r] = "ended" => ~loads(yamlOf(r)) /\ UNCHANGED decl[r]
<1>1. /\ pc[r] = "load" /\ UNCHANGED <<tree, got>>
  BY DEF LoadDeclared
<1>2. CASE /\ loads(yamlOf(r)) /\ goto(r, "walk")
           /\ decl' = [decl EXCEPT ![r] = DeclaredBy[yamlOf(r).content]]
           /\ todo' = [todo EXCEPT ![r] = {Root}]
  <2>1. pc'[r] = "walk"
    BY <1>2, TreeTypes, GoingTo DEF Steps
  <2>2. decl'[r] = DeclaredBy[yamlOf(r).content] /\ todo'[r] = {Root}
    BY <1>2, TreeTypes
  <2>. QED  BY <1>1, <1>2, <2>1, <2>2 DEF Declares, yamlOf, loads, readable
<1>3. CASE ~loads(yamlOf(r)) /\ leave(r, 3) /\ UNCHANGED decl
  <2>1. pc'[r] = "ended"
    BY <1>3, TreeTypes, EndedAreLeft
  <2>. QED  BY <1>1, <1>3, <2>1
<1>. QED  BY <1>2, <1>3 DEF LoadDeclared, yamlOf

LEMMA ListGives ==
  ASSUME TreeInv, NEW r \in Roles, NEW d, d = next(r), List(r)
  PROVE  /\ pc[r] = "walk" /\ pc'[r] \in {"walk", "ended"}
         /\ UNCHANGED <<decl[r], got[r]>>
         /\ d \in todo[r] /\ d \in Dirs
         /\ pc'[r] = "walk" =>
              linksIn(r, d) = {} /\ todo'[r] = (todo[r] \ {d}) \cup entries(r, d)
         /\ pc'[r] = "ended" => fault' # "none" \/ linksIn(r, d) # {}
<1>1. /\ pc[r] = "walk" /\ UNCHANGED <<tree, decl, got>>
      /\ d \in todo[r] /\ d \in Dirs
  BY NextIsListed DEF List, TreeInv, LintInv
<1>2. CASE leave(r, 3) /\ (fault' = "walk" \/ linksIn(r, d) # {})
  <2>1. pc'[r] = "ended"
    BY <1>2, TreeTypes, EndedAreLeft
  <2>. QED  BY <1>1, <1>2, <2>1
<1>3. CASE /\ linksIn(r, d) = {} /\ UNCHANGED <<pc, exit>>
           /\ todo' = [todo EXCEPT ![r] = (@ \ {d}) \cup entries(r, d)]
  <2>1. todo'[r] = (todo[r] \ {d}) \cup entries(r, d)
    BY <1>3, TreeTypes
  <2>. QED  BY <1>1, <1>3, <2>1
<1>. QED  BY <1>2, <1>3 DEF List

LEMMA ReadGives ==
  ASSUME TreeInv, NEW r \in Roles, WalkSkill(r)
  PROVE  /\ pc[r] = "walk" /\ pc'[r] \in {"walk", "ended"}
         /\ UNCHANGED decl[r]
         /\ next(r) \in todo[r] /\ next(r) \in Paths
         /\ pc'[r] = "walk" =>
              /\ readable(tree[r][next(r)])
              /\ got'[r] = got[r] \cup {seen(r, next(r))}
              /\ todo'[r] = todo[r] \ {next(r)}
         /\ pc'[r] = "ended" =>
              ~readable(tree[r][next(r)]) /\ UNCHANGED got[r]
<1>1. /\ pc[r] = "walk" /\ UNCHANGED decl
      /\ next(r) \in todo[r] /\ next(r) \in Paths
  BY NextIsListed DEF WalkSkill, TreeInv, LintInv
<1>2. CASE /\ readable(tree[r][next(r)]) /\ UNCHANGED <<pc, exit>>
           /\ got' = [got EXCEPT ![r] = @ \cup {seen(r, next(r))}]
           /\ todo' = [todo EXCEPT ![r] = @ \ {next(r)}]
  <2>1. /\ got'[r] = got[r] \cup {seen(r, next(r))}
        /\ todo'[r] = todo[r] \ {next(r)}
    BY <1>2, TreeTypes
  <2>. QED  BY <1>1, <1>2, <2>1
<1>3. CASE ~readable(tree[r][next(r)]) /\ leave(r, 3) /\ UNCHANGED got
  <2>1. pc'[r] = "ended"
    BY <1>3, TreeTypes, EndedAreLeft
  <2>. QED  BY <1>1, <1>3, <2>1
<1>. QED  BY <1>2, <1>3 DEF WalkSkill, seen

\* A directory is listed: whatever lay in it is known now, or lies in a directory
\* that is.
LEMMA SeenAfterListing ==
  ASSUME NEW r \in Roles, NEW paths, Seen(r, paths), NEW d \in todo[r] \cap Dirs,
         linksIn(r, d) = {}, todo'[r] = (todo[r] \ {d}) \cup entries(r, d),
         \A p \in Paths : tree[r][p].kind \in {"none", "file", "link"},
         UNCHANGED <<tree, os, decl[r], got[r]>>
  PROVE  Seen(r, paths)'
<1>1. Read(r, paths)' /\ UNCHANGED files(r) /\ UNCHANGED regular(r)
  BY DEF Seen, Read, seen, mode, readable, files, regular
<1>2. todo'[r] \cap Paths \subseteq regular(r)
  BY DEF Seen, entries, regular
<1>3. ASSUME NEW p \in files(r), p \notin paths PROVE pending(r, p)'
  <2>1. PICK x \in {p} \cup Above[p] : x \in todo[r]
    BY <1>3 DEF Seen, pending
  <2>2. p \in Paths /\ tree[r][p].kind # "none"
    BY DEF files
  <2>3. CASE x # d
    BY <2>1, <2>3 DEF pending
  <2>4. CASE x = d
    <3>1. d \in Above[p]
      BY <2>1, <2>2, <2>4, AboveAreDirectories
    <3>2. PICK y \in {p} \cup Above[p] :
            /\ Above[y] = Above[d] \cup {d} /\ y \in Places
            /\ y \in Paths => y = p
      BY <2>2, <3>1, ListingCovers
    <3>3. y \in Paths => tree[r][y].kind = "file"
      BY <2>2, <3>2 DEF linksIn
    <3>4. y \in entries(r, d)
      BY <3>2, <3>3 DEF entries, Places
    <3>. QED  BY <3>2, <3>4 DEF pending
  <2>. QED  BY <2>3, <2>4
<1>. QED  BY <1>1, <1>2, <1>3 DEF Seen

\* What is read of a tree is more with each file.
LEMMA SeenAfterReading ==
  ASSUME NEW r \in Roles, NEW paths, Seen(r, paths), NEW p \in todo[r] \cap Paths,
         readable(tree[r][p]), got'[r] = got[r] \cup {seen(r, p)},
         todo'[r] = todo[r] \ {p}, UNCHANGED <<tree, os, decl[r]>>
  PROVE  Seen(r, paths \cup {p})'
<1>1. UNCHANGED files(r) /\ UNCHANGED regular(r)
  BY DEF files, regular
<1>2. \A q \in paths \cup {p} : readable(tree[r][q])'
  BY DEF Seen, Read, readable
<1>3. got'[r] = {seen(r, q)' : q \in paths \cup {p}}
  <2>1. got'[r] = {seen(r, q) : q \in paths \cup {p}}
    BY DEF Seen, Read
  <2>2. \A q : seen(r, q)' = seen(r, q)
    BY DEF seen, mode
  <2>. QED  BY <2>1, <2>2
<1>4. ASSUME NEW q \in files(r), q \notin paths \cup {p} PROVE pending(r, q)'
  <2>1. PICK x \in {q} \cup Above[q] : x \in todo[r]
    BY <1>4 DEF Seen, pending
  <2>2. x # p
    BY <1>4, <2>1, AboveAreDirectories DEF files
  <2>. QED  BY <2>1, <2>2 DEF pending
<1>. QED  BY <1>1, <1>2, <1>3, <1>4 DEF Seen, Read

LEMMA SeenAtLast ==
  ASSUME TreeInv, NEW r \in Roles, NEW paths, Seen(r, paths), todo[r] = {}
  PROVE  NoLinks(r) /\ Read(r, files(r))
<1>1. files(r) \subseteq paths /\ paths \subseteq regular(r) /\ Read(r, paths)
  BY DEF Seen, pending
<1>2. regular(r) \subseteq files(r)
  BY DEF regular, files
<1>3. paths = files(r) /\ files(r) = regular(r)
  BY <1>1, <1>2
<1>4. NoLinks(r)
  BY <1>3, FilesWithoutLinks
<1>. QED  BY <1>1, <1>3, <1>4

LEMMA WalkKeepsWalkInv ==
  ASSUME TreeInv, NEW r \in Roles, Walk(r), NEW s \in Roles PROVE WalkInv(s)'
<1>. USE DEF Roles
<1>1. CASE s # r
  <2>1. UNCHANGED <<tree, os, edits, verified, pc[s], exit[s], decl[s], todo[s], got[s]>>
    BY <1>1, WalkSteps DEF roleVars
  <2>2. Walked(s)' => Walked(s)
    BY <2>1 DEF Walked
  <2>. QED  BY <2>1, <2>2, WalkInvStands DEF TreeInv
<1>2. CASE s = r
  <2>1. UNCHANGED <<tree, os, edits, verified>> /\ WalkInv(r)
    BY WalkSteps DEF TreeInv, roleVars
  <2>2. ~Walked(r)'
    <3>1. exit'[r] # 0
      BY WalkSteps
    <3>2. r = "consumer" => verified = "none"
      BY WalkSteps DEF TreeInv, OrderInv
    <3>. QED  BY <2>1, <3>1, <3>2 DEF Walked
  <2>3. UNCHANGED decl[r] /\ Declares(r) => Declares(r)'
    BY <2>1 DEF Declares, yamlOf, loads, readable
  <2>7. pc'[r] \in {"walk", "ended"}
    BY WalkSteps
  <2>8. SUFFICES ASSUME edits[r] = 0, pc'[r] = "walk"
                 PROVE  Declares(r)' /\ (\E paths \in SUBSET Paths : Seen(r, paths))'
    BY <1>2, <2>1, <2>2, <2>7 DEF WalkInv
  <2>4. CASE LoadDeclared(r)
    <3>1. pc[r] = "load" /\ UNCHANGED got[r] /\ Declares(r)' /\ todo'[r] = {Root}
      BY <2>4, <2>8, LoadGives
    <3>2. got'[r] = {}
      BY <2>1, <2>8, <3>1 DEF WalkInv
    <3>3. \A p \in files(r)' : pending(r, p)'
      BY <3>1, AboveAreDirectories DEF pending, files
    <3>4. Seen(r, {})'
      BY <3>1, <3>2, <3>3, RootIsADirectory DEF Seen, Read
    <3>. QED  BY <3>1, <3>4
  <2>5. CASE List(r)
    <3>0. PICK d : d = next(r)
      OBVIOUS
    <3>1. /\ pc[r] = "walk" /\ UNCHANGED <<decl[r], got[r]>>
          /\ d \in todo[r] /\ d \in Dirs /\ linksIn(r, d) = {}
          /\ todo'[r] = (todo[r] \ {d}) \cup entries(r, d)
      BY <2>5, <2>8, <3>0, ListGives
    <3>2. PICK paths \in SUBSET Paths : Seen(r, paths)
      BY <2>1, <2>8, <3>1 DEF WalkInv
    <3>3. \A p \in Paths : tree[r][p].kind \in {"none", "file", "link"}
      BY TreeTypes DEF Node
    <3>4. Seen(r, paths)'
      BY <2>1, <3>1, <3>2, <3>3, SeenAfterListing
    <3>5. Declares(r)'
      BY <2>1, <2>3, <2>8, <3>1 DEF WalkInv
    <3>. QED  BY <3>4, <3>5
  <2>6. CASE WalkSkill(r)
    <3>0. PICK p : p = next(r)
      OBVIOUS
    <3>1. /\ pc[r] = "walk" /\ UNCHANGED decl[r] /\ p \in todo[r] /\ p \in Paths
          /\ readable(tree[r][p])
          /\ got'[r] = got[r] \cup {seen(r, p)} /\ todo'[r] = todo[r] \ {p}
      BY <2>6, <2>8, <3>0, ReadGives
    <3>2. PICK paths \in SUBSET Paths : Seen(r, paths)
      BY <2>1, <2>8, <3>1 DEF WalkInv
    <3>4. Seen(r, paths \cup {p})'
      BY <2>1, <3>1, <3>2, SeenAfterReading
    <3>5. Declares(r)'
      BY <2>1, <2>3, <2>8, <3>1 DEF WalkInv
    <3>6. paths \cup {p} \in SUBSET Paths
      BY <3>1
    <3>. QED  BY <3>4, <3>5, <3>6
  <2>. QED  BY <2>4, <2>5, <2>6 DEF Walk
<1>. QED  BY <1>1, <1>2

LEMMA WalkKeepsOrderInv ==
  ASSUME TreeInv, NEW r \in Roles, Walk(r) PROVE OrderInv'
<1>. USE DEF Roles
<1>1. /\ UNCHANGED <<command, target, edits, verified, notes>>
      /\ \A s \in Roles \ {r} : UNCHANGED <<pc[s], exit[s], decl[s], got[s]>>
      /\ pc[r] \in {"load", "walk"} /\ (r = "consumer" => exit["maker"] = 0)
      /\ pc'[r] \in {"walk", "ended"}
      /\ pc'[r] # "ended" => exit'[r] = 4
  BY WalkSteps DEF roleVars, lintVars
<1>2. got' \in [Roles -> SUBSET Files]
  <2>1. CASE UNCHANGED got
    BY <2>1, TreeTypes
  <2>2. CASE WalkSkill(r)
    <3>1. tree[r][next(r)] \in Node /\ next(r) \in Paths
      BY <2>2, ReadGives, TreeTypes
    <3>2. seen(r, next(r)) \in Files
      BY <3>1 DEF Files, seen, mode, Node
    <3>3. UNCHANGED got \/ got' = [got EXCEPT ![r] = @ \cup {seen(r, next(r))}]
      BY <2>2 DEF WalkSkill, seen
    <3>. QED  BY <3>2, <3>3, TreeTypes
  <2>. QED  BY <2>1, <2>2 DEF Walk, LoadDeclared, List
<1>3. DOMAIN decl' = Roles
  <2>1. UNCHANGED decl \/ \E d : decl' = [decl EXCEPT ![r] = d]
    BY DEF Walk, LoadDeclared, List, WalkSkill
  <2>. QED  BY <2>1, TreeTypes
<1>4. CASE r = "maker"
  <2>1. /\ pc["maker"] # "ended" /\ pc["consumer"] = "load" /\ verified = "none"
    BY <1>1, <1>4 DEF TreeInv, OrderInv
  <2>2. UNCHANGED <<pc["consumer"], exit["consumer"]>>
    BY <1>1, <1>4
  <2>3. \A s \in Roles : exit'[s] # 4 => pc'[s] = "ended"
    BY <1>1, <1>4, <2>2 DEF TreeInv, OrderInv
  <2>4. UNCHANGED <<command, target, edits, verified, notes>>
        /\ pc'["maker"] \in {"load", "walk", "ended"}
    BY <1>1, <1>4
  <2>. QED  BY <1>2, <1>3, <2>1, <2>2, <2>3, <2>4 DEF TreeInv, OrderInv
<1>5. CASE r = "consumer"
  <2>0. UNCHANGED <<command, target, edits, verified, notes, pc["maker"], exit["maker"]>>
    BY <1>1, <1>5
  <2>1. /\ pc["maker"] = "ended" /\ exit["maker"] = 0
        /\ command = "verify" /\ verified = "none"
    <3>1. pc["consumer"] \in {"load", "walk"} /\ exit["maker"] = 0
      BY <1>1, <1>5
    <3>2. pc["maker"] = "ended"
      BY <3>1, TreeTypes
    <3>3. command = "verify" /\ verified = "none"
      BY <3>1 DEF TreeInv, OrderInv
    <3>. QED  BY <3>1, <3>2, <3>3
  <2>2. /\ pc'["consumer"] \in {"walk", "ended"}
        /\ exit'["consumer"] # 4 => pc'["consumer"] = "ended"
    BY <1>1, <1>5
  <2>. QED  BY <1>2, <1>3, <2>0, <2>1, <2>2 DEF TreeInv, OrderInv
<1>. QED  BY <1>4, <1>5

\* A genuine tree declares what the maker's does, and can be walked.
LEMMA GenuineCanBeWalked ==
  ASSUME TreeInv, Genuine, exit["maker"] = 0
  PROVE  /\ loads(yamlOf("consumer"))
         /\ DeclaredBy[yamlOf("consumer").content] = decl["maker"]
         /\ NoLinks("consumer")
         /\ \A p \in files("consumer") : readable(tree["consumer"][p])
<1>. USE DEF Roles
<1>1. Declares("maker") /\ Read("maker", files("maker"))
  BY DEF TreeInv, WalkInv, Walked, Genuine, unedited
<1>2. "smithmark.yaml" \in files("maker")
  BY <1>1, TreeAssumption DEF Declares, loads, readable, yamlOf, files
<1>3. /\ readable(yamlOf("consumer"))
      /\ yamlOf("maker").content = yamlOf("consumer").content
  BY <1>2 DEF Genuine, yamlOf
<1>4. NoLinks("consumer")
  BY DEF Genuine, NoLinks, files
<1>. QED  BY <1>1, <1>3, <1>4 DEF Declares, loads, Genuine

LEMMA GenuineStepsOn ==
  ASSUME TreeInv, Genuine, exit["maker"] = 0, Walk("consumer"), fault' = "none"
  PROVE  exit'["consumer"] # 3
<1>. USE DEF Roles
<1>0. edits["consumer"] = 0
  BY DEF Genuine, unedited
<1>1. CASE LoadDeclared("consumer")
  BY <1>1, LoadGives, WalkSteps, GenuineCanBeWalked
<1>2. CASE List("consumer")
  <2>1. \A d : linksIn("consumer", d) = {}
    BY GenuineCanBeWalked DEF linksIn, NoLinks
  <2>2. pc'["consumer"] # "ended"
    BY <1>2, <2>1, ListGives
  <2>. QED  BY <2>2, WalkSteps
<1>3. CASE WalkSkill("consumer")
  <2>1. next("consumer") \in files("consumer")
    <3>1. /\ pc["consumer"] = "walk" /\ next("consumer") \in todo["consumer"]
          /\ next("consumer") \in Paths
      BY <1>3, ReadGives
    <3>2. PICK paths \in SUBSET Paths : Seen("consumer", paths)
      BY <1>0, <3>1 DEF TreeInv, WalkInv
    <3>. QED  BY <3>1, <3>2 DEF Seen, regular, files
  <2>. QED  BY <1>3, <2>1, ReadGives, WalkSteps, GenuineCanBeWalked
<1>. QED  BY <1>1, <1>2, <1>3 DEF Walk

LEMMA WalkKeepsTreeInv ==
  ASSUME TreeInv, NEW r \in Roles, Walk(r) PROVE TreeInv'
<1>. USE DEF Roles
<1>1. LintInv' /\ OrderInv' /\ (\A s \in Roles : WalkInv(s))'
  BY WalkKeepsLintInv, WalkKeepsOrderInv, WalkKeepsWalkInv DEF TreeInv
<1>2. /\ UNCHANGED <<command, target, os, tree, edits, signed, verified>>
      /\ UNCHANGED <<caps, notes, sources, findings>>
      /\ pc[r] \in {"load", "walk"} /\ exit[r] = 4
      /\ pc'[r] \in {"walk", "ended"} /\ exit'[r] \in 3..4
      /\ \A s \in Roles \ {r} :
           UNCHANGED <<pc[s], exit[s], decl[s], todo[s], got[s]>>
  BY WalkSteps, TreeTypes DEF roleVars, lintVars
<1>3. CASE r = "maker"
  <2>1. exit["maker"] # 0 /\ exit'["maker"] # 0 /\ UNCHANGED signed
    BY <1>2, <1>3
  <2>5. SignInv'
    BY <2>1 DEF TreeInv, SignInv
  <2>2. SourcesInv'
    BY <1>2, <1>3, SourcesInvStands DEF TreeInv
  <2>3. /\ UNCHANGED <<got["consumer"], exit["consumer"], pc["consumer"]>>
        /\ exit'["maker"] # 0
    BY <1>2, <1>3
  <2>6. exit'["consumer"] = 4
    <3>1. pc["consumer"] = "load"
      BY <1>2, <1>3 DEF TreeInv, OrderInv
    <3>. QED  BY <2>3, <3>1, TreeTypes
  <2>4. OutcomeInv'
    BY <1>2, <2>3, <2>6 DEF TreeInv, OutcomeInv, Linted, LintIsAdvisory
  <2>. QED  BY <1>1, <2>2, <2>4, <2>5 DEF TreeInv
<1>4. CASE r = "consumer"
  <2>1. UNCHANGED <<pc["maker"], exit["maker"], decl["maker"], got["maker"]>>
    BY <1>2, <1>4
  <2>2. SignInv'
    BY <1>2, <2>1, SignInvStands DEF TreeInv
  <2>3. SourcesInv'
    BY <1>2, <1>4, SourcesInvStands DEF TreeInv
  <2>4. verified = "none" /\ command = "verify"
    BY <1>2, <1>4 DEF TreeInv, OrderInv
  <2>5. Genuine' /\ exit'["maker"] = 0 /\ fault' = "none" => exit'["consumer"] # 3
    BY <1>2, <1>4, <2>1, GenuineStands, GenuineStepsOn
  <2>6. OutcomeInv'
    BY <1>2, <1>4, <2>4, <2>5 DEF OutcomeInv, Linted, LintIsAdvisory
  <2>. QED  BY <1>1, <2>2, <2>3, <2>6 DEF TreeInv
<1>. QED  BY <1>3, <1>4

-----------------------------------------------------------------------------
\* The end of the maker's walk, and of the consumer's.

LEMMA WalkEnds ==
  ASSUME TreeInv, NEW r \in Roles, pc[r] = "walk", todo[r] = {}, edits[r] = 0
  PROVE  Declares(r) /\ NoLinks(r) /\ Read(r, files(r))
<1>1. Declares(r) /\ \E paths \in SUBSET Paths : Seen(r, paths)
  BY DEF TreeInv, WalkInv
<1>. QED  BY <1>1, SeenAtLast

LEMMA SignGives ==
  ASSUME TreeInv, Sign
  PROVE  /\ UNCHANGED <<roleVars, tree, edits, decl, todo, got, verified, lintVars>>
         /\ UNCHANGED <<pc["consumer"], exit["consumer"]>>
         /\ pc["maker"] = "walk" /\ todo["maker"] = {} /\ pc'["maker"] = "ended"
         /\ exit'["maker"] \in {0, 3}
         /\ exit'["maker"] # 0 => UNCHANGED signed
         /\ exit'["maker"] = 0 =>
              /\ signed' = [files |-> got["maker"], caps |-> decl["maker"].caps]
              /\ digestible("maker")
              /\ \A f \in got["maker"] : f.path = "SKILL.md" =>
                   NameIn[f.content] \in {"", decl["maker"].name}
              /\ \A c \in Classes : decl["maker"].caps[c] \subseteq Admitted
<1>. USE DEF Roles
<1>. DEFINE ok == /\ digestible("maker")
                  /\ \A f \in got["maker"] : f.path = "SKILL.md" =>
                       NameIn[f.content] \in {"", decl["maker"].name}
                  /\ \A c \in Classes : decl["maker"].caps[c] \subseteq Admitted
            says == [files |-> got["maker"], caps |-> decl["maker"].caps]
<1>1. /\ UNCHANGED <<roleVars, tree, edits, decl, todo, got, verified, lintVars>>
      /\ pc["maker"] = "walk" /\ todo["maker"] = {}
      /\ IF ok THEN signed' = says /\ leave("maker", 0)
               ELSE leave("maker", 3) /\ UNCHANGED signed
  BY DEF Sign
<1>. HIDE DEF ok, says
<1>2. CASE ok
  <2>1. /\ exit'["maker"] = 0 /\ pc'["maker"] = "ended"
        /\ UNCHANGED <<pc["consumer"], exit["consumer"]>>
    BY <1>1, <1>2, TreeTypes, EndedAreLeft
  <2>2. exit'["maker"] \in {0, 3}
    BY <2>1
  <2>. QED  BY <1>1, <1>2, <2>1, <2>2 DEF ok, says
<1>3. CASE ~ok
  <2>1. /\ exit'["maker"] = 3 /\ pc'["maker"] = "ended"
        /\ UNCHANGED <<pc["consumer"], exit["consumer"]>>
    BY <1>1, <1>3, TreeTypes, EndedAreLeft
  <2>2. exit'["maker"] \in {0, 3} /\ exit'["maker"] # 0
    BY <2>1
  <2>. QED  BY <1>1, <1>3, <2>1, <2>2
<1>. QED  BY <1>2, <1>3

LEMMA SignKeepsTreeInv == ASSUME TreeInv, Sign PROVE TreeInv'
<1>. USE DEF Roles
<1>1. /\ UNCHANGED <<command, target, os, tree, edits, decl, todo, got, verified>>
      /\ UNCHANGED <<caps, notes, sources, findings, pc["consumer"], exit["consumer"]>>
      /\ pc["maker"] = "walk" /\ todo["maker"] = {} /\ pc'["maker"] = "ended"
  BY SignGives DEF roleVars, lintVars
<1>2. /\ pc["consumer"] = "load" /\ verified = "none" /\ exit["maker"] = 4
      /\ exit["consumer"] = 4 /\ command = "verify"
  <2>1. pc["consumer"] = "load"
    BY <1>1 DEF TreeInv, OrderInv
  <2>2. verified = "none" /\ command = "verify"
    BY <2>1 DEF TreeInv, OrderInv
  <2>. QED  BY <1>1, <2>1, <2>2, TreeTypes
<1>3. OrderInv'
  BY <1>1, <1>2 DEF TreeInv, OrderInv
<1>4. SignInv'
  <2>1. signed = NothingSigned
    BY <1>2 DEF TreeInv, SignInv
  <2>2. CASE exit'["maker"] = 0
    BY <1>1, <2>2, SignGives DEF SignInv, digestible
  <2>3. CASE exit'["maker"] # 0
    BY <2>1, <2>3, SignGives DEF SignInv
  <2>. QED  BY <2>2, <2>3
<1>5. SourcesInv'
  BY <1>1, SourcesInvStands DEF TreeInv
<1>6. OutcomeInv'
  BY <1>1, <1>2 DEF OutcomeInv, Linted, LintIsAdvisory
<1>7. WalkInv("consumer")'
  BY <1>1, WalkInvStands DEF TreeInv, Walked
<1>8. WalkInv("maker")'
  <2>1. ASSUME edits["maker"] = 0
        PROVE  (Declares("maker") /\ NoLinks("maker") /\ Read("maker", files("maker")))'
    <3>1. Declares("maker") /\ NoLinks("maker") /\ Read("maker", files("maker"))
      BY <1>1, <2>1, WalkEnds
    <3>. QED
      BY <1>1, <3>1 DEF Declares, NoLinks, Read, files, yamlOf, loads, readable, seen, mode
  <2>. QED  BY <1>1, <2>1 DEF WalkInv
<1>. QED  BY <1>3, <1>4, <1>5, <1>6, <1>7, <1>8, SignKeepsLintInv DEF TreeInv

\* What is seen of a genuine tree is what was seen of the maker's.
LEMMA GenuineLooksTheSame ==
  ASSUME TreeInv, Genuine, exit["maker"] = 0,
         Declares("consumer"), Read("consumer", files("consumer"))
  PROVE  got["consumer"] = signed.files /\ digestible("consumer")
<1>. USE DEF Roles
<1>1. Read("maker", files("maker"))
  BY DEF TreeInv, WalkInv, Walked, Genuine, unedited
<1>2. /\ signed = [files |-> got["maker"], caps |-> decl["maker"].caps]
      /\ digestible("maker")
  BY DEF TreeInv, SignInv
<1>3. decl["consumer"] = decl["maker"]
  BY GenuineCanBeWalked DEF Declares
<1>4. \A p \in files("consumer") : seen("consumer", p) = seen("maker", p)
  BY <1>3 DEF Genuine, seen, mode
<1>5. files("consumer") = files("maker")
  BY DEF Genuine
<1>6. got["consumer"] = got["maker"]
  BY <1>1, <1>4, <1>5 DEF Read
<1>. QED  BY <1>2, <1>3, <1>6 DEF digestible

LEMMA IdentifyGives ==
  ASSUME TreeInv, Identify
  PROVE  /\ UNCHANGED <<roleVars, tree, edits, decl, todo, got, signed, lintVars>>
         /\ UNCHANGED <<pc["maker"], exit["maker"]>>
         /\ pc["consumer"] = "walk" /\ todo["consumer"] = {}
         /\ pc'["consumer"] \in {"lintLoad", "ended"}
         /\ pc'["consumer"] = "ended" =>
              ~digestible("consumer") /\ UNCHANGED verified /\ exit'["consumer"] = 3
         /\ pc'["consumer"] = "lintLoad" =>
              /\ exit'["consumer"] = 4
              /\ verified' = IF got["consumer"] = signed.files THEN "match"
                                                               ELSE "mismatch"
<1>. USE DEF Roles
<1>1. /\ UNCHANGED <<roleVars, tree, edits, decl, todo, got, signed, lintVars>>
      /\ pc["consumer"] = "walk" /\ todo["consumer"] = {}
  BY DEF Identify
<1>2. CASE /\ ~digestible("consumer") /\ UNCHANGED verified /\ leave("consumer", 3)
  <2>1. /\ exit'["consumer"] = 3 /\ pc'["consumer"] = "ended"
        /\ UNCHANGED <<pc["maker"], exit["maker"]>>
    BY <1>2, TreeTypes, EndedAreLeft
  <2>. QED  BY <1>1, <1>2, <2>1
<1>3. CASE /\ verified' = IF got["consumer"] = signed.files THEN "match" ELSE "mismatch"
           /\ goto("consumer", "lintLoad")
  <2>1. /\ exit'["consumer"] = exit["consumer"] /\ pc'["consumer"] = "lintLoad"
        /\ UNCHANGED <<pc["maker"], exit["maker"]>>
    BY <1>3, TreeTypes, GoingTo DEF Steps
  <2>2. exit["consumer"] = 4
    BY <1>1, TreeTypes
  <2>. QED  BY <1>1, <1>3, <2>1, <2>2
<1>. QED  BY <1>2, <1>3 DEF Identify

LEMMA IdentifyKeepsTreeInv == ASSUME TreeInv, Identify PROVE TreeInv'
<1>. USE DEF Roles
<1>1. /\ UNCHANGED <<command, target, os, tree, edits, decl, todo, got, signed>>
      /\ UNCHANGED <<caps, notes, sources, findings, pc["maker"], exit["maker"]>>
      /\ pc["consumer"] = "walk" /\ todo["consumer"] = {}
      /\ pc'["consumer"] \in {"lintLoad", "ended"} /\ exit'["consumer"] \in 3..4
  BY IdentifyGives DEF roleVars, lintVars
<1>2. /\ pc["maker"] = "ended" /\ verified = "none" /\ exit["maker"] = 0
      /\ command = "verify"
  BY <1>1 DEF TreeInv, OrderInv
<1>3. /\ pc'["consumer"] = "ended" => verified' = "none" /\ exit'["consumer"] = 3
      /\ pc'["consumer"] = "lintLoad" =>
           verified' \in {"match", "mismatch"} /\ exit'["consumer"] = 4
      /\ verified' = "match" => got["consumer"] = signed.files
  BY <1>1, <1>2, IdentifyGives
<1>4. OrderInv'
  BY <1>1, <1>2, <1>3 DEF TreeInv, OrderInv
<1>5. SignInv'
  BY <1>1, SignInvStands DEF TreeInv
<1>6. SourcesInv'
  BY <1>1, SourcesInvStands DEF TreeInv
<1>7. WalkInv("maker")'
  BY <1>1, WalkInvStands DEF TreeInv, Walked
<1>8. WalkInv("consumer")'
  <2>1. ASSUME edits["consumer"] = 0
        PROVE  (Declares("consumer") /\ NoLinks("consumer")
                /\ Read("consumer", files("consumer")))'
    <3>1. Declares("consumer") /\ NoLinks("consumer") /\ Read("consumer", files("consumer"))
      BY <1>1, <2>1, WalkEnds
    <3>. QED
      BY <1>1, <3>1 DEF Declares, NoLinks, Read, files, yamlOf, loads, readable, seen, mode
  <2>. QED  BY <1>1, <2>1 DEF WalkInv
<1>9. OutcomeInv'
  <2>1. ~Linted'
    BY <1>1 DEF Linted
  <2>2. LintIsAdvisory'
    <3>1. command' # "lint" /\ (exit'["consumer"] = 3 => verified' = "none")
      BY <1>1, <1>2, <1>3
    <3>. QED  BY <3>1 DEF LintIsAdvisory
  <2>3. ASSUME Genuine', exit'["maker"] = 0
        PROVE  verified' \in {"none", "match"} /\ exit'["consumer"] # 3
    <3>1. Genuine
      BY <1>1, <2>3, GenuineStands
    <3>2. edits["consumer"] = 0
      BY <3>1 DEF Genuine, unedited
    <3>3. Declares("consumer") /\ Read("consumer", files("consumer"))
      BY <1>1, <3>2, WalkEnds
    <3>4. got["consumer"] = signed.files /\ digestible("consumer")
      BY <1>2, <3>1, <3>3, GenuineLooksTheSame
    <3>5. pc'["consumer"] = "lintLoad"
      BY <1>1, <3>4, IdentifyGives
    <3>. QED  BY <1>3, <3>4, <3>5, IdentifyGives
  <2>. QED  BY <1>1, <1>2, <1>3, <2>1, <2>2, <2>3 DEF OutcomeInv
<1>. QED  BY <1>4, <1>5, <1>6, <1>7, <1>8, <1>9, IdentifyKeepsLintInv DEF TreeInv

-----------------------------------------------------------------------------
\* The lint and the edits.

\* A step of the lint leaves the walks and the signature alone.
LEMMA LintKeepsTheWalks ==
  ASSUME TreeInv,
         UNCHANGED <<command, target, os, tree, edits, decl, got, signed, verified>>,
         UNCHANGED <<pc["maker"], exit["maker"], todo["maker"]>>,
         pc["consumer"] \in {"lintLoad", "lintList", "lintRead"},
         pc'["consumer"] \in {"lintLoad", "lintList", "lintRead", "ended"},
         exit'["consumer"] # 4 => pc'["consumer"] = "ended",
         Root \in notes' => Root \in notes \/ command = "verify"
  PROVE  OrderInv' /\ SignInv' /\ \A r \in Roles : WalkInv(r)'
<1>. USE DEF Roles
<1>1. OrderInv'
  <2>1. /\ pc["maker"] = "ended" /\ (command = "lint" \/ verified # "none")
        /\ command = "verify" => exit["maker"] = 0
    BY DEF TreeInv, OrderInv
  <2>. QED  BY <2>1 DEF TreeInv, OrderInv
<1>2. SignInv'
  BY SignInvStands DEF TreeInv
<1>3. WalkInv("maker")' /\ WalkInv("consumer")'
  BY WalkInvStands DEF TreeInv, Walked
<1>. QED  BY <1>1, <1>2, <1>3

\* A step of the lint that leaves, or goes on.
LEMMA LintGoesOn ==
  ASSUME TreeInv, NEW step \in {"lintList", "lintRead"}, goto("consumer", step),
         pc["consumer"] # "ended"
  PROVE  /\ pc'["consumer"] = step /\ exit'["consumer"] = 4
         /\ UNCHANGED <<pc["maker"], exit["maker"]>>
BY TreeTypes, GoingTo DEF Steps, Roles

LEMMA LintLeaves ==
  ASSUME TreeInv, leave("consumer", 3)
  PROVE  /\ pc'["consumer"] = "ended" /\ exit'["consumer"] = 3
         /\ UNCHANGED <<pc["maker"], exit["maker"]>>
BY TreeTypes, EndedAreLeft DEF Roles

LEMMA NotLinted ==
  /\ exit'["consumer"] = 3 \/ exit'["consumer"] = 4 => exit'["consumer"] \in 3..4
  /\ exit'["consumer"] \in 3..4 => ~Linted'
BY DEF Linted

\* What the outcome asks of a step of the lint before its report: it may leave for a
\* declaration that does not load, for a fault, or, given a file, for that file.
LEMMA LintKeepsOutcome ==
  ASSUME TreeInv,
         UNCHANGED <<command, target, os, tree, edits, decl, got, signed, verified>>,
         UNCHANGED exit["maker"], exit'["consumer"] \in 3..4,
         exit'["consumer"] = 3 =>
           \/ target # "" \/ fault' \in {"root", "report"}
           \/ yamlOf("consumer").kind # "none" /\ ~loads(yamlOf("consumer"))
  PROVE  OutcomeInv'
<1>. USE DEF Roles
<1>1. ~Linted'
  BY NotLinted
<1>2. LintIsAdvisory'
  BY SameTree DEF LintIsAdvisory, yamlOf
<1>3. ASSUME Genuine', exit'["maker"] = 0
      PROVE  /\ verified' \in {"none", "match"}
             /\ command' = "verify" /\ fault' = "none" => exit'["consumer"] # 3
  <2>1. Genuine
    BY <1>3, GenuineStands
  <2>2. exit["maker"] = 0
    BY <1>3
  <2>3. loads(yamlOf("consumer"))
    BY <2>1, <2>2, GenuineCanBeWalked
  <2>4. command = "verify" => target = ""
    BY DEF TreeInv, OrderInv
  <2>5. verified \in {"none", "match"}
    BY <2>1, <2>2 DEF TreeInv, OutcomeInv
  <2>. QED  BY <2>3, <2>4, <2>5
<1>. QED  BY <1>1, <1>2, <1>3 DEF TreeInv, OutcomeInv

LEMMA NoSourcesYet ==
  ASSUME TreeInv, pc["consumer"] \in {"lintLoad", "lintList"}
  PROVE  sources = {} /\ todo["consumer"] = {}
BY DEF TreeInv, LintInv, ReadOnce

LEMMA SkipLintKeepsTreeInv == ASSUME TreeInv, SkipLint PROVE TreeInv'
<1>. USE DEF Roles
<1>1. /\ UNCHANGED <<command, target, os, tree, edits, decl, got, signed, verified, todo>>
      /\ UNCHANGED <<caps, sources>> /\ pc["consumer"] = "lintLoad"
      /\ exit["consumer"] = 4 /\ command = "verify"
      /\ notes' = notes \cup {Root}
  BY TreeTypes DEF SkipLint, roleVars, walkVars
<1>2. /\ UNCHANGED <<pc["maker"], exit["maker"]>>
      /\ pc'["consumer"] = "lintRead" /\ exit'["consumer"] = 4
  BY <1>1, LintGoesOn DEF SkipLint
<1>3. OrderInv' /\ SignInv' /\ \A r \in Roles : WalkInv(r)'
  BY <1>1, <1>2, LintKeepsTheWalks
<1>4. SourcesInv'
  <2>1. sources = {} /\ target = ""
    BY <1>1, NoSourcesYet DEF TreeInv, OrderInv
  <2>2. \A p \in Paths : skipped(p)'
    BY <1>1, AboveAreDirectories DEF skipped
  <2>3. Covered'
    BY <1>1, <2>1, <2>2 DEF Covered, regular
  <2>4. ~Linted'
    BY <1>2, NotLinted
  <2>. QED  BY <1>1, <2>1, <2>3, <2>4 DEF SourcesInv
<1>5. OutcomeInv'
  BY <1>1, <1>2, LintKeepsOutcome
<1>. QED  BY <1>3, <1>4, <1>5, SkipLintKeepsLintInv DEF TreeInv

LEMMA LintLoadKeepsTreeInv == ASSUME TreeInv, LintLoad PROVE TreeInv'
<1>. USE DEF Roles
<1>. DEFINE node == yamlOf("consumer")
<1>1. /\ UNCHANGED <<command, target, os, tree, edits, decl, got, signed, verified, todo>>
      /\ UNCHANGED <<sources, findings, fault>> /\ pc["consumer"] = "lintLoad"
      /\ exit["consumer"] = 4
  BY TreeTypes DEF LintLoad, roleVars, walkVars
<1>2. \/ /\ node.kind = "none" /\ notes' = notes \cup {"smithmark.yaml"}
         /\ goto("consumer", "lintList")
      \/ /\ loads(node) /\ UNCHANGED notes /\ caps' = DeclaredBy[node.content].caps
         /\ goto("consumer", "lintList")
      \/ /\ node.kind # "none" /\ ~loads(node) /\ UNCHANGED notes
         /\ leave("consumer", 3)
  BY DEF LintLoad, yamlOf
<1>3. /\ UNCHANGED <<pc["maker"], exit["maker"]>>
      /\ \/ /\ node.kind = "none" /\ notes' = notes \cup {"smithmark.yaml"}
            /\ pc'["consumer"] = "lintList" /\ exit'["consumer"] = 4
         \/ /\ loads(node) /\ UNCHANGED notes /\ caps' = DeclaredBy[node.content].caps
            /\ pc'["consumer"] = "lintList" /\ exit'["consumer"] = 4
         \/ /\ node.kind # "none" /\ ~loads(node) /\ UNCHANGED notes
            /\ pc'["consumer"] = "ended" /\ exit'["consumer"] = 3
  BY <1>1, <1>2, LintLeaves, LintGoesOn
<1>4. OrderInv' /\ SignInv' /\ \A r \in Roles : WalkInv(r)'
  BY <1>1, <1>3, LintKeepsTheWalks, RootIsADirectory
<1>5. UNCHANGED node /\ loads(node)' = loads(node)
  BY <1>1, SameTree
<1>6. ~Linted' /\ pc'["consumer"] # "lintRead" /\ exit'["consumer"] \in 3..4
  <2>1. exit'["consumer"] = 3 \/ exit'["consumer"] = 4
    BY <1>3
  <2>2. pc'["consumer"] # "lintRead"
    BY <1>3
  <2>. QED  BY <2>1, <2>2, NotLinted
<1>7. SourcesInv'
  <2>1. pc'["consumer"] = "lintList" => Asked'
    <3>1. loads(node) => node.kind # "none"
      BY DEF loads, readable
    <3>. QED  BY <1>3, <1>5, <3>1 DEF Asked
  <2>2. sources' = {}
    BY <1>1, NoSourcesYet
  <2>. QED  BY <1>6, <2>1, <2>2 DEF SourcesInv
<1>8. OutcomeInv'
  <2>1. exit'["consumer"] = 3 => node.kind # "none" /\ ~loads(node)
    BY <1>3
  <2>. QED  BY <1>1, <1>3, <1>6, <2>1, LintKeepsOutcome
<1>. QED  BY <1>4, <1>7, <1>8, LintLoadKeepsLintInv DEF TreeInv

LEMMA LintRootKeepsTreeInv == ASSUME TreeInv, LintRoot PROVE TreeInv'
<1>. USE DEF Roles
<1>. DEFINE start == IF target = "" THEN Root ELSE target
<1>1. /\ UNCHANGED <<command, target, os, tree, edits, decl, got, signed, verified>>
      /\ UNCHANGED <<caps, notes, sources>> /\ pc["consumer"] = "lintList"
      /\ exit["consumer"] = 4
  BY TreeTypes DEF LintRoot, roleVars, lintVars
<1>2. UNCHANGED todo["maker"]
  BY TreeTypes DEF LintRoot
<1>3. /\ UNCHANGED <<pc["maker"], exit["maker"]>>
      /\ \/ /\ fault' = "root" /\ pc'["consumer"] = "ended"
            /\ exit'["consumer"] = 3
         \/ /\ pc'["consumer"] = "lintRead" /\ todo'["consumer"] = {start}
            /\ exit'["consumer"] = 4
  <2>1. CASE leave("consumer", 3) /\ fault' = "root"
    BY <2>1, LintLeaves
  <2>2. CASE /\ goto("consumer", "lintRead")
             /\ todo' = [todo EXCEPT !["consumer"] = {start}]
    <3>1. todo'["consumer"] = {start}
      BY <2>2, TreeTypes
    <3>. QED  BY <1>1, <2>2, <3>1, LintGoesOn
  <2>. QED  BY <2>1, <2>2 DEF LintRoot
<1>4. OrderInv' /\ SignInv' /\ \A r \in Roles : WalkInv(r)'
  BY <1>1, <1>2, <1>3, LintKeepsTheWalks
<1>6. exit'["consumer"] \in 3..4 /\ ~Linted'
  <2>1. exit'["consumer"] = 3 \/ exit'["consumer"] = 4
    BY <1>3
  <2>. QED  BY <2>1, NotLinted
<1>7. SourcesInv'
  <2>1. Asked => Asked'
    BY <1>1, SameTree
  <2>2. sources = {}
    BY <1>1, NoSourcesYet
  <2>3. pc'["consumer"] = "lintRead" => Covered'
    <3>1. ASSUME pc'["consumer"] = "lintRead", target = "", NEW p \in Paths
          PROVE  pending("consumer", p)'
      <4>1. Root \in todo'["consumer"]
        BY <1>3, <3>1
      <4>. QED  BY <4>1, AboveAreDirectories DEF pending
    <3>2. ASSUME pc'["consumer"] = "lintRead", target # ""
          PROVE  target \in todo'["consumer"]
      BY <1>3, <3>2
    <3>. QED  BY <1>1, <3>1, <3>2 DEF Covered, regular
  <2>. QED  BY <1>1, <1>3, <1>6, <2>1, <2>2, <2>3 DEF TreeInv, SourcesInv
<1>8. OutcomeInv'
  <2>1. exit'["consumer"] = 3 => fault' = "root"
    <3>1. 3 # 4
      OBVIOUS
    <3>. QED  BY <1>3, <3>1
  <2>. QED  BY <1>1, <1>3, <1>6, <2>1, LintKeepsOutcome
<1>. QED  BY <1>4, <1>7, <1>8, LintRootKeepsLintInv DEF TreeInv

\* A directory of the sources is listed: what lay in it is before the lint now.
LEMMA CoveredAfterListing ==
  ASSUME Covered, NEW d \in todo["consumer"] \cap Dirs,
         todo'["consumer"] = (todo["consumer"] \ {d}) \cup sourceEntries(d),
         target \in Paths \/ target = "",
         UNCHANGED <<target, tree, notes, sources>>
  PROVE  Covered'
<1>1. UNCHANGED regular("consumer") /\ UNCHANGED scanned
  BY DEF regular, scanned
<1>2. ASSUME NEW p \in regular("consumer") \ Excluded, Language[p] # "none",
             pending("consumer", p)
      PROVE  pending("consumer", p)'
  <2>1. PICK x \in {p} \cup Above[p] : x \in todo["consumer"]
    BY <1>2 DEF pending
  <2>2. p \in Paths /\ tree["consumer"][p].kind = "file"
    BY DEF regular
  <2>3. CASE x # d
    BY <2>1, <2>3 DEF pending
  <2>4. CASE x = d
    <3>1. d \in Above[p]
      BY <2>1, <2>2, <2>4, AboveAreDirectories
    <3>2. PICK y \in {p} \cup Above[p] :
            /\ Above[y] = Above[d] \cup {d} /\ y \in Places
            /\ y \in Paths => y = p
      BY <2>2, <3>1, ListingCovers
    <3>3. y \in entries("consumer", d)
      BY <2>2, <3>2 DEF entries, Places
    <3>4. y \notin Excluded
      BY <1>2, <2>2, <3>2, TreeAssumption
    <3>5. y \in sourceEntries(d)
      BY <1>2, <3>2, <3>3, <3>4 DEF sourceEntries
    <3>. QED  BY <3>2, <3>5 DEF pending
  <2>. QED  BY <2>3, <2>4
<1>3. ASSUME target # "" PROVE target \in scanned \cup todo'["consumer"]
  <2>1. target # d
    BY <1>3, TreeAssumption
  <2>. QED  BY <1>3, <2>1 DEF Covered
<1>. QED  BY <1>1, <1>2, <1>3 DEF Covered, skipped

\* A place is noted, and with it what lies in it.
LEMMA CoveredAfterNoting ==
  ASSUME Covered, NEW x \in todo["consumer"], target = "" \/ x # target,
         todo'["consumer"] = todo["consumer"] \ {x}, notes' = notes \cup {x},
         UNCHANGED <<target, tree, sources>>
  PROVE  Covered'
<1>1. UNCHANGED regular("consumer") /\ UNCHANGED scanned
  BY DEF regular, scanned
<1>2. \A p : skipped(p) => skipped(p)'
  BY DEF skipped
<1>3. ASSUME NEW p, pending("consumer", p)
      PROVE  skipped(p)' \/ pending("consumer", p)'
  BY <1>3 DEF pending, skipped
<1>. QED  BY <1>1, <1>2, <1>3 DEF Covered

LEMMA LintListKeepsTreeInv == ASSUME TreeInv, LintList PROVE TreeInv'
<1>. USE DEF Roles
<1>0. PICK d : d = next("consumer")
  OBVIOUS
<1>1. /\ UNCHANGED <<command, target, os, tree, edits, decl, got, signed, verified>>
      /\ UNCHANGED <<caps, sources>> /\ pc["consumer"] = "lintRead"
      /\ exit["consumer"] = 4 /\ d \in todo["consumer"] /\ d \in Dirs
  BY <1>0, NextIsListed, TreeTypes DEF LintList, roleVars, TreeInv, LintInv
<1>2. UNCHANGED todo["maker"]
  BY TreeTypes DEF LintList
<1>3. /\ UNCHANGED <<pc["maker"], exit["maker"]>>
      /\ \/ /\ fault' = "root" /\ pc'["consumer"] = "ended"
            /\ exit'["consumer"] = 3 /\ UNCHANGED notes
         \/ /\ d # Root /\ notes' = notes \cup {d}
            /\ todo'["consumer"] = todo["consumer"] \ {d}
            /\ pc'["consumer"] = "lintRead" /\ exit'["consumer"] = 4
         \/ /\ todo'["consumer"] = (todo["consumer"] \ {d}) \cup sourceEntries(d)
            /\ pc'["consumer"] = "lintRead" /\ exit'["consumer"] = 4
            /\ UNCHANGED notes
  <2>1. CASE leave("consumer", 3) /\ fault' = "root" /\ UNCHANGED notes
    BY <2>1, LintLeaves
  <2>2. CASE /\ d # Root /\ notes' = notes \cup {d} /\ UNCHANGED <<pc, exit>>
             /\ todo' = [todo EXCEPT !["consumer"] = @ \ {d}]
    <3>1. todo'["consumer"] = todo["consumer"] \ {d}
      BY <2>2, TreeTypes
    <3>. QED  BY <1>1, <2>2, <3>1
  <2>3. CASE /\ UNCHANGED <<pc, exit, notes>>
             /\ todo' = [todo EXCEPT !["consumer"] = (@ \ {d}) \cup sourceEntries(d)]
    <3>1. todo'["consumer"] = (todo["consumer"] \ {d}) \cup sourceEntries(d)
      BY <2>3, TreeTypes
    <3>. QED  BY <1>1, <2>3, <3>1
  <2>. QED  BY <1>0, <2>1, <2>2, <2>3 DEF LintList
<1>4. OrderInv' /\ SignInv' /\ \A r \in Roles : WalkInv(r)'
  <2>1. Root \in notes' => Root \in notes
    BY <1>3
  <2>. QED  BY <1>1, <1>2, <1>3, <2>1, LintKeepsTheWalks
<1>6. exit'["consumer"] \in 3..4 /\ ~Linted'
  <2>1. exit'["consumer"] = 3 \/ exit'["consumer"] = 4
    BY <1>3
  <2>. QED  BY <2>1, NotLinted
<1>7. SourcesInv'
  <2>1. notes \subseteq notes' /\ (Asked => Asked')
    <3>1. notes \subseteq notes'
      BY <1>3
    <3>. QED  BY <1>1, <3>1, SameTree
  <2>2. target \in Paths \/ target = ""
    BY DEF TreeInv, LintInv, TargetOK
  <2>3. target = "" \/ d # target
    BY <1>1, <2>2, TreeAssumption
  <2>4. pc'["consumer"] = "lintRead" /\ Covered => Covered'
    <3>1. pc'["consumer"] = "lintRead" =>
            \/ /\ todo'["consumer"] = todo["consumer"] \ {d}
               /\ notes' = notes \cup {d}
            \/ /\ todo'["consumer"] = (todo["consumer"] \ {d}) \cup sourceEntries(d)
               /\ UNCHANGED notes
      BY <1>3
    <3>. QED
      BY <1>1, <2>2, <2>3, <3>1, CoveredAfterListing, CoveredAfterNoting
  <2>. QED  BY <1>1, <1>3, <1>6, <2>1, <2>4 DEF TreeInv, SourcesInv
<1>8. OutcomeInv'
  <2>1. exit'["consumer"] = 3 => fault' = "root"
    <3>1. 3 # 4
      OBVIOUS
    <3>. QED  BY <1>3, <3>1
  <2>. QED  BY <1>1, <1>3, <1>6, <2>1, LintKeepsOutcome
<1>. QED  BY <1>4, <1>7, <1>8, LintListKeepsLintInv DEF TreeInv

\* A file is scanned.
LEMMA CoveredAfterReading ==
  ASSUME Covered, NEW p \in todo["consumer"] \cap Paths,
         todo'["consumer"] = todo["consumer"] \ {p},
         NEW src, src.path = p, sources' = sources \cup {src},
         UNCHANGED <<target, tree, notes>>
  PROVE  Covered'
<1>1. UNCHANGED regular("consumer") /\ p \in scanned' /\ scanned \subseteq scanned'
  BY DEF regular, scanned
<1>2. ASSUME NEW q \in Paths, pending("consumer", q)
      PROVE  q \in scanned' \/ pending("consumer", q)'
  <2>1. PICK x \in {q} \cup Above[q] : x \in todo["consumer"]
    BY <1>2 DEF pending
  <2>2. CASE x = p
    BY <1>1, <1>2, <2>1, <2>2, AboveAreDirectories
  <2>3. CASE x # p
    BY <2>1, <2>3 DEF pending
  <2>. QED  BY <2>2, <2>3
<1>. QED  BY <1>1, <1>2 DEF Covered, skipped, regular

LEMMA LintReadKeepsTreeInv == ASSUME TreeInv, LintRead PROVE TreeInv'
<1>. USE DEF Roles
<1>0. PICK p : p = next("consumer")
  OBVIOUS
<1>. DEFINE node == tree["consumer"][p]
            src == [path |-> p, content |-> node.content]
<1>1. /\ UNCHANGED <<command, target, os, tree, edits, decl, got, signed, verified>>
      /\ UNCHANGED <<caps, findings>> /\ pc["consumer"] = "lintRead"
      /\ exit["consumer"] = 4 /\ p \in todo["consumer"] /\ p \in Paths
  BY <1>0, NextIsListed, TreeTypes DEF LintRead, roleVars, TreeInv, LintInv
<1>2. UNCHANGED todo["maker"] /\ todo'["consumer"] = todo["consumer"] \ {p}
  BY <1>0, TreeTypes DEF LintRead
<1>3. /\ UNCHANGED <<pc["maker"], exit["maker"]>>
      /\ \/ /\ sources' = sources \cup {src} /\ UNCHANGED notes
            /\ pc'["consumer"] = "lintRead" /\ exit'["consumer"] = 4
         \/ /\ target = "" /\ notes' = notes \cup {p} /\ UNCHANGED sources
            /\ pc'["consumer"] = "lintRead" /\ exit'["consumer"] = 4
         \/ /\ target # "" /\ UNCHANGED <<notes, sources>>
            /\ pc'["consumer"] = "ended" /\ exit'["consumer"] = 3
  <2>1. CASE /\ sources' = sources \cup {src} /\ UNCHANGED notes
             /\ UNCHANGED <<pc, exit>>
    BY <1>1, <2>1
  <2>2. CASE /\ target = "" /\ notes' = notes \cup {p} /\ UNCHANGED sources
             /\ UNCHANGED <<pc, exit>>
    BY <1>1, <2>2
  <2>3. CASE /\ target # "" /\ leave("consumer", 3) /\ UNCHANGED <<notes, sources>>
    BY <2>3, LintLeaves
  <2>. HIDE DEF src
  <2>. QED  BY <1>0, <2>1, <2>2, <2>3 DEF LintRead, src
<1>4. OrderInv' /\ SignInv' /\ \A r \in Roles : WalkInv(r)'
  <2>1. Root \in notes' => Root \in notes
    BY <1>1, <1>3, RootIsADirectory
  <2>. QED  BY <1>1, <1>2, <1>3, <2>1, LintKeepsTheWalks
<1>6. exit'["consumer"] \in 3..4 /\ ~Linted'
  <2>1. exit'["consumer"] = 3 \/ exit'["consumer"] = 4
    BY <1>3
  <2>. QED  BY <2>1, NotLinted
<1>7. SourcesInv'
  <2>1. notes \subseteq notes' /\ (Asked => Asked')
    <3>1. notes \subseteq notes'
      BY <1>3
    <3>. QED  BY <1>1, <3>1, SameTree
  <2>2. src.path = p /\ src.content = tree["consumer"][p].content
    OBVIOUS
  <2>. HIDE DEF src
  <2>3. ASSUME edits["consumer"] = 0, NEW s \in sources'
        PROVE  s.content = tree["consumer"][s.path].content
    <3>1. s \in sources \/ s = src
      BY <1>3, <2>3
    <3>. QED  BY <2>2, <2>3, <3>1 DEF TreeInv, SourcesInv
  <2>4. pc'["consumer"] = "lintRead" /\ Covered => Covered'
    <3>1. pc'["consumer"] = "lintRead" =>
            \/ sources' = sources \cup {src} /\ UNCHANGED notes
            \/ target = "" /\ notes' = notes \cup {p} /\ UNCHANGED sources
      BY <1>3
    <3>. QED
      BY <1>1, <1>2, <2>2, <3>1, CoveredAfterReading, CoveredAfterNoting
  <2>. QED  BY <1>1, <1>3, <1>6, <2>1, <2>3, <2>4 DEF TreeInv, SourcesInv
<1>8. OutcomeInv'
  <2>1. exit'["consumer"] = 3 => target # ""
    <3>1. 3 # 4
      OBVIOUS
    <3>. QED  BY <1>3, <3>1
  <2>. QED  BY <1>1, <1>3, <1>6, <2>1, LintKeepsOutcome
<1>. QED  BY <1>4, <1>7, <1>8, LintReadKeepsLintInv DEF TreeInv

LEMMA ReportKeepsTreeInv == ASSUME TreeInv, Report PROVE TreeInv'
<1>. USE DEF Roles
<1>1. /\ UNCHANGED <<command, target, os, tree, edits, decl, got, signed, verified>>
      /\ UNCHANGED <<caps, notes, sources, todo>> /\ pc["consumer"] = "lintRead"
      /\ todo["consumer"] = {}
  BY DEF Report, roleVars, walkVars
<1>2. /\ leave("consumer", exitCode) \/ (leave("consumer", 3) /\ fault' = "report")
      /\ exitCode \in 0..2
  BY DEF Report, exitCode
<1>3. command = "verify" =>
        /\ exitCode = 1 <=> verified # "match"
        /\ exitCode = 0 => findings' = {}
  BY DEF exitCode
<1>. HIDE DEF exitCode
<1>4. /\ pc'["consumer"] = "ended" /\ UNCHANGED <<pc["maker"], exit["maker"]>>
      /\ \/ exit'["consumer"] = exitCode
         \/ exit'["consumer"] = 3 /\ fault' = "report"
  BY <1>2, TreeTypes, EndedAreLeft
<1>5. OrderInv' /\ SignInv' /\ \A r \in Roles : WalkInv(r)'
  BY <1>1, <1>4, LintKeepsTheWalks
<1>6. SourcesInv'
  <2>1. Asked => Asked'
    BY <1>1, SameTree
  <2>2. Covered => Covered'
    BY <1>1 DEF Covered, scanned, skipped, pending, regular
  <2>. QED  BY <1>1, <1>4, <2>1, <2>2 DEF TreeInv, SourcesInv
<1>7. OutcomeInv'
  <2>1. CASE exit'["consumer"] = 3 /\ fault' = "report"
    BY <1>1, <1>4, <2>1, LintKeepsOutcome
  <2>2. CASE exit'["consumer"] = exitCode
    <3>1. exit'["consumer"] # 3
      BY <1>2, <2>2
    <3>2. command = "verify" => verified # "none"
      BY <1>1 DEF TreeInv, OrderInv
    <3>3. Genuine' => Genuine
      BY <1>1, GenuineStands
    <3>4. LintIsAdvisory'
      BY <3>1 DEF LintIsAdvisory
    <3>. QED  BY <1>1, <1>3, <1>4, <2>2, <3>1, <3>2, <3>3, <3>4 DEF TreeInv, OutcomeInv
  <2>. QED  BY <1>4, <2>1, <2>2
<1>. QED  BY <1>5, <1>6, <1>7, ReportKeepsLintInv DEF TreeInv

LEMMA EditKeepsTreeInv ==
  ASSUME TreeInv, NEW r \in Roles, EditTree(r) PROVE TreeInv'
<1>. USE DEF Roles
<1>1. /\ UNCHANGED <<command, target, os, pc, exit, decl, todo, got, signed, verified>>
      /\ UNCHANGED <<caps, notes, sources, findings, fault>> /\ pc[r] # "ended"
      /\ edits' = [edits EXCEPT ![r] = @ + 1] /\ edits \in [Roles -> Nat]
  BY TreeTypes DEF EditTree, roleVars, walkVars, lintVars
<1>2. edits' \in [Roles -> Nat] /\ edits'[r] # 0
      /\ \A s \in Roles \ {r} : UNCHANGED edits[s]
  BY <1>1
<1>3. \A s \in Roles \ {r} : UNCHANGED tree[s]
  <2>1. \E f : tree' = [tree EXCEPT ![r] = f]
    BY DEF EditTree
  <2>. QED  BY <2>1, TreeTypes
<1>4. OrderInv'
  BY <1>1, <1>2 DEF TreeInv, OrderInv
<1>5. SignInv'
  BY <1>1 DEF TreeInv, SignInv, digestible
<1>6. ASSUME NEW s \in Roles PROVE WalkInv(s)'
  <2>1. CASE s = r
    BY <1>2, <2>1 DEF WalkInv
  <2>2. CASE s # r
    BY <1>1, <1>2, <1>3, <2>2, WalkInvStands DEF TreeInv, Walked
  <2>. QED  BY <2>1, <2>2
<1>7. ~Genuine'
  BY <1>2 DEF Genuine, unedited
<1>8. CASE r = "consumer"
  <2>1. exit["consumer"] = 4
    BY <1>1, <1>8, TreeTypes
  <2>2. SourcesInv'
    BY <1>2, <1>8 DEF SourcesInv
  <2>3. OutcomeInv'
    BY <1>1, <1>7, <2>1 DEF TreeInv, OutcomeInv, Linted, LintIsAdvisory
  <2>. QED  BY <1>4, <1>5, <1>6, <2>2, <2>3, EditKeepsLintInv DEF TreeInv
<1>9. CASE r = "maker"
  <2>1. UNCHANGED <<tree["consumer"], edits["consumer"]>>
    BY <1>2, <1>3, <1>9
  <2>2. SourcesInv'
    BY <1>1, <2>1, SourcesInvStands DEF TreeInv
  <2>3. OutcomeInv'
    BY <1>1, <1>7, <2>1, AdvisoryStands DEF TreeInv, OutcomeInv, Linted
  <2>. QED  BY <1>4, <1>5, <1>6, <2>2, <2>3, EditKeepsLintInv DEF TreeInv
<1>. QED  BY <1>8, <1>9

LEMMA NextKeepsTreeInv == TreeInv /\ [Next]_vars => TreeInv'
<1>. SUFFICES ASSUME TreeInv, [Next]_vars PROVE TreeInv'
  OBVIOUS
<1>1. CASE UNCHANGED vars
  <2>1. LintInv'
    BY <1>1, NextKeepsLintInv DEF TreeInv
  <2>2. /\ UNCHANGED <<command, target, os, tree, edits, decl, got, signed, verified>>
        /\ UNCHANGED <<pc, exit, todo, caps, notes, sources, findings, fault>>
    BY <1>1 DEF vars, roleVars, walkVars, lintVars
  <2>3. OrderInv' /\ SignInv'
    BY <2>2, SignInvStands DEF TreeInv, OrderInv
  <2>4. \A r \in Roles : WalkInv(r)'
    BY <2>2, WalkInvStands DEF TreeInv, Walked
  <2>5. SourcesInv'
    BY <2>2, SourcesInvStands DEF TreeInv
  <2>6. OutcomeInv'
    BY <2>2, GenuineStands, AdvisoryStands DEF TreeInv, OutcomeInv, Linted
  <2>. QED  BY <2>1, <2>3, <2>4, <2>5, <2>6 DEF TreeInv
<1>2. CASE Lint
  BY <1>2, SkipLintKeepsTreeInv, LintLoadKeepsTreeInv, LintRootKeepsTreeInv,
     LintListKeepsTreeInv, LintReadKeepsTreeInv, ReportKeepsTreeInv DEF Lint
<1>. QED
  BY <1>1, <1>2, WalkKeepsTreeInv, EditKeepsTreeInv, SignKeepsTreeInv,
     IdentifyKeepsTreeInv DEF Next

LEMMA TreeInvHolds == Spec => []TreeInv
BY InitKeepsTreeInv, NextKeepsTreeInv, PTL DEF Spec

-----------------------------------------------------------------------------
\* What follows.

LEMMA AcceptedMatched ==
  ASSUME TreeInv, verdict \in {0, 2}
  PROVE  /\ command = "verify" /\ exit["consumer"] = verdict /\ Linted
         /\ verified = "match" /\ exit["maker"] = 0
<1>1. command = "verify" /\ exit["consumer"] = verdict
  BY DEF verdict
<1>2. exit["consumer"] \in 0..2 /\ exit["consumer"] # 1 /\ exit["consumer"] # 4
  BY <1>1
<1>3. verified = "match"
  BY <1>1, <1>2 DEF TreeInv, OutcomeInv, Linted
<1>4. exit["maker"] = 0
  <2>1. pc["consumer"] = "ended"
    BY <1>2, TreeTypes DEF Roles
  <2>. QED  BY <1>1, <2>1 DEF TreeInv, OrderInv
<1>. QED  BY <1>1, <1>2, <1>3, <1>4 DEF Linted

LEMMA SignedIsWhatWasSeen ==
  ASSUME TreeInv, exit["maker"] = 0
  PROVE  signed.files = got["maker"] /\ signed.caps = decl["maker"].caps
<1>1. signed = [files |-> got["maker"], caps |-> decl["maker"].caps]
  BY DEF TreeInv, SignInv
<1>. QED  BY <1>1

\* In a tree that was read, whatever is there is a file that can be read.
LEMMA ReadIsRegular ==
  ASSUME TreeInv, NEW r \in Roles, NoLinks(r), Read(r, files(r))
  PROVE  \A p \in files(r) : tree[r][p].kind = "file" /\ tree[r][p].readable
BY FilesWithoutLinks DEF Read, readable, regular

LEMMA TreeInvGivesAccepted == TreeInv => AcceptedIsWhatWasSigned
<1>. SUFFICES ASSUME TreeInv, verdict \in {0, 2}, edits["consumer"] = 0
              PROVE  AcceptedIsWhatWasSigned
  BY DEF AcceptedIsWhatWasSigned
<1>1. NoLinks("consumer") /\ Read("consumer", files("consumer"))
  BY AcceptedMatched DEF TreeInv, WalkInv, Walked, Roles
<1>2. got["consumer"] = signed.files
  BY AcceptedMatched DEF TreeInv, OutcomeInv
<1>3. {[path |-> p, content |-> tree["consumer"][p].content] : p \in files("consumer")}
        = {[path |-> f.path, content |-> f.content] : f \in signed.files}
  <2>1. \A p : /\ seen("consumer", p).path = p
               /\ seen("consumer", p).content = tree["consumer"][p].content
    BY DEF seen
  <2>2. signed.files = {seen("consumer", p) : p \in files("consumer")}
    BY <1>1, <1>2 DEF Read
  <2>. QED  BY <2>1, <2>2
<1>. QED  BY <1>1, <1>3, ReadIsRegular DEF AcceptedIsWhatWasSigned, Roles

\* A tree that verify accepts, and that nobody edited meanwhile, is file by file the
\* one the maker signed, whatever was done to the maker's tree before, while and
\* after it was walked (WalkSkill, Digest, the core's comparison).
THEOREM AcceptedAlwaysSigned == Spec => []AcceptedIsWhatWasSigned
BY TreeInvHolds, TreeInvGivesAccepted, PTL

LEMMA TreeInvGivesGenuine == TreeInv => GenuineInstallIsAccepted
<1>. SUFFICES ASSUME TreeInv, verdict # 4, fault = "none", unedited,
                     files("maker") = files("consumer"),
                     \A p \in files("maker") :
                       tree["maker"][p].content = tree["consumer"][p].content,
                     \A p \in files("consumer") :
                       /\ readable(tree["consumer"][p])
                       /\ tree["consumer"][p].kind # "link"
                       /\ \/ decl["maker"].listed
                          \/ /\ tree["maker"][p].exec = tree["consumer"][p].exec
                             /\ os["maker"] = os["consumer"]
              PROVE  verdict \in {0, 2}
  BY DEF GenuineInstallIsAccepted
<1>1. Genuine
  BY DEF Genuine
<1>2. command = "verify" /\ exit["consumer"] = verdict
  BY DEF verdict
<1>3. pc["consumer"] = "ended"
  BY <1>2, TreeTypes DEF Roles
<1>4. exit["maker"] = 0
  BY <1>2, <1>3 DEF TreeInv, OrderInv
<1>5. verified \in {"none", "match"} /\ exit["consumer"] # 3
  BY <1>1, <1>2, <1>4 DEF TreeInv, OutcomeInv
<1>6. exit["consumer"] \in 0..2
  BY <1>2, <1>5, TreeTypes DEF Roles
<1>7. verified # "none" /\ (exit["consumer"] = 1 <=> verified # "match")
  BY <1>2, <1>6 DEF TreeInv, OutcomeInv, Linted
<1>8. exit["consumer"] # 1
  BY <1>5, <1>7
<1>. QED  BY <1>2, <1>6, <1>8

\* An installed copy of what was attested is never rejected, for any tree, any two
\* systems and any executable bits when the executables are declared, and for equal
\* bits and systems when they are not, as long as its directories can be listed and
\* the report be written (LoadDeclared, WalkSkill, resolveLocalIdentity, the core's
\* comparison).
THEOREM GenuineAlwaysAccepted == Spec => []GenuineInstallIsAccepted
BY TreeInvHolds, TreeInvGivesGenuine, PTL

LEMMA TreeInvGivesStrict == TreeInv => StrictMeansSigned
<1>. USE DEF Roles
<1>. SUFFICES ASSUME TreeInv, verdict = 0, unedited,
                     NEW at \in linesOf("consumer"), ~skipped(at.path), NEW c \in Classes
              PROVE  ~usesUndeclared(Tables[Language[at.path]],
                        TextOf[Language[at.path]]
                              [tree["consumer"][at.path].content][at.line],
                        signed.caps, c)
  BY DEF StrictMeansSigned
<1>1. /\ command = "verify" /\ exit["consumer"] = 0 /\ Linted
      /\ verified = "match" /\ exit["maker"] = 0
  BY AcceptedMatched
<1>2. findings = {} /\ got["consumer"] = signed.files
  BY <1>1 DEF TreeInv, OutcomeInv
<1>3. /\ Declares("consumer") /\ NoLinks("consumer") /\ Read("consumer", files("consumer"))
      /\ Declares("maker") /\ Read("maker", files("maker"))
  BY <1>1 DEF TreeInv, WalkInv, Walked, unedited
<1>4. signed.files = got["maker"] /\ signed.caps = decl["maker"].caps
  BY <1>1, SignedIsWhatWasSeen
<1>5. /\ "smithmark.yaml" \in files("consumer")
      /\ "smithmark.yaml" \in files("maker")
  BY <1>3, TreeAssumption DEF Declares, loads, readable, yamlOf, files
\* The declaration the maker signed for is the one that lint asked.
<1>6. yamlOf("maker").content = yamlOf("consumer").content
  <2>1. seen("maker", "smithmark.yaml") \in got["consumer"]
    BY <1>2, <1>3, <1>4, <1>5 DEF Read
  <2>2. PICK q \in files("consumer") : seen("maker", "smithmark.yaml") = seen("consumer", q)
    BY <1>3, <2>1 DEF Read
  <2>3. /\ seen("maker", "smithmark.yaml").path = "smithmark.yaml"
        /\ seen("maker", "smithmark.yaml").content = yamlOf("maker").content
        /\ seen("consumer", q).path = q
        /\ seen("consumer", q).content = tree["consumer"][q].content
    BY DEF seen, yamlOf
  <2>. QED  BY <2>2, <2>3 DEF yamlOf
\* The line is one of a source that lint read, and so there was a lint.
<1>8. PICK p \in files("consumer") \ Excluded :
        /\ Language[p] # "none" /\ at.path = p
        /\ at.line \in scannedLines(TextOf[Language[p]][tree["consumer"][p].content])
  BY DEF linesOf
<1>9. tree["consumer"][p].kind = "file" /\ readable(tree["consumer"][p]) /\ p \in Paths
  BY <1>3, <1>8, ReadIsRegular DEF Read, files
<1>7. caps = signed.caps
  <2>1. Root \notin notes
    BY <1>8, <1>9, AboveAreDirectories DEF skipped
  <2>2. Asked
    BY <1>1, <2>1 DEF TreeInv, SourcesInv, unedited
  <2>3. caps = DeclaredBy[yamlOf("consumer").content].caps
    BY <1>3, <2>2 DEF Asked, Declares, loads, readable
  <2>. QED  BY <1>3, <1>4, <1>6, <2>3 DEF Declares
<1>10. p \in scanned \/ pending("consumer", p)
  <2>1. Covered /\ target = ""
    BY <1>1 DEF TreeInv, OrderInv, SourcesInv, unedited
  <2>. QED  BY <1>8, <1>9, <2>1 DEF Covered, regular
<1>11. PICK src \in sources : src.path = p
  <2>1. todo["consumer"] = {}
    BY <1>1 DEF TreeInv, SourcesInv, unedited
  <2>. QED  BY <1>10, <2>1 DEF pending, scanned
<1>12. src.content = tree["consumer"][p].content
  BY <1>11 DEF TreeInv, SourcesInv, unedited
<1>13. isTheGap(Tables[Language[p]], TextOf[Language[p]][src.content][at.line], caps,
         {f.gap : f \in {g \in findings : g.path = p /\ g.line = at.line}})
  <2>1. pc["consumer"] = "ended"
    BY <1>1 DEF TreeInv, LintInv, Reported, Linted
  <2>2. FindingsAreTheGap
    BY LintInvGivesTheGap DEF TreeInv
  <2>. QED  BY <1>1, <1>8, <1>11, <1>12, <2>1, <2>2 DEF FindingsAreTheGap, Linted
<1>14. {f.gap : f \in {g \in findings : g.path = p /\ g.line = at.line}} = {}
  BY <1>2
<1>. QED  BY <1>7, <1>8, <1>12, <1>13, <1>14 DEF isTheGap

\* A skill that passes --strict uses nothing, in the lines lint looks at and does not
\* say it skipped, that the maker did not sign for, although lint never sees the
\* attested declaration: the digests make the one in the tree the same
\* (declaredCapabilities, the core's comparison, Gaps).
THEOREM StrictAlwaysMeansSigned == Spec => []StrictMeansSigned
BY TreeInvHolds, TreeInvGivesStrict, PTL

LEMMA TreeInvGivesValid == TreeInv => SignedIsValid
<1>. USE DEF Roles
<1>. SUFFICES ASSUME TreeInv, signed # NothingSigned PROVE SignedIsValid
  BY DEF SignedIsValid
<1>1. exit["maker"] = 0
  BY DEF TreeInv, SignInv
<1>0. signed.caps = decl["maker"].caps
  BY <1>1, SignedIsWhatWasSeen
<1>2. /\ digestible("maker")
      /\ \A f \in got["maker"] : f.path = "SKILL.md" =>
           NameIn[f.content] \in {"", decl["maker"].name}
      /\ \A c \in Classes : decl["maker"].caps[c] \subseteq Admitted
  BY <1>1 DEF TreeInv, SignInv
<1>3. ASSUME edits["maker"] = 0
      PROVE  /\ signed.caps = DeclaredBy[yamlOf("maker").content].caps
             /\ NameIn[tree["maker"]["SKILL.md"].content]
                  \in {"", DeclaredBy[yamlOf("maker").content].name}
  <2>1. Declares("maker") /\ Read("maker", files("maker"))
    BY <1>1, <1>3 DEF TreeInv, WalkInv, Walked
  <2>2. PICK f \in got["maker"] : f.path = "SKILL.md"
    BY <1>2 DEF digestible
  <2>3. PICK p \in files("maker") : f = seen("maker", p)
    BY <2>1 DEF Read
  <2>4. f.content = tree["maker"]["SKILL.md"].content
    <3>1. f.path = p /\ f.content = tree["maker"][p].content
      BY <2>3 DEF seen
    <3>. QED  BY <2>2, <3>1
  <2>. QED  BY <1>0, <1>2, <2>1, <2>2, <2>4 DEF Declares
<1>. QED  BY <1>0, <1>2, <1>3 DEF SignedIsValid, yamlOf

\* Nothing is attested whose declaration Validate refuses, nor under another name
\* than its own, for every grammar of entries (Validate, completeSkillSurface).
THEOREM SignedAlwaysValid == Spec => []SignedIsValid
BY TreeInvHolds, TreeInvGivesValid, PTL

LEMMA TreeInvGivesSkipped == TreeInv => SkippedIsNoted
<1>. SUFFICES ASSUME TreeInv, Linted, edits["consumer"] = 0 PROVE SkippedIsNoted
  BY DEF SkippedIsNoted, Linted
<1>1. Covered /\ todo["consumer"] = {} /\ (Root \in notes \/ Asked)
  BY DEF TreeInv, SourcesInv
<1>2. ASSUME target = "", NEW p \in files("consumer") \ Excluded,
             tree["consumer"][p].kind = "file", Language[p] # "none"
      PROVE  p \in scanned \/ skipped(p)
  <2>1. p \in regular("consumer") \ Excluded
    BY <1>2 DEF regular, files
  <2>. QED  BY <1>1, <1>2, <2>1 DEF Covered, pending
<1>3. target # "" => target \in scanned
  BY <1>1 DEF Covered
\* Whoever skips the lint has walked the tree, with its declaration.
<1>4. "smithmark.yaml" \in files("consumer") \cup notes
  <2>1. CASE Root \in notes
    <3>1. Declares("consumer")
      BY <2>1 DEF TreeInv, OrderInv, WalkInv, Walked, Roles
    <3>. QED  BY <3>1, TreeAssumption DEF Declares, loads, readable, yamlOf, files
  <2>2. CASE Asked
    BY <2>2, TreeAssumption DEF Asked, files, yamlOf
  <2>. QED  BY <1>1, <2>1, <2>2
<1>. QED  BY <1>2, <1>3, <1>4 DEF SkippedIsNoted, scanned

\* Each regular source outside the excluded directories was scanned or is noted, or a
\* directory it lies in is, and so is a missing declaration, whatever cannot be read
\* or listed (WalkSources, attachLintFindings, declaredCapabilities).
THEOREM SkippedAlwaysNoted == Spec => []SkippedIsNoted
BY TreeInvHolds, TreeInvGivesSkipped, PTL

LEMMA TreeInvGivesAdvisory == TreeInv => LintIsAdvisory
BY DEF TreeInv, OutcomeInv

\* Whatever the lint meets in a tree, and however it is edited meanwhile, takes no
\* completed verification away and ends no lint, but for a declaration that does not
\* load, a root that cannot be walked and a report that cannot be written
\* (attachLintFindings, WalkSources).
THEOREM LintAlwaysAdvisory == Spec => []LintIsAdvisory
BY TreeInvHolds, TreeInvGivesAdvisory, PTL
=============================================================================
