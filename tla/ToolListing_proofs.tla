--------------------------- MODULE ToolListing_proofs ---------------------------
(***************************************************************************)
(* Proofs about the tool listing of an MCP server, for every set of tools, *)
(* every server, listing and file, every order of messages, exits and      *)
(* timeouts, and pipes of any length.                                      *)
(***************************************************************************)
EXTENDS ToolListing, FiniteSetTheorems, SequenceTheorems, TLAPS

Digestible == {t \in Tools : t.schema # "absent"}

\* A line that ReadToolsList would take for the listing.
isListing(l) == l.kind = "result" /\ l.id = "2"

\* What does not change.
InputInv ==
  /\ file \in [given: BOOLEAN, readable: BOOLEAN, tools: Files]
  /\ listing \in Listings
  /\ pc \notin {"start", "returned"} =>
       command /\ (file.given => mappable(file.tools))

\* The listing is asked for once, after an answer to initialize, and only the
\* server's answer to it looks like one.
AskedInv ==
  /\ pc \in {"start", "initialize"} => "list" \notin asked
  /\ \A l \in ToSet(stdout) : isListing(l) =>
       /\ l.tools = listing[1] /\ "list" \notin asked
       /\ pc \notin {"start", "initialize"}

\* What the client has in hand at each of its steps.
ResultInv ==
  /\ pc \in {"start", "initialize", "list"} => result = Pending
  /\ pc = "teardown" =>
       /\ result.status \in {"pending", "failed"}
       /\ result.status = "pending" => result.tools = listing[1] /\ "list" \notin asked
  /\ pc = "returned" /\ result.status = "ok" /\ command =>
       /\ "list" \notin asked
       /\ IF file.given
          THEN result.tools = file.tools /\ toolListingAgrees(file.tools, listing[1])
          ELSE result.tools = listing[1]

\* A process group is only there while the client talks to it.
GroupInv == pc \in {"start", "returned"} => ~alive

Inv == TypeOK /\ InputInv /\ AskedInv /\ ResultInv /\ GroupInv

-----------------------------------------------------------------------------
\* Facts about sequences of lines and of tools.

LEMMA TailOfTheLines ==
  ASSUME NEW S, NEW s \in Seq(S), s # <<>>
  PROVE  /\ Tail(s) \in Seq(S) /\ Len(Tail(s)) <= Len(s)
         /\ Head(s) \in ToSet(s) /\ ToSet(Tail(s)) \subseteq ToSet(s)
<1>1. /\ Tail(s) \in Seq(S) /\ Len(Tail(s)) = Len(s) - 1
      /\ \A k \in 1 .. Len(Tail(s)) : Tail(s)[k] = s[k + 1]
  BY HeadTailProperties
<1>2. Len(s) \in Nat \ {0} /\ Head(s) = s[1]
  OBVIOUS
<1>3. \A k \in 1 .. Len(Tail(s)) : k + 1 \in DOMAIN s
  BY <1>1, <1>2
<1>4. DOMAIN Tail(s) = 1 .. Len(Tail(s)) /\ 1 \in DOMAIN s
  BY <1>1, <1>2
<1>. QED  BY <1>1, <1>2, <1>3, <1>4 DEF ToSet

LEMMA LineAppended ==
  ASSUME NEW S, NEW s \in Seq(S), NEW l \in S
  PROVE  /\ Append(s, l) \in Seq(S) /\ Len(Append(s, l)) = Len(s) + 1
         /\ ToSet(Append(s, l)) = ToSet(s) \cup {l}
<1>1. /\ Append(s, l) \in Seq(S) /\ Len(Append(s, l)) = Len(s) + 1
      /\ \A k \in 1 .. Len(s) : Append(s, l)[k] = s[k]
      /\ Append(s, l)[Len(s) + 1] = l
  BY AppendProperties
<1>2. /\ DOMAIN s = 1 .. Len(s) /\ Len(s) \in Nat
      /\ DOMAIN Append(s, l) = 1 .. Len(s) \cup {Len(s) + 1}
  BY <1>1
<1>. QED  BY <1>1, <1>2 DEF ToSet

LEMMA FirstPage == ASSUME NEW l \in Listings PROVE l[1] \in Seq(Tools)
<1>1. l \in Seq(Seq(Tools)) /\ l # <<>>
  BY ListingAssumption
<1>2. 1 \in 1 .. Len(l)
  BY <1>1
<1>. QED  BY <1>1, <1>2

LEMMA MappableTools ==
  ASSUME NEW tools \in Seq(Tools), mappable(tools)
  PROVE  tools \in Seq(Digestible)
<1>1. \A k \in 1 .. Len(tools) : tools[k] \in Digestible
  BY DEF mappable, Digestible
<1>. QED  BY <1>1, SeqDef DEF Digestible

\* As many names as tools, if no two have the same.
LEMMA UniqueNamesCount ==
  ASSUME NEW tools \in Seq(Tools), uniqueNames(tools)
  PROVE  Len(tools) = Cardinality({t.name : t \in ToSet(tools)})
<1>. DEFINE D == 1 .. Len(tools)
            N == {t.name : t \in ToSet(tools)}
            f == [k \in D |-> tools[k].name]
<1>1. DOMAIN tools = D /\ Len(tools) \in Nat
  OBVIOUS
<1>2. N = {tools[k].name : k \in D}
  BY <1>1 DEF ToSet
<1>3. f \in Injection(D, N)
  BY <1>1, <1>2 DEF uniqueNames, Injection, IsInjective
<1>4. f \in Surjection(D, N)
  BY <1>2 DEF Surjection
<1>5. IsFiniteSet(D) /\ Cardinality(D) = Len(tools)
  BY <1>1, FS_Interval
<1>. HIDE DEF f, D, N
<1>6. Cardinality(N) = Cardinality(D)
  BY <1>3, <1>4, <1>5, FS_Surjection
<1>. QED  BY <1>5, <1>6 DEF N

\* What two lists that agree have in common, apart from their order.
LEMMA AgreeingLists ==
  ASSUME NEW fileTools \in Seq(Tools), NEW liveTools \in Seq(Tools),
         toolListingAgrees(fileTools, liveTools)
  PROVE  LET schemas(tools) == [n \in {t.name : t \in ToSet(tools)} |->
                                 {tools[k].schema : k \in {j \in DOMAIN tools :
                                                            tools[j].name = n}}]
         IN  /\ schemas(fileTools) = schemas(liveTools)
             /\ \A tools \in {fileTools, liveTools} :
                  Len(tools) = Cardinality(DOMAIN schemas(tools))
<1>. DEFINE names(tools) == {t.name : t \in ToSet(tools)}
            at(tools, n) == {tools[k].schema : k \in {j \in DOMAIN tools :
                                                        tools[j].name = n}}
            of(S, n) == {t.schema : t \in {u \in S : u.name = n}}
<1>1. /\ uniqueNames(fileTools) /\ uniqueNames(liveTools)
      /\ ToSet(fileTools) = ToSet(liveTools)
  BY DEF toolListingAgrees
<1>2. ASSUME NEW tools, NEW n PROVE at(tools, n) = of(ToSet(tools), n)
  BY DEF ToSet
<1>3. ASSUME NEW n PROVE at(fileTools, n) = at(liveTools, n)
  <2>1. /\ at(fileTools, n) = of(ToSet(fileTools), n)
        /\ at(liveTools, n) = of(ToSet(liveTools), n)
    BY <1>2
  <2>. HIDE DEF at, of
  <2>. QED  BY <1>1, <2>1
<1>4. names(fileTools) = names(liveTools)
  BY <1>1
<1>5. /\ Len(fileTools) = Cardinality(names(fileTools))
      /\ Len(liveTools) = Cardinality(names(liveTools))
  BY <1>1, UniqueNamesCount
<1>. HIDE DEF names, at
<1>6. /\ [n \in names(fileTools) |-> at(fileTools, n)]
           = [n \in names(liveTools) |-> at(liveTools, n)]
      /\ \A tools \in {fileTools, liveTools} :
           Len(tools) = Cardinality(DOMAIN [n \in names(tools) |-> at(tools, n)])
  BY <1>3, <1>4, <1>5
<1>. QED  BY <1>6 DEF names, at

-----------------------------------------------------------------------------
LEMMA InitKeepsInv == Init => Inv
<1>. SUFFICES ASSUME Init PROVE Inv
  OBVIOUS
<1>1. stdout = <<>> /\ ToSet(<<>>) = {} /\ result = Pending
  BY DEF Init, ToSet
<1>2. TypeOK
  <2>1. stdout \in Seq(Line) /\ Len(stdout) <= PipeLines
    BY <1>1, ListingAssumption
  <2>2. /\ result.status = "pending"
        /\ result.tools \in Seq({t \in Tools : t.schema # "absent"})
    BY <1>1 DEF Pending
  <2>. QED  BY <2>1, <2>2 DEF Init, TypeOK
<1>. QED
  BY <1>1, <1>2 DEF Init, Inv, InputInv, AskedInv, ResultInv, GroupInv, Pending

\* A step that ends the resolution.
LEMMA FinishingKeepsInv ==
  ASSUME Inv, NEW status \in {"ok", "failed"}, NEW tools \in Seq(Digestible),
         finish(status, tools), alive' = FALSE,
         UNCHANGED <<file, command, listing, asked, stdout, held, deadline, closed>>,
         status = "ok" /\ command =>
           /\ "list" \notin asked
           /\ IF file.given
              THEN tools = file.tools /\ toolListingAgrees(file.tools, listing[1])
              ELSE tools = listing[1]
  PROVE  Inv'
<1>1. /\ pc' = "returned" /\ result'.status = status /\ result'.tools = tools
  BY DEF finish
<1>2. TypeOK'
  BY <1>1 DEF Inv, TypeOK, Digestible
<1>3. InputInv' /\ AskedInv' /\ GroupInv'
  BY <1>1 DEF Inv, InputInv, AskedInv, GroupInv, mappable
<1>4. ResultInv'
  BY <1>1 DEF Inv, ResultInv
<1>. QED  BY <1>2, <1>3, <1>4 DEF Inv

LEMMA FileTools ==
  ASSUME Inv
  PROVE  /\ file.tools \in Seq(Tools)
         /\ mappable(file.tools) => file.tools \in Seq(Digestible)
BY ListingAssumption, MappableTools DEF Inv, InputInv

LEMMA ResolveKeepsInv == ASSUME Inv, Resolve PROVE Inv'
<1>1. /\ pc = "start" /\ ~alive /\ alive \in BOOLEAN
      /\ UNCHANGED <<file, command, listing, stdout, held, deadline, closed>>
  BY DEF Resolve, Inv, GroupInv, TypeOK
<1>2. <<>> \in Seq(Digestible)
  OBVIOUS
<1>3. CASE finish("failed", <<>>) /\ UNCHANGED <<asked, alive>>
  BY <1>1, <1>2, <1>3, FinishingKeepsInv
<1>4. CASE /\ finish("ok", file.tools) /\ UNCHANGED <<asked, alive>>
           /\ ~command /\ mappable(file.tools)
  BY <1>1, <1>4, FileTools, FinishingKeepsInv
<1>5. CASE /\ pc' = "initialize" /\ asked' = {"initialize"} /\ alive' = TRUE
           /\ UNCHANGED result /\ command /\ (file.given => mappable(file.tools))
  <2>1. TypeOK'
    BY <1>1, <1>5 DEF Inv, TypeOK
  <2>2. InputInv' /\ AskedInv'
    BY <1>1, <1>5 DEF Inv, InputInv, AskedInv, mappable
  <2>3. ResultInv' /\ GroupInv'
    BY <1>1, <1>5 DEF Inv, ResultInv, GroupInv
  <2>. QED  BY <2>1, <2>2, <2>3 DEF Inv
<1>. QED  BY <1>1, <1>3, <1>4, <1>5 DEF Resolve

\* The exchange ends with the tools of an answer, or with nothing.
LEMMA EndingKeepsInv ==
  ASSUME Inv, pc \in {"initialize", "list"}, pc' = "teardown",
         UNCHANGED <<file, command, listing, asked, alive, held, deadline, closed>>,
         stdout' \in Seq(Line), Len(stdout') <= PipeLines,
         ToSet(stdout') \subseteq ToSet(stdout),
         NEW status \in {"pending", "failed"}, NEW tools \in Seq(Digestible),
         result' = [status |-> status, tools |-> tools],
         status = "pending" => tools = listing[1] /\ "list" \notin asked
  PROVE  Inv'
<1>1. result'.status = status /\ result'.tools = tools
  OBVIOUS
<1>2. TypeOK'
  BY <1>1 DEF Inv, TypeOK, Digestible
<1>3. InputInv' /\ AskedInv' /\ GroupInv'
  BY DEF Inv, InputInv, AskedInv, GroupInv, mappable
<1>4. ResultInv'
  BY <1>1 DEF Inv, ResultInv
<1>. QED  BY <1>2, <1>3, <1>4 DEF Inv

LEMMA FailingKeepsInv ==
  ASSUME Inv, pc \in {"initialize", "list"}, fail,
         UNCHANGED <<file, command, listing, alive, held, deadline, closed>>,
         stdout' \in Seq(Line), Len(stdout') <= PipeLines,
         ToSet(stdout') \subseteq ToSet(stdout)
  PROVE  Inv'
<1>1. <<>> \in Seq(Digestible)
  OBVIOUS
<1>2. /\ pc' = "teardown" /\ UNCHANGED asked
      /\ result' = [status |-> "failed", tools |-> <<>>]
  BY DEF fail
<1>. QED  BY <1>1, <1>2, EndingKeepsInv

\* Where a read leaves the pipe.
LEMMA ReadFromThePipe ==
  ASSUME Inv, stdout # <<>>, stdout' = Tail(stdout)
  PROVE  /\ stdout' \in Seq(Line) /\ Len(stdout') <= PipeLines
         /\ ToSet(stdout') \subseteq ToSet(stdout)
         /\ Head(stdout) \in ToSet(stdout) /\ Head(stdout) \in Line
<1>1. stdout \in Seq(Line) /\ Len(stdout) <= PipeLines /\ PipeLines \in Nat
  BY ListingAssumption DEF Inv, TypeOK
<1>2. Head(stdout) \in Line /\ Tail(stdout) \in Seq(Line)
  BY <1>1, HeadTailProperties
<1>3. Len(Tail(stdout)) <= Len(stdout) /\ Len(stdout) \in Nat
  BY <1>1, TailOfTheLines
<1>4. Head(stdout) \in ToSet(stdout) /\ ToSet(Tail(stdout)) \subseteq ToSet(stdout)
  BY <1>1, TailOfTheLines
<1>5. Len(Tail(stdout)) \in Nat
  BY <1>2
<1>6. Len(Tail(stdout)) <= PipeLines
  BY <1>1, <1>3, <1>5
<1>. QED  BY <1>2, <1>4, <1>6

LEMMA InitializeKeepsInv == ASSUME Inv, ReadInitialize PROVE Inv'
<1>1. /\ pc = "initialize" /\ stdout # <<>> /\ stdout' = Tail(stdout)
      /\ UNCHANGED <<file, command, listing, alive, held, deadline, closed>>
  BY DEF ReadInitialize
<1>2. /\ stdout' \in Seq(Line) /\ Len(stdout') <= PipeLines
      /\ ToSet(stdout') \subseteq ToSet(stdout)
  BY <1>1, ReadFromThePipe
<1>3. CASE fail
  BY <1>1, <1>2, <1>3, FailingKeepsInv
<1>4. CASE UNCHANGED <<pc, asked, result>>
  <2>1. TypeOK'
    BY <1>1, <1>2, <1>4 DEF Inv, TypeOK
  <2>. QED
    BY <1>1, <1>2, <1>4, <2>1
       DEF Inv, InputInv, AskedInv, ResultInv, GroupInv, mappable
<1>5. CASE pc' = "list" /\ asked' = asked \cup {"list"} /\ UNCHANGED result
  <2>1. TypeOK'
    BY <1>1, <1>2, <1>5 DEF Inv, TypeOK
  <2>2. AskedInv'
    BY <1>1, <1>2, <1>5 DEF Inv, AskedInv
  <2>3. InputInv' /\ ResultInv' /\ GroupInv'
    BY <1>1, <1>5 DEF Inv, InputInv, ResultInv, GroupInv, mappable
  <2>. QED  BY <2>1, <2>2, <2>3 DEF Inv
<1>. QED  BY <1>3, <1>4, <1>5 DEF ReadInitialize

LEMMA ToolsListKeepsInv == ASSUME Inv, ReadToolsList PROVE Inv'
<1>. DEFINE l == Head(stdout)
<1>1. /\ pc = "list" /\ stdout # <<>> /\ stdout' = Tail(stdout)
      /\ UNCHANGED <<file, command, listing, alive, held, deadline, closed>>
  BY DEF ReadToolsList
<1>2. /\ stdout' \in Seq(Line) /\ Len(stdout') <= PipeLines
      /\ ToSet(stdout') \subseteq ToSet(stdout)
      /\ l \in ToSet(stdout) /\ l \in Line
  BY <1>1, ReadFromThePipe
<1>3. CASE fail
  BY <1>1, <1>2, <1>3, FailingKeepsInv
<1>4. CASE UNCHANGED <<pc, asked, result>>
  <2>1. TypeOK'
    BY <1>1, <1>2, <1>4 DEF Inv, TypeOK
  <2>. QED
    BY <1>1, <1>2, <1>4, <2>1
       DEF Inv, InputInv, AskedInv, ResultInv, GroupInv, mappable
<1>5. CASE /\ answers(l, "2") /\ l.kind = "result" /\ mappable(l.tools)
           /\ pc' = "teardown" /\ UNCHANGED asked
           /\ result' = [status |-> "pending", tools |-> l.tools]
  <2>1. l.tools = listing[1] /\ "list" \notin asked
    BY <1>2, <1>5 DEF answers, isListing, Inv, AskedInv
  <2>2. l.tools \in Seq(Digestible)
    BY <1>2, <1>5, MappableTools DEF Line
  <2>. QED  BY <1>1, <1>2, <1>5, <2>1, <2>2, EndingKeepsInv
<1>. QED  BY <1>3, <1>4, <1>5 DEF ReadToolsList

LEMMA EndOfStreamKeepsInv == ASSUME Inv, EndOfStream PROVE Inv'
<1>1. /\ stdout \in Seq(Line) /\ Len(stdout) <= PipeLines
      /\ UNCHANGED <<file, command, listing, stdout, alive, held, deadline, closed>>
      /\ pc \in {"initialize", "list"} /\ fail
  BY DEF EndOfStream, Inv, TypeOK
<1>. QED  BY <1>1, FailingKeepsInv

LEMMA TeardownKeepsInv == ASSUME Inv, Teardown PROVE Inv'
<1>1. /\ pc = "teardown" /\ alive' = FALSE
      /\ UNCHANGED <<file, command, listing, asked, stdout, held, deadline, closed>>
  BY DEF Teardown
<1>2. CASE finish("failed", <<>>)
  <2>1. <<>> \in Seq(Digestible)
    OBVIOUS
  <2>. QED  BY <1>1, <1>2, <2>1, FinishingKeepsInv
<1>3. CASE /\ result.status # "failed"
           /\ file.given => toolListingAgrees(file.tools, result.tools)
           /\ finish("ok", IF file.given THEN file.tools ELSE result.tools)
  <2>1. /\ result.tools = listing[1] /\ "list" \notin asked
        /\ file.given => mappable(file.tools)
        /\ result.tools \in Seq(Digestible)
    BY <1>1, <1>3 DEF Inv, ResultInv, InputInv, TypeOK, Digestible
  <2>2. (IF file.given THEN file.tools ELSE result.tools) \in Seq(Digestible)
    BY <2>1, FileTools
  <2>. QED  BY <1>1, <1>3, <2>1, <2>2, FinishingKeepsInv
<1>. QED  BY <1>2, <1>3 DEF Teardown

\* The server and the clock touch neither the client nor its inputs.
LEMMA EnvironmentKeepsInv ==
  ASSUME Inv, UNCHANGED <<file, command, listing, pc, result>>, TypeOK',
         asked' \subseteq asked, alive' = TRUE => alive,
         \A l \in ToSet(stdout)' : l \in ToSet(stdout) \/ ~isListing(l)
           \/ /\ l.tools = listing[1] /\ "list" \notin asked'
              /\ pc \notin {"start", "initialize"}
  PROVE  Inv'
<1>1. AskedInv'
  BY DEF Inv, AskedInv
<1>2. InputInv' /\ ResultInv' /\ GroupInv'
  BY DEF Inv, InputInv, ResultInv, GroupInv, mappable, TypeOK
<1>. QED  BY <1>1, <1>2 DEF Inv

LEMMA QuietStepKeepsInv ==
  ASSUME Inv,
         UNCHANGED <<file, command, listing, pc, result, asked, stdout>>,
         alive' \in {alive, FALSE}, held' \subseteq {"stdout", "stderr"},
         deadline' \in {"running", "fired", "over"}, closed' \in BOOLEAN
  PROVE  Inv'
<1>1. TypeOK'
  BY DEF Inv, TypeOK
<1>2. ToSet(stdout)' = ToSet(stdout)
  BY DEF ToSet
<1>3. alive' = TRUE => alive
  BY DEF Inv, TypeOK
<1>. QED  BY <1>1, <1>2, <1>3, EnvironmentKeepsInv

LEMMA ClockKeepsInv == ASSUME Inv, Deadline \/ WaitDelayOver PROVE Inv'
<1>1. closed \in BOOLEAN /\ held \subseteq {"stdout", "stderr"} /\ alive \in BOOLEAN
  BY DEF Inv, TypeOK
<1>2. CASE Deadline
  BY <1>1, <1>2, QuietStepKeepsInv DEF Deadline
<1>3. CASE WaitDelayOver
  <2>1. stderrOpen \in BOOLEAN
    BY <1>1 DEF stderrOpen
  <2>. QED  BY <1>1, <1>3, <2>1, QuietStepKeepsInv DEF WaitDelayOver
<1>. QED  BY <1>2, <1>3

\* A line in the pipe is the answer to tools/list, or is none that could be.
LEMMA SendingKeepsInv ==
  ASSUME Inv, NEW l \in Line, send(l), asked' \subseteq asked,
         isListing(l) => /\ l.tools = listing[1] /\ "list" \notin asked'
                         /\ pc \notin {"start", "initialize"}
  PROVE  Inv'
<1>1. /\ stdout' = Append(stdout, l) /\ Len(stdout) < PipeLines
      /\ UNCHANGED <<file, command, listing, pc, alive, held, deadline, closed, result>>
  BY DEF send
<1>2. stdout \in Seq(Line) /\ PipeLines \in Nat /\ Len(stdout) \in Nat
  BY ListingAssumption DEF Inv, TypeOK
<1>3. /\ stdout' \in Seq(Line) /\ Len(stdout') = Len(stdout) + 1
      /\ ToSet(stdout') = ToSet(stdout) \cup {l}
  BY <1>1, <1>2, LineAppended
<1>4. Len(stdout') <= PipeLines
  BY <1>1, <1>2, <1>3
<1>5. TypeOK'
  BY <1>1, <1>3, <1>4 DEF Inv, TypeOK
<1>. QED  BY <1>1, <1>3, <1>5, EnvironmentKeepsInv DEF Inv, TypeOK

LEMMA ServerKeepsInv == ASSUME Inv, Server PROVE Inv'
<1>1. /\ listing[1] \in Seq(Tools) /\ <<>> \in Seq(Tools)
      /\ alive \in BOOLEAN /\ held \subseteq {"stdout", "stderr"}
      /\ deadline \in {"running", "fired", "over"} /\ closed \in BOOLEAN
  BY FirstPage DEF Inv, InputInv, TypeOK
<1>2. ASSUME NEW m \in {"initialize", "list"}, Answer(m) PROVE Inv'
  <2>1. m \in asked /\ asked' = asked \ {m}
    BY <1>2 DEF Answer
  <2>2. CASE send(line("error", idOf(m), <<>>))
    <3>1. line("error", idOf(m), <<>>) \in Line
      BY <1>1 DEF line, Line, idOf, Id
    <3>2. ~isListing(line("error", idOf(m), <<>>))
      BY DEF line, isListing
    <3>. QED  BY <2>1, <2>2, <3>1, <3>2, SendingKeepsInv
  <2>3. CASE send(line("result", idOf(m), IF m = "list" THEN listing[1] ELSE <<>>))
    <3>. DEFINE l == line("result", idOf(m), IF m = "list" THEN listing[1] ELSE <<>>)
    <3>1. l \in Line
      BY <1>1 DEF line, Line, idOf, Id
    <3>2. isListing(l) => m = "list" /\ l.tools = listing[1]
      BY DEF line, isListing, idOf
    <3>3. isListing(l) => /\ l.tools = listing[1] /\ "list" \notin asked'
                          /\ pc \notin {"start", "initialize"}
      BY <2>1, <3>2 DEF Inv, AskedInv
    <3>. HIDE DEF l
    <3>4. send(l)
      BY <2>3 DEF l
    <3>. QED  BY <2>1, <3>1, <3>3, <3>4, SendingKeepsInv
  <2>. QED  BY <1>2, <2>2, <2>3 DEF Answer
<1>3. CASE Chatter
  <2>1. UNCHANGED asked
    BY <1>3 DEF Chatter
  <2>2. PICK kind \in {"notification", "junk", "request"},
             id \in {"none", "1", "2", "other", "text"} : send(line(kind, id, <<>>))
    BY <1>3 DEF Chatter
  <2>3. line(kind, id, <<>>) \in Line /\ ~isListing(line(kind, id, <<>>))
    BY <1>1 DEF line, Line, Id, isListing
  <2>. QED  BY <2>1, <2>2, <2>3, SendingKeepsInv
<1>4. CASE Escape
  <2>1. held' \subseteq {"stdout", "stderr"}
    BY <1>4, ListingAssumption DEF Escape
  <2>. QED  BY <1>1, <1>4, <2>1, QuietStepKeepsInv DEF Escape
<1>5. CASE Exit
  BY <1>1, <1>5, QuietStepKeepsInv DEF Exit
<1>. QED  BY <1>2, <1>3, <1>4, <1>5 DEF Server

LEMMA NextKeepsInv == Inv /\ [Next]_vars => Inv'
<1>. SUFFICES ASSUME Inv, [Next]_vars PROVE Inv'
  OBVIOUS
<1>1. CASE Client
  BY <1>1, ResolveKeepsInv, InitializeKeepsInv, ToolsListKeepsInv, EndOfStreamKeepsInv,
     TeardownKeepsInv DEF Client
<1>2. CASE UNCHANGED vars
  <2>1. TypeOK'
    BY <1>2 DEF vars, Inv, TypeOK
  <2>. QED  BY <1>2, <2>1, EnvironmentKeepsInv DEF vars
<1>. QED  BY <1>1, <1>2, ClockKeepsInv, ServerKeepsInv DEF Next

LEMMA InvAlways == Spec => []Inv
BY InitKeepsInv, NextKeepsInv, PTL DEF Spec

LEMMA ServedAndAgreed == Inv => LiveListingIsServed /\ CrossCheckedListing
<1>. SUFFICES ASSUME Inv PROVE LiveListingIsServed /\ CrossCheckedListing
  OBVIOUS
<1>1. LiveListingIsServed
  BY DEF Inv, ResultInv, LiveListingIsServed
<1>2. CrossCheckedListing
  <2>. SUFFICES ASSUME pc = "returned", result.status = "ok", command, file.given
                PROVE  CrossCheckedListing
    BY DEF CrossCheckedListing
  <2>1. result.tools = file.tools /\ toolListingAgrees(file.tools, listing[1])
    BY DEF Inv, ResultInv
  <2>2. file.tools \in Seq(Tools) /\ listing[1] \in Seq(Tools)
    BY FileTools, FirstPage DEF Inv, InputInv
  <2>. QED  BY <2>1, <2>2, AgreeingLists DEF CrossCheckedListing
<1>. QED  BY <1>1, <1>2

\* The pipes, the requests and the result keep their types, and every tool of the
\* result has a schema (mapWireTools), whatever the server sends.
THEOREM TypesAlways == Spec => []TypeOK
<1>1. Inv => TypeOK
  BY DEF Inv
<1>. QED  BY <1>1, InvAlways, PTL

\* Whatever a server sends before, between and after its answers, and whenever it
\* exits or is killed, a live listing that attest goes on with is what it answered
\* to tools/list (speakMCP, readRPCResult).
THEOREM LiveListingAlwaysServed == Spec => []LiveListingIsServed
BY InvAlways, ServedAndAgreed, PTL

\* For every file and every listing, one that attest goes on with after the cross
\* check is one both sources agree on, tool by tool and schema by schema, in
\* whatever order they have them (resolveMCPTools, toolListingDisagreement).
THEOREM CrossCheckAlwaysHolds == Spec => []CrossCheckedListing
BY InvAlways, ServedAndAgreed, PTL

\* Nothing of the process group of the server outlives the resolution, on any of
\* the paths that end it (ExtractTools, killProcessTree).
THEOREM NeverAServerLeftBehind == Spec => []NoServerLeftBehind
<1>1. Inv => NoServerLeftBehind
  BY DEF Inv, GroupInv, NoServerLeftBehind
<1>. QED  BY <1>1, InvAlways, PTL
=============================================================================
