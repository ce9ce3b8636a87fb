----------------------------- MODULE ToolListing -----------------------------
(***************************************************************************)
(* How `smithmark attest` learns the tool listing of an MCP server: from   *)
(* a --tools-from file, from the live server, or from both with a cross    *)
(* check (resolveMCPTools).  The live listing is a conversation with a     *)
(* child process over pipes, under a deadline: initialize, initialized,    *)
(* tools/list, and then the whole process group is killed.                 *)
(*                                                                         *)
(* The server is the environment.  It may answer late, with an error or    *)
(* not at all, send notifications, requests of its own (numbered as it     *)
(* likes) or lines that are no JSON-RPC, exit early, and leave a           *)
(* descendant outside its process group that keeps some pipe ends open.    *)
(***************************************************************************)
EXTENDS Naturals, Sequences, SequencesExt

CONSTANTS
  Tools,      \* the tools that occur: name and input schema
  Listings,   \* what servers list: sequences of pages of tools
  Files,      \* what a --tools-from file may list
  Escapes,    \* the pipe ends a descendant that escaped may hold
  PipeLines   \* how many lines the stdout pipe holds

ASSUME ListingAssumption ==
  /\ Tools \subseteq [name: STRING, schema: STRING]
  /\ Listings \subseteq Seq(Seq(Tools)) /\ <<>> \notin Listings
  /\ Files \subseteq Seq(Tools) /\ <<>> \in Files
  /\ Escapes \subseteq SUBSET {"stdout", "stderr"}
  /\ PipeLines \in Nat \ {0}

\* JSON-RPC ids as the client tells them apart: its own two, any other number,
\* none at all, and one that is no number.
Id == {"1", "2", "other", "none", "text"}

\* A line on the server's stdout; "junk" is one that does not parse, or is
\* longer than the scanner's buffer.
Line ==
  [kind: {"result", "error", "notification", "request", "junk"}, id: Id,
   tools: Seq(Tools)]

line(kind, id, tools) == [kind |-> kind, id |-> id, tools |-> tools]

idOf(method) == IF method = "initialize" THEN "1" ELSE "2"

VARIABLES
  file,      \* the --tools-from file: given or not, readable or not, its tools
  command,   \* the declaration carries a launch command
  listing,   \* the pages of the server's listing
  pc,        \* where the client is
  asked,     \* the requests the server has not answered yet
  stdout,    \* the lines in the server's stdout pipe
  alive,     \* the process group of the server runs
  held,      \* the pipe ends an escaped descendant holds
  deadline,  \* the context's deadline: running, fired, or over with WaitDelay
  closed,    \* WaitDelay closed the client's ends of the pipes
  result     \* what resolveMCPTools returns

vars == <<file, command, listing, pc, asked, stdout, alive, held, deadline,
          closed, result>>

Pending == [status |-> "pending", tools |-> <<>>]

Init ==
  /\ file \in [given: BOOLEAN, readable: BOOLEAN, tools: Files]
  /\ ~file.given => ~file.readable /\ file.tools = <<>>
  /\ command \in BOOLEAN
  /\ listing \in Listings
  /\ pc = "start" /\ asked = {} /\ stdout = <<>>
  /\ alive = FALSE /\ held = {}
  /\ deadline = "running" /\ closed = FALSE
  /\ result = Pending

-----------------------------------------------------------------------------
\* mapWireTools fails as a whole if a tool has no input schema.
mappable(tools) == \A k \in DOMAIN tools : tools[k].schema # "absent"

uniqueNames(tools) ==
  \A j, k \in DOMAIN tools : tools[j].name = tools[k].name => j = k

\* Mutation: tools the server lists and the file does not go unnoticed.
toolListingAgrees_oneWay(fileTools, liveTools) ==
  /\ uniqueNames(fileTools) /\ uniqueNames(liveTools)
  /\ ToSet(fileTools) \subseteq ToSet(liveTools)

\* toolListingDisagreement finds nothing: unique names on both sides, the same
\* names, and the same schema digest under each.
toolListingAgrees(fileTools, liveTools) ==
  /\ uniqueNames(fileTools) /\ uniqueNames(liveTools)
  /\ ToSet(fileTools) = ToSet(liveTools)

finish(status, tools) ==
  /\ pc' = "returned"
  /\ result' = [status |-> status, tools |-> tools]

\* The file is read first, and a file that cannot be used ends it; without a
\* command there is nothing else to ask, and without both nothing at all.
Resolve ==
  /\ pc = "start"
  /\ IF file.given /\ (~file.readable \/ ~mappable(file.tools))
     THEN finish("failed", <<>>) /\ UNCHANGED <<asked, alive>>
     ELSE IF ~command
     THEN /\ IF file.given THEN finish("ok", file.tools) ELSE finish("failed", <<>>)
          /\ UNCHANGED <<asked, alive>>
     ELSE \/ finish("failed", <<>>) /\ UNCHANGED <<asked, alive>>
          \/ /\ pc' = "initialize" /\ asked' = {"initialize"} /\ alive' = TRUE
             /\ UNCHANGED result
  /\ UNCHANGED <<file, command, listing, stdout, held, deadline, closed>>

\* The exchange is over, well or badly; the process group is still there.
fail ==
  /\ pc' = "teardown"
  /\ result' = [status |-> "failed", tools |-> <<>>]
  /\ UNCHANGED asked

\* Mutation: whatever carries an id answers the request.
answers_anyId(l, id) == l.id # "none"

\* readRPCResult: the line is taken for the answer to the request of this id.
answers(l, id) == l.id = id

\* A line that parses and is not taken for the answer is skipped.
unreadable(l) == l.kind = "junk" \/ l.id = "text"

\* speakMCP waiting for the answer to initialize.  Whatever it holds, the client
\* goes on to tools/list, unless the server that should read it is gone.
ReadInitialize ==
  /\ pc = "initialize" /\ stdout # <<>> /\ ~closed
  /\ stdout' = Tail(stdout)
  /\ LET l == Head(stdout)
     IN  IF unreadable(l) THEN fail
         ELSE IF ~answers(l, "1") THEN UNCHANGED <<pc, asked, result>>
         ELSE IF l.kind = "error" THEN fail
         ELSE \/ ~alive /\ fail
              \/ pc' = "list" /\ asked' = asked \cup {"list"} /\ UNCHANGED result
  /\ UNCHANGED <<file, command, listing, alive, held, deadline, closed>>

\* speakMCP waiting for the answer to tools/list; a message without a result
\* does not decode, and an answer is taken for the whole listing.
ReadToolsList ==
  /\ pc = "list" /\ stdout # <<>> /\ ~closed
  /\ stdout' = Tail(stdout)
  /\ LET l == Head(stdout)
     IN  IF unreadable(l) THEN fail
         ELSE IF ~answers(l, "2") THEN UNCHANGED <<pc, asked, result>>
         ELSE IF l.kind # "result" \/ ~mappable(l.tools) THEN fail
         ELSE /\ pc' = "teardown" /\ UNCHANGED asked
              /\ result' = [status |-> "pending", tools |-> l.tools]
  /\ UNCHANGED <<file, command, listing, alive, held, deadline, closed>>

stdoutOpen == alive \/ "stdout" \in held
stderrOpen == alive \/ "stderr" \in held

\* The scanner stops: every writer is gone, or the pipe was closed under it.
EndOfStream ==
  /\ pc \in {"initialize", "list"}
  /\ closed \/ (stdout = <<>> /\ ~stdoutOpen)
  /\ fail
  /\ UNCHANGED <<file, command, listing, stdout, alive, held, deadline, closed>>

\* Mutation: after an answer the server is left to end by itself.
Teardown_onFailure ==
  /\ pc = "teardown"
  /\ alive' = (alive /\ result.status # "failed")
  /\ IF result.status = "failed" THEN finish("failed", <<>>)
     ELSE finish("ok", IF file.given THEN file.tools ELSE result.tools)
  /\ UNCHANGED <<file, command, listing, asked, stdout, held, deadline, closed>>

\* stdin is closed, the group killed and waited for; Wait is bounded by
\* WaitDelay.  Then the cross check of resolveMCPTools.
Teardown ==
  /\ pc = "teardown"
  /\ alive' = FALSE
  /\ IF result.status = "failed"
        \/ (file.given /\ ~toolListingAgrees(file.tools, result.tools))
     THEN finish("failed", <<>>)
     ELSE finish("ok", IF file.given THEN file.tools ELSE result.tools)
  /\ UNCHANGED <<file, command, listing, asked, stdout, held, deadline, closed>>

Client == Resolve \/ ReadInitialize \/ ReadToolsList \/ EndOfStream \/ Teardown

-----------------------------------------------------------------------------
\* The context, watched by os/exec on a goroutine of its own.

\* The deadline: cmd.Cancel kills the process group.
Deadline ==
  /\ pc \in {"initialize", "list"} /\ deadline = "running"
  /\ deadline' = "fired" /\ alive' = FALSE
  /\ UNCHANGED <<file, command, listing, pc, asked, stdout, held, closed, result>>

\* Mutation: WaitDelay is not set.
WaitDelayOver_unset ==
  /\ pc \in {"initialize", "list"} /\ deadline = "fired"
  /\ deadline' = "over"
  /\ UNCHANGED <<file, command, listing, pc, asked, stdout, alive, held, closed,
                 result>>

\* WaitDelay later os/exec closes the pipes, but only if its own copying of
\* stderr has not come to an end by then.
WaitDelayOver ==
  /\ pc \in {"initialize", "list"} /\ deadline = "fired"
  /\ deadline' = "over" /\ closed' = stderrOpen
  /\ UNCHANGED <<file, command, listing, pc, asked, stdout, alive, held, result>>

-----------------------------------------------------------------------------
\* The server.

send(l) ==
  /\ Len(stdout) < PipeLines
  /\ stdout' = Append(stdout, l)
  /\ UNCHANGED <<file, command, listing, pc, alive, held, deadline, closed, result>>

Answer(m) ==
  /\ alive /\ m \in asked
  /\ asked' = asked \ {m}
  /\ \/ send(line("result", idOf(m),
                  IF m = "list" THEN listing[1] ELSE <<>>))
     \/ send(line("error", idOf(m), <<>>))

\* What it says unasked; an escaped descendant may go on with it.
Chatter ==
  /\ stdoutOpen /\ pc # "start"
  /\ UNCHANGED asked
  /\ \/ send(line("notification", "none", <<>>))
     \/ send(line("junk", "none", <<>>))
     \/ \E id \in {"1", "2", "other", "text"} : send(line("request", id, <<>>))

Escape ==
  /\ alive /\ held = {}
  /\ held' \in Escapes
  /\ UNCHANGED <<file, command, listing, pc, asked, stdout, alive, deadline,
                 closed, result>>

Exit ==
  /\ alive \/ held # {}
  /\ \/ alive' = FALSE /\ UNCHANGED held
     \/ held' = {} /\ UNCHANGED alive
  /\ UNCHANGED <<file, command, listing, pc, asked, stdout, deadline, closed,
                 result>>

Server == (\E m \in {"initialize", "list"} : Answer(m)) \/ Chatter \/ Escape \/ Exit

Next == Client \/ Deadline \/ WaitDelayOver \/ Server

Spec == Init /\ [][Next]_vars

\* The client and the clock go on; nothing is assumed of the server.
FairSpec ==
  Spec /\ WF_vars(Client) /\ WF_vars(Deadline) /\ WF_vars(WaitDelayOver)

-----------------------------------------------------------------------------
\* Properties.

\* Every variable has its type; a tool of the result has a schema to digest.
TypeOK ==
  /\ pc \in {"start", "initialize", "list", "teardown", "returned"}
  /\ asked \subseteq {"initialize", "list"}
  /\ stdout \in Seq(Line) /\ Len(stdout) <= PipeLines
  /\ {alive, closed, command} \subseteq BOOLEAN
  /\ held \subseteq {"stdout", "stderr"}
  /\ deadline \in {"running", "fired", "over"}
  /\ result.status \in {"pending", "ok", "failed"}
  /\ result.tools \in Seq({t \in Tools : t.schema # "absent"})

\* A live listing that attest goes on with is what the server answered to
\* tools/list, never another message of the conversation (readRPCResult).
LiveListingIsServed ==
  pc = "returned" /\ result.status = "ok" /\ command /\ ~file.given =>
    result.tools = listing[1] /\ "list" \notin asked

\* With both sources, a listing attest goes on with is one both agree on: neither
\* names a tool twice, or one the other does not have, or has with another
\* schema (toolListingDisagreement).
CrossCheckedListing ==
  pc = "returned" /\ result.status = "ok" /\ command /\ file.given =>
    LET schemas(tools) == [n \in {t.name : t \in ToSet(tools)} |->
                             {tools[k].schema : k \in {j \in DOMAIN tools :
                                                        tools[j].name = n}}]
    IN  /\ schemas(result.tools) = schemas(listing[1])
        /\ \A tools \in {result.tools, listing[1]} :
             Len(tools) = Cardinality(DOMAIN schemas(tools))

\* When the listing is in, or given up, nothing of the server's process group
\* runs any more (ExtractTools, killProcessTree).
NoServerLeftBehind == pc = "returned" => ~alive

\* The listing always comes to an end, whatever the server does or does not do,
\* as long as an escaped descendant keeps stderr open with stdout.
ListingEnds == <>(pc = "returned")

\* What mcptools.go:134-135 says: "the deadline is what bounds a merely
\* unhelpful server, not just a hung one".
DeadlineBoundsExtraction == deadline = "fired" ~> pc = "returned"

\* What mcptools.go:293-301 says: reading goes on "until it finds a response
\* whose id equals wantID", so tools/list is only asked once initialize has been
\* answered.  This does not hold: a request of the server may have that id.
ListedAfterInitialize == pc = "list" => "initialize" \notin asked

\* What attest.go:349-351 says: extraction "returns its live tool listing".
\* This does not hold of a listing in pages.
ListingIsWhole ==
  pc = "returned" /\ result.status = "ok" /\ command =>
    ToSet(result.tools) = UNION {ToSet(listing[p]) : p \in DOMAIN listing}
=============================================================================
