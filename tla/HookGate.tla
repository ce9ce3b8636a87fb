------------------------------- MODULE HookGate -------------------------------
(***************************************************************************)
(* The Claude Code PreToolUse hook (surfaces/claude-code-hook/             *)
(* verify-mcp.sh): one process per tool call.  It reads the call, looks up *)
(* which artifact stands behind the MCP server, runs smithmark verify on   *)
(* it and answers allow or deny.                                           *)
(*                                                                         *)
(* The script runs under `set -e`, so a command that fails outside a       *)
(* condition ends it without an answer.  The sidecar with the              *)
(* configuration is read once per field, and somebody may rewrite it in    *)
(* between.                                                                *)
(***************************************************************************)
EXTENDS Naturals, Sequences

CONSTANTS
  Fields,     \* the fields of a sidecar entry after "artifact", in reading order
  Values,     \* what a field may hold; "" is not there
  Sidecars,   \* the entry of the server in the sidecar, or no readable sidecar
  Envs,       \* the SMITHMARK_HOOK_* environment
  MaxEdits    \* bound on the rewrites of the sidecar during one call

AllFields == <<"artifact">> \o Fields
Entry == [{AllFields[k] : k \in DOMAIN AllFields} -> Values]
Nothing == [f \in {AllFields[k] : k \in DOMAIN AllFields} |-> ""]

ASSUME HookAssumption ==
  /\ Fields \in Seq(STRING) /\ "" \in Values
  /\ Sidecars \cup Envs \subseteq Entry
  /\ MaxEdits \in Nat

VARIABLES
  call,      \* the tool call: of an MCP server or not, its payload parses or not
  env,       \* the environment's fields
  allowOnError,  \* SMITHMARK_HOOK_ALLOW_ON_ERROR
  sidecar,   \* the server's entry; Nothing without a sidecar or an entry
  edits,     \* rewrites of the sidecar so far
  pc,        \* the step of the script
  field,     \* the field read next
  got,       \* the shell variables ARTIFACT, TRUST_ROOT, BUNDLE, ...
  said,      \* history: every entry the sidecar has held during the call
  fellBack,  \* history: the artifact is the environment's
  verified,  \* the exit code of smithmark verify, or "none"
  decision,  \* the JSON on stdout: "none", "allow" or "deny"
  exit       \* exit code of the hook, "running" before

vars == <<call, env, allowOnError, sidecar, edits, pc, field, got, said, fellBack,
          verified, decision, exit>>

\* Exit codes are strings, so that "none" is one of them; "other" is any code the
\* exit contract of verify does not name, that of a signal included.
ExitCode == {"0", "1", "2", "3", "other"}

Init ==
  /\ call \in [mcp: BOOLEAN, parses: BOOLEAN, server: BOOLEAN]
  /\ env \in Envs /\ allowOnError \in BOOLEAN
  /\ sidecar \in Sidecars /\ edits = 0 /\ said = {sidecar} /\ fellBack = FALSE
  /\ pc = "jq" /\ field = 1 /\ got = Nothing
  /\ verified = "none" /\ decision = "none" /\ exit = "running"

-----------------------------------------------------------------------------
end(code, answer) ==
  /\ pc' = "ended" /\ exit' = code /\ decision' = answer
  /\ UNCHANGED <<call, env, allowOnError, sidecar, edits, field, got, said, fellBack>>

go(step) ==
  /\ pc' = step
  /\ UNCHANGED <<call, env, allowOnError, sidecar, edits, said, verified, decision, exit>>

\* A command the script does not guard fails, and `set -e` ends it with the
\* command's own status: 2 when jq cannot write, 1 when mktemp fails.
abort(codes) == \E code \in codes : end(code, "none")

\* allow_decision and deny_decision: one JSON object and exit 0, if jq writes it.
decide(answer) == end("0", answer) \/ abort({"1", "2", "other"})

\* could_not_check: denied, unless the user asked for the opposite.
could_not_check == decide(IF allowOnError THEN "allow" ELSE "deny")

\* Without jq there is no JSON to be had: exit 2 blocks by itself.
CheckJq ==
  /\ pc = "jq"
  /\ \/ end("2", "none") /\ UNCHANGED verified
     \/ go("payload") /\ UNCHANGED <<field, got, fellBack>>

\* A payload without a tool_name of an MCP tool is nobody's business here; one
\* that does not parse has none.
ReadPayload ==
  /\ pc = "payload"
  /\ IF ~call.parses \/ ~call.mcp THEN end("0", "none") /\ UNCHANGED verified
     ELSE IF ~call.server THEN could_not_check /\ UNCHANGED verified
     ELSE go("sidecar") /\ UNCHANGED <<field, got, fellBack>>

\* One jq call per field.  A failing jq leaves the field empty.
ReadField ==
  /\ pc = "sidecar"
  /\ \E v \in {sidecar[AllFields[field]], ""} :
       got' = [got EXCEPT ![AllFields[field]] = v]
  /\ field' = field + 1 /\ UNCHANGED fellBack
  /\ go(IF field = Len(AllFields) THEN "fallback" ELSE "sidecar")

\* Mutation: the environment fills in every field the sidecar leaves out.
FallBack_perField ==
  /\ pc = "fallback"
  /\ LET filled == [f \in DOMAIN got |-> IF got[f] = "" THEN env[f] ELSE got[f]]
     IN  IF filled["artifact"] = "" THEN could_not_check /\ UNCHANGED verified
         ELSE /\ go("binary") /\ got' = filled /\ UNCHANGED field
              /\ fellBack' = (got["artifact"] = "")

\* A server without an artifact in the sidecar is configured by the environment,
\* field by field where the sidecar has none either.
FallBack ==
  /\ pc = "fallback"
  /\ LET filled == [f \in DOMAIN got |-> IF got[f] = "" THEN env[f] ELSE got[f]]
     IN  IF got["artifact"] # "" THEN go("binary") /\ UNCHANGED <<field, got, fellBack>>
         ELSE IF filled["artifact"] = "" THEN could_not_check /\ UNCHANGED verified
         ELSE go("binary") /\ got' = filled /\ fellBack' = TRUE /\ UNCHANGED field

FindBinary ==
  /\ pc = "binary"
  /\ \/ could_not_check /\ UNCHANGED verified
     \/ abort({"1"}) /\ UNCHANGED verified  \* mktemp fails
     \/ go("verify") /\ UNCHANGED <<field, got, fellBack>>

\* Mutation: a rejected artifact is one of the errors that may be allowed.
Classify_lenient ==
  /\ pc = "verify"
  /\ \E code \in ExitCode :
       /\ verified' = code
       /\ IF code = "0" THEN decide("allow") ELSE could_not_check

\* smithmark verify --strict runs to an exit code, and the code decides.
Classify ==
  /\ pc = "verify"
  /\ \E code \in ExitCode :
       /\ verified' = code
       /\ IF code = "0" THEN decide("allow")
          ELSE IF code \in {"1", "2"} THEN decide("deny")
          ELSE could_not_check

\* Somebody rewrites the sidecar.
EditSidecar ==
  /\ pc \in {"jq", "payload", "sidecar"} /\ edits < MaxEdits
  /\ sidecar' \in Sidecars /\ edits' = edits + 1 /\ said' = said \cup {sidecar'}
  /\ UNCHANGED <<call, env, allowOnError, pc, field, got, fellBack, verified,
                 decision, exit>>

Script ==
  CheckJq \/ ReadPayload \/ ReadField \/ FallBack \/ FindBinary \/ Classify

Next == Script \/ EditSidecar

Spec == Init /\ [][Next]_vars

-----------------------------------------------------------------------------
\* Properties.

\* Every variable has its type.
TypeOK ==
  /\ pc \in {"jq", "payload", "sidecar", "fallback", "binary", "verify", "ended"}
  /\ field \in 1..(Len(AllFields) + 1) /\ edits \in 0..MaxEdits
  /\ {env, sidecar, got} \cup said \subseteq Entry /\ fellBack \in BOOLEAN
  /\ verified \in ExitCode \cup {"none"}
  /\ decision \in {"none", "allow", "deny"}
  /\ exit \in {"running", "0", "1", "2", "other"}

\* The override for checks that could not be completed never turns a completed
\* verification that failed or was flagged into an admission, and without it
\* only a verification that passed admits (README, "Security posture").
OnlyAPassAdmits ==
  decision = "allow" =>
    verified = "0" \/ (allowOnError /\ verified \in {"none", "3", "other"})

\* An artifact the sidecar names is verified with what the sidecar said of it
\* during this call and nothing else: no trust root, bundle or base of the
\* environment gets beside it (section 3 of the script), however the sidecar is
\* rewritten.  The converse does not hold and is not claimed: an artifact of the
\* environment keeps the trust root or bundle the sidecar had for the server, and
\* a sidecar rewritten between two reads gives fields of both its entries.
SidecarArtifactSidecarTrust ==
  verified # "none" =>
    /\ fellBack => got["artifact"] = env["artifact"]
    /\ \A f \in DOMAIN got :
         \/ got[f] = "" \/ (\E entry \in said : got[f] = entry[f])
         \/ fellBack /\ got[f] = env[f]

\* What verify-mcp.sh:38-41 and its README.md:70-84 say: the hook "fails closed by
\* default when it cannot complete a check at all", by a deny decision or by
\* exit 2, the only ways the README names to block a call.
FailsClosed ==
  pc = "ended" /\ call.mcp /\ call.parses /\ verified # "0" /\ ~allowOnError =>
    decision = "deny" \/ exit = "2"
=============================================================================
