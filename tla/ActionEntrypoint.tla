--------------------------- MODULE ActionEntrypoint ---------------------------
(***************************************************************************)
(* The entrypoint of the composite GitHub Action (action/entrypoint.sh):   *)
(* it finds a smithmark binary (a given one, a release download, or go     *)
(* install as the fallback), runs smithmark verify, and leaves with its    *)
(* exit code, which it also writes to the step output.                     *)
(*                                                                         *)
(* The script runs under `set -e`, which is off inside the functions that  *)
(* are called as conditions.  A temporary directory is removed by the      *)
(* failing function or by an EXIT trap, and a trap replaces the one before.*)
(***************************************************************************)
EXTENDS Naturals

CONSTANT Codes   \* exit codes a binary may end with, from not starting at all on

ASSUME EntrypointAssumption == 0..3 \subseteq Codes /\ Codes \subseteq 0..255

VARIABLES
  ref,          \* the ref input is given
  installFrom,  \* the install-from input: none, an executable file, a version
  pc,           \* the step of the script
  temps,        \* temporary directories on disk
  trap,         \* the directory the EXIT trap removes, or "none"
  binary,       \* where SMITHMARK_BIN is: none, given, download, goInstall
  verified,     \* the exit code of smithmark verify, Unset before
  writable,     \* GITHUB_OUTPUT can be written
  output,       \* the exit-code step output, Unset while empty
  exit          \* exit code of the script, Unset while it runs

vars == <<ref, installFrom, pc, temps, trap, binary, verified, writable,
          output, exit>>

Unset == 256

Init ==
  /\ ref \in BOOLEAN /\ installFrom \in {"none", "file", "version"}
  /\ writable \in BOOLEAN
  /\ pc = "inputs"
  /\ temps = {} /\ trap = "none" /\ binary = "none"
  /\ verified = Unset /\ output = Unset /\ exit = Unset

-----------------------------------------------------------------------------
inputs == <<ref, installFrom, writable>>

\* exit_with_code: the output first, and if it cannot be written `set -e` ends
\* the script there and then.  The trap runs either way.
exit_with_code(code) ==
  /\ exit' = IF writable THEN code ELSE 1
  /\ output' = IF writable THEN code ELSE Unset
  /\ temps' = temps \ {trap}
  /\ pc' = "ended"

CheckRef ==
  /\ pc = "inputs"
  /\ IF ref THEN pc' = "resolve" /\ UNCHANGED <<temps, output, exit>>
     ELSE exit_with_code(3)
  /\ UNCHANGED <<inputs, trap, binary, verified>>

\* install-from names a binary or a version; without it the release is tried.
ChooseSource ==
  /\ pc = "resolve"
  /\ pc' = CASE installFrom = "file" -> "verify"
             [] installFrom = "version" -> "goInstall"
             [] OTHER -> "latest"
  /\ binary' = IF installFrom = "file" THEN "given" ELSE binary
  /\ UNCHANGED <<inputs, temps, trap, verified, output, exit>>

\* Mutation: the directory is left to the trap, which go install replaces.
downloadFails_trapped ==
  /\ pc' = "goInstall"
  /\ UNCHANGED <<temps, trap, binary, output, exit>>

\* download_release returns 1, and the caller falls back to go install.
downloadFails ==
  /\ pc' = "goInstall"
  /\ temps' = temps \ {"download"}
  /\ UNCHANGED <<trap, binary, output, exit>>

\* Mutation: the exit status of tar or unzip ends the script.
download_release_rawStatus ==
  /\ pc \in {"latest", "download"}
  /\ \/ pc = "latest" /\ downloadFails
     \/ /\ pc = "latest" /\ pc' = "download"
        /\ temps' = temps \cup {"download"} /\ trap' = "download"
        /\ UNCHANGED <<binary, output, exit>>
     \/ /\ pc = "download" /\ exit_with_code(2)
        /\ UNCHANGED <<trap, binary>>
     \/ /\ pc = "download" /\ pc' = "verify" /\ binary' = "download"
        /\ UNCHANGED <<temps, trap, output, exit>>
  /\ UNCHANGED <<inputs, verified>>

\* download_release: the tag is resolved before the directory is made; after
\* that the download, the extraction or the binary in it may fail.
download_release ==
  /\ pc \in {"latest", "download"}
  /\ \/ downloadFails
     \/ /\ pc = "latest" /\ pc' = "download"
        /\ temps' = temps \cup {"download"} /\ trap' = "download"
        /\ UNCHANGED <<binary, output, exit>>
     \/ /\ pc = "download" /\ pc' = "verify" /\ binary' = "download"
        /\ UNCHANGED <<temps, trap, output, exit>>
  /\ UNCHANGED <<inputs, verified>>

\* resolve_via_go_install: without go, or when the install fails and its own
\* directory is removed again, nothing is left to fall back to.
resolve_via_go_install ==
  /\ pc = "goInstall"
  /\ \/ exit_with_code(3) /\ UNCHANGED <<trap, binary>>
     \/ /\ temps' = temps \cup {"goInstall"} /\ trap' = "goInstall"
        /\ binary' = "goInstall" /\ pc' = "verify"
        /\ UNCHANGED <<output, exit>>
  /\ UNCHANGED <<inputs, verified>>

RunVerify ==
  /\ pc = "verify"
  /\ verified' \in Codes
  /\ exit_with_code(verified')
  /\ UNCHANGED <<inputs, trap, binary>>

Next ==
  CheckRef \/ ChooseSource \/ download_release \/ resolve_via_go_install
  \/ RunVerify

Spec == Init /\ [][Next]_vars

-----------------------------------------------------------------------------
\* Properties.

\* Every variable has its type.
TypeOK ==
  /\ pc \in {"inputs", "resolve", "latest", "download", "goInstall", "verify",
             "ended"}
  /\ temps \subseteq {"download", "goInstall"}
  /\ trap \in {"none", "download", "goInstall"}
  /\ binary \in {"none", "given", "download", "goInstall"}
  /\ {verified, output, exit} \subseteq Codes \cup {Unset}

\* A step that passed or was flagged ran a verification that said so, and a verdict
\* in the step output is verify's and the exit code too: no tool on the way there
\* can speak for verify.  A step that failed ran one that failed, or could not
\* write its output, which is then empty: a write that fails never passes for a
\* verdict with an output beside it, and never as a success.
VerdictIsVerifys ==
  /\ exit \in 0..2 =>
       \/ verified = exit /\ binary # "none"
       \/ exit = 1 /\ output = Unset
  /\ output \in 0..2 => output = verified /\ output = exit

\* No temporary directory outlives the script, although one trap replaces the
\* other.
NothingLeftBehind == pc = "ended" => temps = {}

\* What entrypoint.sh:6-12 says: "Exit codes mirror smithmark verify exactly", 3
\* standing for "an unusable binary" among others; action.yml:50 names 0, 1, 2
\* and 3 as all there are.  This does not hold of a binary that cannot be run.
ExitInContract == pc = "ended" => exit \in 0..3

\* What entrypoint.sh:250-251 says: "the process exits with verify's exact code,
\* never masked as success".  This does not hold if the output cannot be written.
NeverMasked == pc = "ended" /\ verified # Unset => exit = verified
=============================================================================
