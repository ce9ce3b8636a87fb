------------------------ MODULE ActionEntrypoint_proofs ------------------------
(***************************************************************************)
(* What the Action's entrypoint guarantees for every set of exit codes a   *)
(* binary may end with: the verdict, the step output, the directories.     *)
(***************************************************************************)
EXTENDS ActionEntrypoint, TLAPS

\* Nothing is settled before the end, and nothing is written anywhere.
UndecidedInv ==
  pc # "ended" => exit = Unset /\ output = Unset /\ verified = Unset

\* At most one directory exists, and the trap in force removes it; when go
\* install begins, the directory of the failed download is gone.
TempsInv ==
  /\ pc \in {"inputs", "resolve", "latest", "goInstall"} => temps = {}
  /\ pc = "download" => trap = "download"
  /\ pc \in {"download", "verify"} => temps \subseteq {trap}

BinaryInv == pc = "verify" => binary # "none"

Safe == VerdictIsVerifys /\ NothingLeftBehind

IInv == TypeOK /\ UndecidedInv /\ TempsInv /\ BinaryInv /\ Safe

\* Codes fit a byte, so that Unset is none of them, and hold those of verify.
LEMMA CodesFacts ==
  Unset \notin Codes /\ 1 \in Codes /\ 3 \in Codes /\ Unset \notin 0..2
  /\ 3 \notin 0..2
BY EntrypointAssumption DEF Unset

\* Ending with a code of verify, or with 3, keeps the type of what is settled.
LEMMA EndTypes ==
  ASSUME NEW code \in Codes, TypeOK, verified' \in Codes \cup {Unset},
         UNCHANGED <<inputs, trap, binary>>, exit_with_code(code)
  PROVE  TypeOK'
<1>1. {verified', output', exit'} \subseteq Codes \cup {Unset}
  BY CodesFacts DEF exit_with_code
<1> QED BY <1>1 DEF TypeOK, exit_with_code

\* However the script ends, it writes its code and removes what the trap names.
LEMMA EndIsTidy ==
  ASSUME NEW code \in Codes, temps \subseteq {trap}, UNCHANGED inputs,
         code \in 0..2 => verified' = code /\ binary' # "none",
         exit_with_code(code)
  PROVE  Safe' /\ UndecidedInv' /\ TempsInv' /\ BinaryInv'
<1>1. pc' = "ended" BY DEF exit_with_code
<1>2. VerdictIsVerifys' BY CodesFacts DEF VerdictIsVerifys, exit_with_code
<1>3. NothingLeftBehind' BY DEF NothingLeftBehind, exit_with_code
<1> QED
  BY <1>1, <1>2, <1>3 DEF Safe, UndecidedInv, TempsInv, BinaryInv

\* A step that does not end the script has nothing to say about its end.
LEMMA GoesOn ==
  ASSUME IInv, pc # "ended", pc' # "ended", UNCHANGED <<verified, output, exit>>
  PROVE  Safe' /\ UndecidedInv'
<1>1. exit' = Unset /\ output' = Unset BY DEF IInv, UndecidedInv
<1>2. VerdictIsVerifys' BY <1>1, CodesFacts DEF VerdictIsVerifys
<1> QED
  BY <1>2 DEF IInv, UndecidedInv, Safe, NothingLeftBehind

LEMMA InitInv == Init => IInv
<1> SUFFICES ASSUME Init PROVE IInv OBVIOUS
<1>1. VerdictIsVerifys BY CodesFacts DEF Init, VerdictIsVerifys
<1> QED
  BY <1>1 DEF Init, IInv, TypeOK, UndecidedInv, TempsInv, BinaryInv, Safe,
              NothingLeftBehind

LEMMA NextInv == IInv /\ [Next]_vars => IInv'
<1> SUFFICES ASSUME IInv, [Next]_vars PROVE IInv' OBVIOUS
<1> USE DEF IInv
<1>1. CASE CheckRef
  <2>1. temps = {} /\ pc = "inputs" BY <1>1 DEF CheckRef, TempsInv
  <2>2. CASE ref
    <3>1. TypeOK' BY <1>1, <2>2 DEF CheckRef, TypeOK, inputs
    <3>2. pc' = "resolve" /\ UNCHANGED <<temps, output, exit, verified>>
      BY <1>1, <2>2 DEF CheckRef
    <3>3. Safe' /\ UndecidedInv' BY <2>1, <3>2, GoesOn
    <3> QED BY <2>1, <3>1, <3>2, <3>3 DEF TempsInv, BinaryInv
  <2>3. CASE ~ref
    <3>1. exit_with_code(3) /\ UNCHANGED <<inputs, trap, binary, verified>>
      BY <1>1, <2>3 DEF CheckRef
    <3>2. TypeOK' BY <3>1, EndTypes, CodesFacts DEF TypeOK
    <3> QED BY <2>1, <3>1, <3>2, EndIsTidy, CodesFacts
  <2> QED BY <2>2, <2>3
<1>2. CASE ChooseSource
  <2>1. /\ pc = "resolve" /\ temps = {} /\ temps' = temps
        /\ pc' \in {"verify", "goInstall", "latest"}
        /\ pc' = "verify" => binary' = "given"
        /\ binary' \in {binary, "given"}
        /\ UNCHANGED <<inputs, trap, verified, output, exit>>
    BY <1>2 DEF ChooseSource, TempsInv
  <2>2. TypeOK' BY <2>1 DEF TypeOK
  <2>3. Safe' /\ UndecidedInv' BY <2>1, GoesOn
  <2> QED BY <2>1, <2>2, <2>3 DEF TempsInv, BinaryInv
<1>3. CASE download_release
  <2>0. pc \in {"latest", "download"} /\ UNCHANGED <<inputs, verified>>
    BY <1>3 DEF download_release
  <2>1. CASE downloadFails
    <3>1. /\ pc' = "goInstall" /\ temps' = {}
          /\ UNCHANGED <<trap, binary, output, exit>>
      BY <2>0, <2>1 DEF downloadFails, TempsInv
    <3>2. TypeOK' BY <2>0, <3>1 DEF TypeOK
    <3>3. Safe' /\ UndecidedInv' BY <2>0, <3>1, GoesOn
    <3> QED BY <3>1, <3>2, <3>3 DEF TempsInv, BinaryInv
  <2>2. CASE /\ pc = "latest" /\ pc' = "download"
             /\ temps' = temps \cup {"download"} /\ trap' = "download"
             /\ UNCHANGED <<binary, output, exit>>
    <3>1. temps' = {"download"} BY <2>2 DEF TempsInv
    <3>2. TypeOK' BY <2>0, <2>2, <3>1 DEF TypeOK
    <3>3. Safe' /\ UndecidedInv' BY <2>0, <2>2, GoesOn
    <3> QED BY <2>2, <3>1, <3>2, <3>3 DEF TempsInv, BinaryInv
  <2>3. CASE /\ pc = "download" /\ pc' = "verify" /\ binary' = "download"
             /\ UNCHANGED <<temps, trap, output, exit>>
    <3>1. TypeOK' BY <2>0, <2>3 DEF TypeOK
    <3>2. Safe' /\ UndecidedInv' BY <2>0, <2>3, GoesOn
    <3> QED BY <2>3, <3>1, <3>2 DEF TempsInv, BinaryInv
  <2> QED BY <1>3, <2>1, <2>2, <2>3 DEF download_release
<1>4. CASE resolve_via_go_install
  <2>0. pc = "goInstall" /\ temps = {} /\ UNCHANGED <<inputs, verified>>
    BY <1>4 DEF resolve_via_go_install, TempsInv
  <2>1. CASE exit_with_code(3) /\ UNCHANGED <<trap, binary>>
    <3>1. TypeOK' BY <2>0, <2>1, EndTypes, CodesFacts DEF TypeOK
    <3> QED BY <2>0, <2>1, <3>1, EndIsTidy, CodesFacts
  <2>2. CASE /\ temps' = temps \cup {"goInstall"} /\ trap' = "goInstall"
             /\ binary' = "goInstall" /\ pc' = "verify"
             /\ UNCHANGED <<output, exit>>
    <3>1. TypeOK' BY <2>0, <2>2 DEF TypeOK
    <3>2. Safe' /\ UndecidedInv' BY <2>0, <2>2, GoesOn
    <3> QED BY <2>0, <2>2, <3>1, <3>2 DEF TempsInv, BinaryInv
  <2> QED BY <1>4, <2>1, <2>2 DEF resolve_via_go_install
<1>5. CASE RunVerify
  <2>1. /\ pc = "verify" /\ verified' \in Codes /\ exit_with_code(verified')
        /\ UNCHANGED <<inputs, trap, binary>>
    BY <1>5 DEF RunVerify
  <2>2. temps \subseteq {trap} /\ binary' # "none"
    BY <2>1 DEF TempsInv, BinaryInv
  <2>3. TypeOK' BY <2>1, EndTypes
  <2> QED BY <2>1, <2>2, <2>3, EndIsTidy
<1>6. CASE UNCHANGED vars
  BY <1>6 DEF vars, TypeOK, UndecidedInv, TempsInv, BinaryInv, Safe,
              VerdictIsVerifys, NothingLeftBehind
<1> QED BY <1>1, <1>2, <1>3, <1>4, <1>5, <1>6 DEF Next

LEMMA AlwaysInv == Spec => []IInv
BY InitInv, NextInv, PTL DEF Spec

\* Every variable keeps its type: the script ends with a code verify or the shell
\* gave it, and no other.
THEOREM TypeCorrect == Spec => []TypeOK
<1>1. IInv => TypeOK BY DEF IInv
<1> QED BY <1>1, AlwaysInv, PTL

\* A step of a workflow that passes, fails or is flagged does so because smithmark
\* verify ended with that code; nothing that finds the binary can stand in for it,
\* and a step output that cannot be written only ever fails the step.
THEOREM VerdictsAreVerifys == Spec => []VerdictIsVerifys
<1>1. IInv => VerdictIsVerifys BY DEF IInv, Safe
<1> QED BY <1>1, AlwaysInv, PTL

\* No path out of the script leaves a temporary directory, whichever trap was in
\* force: a trap replaces the one before, so the other directory is gone by then.
THEOREM NothingIsLeftBehind == Spec => []NothingLeftBehind
<1>1. IInv => NothingLeftBehind BY DEF IInv, Safe
<1> QED BY <1>1, AlwaysInv, PTL
=============================================================================
