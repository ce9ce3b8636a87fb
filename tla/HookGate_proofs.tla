---------------------------- MODULE HookGate_proofs ----------------------------
(***************************************************************************)
(* What the hook guarantees for every sequence of fields, every sidecar,   *)
(* every environment and however often the sidecar is rewritten.           *)
(***************************************************************************)
EXTENDS HookGate, SequenceTheorems, TLAPS

Before == {"jq", "payload", "sidecar", "fallback"}
Steps == Before \cup {"binary", "verify", "ended"}

\* Nothing is answered before the end, and smithmark runs in the last step.
UndecidedInv == pc # "ended" => decision = "none" /\ verified = "none"

\* What the sidecar said of a field, or nothing.
Said(f) == got[f] = "" \/ \E entry \in said : got[f] = entry[f]

\* Until the fallback the variables hold what the sidecar said or nothing, and
\* after it too unless the artifact is the environment's, which may then fill in
\* the others.
SourceInv ==
  /\ sidecar \in said
  /\ pc \in Before => ~fellBack
  /\ fellBack => got["artifact"] = env["artifact"]
  /\ \A f \in DOMAIN got : Said(f) \/ (fellBack /\ got[f] = env[f])

IInv ==
  /\ pc \in Steps /\ edits \in Nat /\ "artifact" \in DOMAIN got
  /\ UndecidedInv /\ SourceInv /\ OnlyAPassAdmits

\* The shell variables are there from the start, all empty.
LEMMA NothingFacts ==
  /\ "artifact" \in DOMAIN Nothing
  /\ \A f \in DOMAIN Nothing : Nothing[f] = ""
<1>1. Fields \in Seq(STRING) BY HookAssumption
<1>2. Len(AllFields) = 1 + Len(Fields) /\ AllFields[1] = "artifact"
  BY <1>1 DEF AllFields
<1>3. 1 \in DOMAIN AllFields BY <1>1 DEF AllFields
<1> QED BY <1>2, <1>3 DEF Nothing

\* Ending without a verification admits only on the user's word.
LEMMA EndUnverified ==
  ASSUME IInv, NEW answer \in {"none", "allow", "deny"},
         answer = "allow" => allowOnError,
         decide(answer) \/ \E code \in {"0", "1", "2"} : end(code, "none"),
         pc # "ended", UNCHANGED verified
  PROVE  IInv'
<1>1. /\ pc' = "ended" /\ decision' \in {answer, "none"}
      /\ UNCHANGED <<call, env, allowOnError, sidecar, edits, field, got, said, fellBack>>
  BY DEF decide, abort, end
<1>2. verified' = "none" BY DEF IInv, UndecidedInv
<1>3. OnlyAPassAdmits' BY <1>1, <1>2 DEF OnlyAPassAdmits
<1>4. SourceInv' BY <1>1 DEF IInv, SourceInv, Said, Before
<1> QED BY <1>1, <1>3, <1>4 DEF IInv, UndecidedInv, Steps

\* A check that could not be made ends that way.
LEMMA CouldNotCheck ==
  ASSUME IInv, pc # "ended", could_not_check, UNCHANGED verified
  PROVE  IInv'
<1>1. CASE allowOnError BY <1>1, EndUnverified DEF could_not_check
<1>2. CASE ~allowOnError BY <1>2, EndUnverified DEF could_not_check
<1> QED BY <1>1, <1>2

LEMMA InitInv == Init => IInv
<1> SUFFICES ASSUME Init PROVE IInv OBVIOUS
<1>1. got = Nothing BY DEF Init
<1> QED
  BY <1>1, NothingFacts
  DEF Init, IInv, UndecidedInv, SourceInv, Said, OnlyAPassAdmits, Before, Steps

LEMMA NextInv == IInv /\ [Next]_vars => IInv'
<1> SUFFICES ASSUME IInv, [Next]_vars PROVE IInv' OBVIOUS
<1> USE DEF IInv
<1>1. CASE CheckJq
  <2>1. pc = "jq" BY <1>1 DEF CheckJq
  <2>2. CASE end("2", "none") /\ UNCHANGED verified
    BY <2>1, <2>2, EndUnverified
  <2>3. CASE go("payload") /\ UNCHANGED <<field, got, fellBack>>
    BY <2>1, <2>3
    DEF go, UndecidedInv, SourceInv, Said, OnlyAPassAdmits, Before, Steps
  <2> QED BY <1>1, <2>2, <2>3 DEF CheckJq
<1>2. CASE ReadPayload
  <2>1. pc = "payload" BY <1>2 DEF ReadPayload
  <2>2. CASE end("0", "none") /\ UNCHANGED verified
    BY <2>1, <2>2, EndUnverified
  <2>3. CASE could_not_check /\ UNCHANGED verified
    BY <2>1, <2>3, CouldNotCheck
  <2>4. CASE go("sidecar") /\ UNCHANGED <<field, got, fellBack>>
    BY <2>1, <2>4
    DEF go, UndecidedInv, SourceInv, Said, OnlyAPassAdmits, Before, Steps
  <2> QED BY <1>2, <2>2, <2>3, <2>4 DEF ReadPayload
<1>3. CASE ReadField
  <2>1. PICK v \in {sidecar[AllFields[field]], ""} :
          got' = [got EXCEPT ![AllFields[field]] = v]
    BY <1>3 DEF ReadField
  <2>2. /\ pc = "sidecar" /\ pc' \in {"fallback", "sidecar"}
        /\ UNCHANGED <<env, allowOnError, sidecar, edits, said, fellBack, verified,
                       decision>>
    BY <1>3 DEF ReadField, go
  <2>3. DOMAIN got' = DOMAIN got /\ "artifact" \in DOMAIN got BY <2>1
  <2>4. ~fellBack /\ sidecar \in said BY <2>2 DEF SourceInv, Before
  <2>5. ASSUME NEW f \in DOMAIN got PROVE Said(f)'
    <3>1. Said(f) BY <2>4 DEF SourceInv
    <3>2. CASE got'[f] = got[f] BY <2>2, <3>1, <3>2 DEF Said
    <3>3. CASE got'[f] = v /\ f = AllFields[field]
      BY <2>2, <2>4, <3>3 DEF Said
    <3> QED BY <2>1, <3>2, <3>3
  <2>6. SourceInv' BY <2>2, <2>3, <2>4, <2>5 DEF SourceInv
  <2> QED
    BY <2>2, <2>3, <2>6 DEF UndecidedInv, OnlyAPassAdmits, Before, Steps
<1>4. CASE FallBack
  <2> DEFINE filled == [f \in DOMAIN got |-> IF got[f] = "" THEN env[f] ELSE got[f]]
  <2>1. pc = "fallback" BY <1>4 DEF FallBack
  <2>2. CASE go("binary") /\ UNCHANGED <<field, got, fellBack>>
    BY <2>1, <2>2
    DEF go, UndecidedInv, SourceInv, Said, OnlyAPassAdmits, Before, Steps
  <2>3. CASE could_not_check /\ UNCHANGED verified
    BY <2>1, <2>3, CouldNotCheck
  <2>4. CASE got["artifact"] = "" /\ go("binary") /\ got' = filled /\ fellBack' = TRUE
    <3>1. /\ pc' = "binary"
          /\ UNCHANGED <<env, allowOnError, sidecar, edits, said, verified, decision>>
      BY <2>4 DEF go
    <3>2. /\ DOMAIN got' = DOMAIN got /\ got'["artifact"] = env["artifact"]
          /\ fellBack' = TRUE
      BY <2>4
    <3>3. ~fellBack BY <2>1 DEF SourceInv, Before
    <3>4. ASSUME NEW f \in DOMAIN got
          PROVE  Said(f)' \/ got'[f] = env[f]
      <4>1. Said(f) BY <3>3 DEF SourceInv
      <4>2. got'[f] = IF got[f] = "" THEN env[f] ELSE got[f] BY <2>4
      <4> QED BY <3>1, <4>1, <4>2 DEF Said
    <3>5. SourceInv' BY <3>1, <3>2, <3>4 DEF SourceInv, Before
    <3> QED
      BY <2>1, <3>1, <3>2, <3>5 DEF UndecidedInv, OnlyAPassAdmits, Before, Steps
  <2> QED BY <1>4, <2>2, <2>3, <2>4 DEF FallBack
<1>5. CASE FindBinary
  <2>1. pc = "binary" BY <1>5 DEF FindBinary
  <2>2. CASE could_not_check /\ UNCHANGED verified
    BY <2>1, <2>2, CouldNotCheck
  <2>3. CASE abort({"1"}) /\ UNCHANGED verified
    BY <2>1, <2>3, EndUnverified DEF abort
  <2>4. CASE go("verify") /\ UNCHANGED <<field, got, fellBack>>
    BY <2>1, <2>4
    DEF go, UndecidedInv, SourceInv, Said, OnlyAPassAdmits, Before, Steps
  <2> QED BY <1>5, <2>2, <2>3, <2>4 DEF FindBinary
<1>6. CASE Classify
  <2>1. PICK code \in ExitCode :
          /\ verified' = code
          /\ IF code = "0" THEN decide("allow")
             ELSE IF code \in {"1", "2"} THEN decide("deny")
             ELSE could_not_check
    BY <1>6 DEF Classify
  <2>2. /\ pc = "verify" /\ pc' = "ended"
        /\ UNCHANGED <<call, env, allowOnError, sidecar, edits, field, got, said, fellBack>>
    BY <1>6, <2>1 DEF Classify, could_not_check, decide, abort, end
  <2>3. decision' = "allow" =>
          code = "0" \/ (allowOnError /\ code \in {"3", "other"})
    BY <2>1 DEF could_not_check, decide, abort, end, ExitCode
  <2>4. OnlyAPassAdmits' BY <2>1, <2>2, <2>3 DEF OnlyAPassAdmits
  <2>5. SourceInv' BY <2>2 DEF SourceInv, Said, Before
  <2> QED BY <2>2, <2>4, <2>5 DEF UndecidedInv, Steps
<1>7. CASE EditSidecar
  <2>1. /\ edits' = edits + 1 /\ said' = said \cup {sidecar'}
        /\ UNCHANGED <<env, allowOnError, pc, got, fellBack, verified, decision>>
    BY <1>7 DEF EditSidecar
  <2>2. edits' \in Nat BY <2>1
  <2>3. SourceInv'
    <3>1. \A f \in DOMAIN got : Said(f) => Said(f)' BY <2>1 DEF Said
    <3> QED BY <2>1, <3>1 DEF SourceInv
  <2> QED BY <2>1, <2>2, <2>3 DEF UndecidedInv, OnlyAPassAdmits
<1>8. CASE UNCHANGED vars
  BY <1>8 DEF vars, UndecidedInv, SourceInv, Said, OnlyAPassAdmits
<1> QED
  BY <1>1, <1>2, <1>3, <1>4, <1>5, <1>6, <1>7, <1>8 DEF Next, Script

LEMMA AlwaysInv == Spec => []IInv
BY InitInv, NextInv, PTL DEF Spec

\* The override never admits a call whose verification ended in a rejection or a
\* flag, whatever happened to the sidecar meanwhile; without it only a
\* verification that passed admits.
THEOREM OnlyAPassEverAdmits == Spec => []OnlyAPassAdmits
<1>1. IInv => OnlyAPassAdmits BY DEF IInv
<1> QED BY <1>1, AlwaysInv, PTL

\* For any number of configuration fields and of rewrites: nothing of the
\* environment gets beside an artifact of the sidecar.
THEOREM TrustFollowsTheArtifact == Spec => []SidecarArtifactSidecarTrust
<1>1. IInv => SidecarArtifactSidecarTrust
  BY DEF IInv, SourceInv, Said, SidecarArtifactSidecarTrust
<1> QED BY <1>1, AlwaysInv, PTL

-----------------------------------------------------------------------------
\* Types.

\* While fields are read there is one more to read.
ReadingInv ==
  /\ TypeOK
  /\ pc \in {"jq", "payload", "sidecar"} => field \in 1..Len(AllFields)

LEMMA BoundIsNat == MaxEdits \in Nat
BY HookAssumption

LEMMA NextOfMany ==
  ASSUME NEW n \in Nat, NEW k \in 1..n
  PROVE  k + 1 \in 1..(n + 1) /\ (k # n => k + 1 \in 1..n)
OBVIOUS

LEMMA OfOne ==
  ASSUME NEW S, NEW a \in S
  PROVE  <<a>> \in Seq(S) /\ Len(<<a>>) = 1
OBVIOUS

LEMMA FieldsFacts ==
  /\ Len(AllFields) \in Nat /\ Len(AllFields) >= 1
  /\ \A k \in 1..Len(AllFields) : AllFields[k] \in DOMAIN Nothing
<1>1. Fields \in Seq(STRING)
  BY HookAssumption
<1>2. Len(AllFields) = 1 + Len(Fields) /\ DOMAIN AllFields = 1..Len(AllFields)
  <2> DEFINE S == STRING \cup {"artifact"}
  <2>1. "artifact" \in S /\ STRING \subseteq S
    OBVIOUS
  <2>. HIDE DEF S
  <2>2. Fields \in Seq(S)
    BY <1>1, <2>1, SeqMonotonic
  <2>3. <<"artifact">> \in Seq(S) /\ Len(<<"artifact">>) = 1
    BY <2>1, OfOne
  <2>. QED  BY <2>2, <2>3, ConcatProperties DEF AllFields
<1>. HIDE DEF AllFields
<1>. QED  BY <1>1, <1>2 DEF Nothing

\* The end has its type whatever was decided.
LEMMA EndTypes ==
  ASSUME ReadingInv, pc' = "ended", exit' \in {"0", "1", "2", "other"},
         decision' \in {"none", "allow", "deny"},
         verified' \in ExitCode \cup {"none"},
         UNCHANGED <<call, env, allowOnError, sidecar, edits, field, got, said, fellBack>>
  PROVE  ReadingInv'
BY DEF ReadingInv, TypeOK

\* Going on has its type if what was read has.
LEMMA GoTypes ==
  ASSUME ReadingInv,
         pc' \in {"payload", "sidecar", "fallback", "binary", "verify"},
         got' \in Entry, field' \in 1..(Len(AllFields) + 1),
         pc' \in {"payload", "sidecar"} => field' \in 1..Len(AllFields),
         UNCHANGED <<call, env, allowOnError, sidecar, edits, said, verified, decision,
                     exit>>,
         fellBack' \in BOOLEAN
  PROVE  ReadingInv'
BY DEF ReadingInv, TypeOK

\* So every decision, or failing to write it, has its type.
LEMMA DecideTypes ==
  ASSUME ReadingInv, verified' \in ExitCode \cup {"none"},
         NEW answer \in {"allow", "deny"}, decide(answer)
  PROVE  ReadingInv'
<1>1. /\ pc' = "ended" /\ exit' \in {"0", "1", "2", "other"}
      /\ decision' \in {"none", "allow", "deny"}
      /\ UNCHANGED <<call, env, allowOnError, sidecar, edits, field, got, said, fellBack>>
  BY DEF decide, abort, end
<1> QED BY <1>1, EndTypes

LEMMA CouldNotCheckTypes ==
  ASSUME ReadingInv, verified' \in ExitCode \cup {"none"}, could_not_check
  PROVE  ReadingInv'
<1>1. CASE allowOnError BY <1>1, DecideTypes DEF could_not_check
<1>2. CASE ~allowOnError BY <1>2, DecideTypes DEF could_not_check
<1> QED BY <1>1, <1>2

LEMMA TypesNext == ReadingInv /\ [Next]_vars => ReadingInv'
<1> SUFFICES ASSUME ReadingInv, [Next]_vars PROVE ReadingInv'
  OBVIOUS
<1>1. /\ {env, sidecar, got} \subseteq Entry
      /\ field \in 1..(Len(AllFields) + 1) /\ edits \in 0..MaxEdits
      /\ verified \in ExitCode \cup {"none"} /\ fellBack \in BOOLEAN
      /\ {env, sidecar, got} \cup said \subseteq Entry
  BY DEF ReadingInv, TypeOK
<1>2. CASE CheckJq
  <2>1. pc = "jq" /\ field \in 1..Len(AllFields)
    BY <1>2 DEF CheckJq, ReadingInv
  <2>. QED  BY <1>1, <1>2, <2>1, EndTypes, GoTypes DEF CheckJq, end, go
<1>3. CASE ReadPayload
  <2>1. pc = "payload" /\ field \in 1..Len(AllFields)
    BY <1>3 DEF ReadPayload, ReadingInv
  <2>. QED
    BY <1>1, <1>3, <2>1, EndTypes, GoTypes, CouldNotCheckTypes
       DEF ReadPayload, end, go
<1>4. CASE ReadField
  <2>1. pc = "sidecar" /\ field \in 1..Len(AllFields)
    BY <1>4 DEF ReadField, ReadingInv
  <2>2. AllFields[field] \in DOMAIN Nothing
    BY <2>1, FieldsFacts
  <2>3. DOMAIN Nothing = {AllFields[k] : k \in DOMAIN AllFields}
    BY DEF Nothing
  <2>4. PICK v \in {sidecar[AllFields[field]], ""} :
          got' = [got EXCEPT ![AllFields[field]] = v]
    BY <1>4 DEF ReadField
  <2>5. v \in Values
    <3>1. sidecar[AllFields[field]] \in Values
      BY <1>1, <2>2, <2>3 DEF Entry
    <3>. QED  BY <3>1, <2>4, HookAssumption
  <2>6. got' \in Entry
    BY <1>1, <2>4, <2>5 DEF Entry
  <2>7. /\ field' \in 1..(Len(AllFields) + 1)
        /\ field # Len(AllFields) => field' \in 1..Len(AllFields)
    <3>1. field' = field + 1
      BY <1>4 DEF ReadField
    <3>2. field \in 1..Len(AllFields)
      BY <2>1
    <3>3. Len(AllFields) \in Nat
      BY FieldsFacts
    <3>. QED  BY <3>1, <3>2, <3>3, NextOfMany
  <2>8. /\ UNCHANGED <<call, env, allowOnError, sidecar, edits, said, verified,
                       decision, exit, fellBack>>
        /\ pc' = IF field = Len(AllFields) THEN "fallback" ELSE "sidecar"
    BY <1>4 DEF ReadField, go
  <2>. QED  BY <1>1, <2>6, <2>7, <2>8, GoTypes
<1>5. CASE FallBack
  <2>1. [f \in DOMAIN got |-> IF got[f] = "" THEN env[f] ELSE got[f]] \in Entry
    BY <1>1 DEF Entry
  <2>. QED
    BY <1>1, <1>5, <2>1, GoTypes, CouldNotCheckTypes DEF FallBack, go
<1>6. CASE FindBinary
  BY <1>1, <1>6, EndTypes, GoTypes, CouldNotCheckTypes
     DEF FindBinary, abort, end, go
<1>7. CASE Classify
  BY <1>7, DecideTypes, CouldNotCheckTypes DEF Classify
<1>8. CASE EditSidecar
  <2>1. sidecar' \in Entry
    BY <1>8, HookAssumption DEF EditSidecar
  <2>2. edits' \in 0..MaxEdits
    <3>1. edits' = edits + 1 /\ edits < MaxEdits
      BY <1>8 DEF EditSidecar
    <3>. QED  BY <1>1, <3>1, BoundIsNat
  <2>. QED  BY <1>8, <2>1, <2>2 DEF EditSidecar, ReadingInv, TypeOK
<1>9. CASE UNCHANGED vars
  BY <1>9 DEF vars, ReadingInv, TypeOK
<1>. QED
  BY <1>2, <1>3, <1>4, <1>5, <1>6, <1>7, <1>8, <1>9 DEF Next, Script

\* The script never asks for a field there is not, and what it holds of an entry
\* has the entry's fields, whoever rewrites the sidecar between two of them.
THEOREM TypeCorrect == Spec => []TypeOK
<1>1. Init => ReadingInv
  <2> SUFFICES ASSUME Init PROVE ReadingInv
    OBVIOUS
  <2>1. Nothing \in Entry
    BY HookAssumption DEF Nothing, Entry
  <2>2. env \in Entry /\ sidecar \in Entry /\ got \in Entry
    BY <2>1, HookAssumption DEF Init
  <2>3. field \in 1..Len(AllFields) /\ field \in 1..(Len(AllFields) + 1)
    BY FieldsFacts DEF Init
  <2>4. edits \in 0..MaxEdits
    <3>1. edits = 0
      BY DEF Init
    <3>. QED  BY <3>1, BoundIsNat
  <2>. QED  BY <2>2, <2>3, <2>4 DEF Init, ReadingInv, TypeOK
<1>2. ReadingInv => TypeOK
  BY DEF ReadingInv
<1>. QED  BY <1>1, <1>2, TypesNext, PTL DEF Spec
=============================================================================
