---------------------------- MODULE VerifyPromise ----------------------------
(***************************************************************************)
(* What verify.Run promises its caller, without candidates, stages or      *)
(* checks.  Among the numbered candidates some are authentic: signed by    *)
(* whom the caller trusts, about the artifact the caller holds, carrying a *)
(* valid manifest.  The verdict accepts the first authentic candidate, and *)
(* rejects only if there is none.  No verdict is given only if the trust   *)
(* configuration of the caller may be unusable.                            *)
(***************************************************************************)
EXTENDS Naturals

CONSTANT MaxBundles

VARIABLES
  authentic,      \* the authentic candidates
  trustMayFail,   \* the trust configuration may turn out unusable
  verdict,        \* "pending", "accept", "reject" or "none"
  witness         \* the accepted candidate, 0 before there is one

pvars == <<authentic, trustMayFail, verdict, witness>>

Init ==
  /\ authentic \in SUBSET (1..MaxBundles)
  /\ trustMayFail \in BOOLEAN
  /\ verdict = "pending"
  /\ witness = 0

Accept ==
  /\ verdict = "pending"
  /\ witness' \in authentic
  /\ \A k \in authentic : witness' <= k
  /\ verdict' = "accept"
  /\ UNCHANGED <<authentic, trustMayFail>>

Reject ==
  /\ verdict = "pending"
  /\ authentic = {}
  /\ verdict' = "reject"
  /\ UNCHANGED <<authentic, trustMayFail, witness>>

GiveUp ==
  /\ verdict = "pending"
  /\ trustMayFail
  /\ verdict' = "none"
  /\ UNCHANGED <<authentic, trustMayFail, witness>>

Next == Accept \/ Reject \/ GiveUp

Spec == Init /\ [][Next]_pvars

\* Every run ends with one of the three answers.
FairSpec == Spec /\ WF_pvars(Next)
=============================================================================
