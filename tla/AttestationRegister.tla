------------------------- MODULE AttestationRegister -------------------------
(***************************************************************************)
(* What publishing and discovering attestations promise, without blobs,    *)
(* manifests or network steps.  Every place (the mapped tag of an          *)
(* artifact, or an OCI image with its referrers) shows a set of published  *)
(* items.  A reader looks at a place at one moment and then delivers all   *)
(* of what it saw there, or nothing at all and an error.                   *)
(***************************************************************************)
EXTENDS FiniteSets, Naturals

CONSTANTS
  Places,
  Items,
  Readers,
  Cap           \* most items one answer may hold

VARIABLES
  shown,        \* what each place shows
  place,        \* where each reader looks
  status,       \* "new", "looked", "delivered" or "failed"
  seen,         \* what the reader saw when it looked
  answer        \* what it delivered

rvars == <<shown, place, status, seen, answer>>

Init ==
  /\ shown = [p \in Places |-> {}]
  /\ place \in [Readers -> Places]
  /\ status = [r \in Readers |-> "new"]
  /\ seen = [r \in Readers |-> {}]
  /\ answer = [r \in Readers |-> {}]

\* A new item replaces what a place shows, or joins it.
Publish ==
  /\ \E p \in Places, x \in Items :
       \/ shown' = [shown EXCEPT ![p] = {x}]
       \/ shown' = [shown EXCEPT ![p] = @ \cup {x}]
  /\ UNCHANGED <<place, status, seen, answer>>

Look(r) ==
  /\ status[r] = "new"
  /\ status' = [status EXCEPT ![r] = "looked"]
  /\ seen' = [seen EXCEPT ![r] = shown[place[r]]]
  /\ UNCHANGED <<shown, place, answer>>

Deliver(r) ==
  /\ status[r] = "looked"
  /\ Cardinality(seen[r]) <= Cap
  /\ status' = [status EXCEPT ![r] = "delivered"]
  /\ answer' = [answer EXCEPT ![r] = seen[r]]
  /\ UNCHANGED <<shown, place, seen>>

Fail(r) ==
  /\ status[r] \in {"new", "looked"}
  /\ status' = [status EXCEPT ![r] = "failed"]
  /\ UNCHANGED <<shown, place, seen, answer>>

Read(r) == Look(r) \/ Deliver(r) \/ Fail(r)

Next == Publish \/ \E r \in Readers : Read(r)

Spec == Init /\ [][Next]_rvars

\* Every reader gets its answer, whatever is published meanwhile.
FairSpec == Spec /\ \A r \in Readers : WF_rvars(Read(r))
=============================================================================
