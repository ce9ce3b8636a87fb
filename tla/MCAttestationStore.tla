------------------------- MODULE MCAttestationStore -------------------------
(***************************************************************************)
(* Instances of AttestationStore for TLC.                                  *)
(***************************************************************************)
EXTENDS AttestationStore

CONSTANTS m1, m2, r1, b1, b2, bad, t1, badTag, img

mcMakers == {m1, m2}
mcBundles == {b1, b2, bad}
mcWellFormed == {b1, b2}

\* Another client's attachments of the same bundle, which may lack their layer:
\* one with a time for its created annotation, one of another artifact type.
mcForeign ==
  {[layer |-> b2, subject |-> img, type |-> "sigstore", created |-> 1],
   [layer |-> b2, subject |-> img, type |-> "other", created |-> 0]}

\* All of an instance's processes use tags, or all use one image: the two kinds
\* of place share nothing but the blobs.
mcInit ==
  /\ Init
  /\ \A r \in Readers, m \in Makers :
       reader[r].place \in Images <=> maker[m].place \in Images

mcSpec == mcInit /\ [][Next]_vars /\ \A r \in Readers : WF_vars(Read(r))
=============================================================================
