----------------------- MODULE AttestationStore_proofs -----------------------
(***************************************************************************)
(* Theorems about publishing and discovery, for any makers, readers,       *)
(* artifacts, images and attachments of others.  IInv of AttestationStore  *)
(* is inductive: a manifest is pushed after its layer and a tag after its  *)
(* manifest, nothing is ever removed, and a reader only holds what it saw. *)
(***************************************************************************)
EXTENDS AttestationStore, FiniteSetTheorems, TLAPS

\* What the assumption on the constants says, in parts.
LEMMA Bounds == MaxRuns \in Nat /\ Cap \in Nat \ {0} /\ 0 \in 0..MaxRuns
<1>1. MaxRuns \in Nat /\ Cap \in Nat \ {0}
  BY StoreAssumption, Zenon
<1>2. \A n \in Nat : 0 \in 0..n
  OBVIOUS
<1> QED BY <1>1, <1>2, Zenon

LEMMA Kinds ==
  /\ WellFormed \subseteq Bundles /\ ValidTags \subseteq Tags
  /\ Foreign \subseteq Manifest
  /\ \A f \in Foreign : f.subject \in Images
  /\ Tags \cap Images = {} /\ "none" \notin Images
  /\ Absent \notin Manifest
BY StoreAssumption, Zenon DEF Places

-----------------------------------------------------------------------------
\* What the steps do to the records of one maker and of one reader.

\* A step of a maker that only moves its pc keeps the other fields, and the
\* records of the other makers.
LEMMA MakerMoves ==
  ASSUME maker \in [Makers -> MakerState], NEW m \in Makers,
         NEW to \in {"layer", "manifest", "tag", "done", "failed"},
         maker' = [maker EXCEPT ![m].pc = to]
  PROVE  /\ maker' \in [Makers -> MakerState]
         /\ \A n \in Makers :
              /\ maker'[n].bundle = maker[n].bundle
              /\ maker'[n].place = maker[n].place
              /\ maker'[n].pc = IF n = m THEN to ELSE maker[n].pc
BY DEF MakerState

\* What each kind of step does to the record of the reader that takes it; the
\* sets a reader holds are members of some S, whatever S is.
ReaderRecords(S) ==
  [pc: {"new", "fetch", "delivered", "failed"}, place: Places,
   seen: S, todo: S, got: S, why: {"", "missing", "flood", "net"}]

LEMMA ReaderLooksAny ==
  ASSUME NEW S, reader \in [Readers -> ReaderRecords(S)], NEW r \in Readers,
         NEW found \in S,
         reader' = [reader EXCEPT ![r].pc = "fetch", ![r].seen = found,
                                  ![r].todo = found]
  PROVE  /\ reader' \in [Readers -> ReaderRecords(S)]
         /\ \A q \in Readers \ {r} : reader'[q] = reader[q]
         /\ reader'[r].pc = "fetch" /\ reader'[r].seen = found
         /\ reader'[r].todo = found /\ reader'[r].got = reader[r].got
         /\ reader'[r].place = reader[r].place /\ reader'[r].why = reader[r].why
BY DEF ReaderRecords

LEMMA ReaderLooks ==
  ASSUME reader \in [Readers -> ReaderState], NEW r \in Readers,
         NEW found \in SUBSET Manifest,
         reader' = [reader EXCEPT ![r].pc = "fetch", ![r].seen = found,
                                  ![r].todo = found]
  PROVE  /\ reader' \in [Readers -> ReaderState]
         /\ \A q \in Readers \ {r} : reader'[q] = reader[q]
         /\ reader'[r].pc = "fetch" /\ reader'[r].seen = found
         /\ reader'[r].todo = found /\ reader'[r].got = reader[r].got
         /\ reader'[r].place = reader[r].place /\ reader'[r].why = reader[r].why
<1>1. ReaderState = ReaderRecords(SUBSET Manifest)
  BY Zenon DEF ReaderState, ReaderRecords
<1> HIDE DEF ReaderState
<1> QED BY <1>1, ReaderLooksAny, Zenon

LEMMA ReaderFetches ==
  ASSUME reader \in [Readers -> ReaderState], NEW r \in Readers,
         NEW x \in reader[r].todo,
         reader' = [reader EXCEPT ![r].todo = @ \ {x}, ![r].got = @ \cup {x}]
  PROVE  /\ reader' \in [Readers -> ReaderState]
         /\ \A q \in Readers \ {r} : reader'[q] = reader[q]
         /\ reader'[r].todo = reader[r].todo \ {x}
         /\ reader'[r].got = reader[r].got \cup {x}
         /\ reader'[r].pc = reader[r].pc
         /\ reader'[r].seen = reader[r].seen
         /\ reader'[r].place = reader[r].place
         /\ reader'[r].why = reader[r].why
<1> DEFINE S == SUBSET Manifest
           todo == reader[r].todo \ {x}
           got == reader[r].got \cup {x}
<1>1. ReaderState = ReaderRecords(S)
  BY Zenon DEF ReaderState, ReaderRecords
<1>2. todo \in S /\ got \in S
  <2>1. reader[r].todo \in SUBSET Manifest /\ reader[r].got \in SUBSET Manifest
    BY Zenon DEF ReaderState
  <2> QED BY <2>1
<1>3. reader \in [Readers -> ReaderRecords(S)]
  BY <1>1
<1> HIDE DEF S
<1>5. /\ reader' \in [Readers -> ReaderRecords(S)]
      /\ \A q \in Readers \ {r} : reader'[q] = reader[q]
  BY <1>2, <1>3 DEF ReaderRecords
<1>6. /\ reader'[r].todo = todo /\ reader'[r].got = got
      /\ reader'[r].pc = reader[r].pc /\ reader'[r].seen = reader[r].seen
      /\ reader'[r].place = reader[r].place /\ reader'[r].why = reader[r].why
  BY <1>3 DEF ReaderRecords
<1> QED BY <1>1, <1>5, <1>6

LEMMA ReaderStopsAny ==
  ASSUME NEW S, reader \in [Readers -> ReaderRecords(S)], NEW r \in Readers,
         NEW why \in {"missing", "flood", "net"},
         reader' = [reader EXCEPT ![r].pc = "failed", ![r].why = why]
  PROVE  /\ reader' \in [Readers -> ReaderRecords(S)]
         /\ \A q \in Readers \ {r} : reader'[q] = reader[q]
         /\ reader'[r].pc = "failed" /\ reader'[r].why = why
         /\ reader'[r].todo = reader[r].todo
         /\ reader'[r].got = reader[r].got
         /\ reader'[r].seen = reader[r].seen
         /\ reader'[r].place = reader[r].place
BY DEF ReaderRecords

LEMMA ReaderStops ==
  ASSUME reader \in [Readers -> ReaderState], NEW r \in Readers,
         NEW why \in {"missing", "flood", "net"},
         reader' = [reader EXCEPT ![r].pc = "failed", ![r].why = why]
  PROVE  /\ reader' \in [Readers -> ReaderState]
         /\ \A q \in Readers \ {r} : reader'[q] = reader[q]
         /\ reader'[r].pc = "failed" /\ reader'[r].why = why
         /\ reader'[r].todo = reader[r].todo
         /\ reader'[r].got = reader[r].got
         /\ reader'[r].seen = reader[r].seen
         /\ reader'[r].place = reader[r].place
<1>1. ReaderState = ReaderRecords(SUBSET Manifest)
  BY Zenon DEF ReaderState, ReaderRecords
<1> HIDE DEF ReaderState
<1> QED BY <1>1, ReaderStopsAny, Zenon

LEMMA ReaderDeliversAny ==
  ASSUME NEW S, reader \in [Readers -> ReaderRecords(S)], NEW r \in Readers,
         reader' = [reader EXCEPT ![r].pc = "delivered"]
  PROVE  /\ reader' \in [Readers -> ReaderRecords(S)]
         /\ \A q \in Readers \ {r} : reader'[q] = reader[q]
         /\ reader'[r].pc = "delivered"
         /\ reader'[r].todo = reader[r].todo
         /\ reader'[r].got = reader[r].got
         /\ reader'[r].seen = reader[r].seen
         /\ reader'[r].place = reader[r].place
         /\ reader'[r].why = reader[r].why
BY DEF ReaderRecords

LEMMA ReaderDelivers ==
  ASSUME reader \in [Readers -> ReaderState], NEW r \in Readers,
         reader' = [reader EXCEPT ![r].pc = "delivered"]
  PROVE  /\ reader' \in [Readers -> ReaderState]
         /\ \A q \in Readers \ {r} : reader'[q] = reader[q]
         /\ reader'[r].pc = "delivered"
         /\ reader'[r].todo = reader[r].todo
         /\ reader'[r].got = reader[r].got
         /\ reader'[r].seen = reader[r].seen
         /\ reader'[r].place = reader[r].place
         /\ reader'[r].why = reader[r].why
<1>1. ReaderState = ReaderRecords(SUBSET Manifest)
  BY Zenon DEF ReaderState, ReaderRecords
<1> HIDE DEF ReaderState
<1> QED BY <1>1, ReaderDeliversAny, Zenon

\* The manifest a maker is pushing is one of the model's manifests.
LEMMA PackedIsManifest ==
  ASSUME NEW m \in Makers, maker[m].bundle \in Bundles, MaxRuns \in Nat
  PROVE  /\ packedManifest(m) \in Manifest
         /\ packedManifest(m).layer = maker[m].bundle
         /\ packedManifest(m).created = 0
         /\ packedManifest(m).type = "sigstore"
         /\ packedManifest(m).subject =
              IF maker[m].place \in Images THEN maker[m].place ELSE "none"
BY DEF packedManifest, Manifest

\* Equal makers push equal manifests.
LEMMA PackedUnchanged ==
  ASSUME NEW m \in Makers, maker'[m].bundle = maker[m].bundle,
         maker'[m].place = maker[m].place
  PROVE  packedManifest(m)' = packedManifest(m)
BY DEF packedManifest

-----------------------------------------------------------------------------
\* The inductive invariant.

LEMMA InvInit == Init => IInv
<1> SUFFICES ASSUME Init PROVE IInv
  OBVIOUS
<1> USE DEF Init
<1>1. TypeOK
  <2>1. maker \in [Makers -> MakerState]
    <3> DEFINE Idle == [pc: {"idle"}, run: {0}, bundle: {"none"}, place: Places]
    <3>1. \A x \in Idle : x \in MakerState
      BY Bounds, Zenon DEF MakerState
    <3> QED BY <3>1
  <2>2. reader \in [Readers -> ReaderState]
    BY Kinds DEF ReaderState, Places
  <2> QED BY <2>1, <2>2 DEF TypeOK
<1>2. StoreInv
  BY DEF StoreInv
<1>3. MakerInv
  BY DEF MakerInv
<1>4. ReaderInv
  <2> SUFFICES ASSUME NEW r \in Readers PROVE ReaderInv!(r)
    BY DEF ReaderInv
  <2>1. /\ reader[r].pc = "new" /\ reader[r].seen = {} /\ reader[r].got = {}
        /\ reader[r].why = ""
    OBVIOUS
  <2>2. IsFiniteSet({}) /\ Cardinality({}) <= Cap
    <3> HIDE DEF Init
    <3> QED BY FS_EmptySet, Bounds
  <2> QED BY <2>1, <2>2
<1>5. NoHalfPublishSeen
  BY DEF NoHalfPublishSeen
<1> QED BY <1>1, <1>2, <1>3, <1>4, <1>5 DEF IInv

\* Content only ever joins what the registry holds.
LEMMA StoreGrows ==
  ASSUME [Next]_vars
  PROVE  layers \subseteq layers' /\ manifests \subseteq manifests'
BY DEF Next, Push, Read, Start, PushLayer, PackManifest, Tag, MakerFails,
       ForeignPush, Look, FetchManifestLayers, FetchMissing, RefuseFlood,
       Deliver, ReaderFails, vars

\* While no reader moves, what readers hold stays as good as it was.
LEMMA ReadersKept ==
  ASSUME ReaderInv, NoHalfPublishSeen, manifests \subseteq manifests',
         reader' = reader
  PROVE  ReaderInv' /\ NoHalfPublishSeen'
BY DEF ReaderInv, NoHalfPublishSeen

\* While only readers move, the registry and the makers keep their part.
LEMMA StoreKept ==
  ASSUME StoreInv, MakerInv,
         UNCHANGED <<layers, manifests, tags, maker>>
  PROVE  StoreInv' /\ MakerInv'
BY DEF StoreInv, MakerInv, packedManifest

LEMMA StartKeepsInv ==
  ASSUME IInv, NEW m \in Makers, Start(m)
  PROVE  IInv'
<1>1. TypeOK /\ maker \in [Makers -> MakerState]
  BY DEF IInv, TypeOK
<1> DEFINE Accepted(b) ==
      b \in WellFormed /\ maker[m].place \in ValidTags \cup Images
<1>2. PICK b \in Bundles :
        maker' = [maker EXCEPT ![m].run = @ + 1, ![m].bundle = b,
                    ![m].pc = IF Accepted(b) THEN "layer" ELSE "failed"]
  BY DEF Start
<1>3. /\ maker' \in [Makers -> MakerState]
      /\ \A n \in Makers \ {m} : maker'[n] = maker[n]
      /\ maker'[m].pc \in {"layer", "failed"}
      /\ maker'[m].place = maker[m].place
      /\ maker'[m].bundle = b
      /\ maker'[m].pc = "layer" => Accepted(b)
  <2>1. maker[m].run + 1 \in 0..MaxRuns
    BY <1>1, Bounds DEF Start, MakerState
  <2>2. PICK pc \in {"layer", "failed"} :
          /\ pc = IF Accepted(b) THEN "layer" ELSE "failed"
          /\ pc = "layer" => Accepted(b)
    OBVIOUS
  <2> HIDE DEF Accepted
  <2>3. maker' = [maker EXCEPT ![m].run = @ + 1, ![m].bundle = b, ![m].pc = pc]
    BY <1>2, <2>2, Zenon
  <2> QED BY <1>1, <2>1, <2>2, <2>3 DEF MakerState
<1>4. TypeOK'
  BY <1>1, <1>3 DEF TypeOK, Start
<1>5. MakerInv'
  <2> SUFFICES ASSUME NEW n \in Makers
               PROVE  MakerInv!(n)'
    BY DEF MakerInv
  <2>1. CASE n = m
    BY <2>1, <1>3 DEF Start
  <2>2. CASE n # m
    BY <2>2, <1>3, PackedUnchanged DEF IInv, MakerInv, Start
  <2> QED BY <2>1, <2>2
<1>6. StoreInv'
  BY DEF IInv, StoreInv, Start
<1>7. ReaderInv' /\ NoHalfPublishSeen'
  BY ReadersKept DEF IInv, Start
<1> QED BY <1>4, <1>5, <1>6, <1>7 DEF IInv

LEMMA PushLayerKeepsInv ==
  ASSUME IInv, NEW m \in Makers, NEW heard \in BOOLEAN, PushLayer(m, heard)
  PROVE  IInv'
<1>1. PICK to \in {"manifest", "failed"} :
        /\ maker[m].pc = "layer"
        /\ maker' = [maker EXCEPT ![m].pc = to]
  BY DEF PushLayer, step
<1>2. TypeOK /\ maker \in [Makers -> MakerState] /\ MakerInv
  BY DEF IInv, TypeOK
<1>3. /\ maker' \in [Makers -> MakerState]
      /\ \A n \in Makers :
           /\ maker'[n].bundle = maker[n].bundle
           /\ maker'[n].place = maker[n].place
           /\ maker'[n].pc = IF n = m THEN to ELSE maker[n].pc
  <2>1. to \in {"layer", "manifest", "tag", "done", "failed"}
    OBVIOUS
  <2>2. maker' = [maker EXCEPT ![m].pc = to]
    BY <1>1
  <2> QED BY <1>2, <2>1, <2>2, MakerMoves
<1>4. maker[m].bundle \in WellFormed /\ maker[m].bundle \in Bundles
      /\ maker[m].place \in ValidTags \cup Images
  BY <1>1, <1>2, Kinds DEF MakerInv
<1>5. /\ layers' = layers \cup {maker[m].bundle}
      /\ UNCHANGED <<manifests, tags, reader>>
  BY DEF PushLayer
<1>6. TypeOK'
  BY <1>2, <1>3, <1>4, <1>5 DEF TypeOK
<1>7. MakerInv'
  <2> SUFFICES ASSUME NEW n \in Makers
               PROVE  MakerInv!(n)'
    BY DEF MakerInv
  <2>1. packedManifest(n)' = packedManifest(n)
    BY <1>3, PackedUnchanged
  <2>2. CASE n = m
    BY <2>2, <1>1, <1>3, <1>4, <1>5
  <2>3. CASE n # m
    BY <2>1, <2>3, <1>2, <1>3, <1>5 DEF MakerInv
  <2> QED BY <2>2, <2>3
<1>8. StoreInv'
  BY <1>4, <1>5 DEF IInv, StoreInv
<1>9. ReaderInv' /\ NoHalfPublishSeen'
  BY <1>5, ReadersKept DEF IInv
<1> QED BY <1>6, <1>7, <1>8, <1>9 DEF IInv

LEMMA PackManifestKeepsInv ==
  ASSUME IInv, NEW m \in Makers, NEW heard \in BOOLEAN, PackManifest(m, heard)
  PROVE  IInv'
<1>1. PICK to \in {"tag", "done", "failed"} :
        /\ maker[m].pc = "manifest"
        /\ maker' = [maker EXCEPT ![m].pc = to]
        /\ to = "tag" => maker[m].place \notin Images
  BY DEF PackManifest, step
<1>2. TypeOK /\ maker \in [Makers -> MakerState] /\ MakerInv /\ StoreInv
  BY DEF IInv, TypeOK
<1>3. /\ maker' \in [Makers -> MakerState]
      /\ \A n \in Makers :
           /\ maker'[n].bundle = maker[n].bundle
           /\ maker'[n].place = maker[n].place
           /\ maker'[n].pc = IF n = m THEN to ELSE maker[n].pc
  <2>1. to \in {"layer", "manifest", "tag", "done", "failed"}
    OBVIOUS
  <2>2. maker' = [maker EXCEPT ![m].pc = to]
    BY <1>1
  <2> QED BY <1>2, <2>1, <2>2, MakerMoves
<1>4. /\ maker[m].bundle \in WellFormed /\ maker[m].bundle \in Bundles
      /\ maker[m].bundle \in layers
      /\ maker[m].place \in ValidTags \cup Images
  BY <1>1, <1>2, Kinds DEF MakerInv
<1>5. /\ manifests' = manifests \cup {packedManifest(m)}
      /\ UNCHANGED <<layers, tags, reader>>
  BY DEF PackManifest
<1>6. /\ packedManifest(m) \in Manifest
      /\ packedManifest(m).layer = maker[m].bundle
      /\ packedManifest(m).created = 0
      /\ packedManifest(m).type = "sigstore"
  BY <1>4, Bounds, PackedIsManifest
<1>7. TypeOK'
  BY <1>2, <1>3, <1>5, <1>6 DEF TypeOK
<1>8. MakerInv'
  <2> SUFFICES ASSUME NEW n \in Makers
               PROVE  MakerInv!(n)'
    BY DEF MakerInv
  <2>1. packedManifest(n)' = packedManifest(n)
    BY <1>3, PackedUnchanged
  <2>2. CASE n = m
    BY <2>1, <2>2, <1>1, <1>3, <1>4, <1>5, Kinds
  <2>3. CASE n # m
    BY <2>1, <2>3, <1>2, <1>3, <1>5 DEF MakerInv
  <2> QED BY <2>2, <2>3
<1>9. StoreInv'
  BY <1>2, <1>4, <1>5, <1>6 DEF IInv, StoreInv
<1>10. ReaderInv' /\ NoHalfPublishSeen'
  BY <1>5, ReadersKept DEF IInv
<1> QED BY <1>7, <1>8, <1>9, <1>10 DEF IInv

LEMMA TagKeepsInv ==
  ASSUME IInv, NEW m \in Makers, NEW heard \in BOOLEAN, Tag(m, heard)
  PROVE  IInv'
<1>1. PICK to \in {"done", "failed"} :
        /\ maker[m].pc = "tag"
        /\ maker' = [maker EXCEPT ![m].pc = to]
  BY DEF Tag, step
<1>2. TypeOK /\ maker \in [Makers -> MakerState] /\ MakerInv /\ StoreInv
  BY DEF IInv, TypeOK
<1>3. /\ maker' \in [Makers -> MakerState]
      /\ \A n \in Makers :
           /\ maker'[n].bundle = maker[n].bundle
           /\ maker'[n].place = maker[n].place
           /\ maker'[n].pc = IF n = m THEN to ELSE maker[n].pc
  <2>1. to \in {"layer", "manifest", "tag", "done", "failed"}
    OBVIOUS
  <2>2. maker' = [maker EXCEPT ![m].pc = to]
    BY <1>1
  <2> QED BY <1>2, <2>1, <2>2, MakerMoves
<1>4. /\ maker[m].bundle \in Bundles
      /\ maker[m].place \in Tags /\ packedManifest(m) \in manifests
  BY <1>1, <1>2, Kinds DEF MakerInv
<1>5. /\ tags' = [tags EXCEPT ![maker[m].place] = packedManifest(m)]
      /\ UNCHANGED <<layers, manifests, reader>>
  BY DEF Tag
<1>6. /\ packedManifest(m) \in Manifest
      /\ packedManifest(m).subject = "none"
      /\ packedManifest(m) \notin Foreign
  BY <1>4, Bounds, Kinds, PackedIsManifest
<1>7. /\ tags' \in [Tags -> Manifest \cup {Absent}]
      /\ \A t \in Tags : tags'[t] = tags[t] \/ tags'[t] = packedManifest(m)
  BY <1>2, <1>5, <1>6 DEF TypeOK
<1>8. TypeOK'
  BY <1>2, <1>3, <1>5, <1>7 DEF TypeOK
<1>9. MakerInv'
  <2> SUFFICES ASSUME NEW n \in Makers
               PROVE  MakerInv!(n)'
    BY DEF MakerInv
  <2>1. packedManifest(n)' = packedManifest(n)
    BY <1>3, PackedUnchanged
  <2>2. CASE n = m
    BY <2>2, <1>1, <1>3
  <2>3. CASE n # m
    BY <2>1, <2>3, <1>2, <1>3, <1>5 DEF MakerInv
  <2> QED BY <2>2, <2>3
<1>10. StoreInv'
  BY <1>2, <1>4, <1>5, <1>6, <1>7 DEF IInv, StoreInv
<1>11. ReaderInv' /\ NoHalfPublishSeen'
  BY <1>5, ReadersKept DEF IInv
<1> QED BY <1>8, <1>9, <1>10, <1>11 DEF IInv

LEMMA MakerFailsKeepsInv ==
  ASSUME IInv, NEW m \in Makers, MakerFails(m)
  PROVE  IInv'
<1>1. maker' = [maker EXCEPT ![m].pc = "failed"]
      /\ UNCHANGED <<layers, manifests, tags, reader>>
  BY DEF MakerFails
<1>2. TypeOK /\ maker \in [Makers -> MakerState] /\ MakerInv
  BY DEF IInv, TypeOK
<1>3. /\ maker' \in [Makers -> MakerState]
      /\ \A n \in Makers :
           /\ maker'[n].bundle = maker[n].bundle
           /\ maker'[n].place = maker[n].place
           /\ maker'[n].pc = IF n = m THEN "failed" ELSE maker[n].pc
  BY <1>1, <1>2, MakerMoves
<1>4. TypeOK'
  BY <1>1, <1>2, <1>3 DEF TypeOK
<1>5. MakerInv'
  <2> SUFFICES ASSUME NEW n \in Makers
               PROVE  MakerInv!(n)'
    BY DEF MakerInv
  <2>1. packedManifest(n)' = packedManifest(n)
    BY <1>3, PackedUnchanged
  <2> QED BY <2>1, <1>1, <1>2, <1>3 DEF MakerInv
<1>6. StoreInv'
  BY <1>1 DEF IInv, StoreInv
<1>7. ReaderInv' /\ NoHalfPublishSeen'
  BY <1>1, ReadersKept DEF IInv
<1> QED BY <1>4, <1>5, <1>6, <1>7 DEF IInv

LEMMA ForeignPushKeepsInv ==
  ASSUME IInv, ForeignPush
  PROVE  IInv'
<1>1. PICK f \in Foreign :
        /\ manifests' = manifests \cup {f}
        /\ layers' \in {layers, layers \cup {f.layer}}
        /\ UNCHANGED <<tags, maker, reader>>
  BY DEF ForeignPush
<1>2. f \in Manifest /\ f.layer \in Bundles
  BY Kinds DEF Manifest
<1>3. TypeOK'
  BY <1>1, <1>2 DEF IInv, TypeOK
<1>4. StoreInv'
  BY <1>1 DEF IInv, StoreInv
<1>5. MakerInv'
  BY <1>1 DEF IInv, MakerInv, packedManifest
<1>6. ReaderInv' /\ NoHalfPublishSeen'
  BY <1>1, ReadersKept DEF IInv
<1> QED BY <1>3, <1>4, <1>5, <1>6 DEF IInv

\* What discovery would collect now is stored, and foreign only on an image.
LEMMA CandidatesStored ==
  ASSUME TypeOK, StoreInv, NEW p \in Places
  PROVE  /\ candidates(p) \subseteq manifests
         /\ candidates(p) \subseteq Manifest
         /\ \A x \in candidates(p) :
              IF p \in Images THEN x.type = "sigstore"
              ELSE x \notin Foreign /\ candidates(p) = {x}
<1>1. CASE p \in Images
  BY <1>1 DEF candidates, TypeOK
<1>2. CASE p \notin Images
  BY <1>2 DEF candidates, TypeOK, StoreInv, Places
<1> QED BY <1>1, <1>2

\* While one reader moves, the others keep what they hold.
LEMMA OneReaderMoves ==
  ASSUME IInv, NEW r \in Readers,
         UNCHANGED <<layers, manifests, tags, maker>>,
         reader' \in [Readers -> ReaderState],
         \A q \in Readers \ {r} : reader'[q] = reader[q],
         ReaderInv!(r)',
         NoHalfPublishSeen!(r)'
  PROVE  IInv'
<1>1. TypeOK'
  BY DEF IInv, TypeOK
<1>2. StoreInv' /\ MakerInv'
  BY StoreKept DEF IInv
<1>3. ReaderInv'
  <2> SUFFICES ASSUME NEW q \in Readers PROVE ReaderInv!(q)'
    BY DEF ReaderInv
  <2>1. CASE q = r
    BY <2>1
  <2>2. CASE q # r
    <3>1. reader'[q] = reader[q] /\ manifests' = manifests
      BY <2>2
    <3>2. ReaderInv!(q)
      BY DEF IInv, ReaderInv
    <3> QED BY <3>1, <3>2
  <2> QED BY <2>1, <2>2
<1>4. NoHalfPublishSeen'
  <2> SUFFICES ASSUME NEW q \in Readers PROVE NoHalfPublishSeen!(q)'
    BY DEF NoHalfPublishSeen
  <2>1. CASE q = r
    BY <2>1
  <2>2. CASE q # r
    BY <2>2 DEF IInv, NoHalfPublishSeen
  <2> QED BY <2>1, <2>2
<1> QED BY <1>1, <1>2, <1>3, <1>4 DEF IInv

LEMMA LookKeepsInv ==
  ASSUME IInv, NEW r \in Readers, Look(r)
  PROVE  IInv'
<1>1. TypeOK /\ reader \in [Readers -> ReaderState] /\ ReaderInv!(r) /\ StoreInv
  BY DEF IInv, TypeOK, ReaderInv
<1> DEFINE found == candidates(reader[r].place)
<1>2. reader[r].place \in Places
  BY <1>1 DEF ReaderState
<1>3. /\ found \subseteq manifests /\ found \in SUBSET Manifest
      /\ \A x \in found :
           IF reader[r].place \in Images THEN x.type = "sigstore"
           ELSE x \notin Foreign /\ found = {x}
  BY <1>1, <1>2, CandidatesStored
<1>4. /\ reader[r].pc = "new"
      /\ reader' = [reader EXCEPT ![r].pc = "fetch", ![r].seen = found,
                                  ![r].todo = found]
      /\ UNCHANGED <<layers, manifests, tags, maker>>
  BY DEF Look
<1> HIDE DEF found
<1>5. /\ reader' \in [Readers -> ReaderState]
      /\ \A q \in Readers \ {r} : reader'[q] = reader[q]
      /\ reader'[r].pc = "fetch" /\ reader'[r].seen = found
      /\ reader'[r].todo = found /\ reader'[r].got = reader[r].got
      /\ reader'[r].place = reader[r].place /\ reader'[r].why = reader[r].why
  BY <1>1, <1>3, <1>4, ReaderLooks
<1>6. ReaderInv!(r)'
  BY <1>1, <1>3, <1>4, <1>5
<1>7. reader[r].why # "missing"
  BY <1>1, <1>4
<1> QED BY <1>4, <1>5, <1>6, <1>7, OneReaderMoves

LEMMA FetchKeepsInv ==
  ASSUME IInv, NEW r \in Readers, FetchManifestLayers(r)
  PROVE  IInv'
<1>1. TypeOK /\ reader \in [Readers -> ReaderState] /\ ReaderInv!(r)
  BY DEF IInv, TypeOK, ReaderInv
<1>2. PICK x \in reader[r].todo :
        reader' = [reader EXCEPT ![r].todo = @ \ {x}, ![r].got = @ \cup {x}]
  BY DEF FetchManifestLayers
<1>3. /\ reader[r].pc = "fetch" /\ ~tooMany(r)
      /\ UNCHANGED <<layers, manifests, tags, maker>>
  BY DEF FetchManifestLayers
<1> DEFINE todo == reader[r].todo \ {x}
           got == reader[r].got \cup {x}
<1>5. /\ reader' \in [Readers -> ReaderState]
      /\ \A q \in Readers \ {r} : reader'[q] = reader[q]
      /\ reader'[r].todo = todo /\ reader'[r].got = got
      /\ reader'[r].pc = reader[r].pc /\ reader'[r].seen = reader[r].seen
      /\ reader'[r].place = reader[r].place /\ reader'[r].why = reader[r].why
  BY <1>1, <1>2, ReaderFetches
<1>6. IsFiniteSet(got) /\ Cardinality(got) <= Cap
  <2>1. IsFiniteSet(reader[r].got) /\ IsFiniteSet(got)
        /\ Cardinality(reader[r].got) \in Nat
        /\ Cardinality(got) <= Cardinality(reader[r].got) + 1
    <3>1. IsFiniteSet(reader[r].got)
      BY <1>1
    <3>2. /\ IsFiniteSet(got)
          /\ Cardinality(got) = IF x \in reader[r].got
               THEN Cardinality(reader[r].got) ELSE Cardinality(reader[r].got) + 1
      BY <3>1, FS_AddElement
    <3>3. Cardinality(reader[r].got) \in Nat
      BY <3>1, FS_CardinalityType
    <3> QED BY <3>1, <3>2, <3>3
  <2>4. Cardinality(got) \in Nat
    BY <2>1, FS_CardinalityType
  <2>2. CASE reader[r].place \in Images
    <3>1. ~ (Cardinality(reader[r].got) >= Cap)
      BY <2>2, <1>3 DEF tooMany
    <3> HIDE DEF got
    <3> QED BY <2>1, <2>4, <3>1, Bounds
  <2>3. CASE reader[r].place \notin Images
    <3>1. x \in reader[r].seen /\ reader[r].seen = {x} /\ reader[r].got \subseteq {x}
      BY <1>1, <1>3, <2>3
    <3>2. got = {x}
      BY <3>1
    <3> QED BY <3>2, FS_Singleton, Bounds
  <2> QED BY <2>2, <2>3
<1>7. got \subseteq reader[r].seen /\ reader[r].seen = got \cup todo
  BY <1>1, <1>3
<1>8. ReaderInv!(r)'
  <2> HIDE DEF got, todo
  <2> QED BY <1>1, <1>3, <1>5, <1>6, <1>7
<1>9. reader[r].why # "missing"
  BY <1>1, <1>3
<1> QED BY <1>3, <1>5, <1>8, <1>9, OneReaderMoves

\* However a reader fails, it keeps what it holds; only missing content needs an
\* explanation.
LEMMA StopKeepsInv ==
  ASSUME IInv, NEW r \in Readers, NEW why \in {"missing", "flood", "net"},
         reader' = [reader EXCEPT ![r].pc = "failed", ![r].why = why],
         UNCHANGED <<layers, manifests, tags, maker>>,
         why = "missing" =>
           /\ reader[r].place \in Images
           /\ \E f \in Foreign : f \in reader[r].seen /\ f.type = "sigstore"
  PROVE  IInv'
<1>1. TypeOK /\ reader \in [Readers -> ReaderState] /\ ReaderInv!(r)
  BY DEF IInv, TypeOK, ReaderInv
<1>2. /\ reader' \in [Readers -> ReaderState]
      /\ \A q \in Readers \ {r} : reader'[q] = reader[q]
      /\ reader'[r].pc = "failed" /\ reader'[r].why = why
      /\ reader'[r].todo = reader[r].todo /\ reader'[r].got = reader[r].got
      /\ reader'[r].seen = reader[r].seen /\ reader'[r].place = reader[r].place
  BY <1>1, ReaderStops
<1>3. ReaderInv!(r)'
  BY <1>1, <1>2
<1>4. NoHalfPublishSeen!(r)'
  BY <1>2
<1> QED BY <1>2, <1>3, <1>4, OneReaderMoves

LEMMA FetchMissingKeepsInv ==
  ASSUME IInv, NEW r \in Readers, FetchMissing(r)
  PROVE  IInv'
<1>1. StoreInv /\ ReaderInv!(r)
  BY DEF IInv, ReaderInv
<1>2. PICK x \in reader[r].todo : x \notin manifests \/ x.layer \notin layers
  BY DEF FetchMissing
<1>3. x \in reader[r].seen /\ x \in manifests
  BY <1>1 DEF FetchMissing
<1>4. x \in Foreign
  BY <1>1, <1>2, <1>3 DEF StoreInv
<1>5. reader[r].place \in Images /\ x.type = "sigstore"
  BY <1>1, <1>3, <1>4
<1> QED BY <1>3, <1>4, <1>5, StopKeepsInv DEF FetchMissing

LEMMA DeliverKeepsInv ==
  ASSUME IInv, NEW r \in Readers, Deliver(r)
  PROVE  IInv'
<1>1. TypeOK /\ reader \in [Readers -> ReaderState] /\ ReaderInv!(r)
  BY DEF IInv, TypeOK, ReaderInv
<1>2. /\ reader[r].pc = "fetch"
      /\ reader' = [reader EXCEPT ![r].pc = "delivered"]
      /\ UNCHANGED <<layers, manifests, tags, maker>>
  BY DEF Deliver
<1>3. /\ reader' \in [Readers -> ReaderState]
      /\ \A q \in Readers \ {r} : reader'[q] = reader[q]
      /\ reader'[r].pc = "delivered"
      /\ reader'[r].todo = reader[r].todo /\ reader'[r].got = reader[r].got
      /\ reader'[r].seen = reader[r].seen /\ reader'[r].place = reader[r].place
      /\ reader'[r].why = reader[r].why
  BY <1>1, <1>2, ReaderDelivers
<1>4. ReaderInv!(r)'
  BY <1>1, <1>2, <1>3
<1>5. reader[r].why # "missing"
  BY <1>1, <1>2
<1> QED BY <1>2, <1>3, <1>4, <1>5, OneReaderMoves

LEMMA ReadKeepsInv ==
  ASSUME IInv, NEW r \in Readers, Read(r)
  PROVE  IInv'
<1>1. CASE Look(r)
  BY <1>1, LookKeepsInv
<1>2. CASE FetchManifestLayers(r)
  BY <1>2, FetchKeepsInv
<1>3. CASE FetchMissing(r)
  BY <1>3, FetchMissingKeepsInv
<1>4. CASE RefuseFlood(r)
  BY <1>4, StopKeepsInv DEF RefuseFlood
<1>5. CASE Deliver(r)
  BY <1>5, DeliverKeepsInv
<1>6. CASE ReaderFails(r)
  BY <1>6, StopKeepsInv DEF ReaderFails
<1> QED BY <1>1, <1>2, <1>3, <1>4, <1>5, <1>6 DEF Read

LEMMA InvNext == IInv /\ [Next]_vars => IInv'
<1> SUFFICES ASSUME IInv, [Next]_vars PROVE IInv'
  OBVIOUS
<1>1. ASSUME NEW m \in Makers, Push(m) PROVE IInv'
  BY <1>1, StartKeepsInv, PushLayerKeepsInv, PackManifestKeepsInv, TagKeepsInv,
     MakerFailsKeepsInv DEF Push
<1>2. CASE ForeignPush
  BY <1>2, ForeignPushKeepsInv
<1>3. ASSUME NEW r \in Readers, Read(r) PROVE IInv'
  BY <1>3, ReadKeepsInv
<1>4. CASE UNCHANGED vars
  <2>1. TypeOK'
    BY <1>4 DEF IInv, TypeOK, vars
  <2>2. StoreInv' /\ MakerInv'
    BY <1>4, StoreKept DEF IInv, vars
  <2>3. ReaderInv' /\ NoHalfPublishSeen'
    BY <1>4, ReadersKept DEF IInv, vars
  <2> QED BY <2>1, <2>2, <2>3 DEF IInv
<1> QED BY <1>1, <1>2, <1>3, <1>4 DEF Next

-----------------------------------------------------------------------------
\* Every step is a step of the register, or none.

LEMMA RegisterInit == Init => Register!Init
<1> SUFFICES ASSUME Init PROVE Register!Init
  OBVIOUS
<1>1. \A p \in Places : candidates(p) = {}
  BY Kinds DEF Init, candidates, Places
<1>2. \A r \in Readers :
        /\ reader[r].place \in Places /\ reader[r].pc = "new"
        /\ reader[r].seen = {}
  BY Kinds DEF Init, Places
<1> QED BY <1>1, <1>2 DEF Register!Init

\* A manifest that joins an image is published there, any other changes nothing
\* a reader could collect.
LEMMA ManifestJoins ==
  ASSUME NEW x \in Manifest, manifests' = manifests \cup {x},
         UNCHANGED <<tags, reader>>
  PROVE  Register!Next \/ UNCHANGED Register!rvars
<1>1. CASE x.type = "sigstore" /\ x.subject \in Images
  <2>1. \A p \in Places : candidates(p)' =
          IF p = x.subject THEN candidates(p) \cup {x} ELSE candidates(p)
    BY <1>1, Kinds DEF candidates
  <2>2. x.subject \in Places
    BY <1>1 DEF Places
  <2>3. [p \in Places |-> candidates(p)]' =
          [[p \in Places |-> candidates(p)] EXCEPT
             ![x.subject] = @ \cup {x}]
    BY <2>1, <2>2
  <2>4. Register!Publish
    BY <2>2, <2>3 DEF Register!Publish
  <2> QED BY <2>4 DEF Register!Next
<1>2. CASE ~(x.type = "sigstore" /\ x.subject \in Images)
  <2>1. \A p \in Places : candidates(p)' = candidates(p)
    BY <1>2 DEF candidates
  <2> QED BY <2>1 DEF Register!rvars
<1> QED BY <1>1, <1>2

LEMMA TagPublishes ==
  ASSUME IInv, NEW m \in Makers, NEW heard \in BOOLEAN, Tag(m, heard)
  PROVE  Register!Next
<1> DEFINE x == packedManifest(m)
           t == maker[m].place
<1>1. t \in Tags /\ x \in Manifest /\ tags \in [Tags -> Manifest \cup {Absent}]
  BY DEF Tag, step, IInv, MakerInv, TypeOK
<1>2. tags' = [tags EXCEPT ![t] = x] /\ UNCHANGED <<manifests, reader>>
  BY DEF Tag
<1> HIDE DEF x, t
<1>3. \A p \in Places : candidates(p)' = IF p = t THEN {x} ELSE candidates(p)
  BY <1>1, <1>2, Kinds DEF candidates, Places
<1>4. t \in Places
  BY <1>1 DEF Places
<1>5. [p \in Places |-> candidates(p)]' =
        [[p \in Places |-> candidates(p)] EXCEPT ![t] = {x}]
  BY <1>3, <1>4
<1>6. Register!Publish
  BY <1>1, <1>2, <1>4, <1>5 DEF Register!Publish
<1> QED BY <1>6 DEF Register!Next

LEMMA MakerRefines ==
  ASSUME IInv, NEW m \in Makers, Push(m)
  PROVE  Register!Next \/ UNCHANGED Register!rvars
<1>1. CASE UNCHANGED <<manifests, tags, reader>>
  <2>1. \A p \in Places : candidates(p)' = candidates(p)
    BY <1>1 DEF candidates
  <2> QED BY <1>1, <2>1 DEF Register!rvars
<1>2. CASE \E heard \in BOOLEAN : PackManifest(m, heard)
  <2>1. maker[m].pc = "manifest" /\ manifests' = manifests \cup {packedManifest(m)}
        /\ UNCHANGED <<tags, reader>>
    BY <1>2 DEF PackManifest, step
  <2>2. maker[m].bundle \in Bundles
    BY <2>1, Kinds DEF IInv, MakerInv
  <2>3. packedManifest(m) \in Manifest
    BY <2>2, Bounds, PackedIsManifest
  <2> QED BY <2>1, <2>3, ManifestJoins
<1>3. CASE \E heard \in BOOLEAN : Tag(m, heard)
  BY <1>3, TagPublishes
<1> QED BY <1>1, <1>2, <1>3 DEF Push, Start, PushLayer, MakerFails

LEMMA ForeignRefines ==
  ASSUME ForeignPush
  PROVE  Register!Next \/ UNCHANGED Register!rvars
BY Kinds, ManifestJoins DEF ForeignPush

\* What the register sees of one reader.
statusOf(q) == IF reader[q].pc = "fetch" THEN "looked" ELSE reader[q].pc
answerOf(q) == IF reader[q].pc = "delivered" THEN reader[q].got ELSE {}

\* A step of one reader is that of the register, if the register sees it so.
LEMMA ReaderSeen ==
  ASSUME UNCHANGED <<manifests, tags>>, NEW r \in Readers,
         \A q \in Readers \ {r} : reader'[q] = reader[q],
         reader'[r].place = reader[r].place
  PROVE  /\ UNCHANGED [p \in Places |-> candidates(p)]
         /\ UNCHANGED [q \in Readers |-> reader[q].place]
         /\ [q \in Readers |-> statusOf(q)]' =
              [[q \in Readers |-> statusOf(q)] EXCEPT ![r] = statusOf(r)']
         /\ [q \in Readers |-> reader[q].seen]' =
              [[q \in Readers |-> reader[q].seen] EXCEPT ![r] = reader'[r].seen]
         /\ [q \in Readers |-> answerOf(q)]' =
              [[q \in Readers |-> answerOf(q)] EXCEPT ![r] = answerOf(r)']
<1>1. \A p \in Places : candidates(p)' = candidates(p)
  BY DEF candidates
<1>2. \A q \in Readers : reader'[q].place = reader[q].place
  OBVIOUS
<1>3. \A q \in Readers \ {r} : statusOf(q)' = statusOf(q) /\ answerOf(q)' = answerOf(q)
  BY DEF statusOf, answerOf
<1> QED BY <1>1, <1>2, <1>3

\* The register counts as the store does.
LEMMA SameCardinality == \A S : Register!Cardinality(S) = Cardinality(S)
BY Zenon DEF Register!Cardinality, Cardinality

LEMMA ReaderRefines ==
  ASSUME IInv, NEW r \in Readers, Read(r)
  PROVE  Register!Next \/ UNCHANGED Register!rvars
<1>1. reader \in [Readers -> ReaderState] /\ ReaderInv!(r)
  BY DEF IInv, TypeOK, ReaderInv
<1>2. reader[r].place \in Places
  BY <1>1, Zenon DEF ReaderState
<1>3. CASE Look(r)
  <2> DEFINE found == candidates(reader[r].place)
  <2>1. found \in SUBSET Manifest
    BY <1>1, <1>2, CandidatesStored DEF IInv
  <2>2. /\ reader[r].pc = "new" /\ UNCHANGED <<layers, manifests, tags, maker>>
        /\ reader' = [reader EXCEPT ![r].pc = "fetch", ![r].seen = found,
                                    ![r].todo = found]
    BY <1>3 DEF Look
  <2> HIDE DEF found
  <2>3. /\ \A q \in Readers \ {r} : reader'[q] = reader[q]
        /\ reader'[r].pc = "fetch" /\ reader'[r].seen = found
        /\ reader'[r].place = reader[r].place
    BY <1>1, <2>1, <2>2, ReaderLooks
  <2>4. statusOf(r) = "new" /\ statusOf(r)' = "looked" /\ answerOf(r)' = answerOf(r)
    BY <2>2, <2>3 DEF statusOf, answerOf
  <2>5. Register!Look(r)
    <3>1. reader'[r].seen = [p \in Places |-> candidates(p)][reader[r].place]
      BY <1>2, <2>3 DEF found
    <3>2. /\ [q \in Readers |-> statusOf(q)][r] = "new"
          /\ [q \in Readers |-> statusOf(q)]' =
               [[q \in Readers |-> statusOf(q)] EXCEPT ![r] = "looked"]
      BY <2>2, <2>3, <2>4, ReaderSeen
    <3>3. [q \in Readers |-> reader[q].seen]' =
            [[q \in Readers |-> reader[q].seen] EXCEPT
               ![r] = [p \in Places |-> candidates(p)]
                        [[q \in Readers |-> reader[q].place][r]]]
      <4>1. [q \in Readers |-> reader[q].place][r] = reader[r].place
        OBVIOUS
      <4>2. [q \in Readers |-> reader[q].seen]' =
              [[q \in Readers |-> reader[q].seen] EXCEPT ![r] = reader'[r].seen]
        BY <2>2, <2>3, ReaderSeen
      <4> QED BY <3>1, <4>1, <4>2
    <3>4. UNCHANGED [q \in Readers |-> answerOf(q)]
      BY <2>3, <2>4 DEF answerOf
    <3>5. /\ UNCHANGED [p \in Places |-> candidates(p)]
          /\ UNCHANGED [q \in Readers |-> reader[q].place]
      BY <2>2, <2>3, ReaderSeen
    <3> QED BY <3>2, <3>3, <3>4, <3>5, Zenon
            DEF Register!Look, statusOf, answerOf
  <2> QED BY <2>5 DEF Register!Next, Register!Read
<1>4. CASE FetchManifestLayers(r)
  <2>1. PICK x \in reader[r].todo :
          reader' = [reader EXCEPT ![r].todo = @ \ {x}, ![r].got = @ \cup {x}]
    BY <1>4 DEF FetchManifestLayers
  <2>2. reader[r].pc = "fetch" /\ UNCHANGED <<layers, manifests, tags, maker>>
    BY <1>4 DEF FetchManifestLayers
  <2>3. /\ \A q \in Readers \ {r} : reader'[q] = reader[q]
        /\ reader'[r].pc = "fetch" /\ reader'[r].seen = reader[r].seen
        /\ reader'[r].place = reader[r].place
    BY <1>1, <2>1, <2>2, ReaderFetches
  <2>4. statusOf(r)' = statusOf(r) /\ answerOf(r)' = answerOf(r)
    BY <2>2, <2>3 DEF statusOf, answerOf
  <2>5. UNCHANGED Register!rvars
    BY <2>2, <2>3, <2>4, ReaderSeen DEF Register!rvars, statusOf, answerOf
  <2> QED BY <2>5
<1>5. CASE FetchMissing(r) \/ RefuseFlood(r) \/ ReaderFails(r)
  <2>1. PICK why \in {"missing", "flood", "net"} :
          reader' = [reader EXCEPT ![r].pc = "failed", ![r].why = why]
    BY <1>5 DEF FetchMissing, RefuseFlood, ReaderFails
  <2>2. /\ reader[r].pc \in {"new", "fetch"}
        /\ UNCHANGED <<layers, manifests, tags, maker>>
    BY <1>5 DEF FetchMissing, RefuseFlood, ReaderFails
  <2>3. /\ \A q \in Readers \ {r} : reader'[q] = reader[q]
        /\ reader'[r].pc = "failed" /\ reader'[r].seen = reader[r].seen
        /\ reader'[r].place = reader[r].place
    BY <1>1, <2>1, ReaderStops
  <2>4. statusOf(r) \in {"new", "looked"} /\ statusOf(r)' = "failed"
        /\ answerOf(r)' = answerOf(r)
    BY <2>2, <2>3 DEF statusOf, answerOf
  <2>5. Register!Fail(r)
    BY <2>2, <2>3, <2>4, ReaderSeen DEF Register!Fail, statusOf, answerOf
  <2> QED BY <2>5 DEF Register!Next, Register!Read
<1>6. CASE Deliver(r)
  <2>1. /\ reader[r].pc = "fetch" /\ reader[r].todo = {}
        /\ reader' = [reader EXCEPT ![r].pc = "delivered"]
        /\ UNCHANGED <<layers, manifests, tags, maker>>
    BY <1>6 DEF Deliver
  <2>2. /\ \A q \in Readers \ {r} : reader'[q] = reader[q]
        /\ reader'[r].pc = "delivered" /\ reader'[r].seen = reader[r].seen
        /\ reader'[r].got = reader[r].got
        /\ reader'[r].place = reader[r].place
    BY <1>1, <2>1, ReaderDelivers
  <2>3. reader[r].got = reader[r].seen /\ Cardinality(reader[r].seen) <= Cap
    BY <1>1, <2>1
  <2>4. statusOf(r) = "looked" /\ statusOf(r)' = "delivered"
        /\ answerOf(r)' = reader[r].seen
    BY <2>1, <2>2, <2>3 DEF statusOf, answerOf
  <2>5. Register!Deliver(r)
    <3>1. [q \in Readers |-> reader[q].seen][r] = reader[r].seen
          /\ [q \in Readers |-> statusOf(q)][r] = "looked"
      BY <2>4
    <3>2. UNCHANGED <<manifests, tags>> /\ UNCHANGED [q \in Readers |-> reader[q].seen]
      BY <2>1, <2>2
    <3>3. Cardinality([q \in Readers |-> reader[q].seen][r]) <= Cap
      BY <2>3, <3>1
    <3>4. [q \in Readers |-> answerOf(q)]' =
            [[q \in Readers |-> answerOf(q)] EXCEPT
               ![r] = [q \in Readers |-> reader[q].seen][r]]
      BY <2>2, <2>4, <3>1, <3>2, ReaderSeen
    <3>5. [q \in Readers |-> statusOf(q)]' =
            [[q \in Readers |-> statusOf(q)] EXCEPT ![r] = "delivered"]
      BY <2>2, <2>4, <3>2, ReaderSeen
    <3>6. /\ UNCHANGED [p \in Places |-> candidates(p)]
          /\ UNCHANGED [q \in Readers |-> reader[q].place]
      BY <2>2, <3>2, ReaderSeen
    <3>7. UNCHANGED [q \in Readers |-> reader[q].seen]
      BY <3>2
    <3>8. [q \in Readers |-> statusOf(q)][r] = "looked"
      BY <3>1
    <3> QED BY <3>3, <3>4, <3>5, <3>6, <3>7, <3>8, SameCardinality
            DEF Register!Deliver, statusOf, answerOf
  <2> QED BY <2>5 DEF Register!Next, Register!Read
<1> QED BY <1>3, <1>4, <1>5, <1>6 DEF Read

-----------------------------------------------------------------------------
\* IInv is an invariant: on the registry, and in what makers and readers hold,
\* content is there before anything that names it (packBundle, PushAttestation).
THEOREM InvariantHolds == Spec => []IInv
BY InvInit, InvNext, PTL DEF Spec

\* Every variable keeps its type.
THEOREM TypeCorrect == Spec => []TypeOK
<1>1. IInv => TypeOK
  BY DEF IInv
<1> QED BY <1>1, InvariantHolds, PTL

\* No reader ever meets the middle of a publish, whatever fails and whoever
\* overwrites whom (packBundle against fetchManifestLayers).
THEOREM NoHalfPublishIsSeen == Spec => []NoHalfPublishSeen
<1>1. IInv => NoHalfPublishSeen
  BY DEF IInv
<1> QED BY <1>1, InvariantHolds, PTL

\* A step of a maker that changes the registry is one of a run whose bundle and
\* tag were accepted: it leaves them as they are, and MakerInv knows of them.
LEMMA WriterWasAccepted ==
  ASSUME TypeOK, MakerInv, [Next]_vars, NEW m \in Makers, maker'[m] # maker[m],
         <<layers, manifests, tags>>' # <<layers, manifests, tags>>
  PROVE  ~refused(m)'
<1>1. maker \in [Makers -> MakerState]
  BY DEF TypeOK
<1>2. PICK n \in Makers : Push(n)
  BY Zenon DEF Next, Read, ForeignPush, Look, FetchManifestLayers, FetchMissing,
     RefuseFlood, Deliver, ReaderFails, vars
<1>3. PICK heard \in BOOLEAN :
        PushLayer(n, heard) \/ PackManifest(n, heard) \/ Tag(n, heard)
  BY <1>2 DEF Push, Start, MakerFails
<1>4. /\ maker[n].pc \in {"layer", "manifest", "tag"}
      /\ \E to \in {"layer", "manifest", "tag", "done", "failed"} :
           maker' = [maker EXCEPT ![n].pc = to]
  BY <1>3 DEF PushLayer, PackManifest, Tag, step
<1>5. m = n
  BY <1>1, <1>4
<1>6. maker'[m].bundle = maker[m].bundle /\ maker'[m].place = maker[m].place
  BY <1>1, <1>4, MakerMoves
<1>7. ~refused(m)
  BY <1>4, <1>5, Zenon DEF MakerInv, refused
<1> QED BY <1>6, <1>7 DEF refused

\* Whatever a refused run does, from its start to its end, the registry stays as
\* it is: no layer, no manifest, no tag, for a bad bundle as for a bad tag.
THEOREM RefusedWritesNothing == Spec => RefusedRunWritesNothing
<1>1. IInv /\ [Next]_vars =>
        [\A m \in Makers : maker'[m] # maker[m] /\ refused(m)' =>
           UNCHANGED <<layers, manifests, tags>>]_vars
  BY WriterWasAccepted DEF IInv
<1> QED BY <1>1, InvariantHolds, PTL DEF Spec, RefusedRunWritesNothing

\* However often a bundle is pushed to a place there is one manifest of ours for
\* it, because nothing in the manifest depends on the run that packs it.
THEOREM RepushAddsNothing == Spec => []RepushIsIdempotent
<1>1. IInv => RepushIsIdempotent
  <2> SUFFICES ASSUME IInv, NEW x \in manifests \ Foreign,
                      NEW y \in manifests \ Foreign,
                      x.layer = y.layer, x.subject = y.subject
               PROVE  x = y
    BY DEF RepushIsIdempotent
  <2>1. x \in Manifest /\ y \in Manifest
    BY DEF IInv, TypeOK
  <2>2. x.created = y.created /\ x.type = y.type
    BY DEF IInv, StoreInv
  <2> QED BY <2>1, <2>2 DEF Manifest
<1> QED BY <1>1, InvariantHolds, PTL

\* Makers, readers and the registry together implement the register: a discovery
\* delivers what its place showed at one moment, in full, or it fails.
THEOREM Implements == Spec => Register!Spec
<1>1. IInv /\ [Next]_vars => [Register!Next]_(Register!rvars)
  <2> SUFFICES ASSUME IInv, [Next]_vars
               PROVE  Register!Next \/ UNCHANGED Register!rvars
    OBVIOUS
  <2>1. CASE UNCHANGED vars
    <3>1. \A p \in Places : candidates(p)' = candidates(p)
      BY <2>1 DEF candidates, vars
    <3> QED BY <2>1, <3>1 DEF Register!rvars, vars
  <2> QED BY <2>1, MakerRefines, ForeignRefines, ReaderRefines DEF Next
<1> QED BY <1>1, RegisterInit, InvariantHolds, PTL DEF Spec, Register!Spec
=============================================================================
