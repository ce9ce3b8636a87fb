-------------------------- MODULE AttestationStore --------------------------
(***************************************************************************)
(* Publishing attestations to an OCI registry and discovering them there.  *)
(* Makers run PushAttestation (a tag) or AttachReferrer (a referrer of an  *)
(* image), readers discoverByTag or discoverReferrers, all against one     *)
(* registry and all at the same time.  Every request may fail, and may     *)
(* fail for the client alone although the registry carried it out; a maker *)
(* may also die between two requests.  A failed maker may run again, with  *)
(* the same bundle or with one signed anew.                                *)
(***************************************************************************)
EXTENDS Naturals, FiniteSets

CONSTANTS
  Makers, Readers,
  Bundles,      \* signed bundles: the bytes that become the layer
  WellFormed,   \* those validateBundle accepts
  Tags,         \* mapped tags of artifacts
  ValidTags,    \* those of the OCI tag grammar
  Images,       \* subjects that carry referrers
  Foreign,      \* manifests others attach to the images
  Absent,       \* what a tag that does not exist points at
  MaxRuns,      \* bound on the runs of one maker
  Cap           \* maxReferrerCandidates, 16 in the code

Places == Tags \cup Images

\* A manifest is content addressed: equal records are one stored manifest. The
\* created annotation is 0 if pinned, the number of the run if it is a time.
Manifest ==
  [layer: Bundles, subject: Images \cup {"none"},
   type: {"sigstore", "other"}, created: 0..MaxRuns]

ASSUME StoreAssumption ==
  /\ WellFormed \subseteq Bundles /\ ValidTags \subseteq Tags
  /\ Foreign \subseteq Manifest
  /\ \A f \in Foreign : f.subject \in Images
  /\ Tags \cap Images = {} /\ "none" \notin Places
  /\ Absent \notin Manifest
  /\ MaxRuns \in Nat /\ Cap \in Nat \ {0}

VARIABLES
  layers,       \* layer blobs the registry holds
  manifests,    \* manifests it holds
  tags,         \* what each tag points at
  maker,        \* the run of each maker
  reader        \* the discovery of each reader

vars == <<layers, manifests, tags, maker, reader>>

Init ==
  /\ layers = {} /\ manifests = {}
  /\ tags = [t \in Tags |-> Absent]
  /\ maker \in [Makers -> [pc: {"idle"}, run: {0}, bundle: {"none"},
                           place: Places]]
  /\ reader \in [Readers -> [pc: {"new"}, place: ValidTags \cup Images, seen: {{}},
                             todo: {{}}, got: {{}}, why: {""}]]

-----------------------------------------------------------------------------
\* Makers.

\* Mutation: the annotation is left to oras, which stamps the time of the push.
packedManifest_stamped(m) ==
  [layer |-> maker[m].bundle,
   subject |-> IF maker[m].place \in Images THEN maker[m].place ELSE "none",
   type |-> "sigstore", created |-> maker[m].run]

\* The manifest PackManifest is asked for: the created annotation is pinned.
packedManifest(m) ==
  [layer |-> maker[m].bundle,
   subject |-> IF maker[m].place \in Images THEN maker[m].place ELSE "none",
   type |-> "sigstore", created |-> 0]

step(m, from, to) ==
  /\ maker[m].pc = from
  /\ maker' = [maker EXCEPT ![m].pc = to]

\* Mutation: the tag is not checked before the first request.
Start_anyTag(m) ==
  /\ maker[m].pc \in {"idle", "failed", "done"}
  /\ maker[m].run < MaxRuns
  /\ \E b \in Bundles :
       maker' = [maker EXCEPT ![m].run = @ + 1, ![m].bundle = b,
                              ![m].pc = IF b \in WellFormed THEN "layer" ELSE "failed"]
  /\ UNCHANGED <<layers, manifests, tags, reader>>

\* A run begins with validateBundle and, for a tag, ValidOCITag: a bundle or a
\* tag they refuse costs no request.
Start(m) ==
  /\ maker[m].pc \in {"idle", "failed", "done"}
  /\ maker[m].run < MaxRuns
  /\ \E b \in Bundles :
       maker' = [maker EXCEPT ![m].run = @ + 1, ![m].bundle = b,
         ![m].pc = IF /\ b \in WellFormed
                      /\ maker[m].place \in ValidTags \cup Images
                   THEN "layer" ELSE "failed"]
  /\ UNCHANGED <<layers, manifests, tags, reader>>

\* Mutation: the error of the layer push is not looked at.
PushLayer_unheard(m, heard) ==
  /\ step(m, "layer", "manifest")
  /\ layers' = IF heard THEN layers \cup {maker[m].bundle} ELSE layers
  /\ UNCHANGED <<manifests, tags, reader>>

\* oras.PushBytes of the layer; heard is whether the answer reaches the maker.
PushLayer(m, heard) ==
  /\ step(m, "layer", IF heard THEN "manifest" ELSE "failed")
  /\ layers' = layers \cup {maker[m].bundle}
  /\ UNCHANGED <<manifests, tags, reader>>

\* oras.PackManifest (the empty config blob it also pushes is never read). With
\* a subject this is already the last request.
PackManifest(m, heard) ==
  /\ step(m, "manifest",
          IF ~heard THEN "failed"
          ELSE IF maker[m].place \in Images THEN "done" ELSE "tag")
  /\ manifests' = manifests \cup {packedManifest(m)}
  /\ UNCHANGED <<layers, tags, reader>>

\* Mutation: the tag is put on the descriptor of the layer.
Tag_layer(m, heard) ==
  /\ step(m, "tag", IF heard THEN "done" ELSE "failed")
  /\ tags' = [tags EXCEPT ![maker[m].place] = maker[m].bundle]
  /\ UNCHANGED <<layers, manifests, reader>>

Tag(m, heard) ==
  /\ step(m, "tag", IF heard THEN "done" ELSE "failed")
  /\ tags' = [tags EXCEPT ![maker[m].place] = packedManifest(m)]
  /\ UNCHANGED <<layers, manifests, reader>>

\* A request fails without effect, or the maker dies.
MakerFails(m) ==
  /\ maker[m].pc \in {"layer", "manifest", "tag"}
  /\ maker' = [maker EXCEPT ![m].pc = "failed"]
  /\ UNCHANGED <<layers, manifests, tags, reader>>

\* Others attach manifests of their own to an image, with or without a layer.
ForeignPush ==
  /\ \E f \in Foreign :
       /\ manifests' = manifests \cup {f}
       /\ layers' \in {layers, layers \cup {f.layer}}
  /\ UNCHANGED <<tags, maker, reader>>

-----------------------------------------------------------------------------
\* Readers.

\* What discovery would collect at a place right now: the manifest of the tag,
\* or the referrers of the sigstore bundle media type family.
candidates(p) ==
  IF p \in Images
  THEN {x \in manifests : x.subject = p /\ x.type = "sigstore"}
  ELSE IF tags[p] = Absent THEN {} ELSE {tags[p]}

\* The tag a reader looks up is computed by AttestationRef, which only makes
\* valid ones.  target.Resolve or registry.Referrers.  An absent tag and no referrers at all
\* are no error: there is simply nothing to fetch.
Look(r) ==
  /\ reader[r].pc = "new"
  /\ reader' = [reader EXCEPT ![r].pc = "fetch",
                              ![r].seen = candidates(reader[r].place),
                              ![r].todo = candidates(reader[r].place)]
  /\ UNCHANGED <<layers, manifests, tags, maker>>

tooMany(r) == reader[r].place \in Images /\ Cardinality(reader[r].got) >= Cap

\* fetchManifestLayers of the next candidate, by digest.
FetchManifestLayers(r) ==
  /\ reader[r].pc = "fetch" /\ ~tooMany(r)
  /\ \E x \in reader[r].todo :
       /\ x \in manifests /\ x.layer \in layers
       /\ reader' = [reader EXCEPT ![r].todo = @ \ {x}, ![r].got = @ \cup {x}]
  /\ UNCHANGED <<layers, manifests, tags, maker>>

\* Its manifest or its layer is not there: the whole discovery fails.
FetchMissing(r) ==
  /\ reader[r].pc = "fetch" /\ ~tooMany(r)
  /\ \E x \in reader[r].todo : x \notin manifests \/ x.layer \notin layers
  /\ reader' = [reader EXCEPT ![r].pc = "failed", ![r].why = "missing"]
  /\ UNCHANGED <<layers, manifests, tags, maker>>

\* One more matching referrer than the cap: refuse rather than narrow.
RefuseFlood(r) ==
  /\ reader[r].pc = "fetch" /\ tooMany(r) /\ reader[r].todo # {}
  /\ reader' = [reader EXCEPT ![r].pc = "failed", ![r].why = "flood"]
  /\ UNCHANGED <<layers, manifests, tags, maker>>

\* Mutation: the first Cap candidates are enough.
Deliver_narrowed(r) ==
  /\ reader[r].pc = "fetch" /\ (reader[r].todo = {} \/ tooMany(r))
  /\ reader' = [reader EXCEPT ![r].pc = "delivered"]
  /\ UNCHANGED <<layers, manifests, tags, maker>>

Deliver(r) ==
  /\ reader[r].pc = "fetch" /\ reader[r].todo = {}
  /\ reader' = [reader EXCEPT ![r].pc = "delivered"]
  /\ UNCHANGED <<layers, manifests, tags, maker>>

\* Any request of a reader may fail on the network.
ReaderFails(r) ==
  /\ reader[r].pc \in {"new", "fetch"}
  /\ reader' = [reader EXCEPT ![r].pc = "failed", ![r].why = "net"]
  /\ UNCHANGED <<layers, manifests, tags, maker>>

Read(r) ==
  \/ Look(r) \/ FetchManifestLayers(r) \/ FetchMissing(r)
  \/ RefuseFlood(r) \/ Deliver(r) \/ ReaderFails(r)

Push(m) ==
  \/ Start(m)
  \/ \E heard \in BOOLEAN :
       PushLayer(m, heard) \/ PackManifest(m, heard) \/ Tag(m, heard)
  \/ MakerFails(m)

Next ==
  \/ \E m \in Makers : Push(m)
  \/ ForeignPush
  \/ \E r \in Readers : Read(r)

Spec == Init /\ [][Next]_vars

\* A reader is a process of its own that keeps issuing requests, each of which
\* is answered or times out.  Makers may stop at any point.
FairSpec == Spec /\ \A r \in Readers : WF_vars(Read(r))

-----------------------------------------------------------------------------
\* Properties.

ReaderState ==
  [pc: {"new", "fetch", "delivered", "failed"}, place: Places,
   seen: SUBSET Manifest, todo: SUBSET Manifest, got: SUBSET Manifest,
   why: {"", "missing", "flood", "net"}]

MakerState ==
  [pc: {"idle", "layer", "manifest", "tag", "done", "failed"},
   run: 0..MaxRuns, bundle: Bundles \cup {"none"}, place: Places]

\* Every variable has its type; membership in the large record sets is stated
\* field by field so that TLC can evaluate it.
TypeOK ==
  /\ layers \subseteq Bundles
  /\ manifests \subseteq Manifest
  /\ tags \in [Tags -> Manifest \cup {Absent}]
  /\ maker \in [Makers -> MakerState]
  /\ reader \in [Readers -> ReaderState]

\* A discovery delivers exactly what its place showed at one moment, or fails;
\* and it always ends (discoverByTag and discoverReferrers against publishers
\* that run, fail, retry and overwrite one another meanwhile).
Register == INSTANCE AttestationRegister WITH
  Items <- Manifest,
  shown <- [p \in Places |-> candidates(p)],
  place <- [r \in Readers |-> reader[r].place],
  status <- [r \in Readers |-> IF reader[r].pc = "fetch" THEN "looked"
                               ELSE reader[r].pc],
  seen <- [r \in Readers |-> reader[r].seen],
  answer <- [r \in Readers |-> IF reader[r].pc = "delivered"
                               THEN reader[r].got ELSE {}]

ImplementsRegister == Register!FairSpec

\* No reader ever meets the middle of a publish: one that finds content missing
\* is reading an image to which somebody else attached a bundle without its
\* layer (the order of packBundle, through failures and overwritten tags).
NoHalfPublishSeen ==
  \A r \in Readers : reader[r].why = "missing" =>
    /\ reader[r].place \in Images
    /\ \E f \in Foreign : f \in reader[r].seen /\ f.type = "sigstore"

\* validateBundle and ValidOCITag refuse a run for its bundle or for its tag.
refused(m) ==
  maker[m].bundle \notin WellFormed \/ maker[m].place \notin ValidTags \cup Images

\* A refused run leaves nothing behind: from its start to its end no step of it
\* changes the registry, whether it was refused for its bundle or for its tag, be
\* it the retry of a run that had got as far as a layer (PushAttestation,
\* AttachReferrer).
RefusedRunWritesNothing ==
  [][\A m \in Makers :
       maker'[m] # maker[m] /\ refused(m)' => UNCHANGED <<layers, manifests, tags>>]_vars

\* Retrying never multiplies: however often a bundle is pushed to a place, after
\* whatever failures, the registry holds one manifest of ours for it, so retries
\* cannot fill the referrer cap (bundleManifestCreatedAnnotation).
RepushIsIdempotent ==
  \A x, y \in manifests \ Foreign :
    x.layer = y.layer /\ x.subject = y.subject => x = y

\* The inductive invariant behind the proofs: content before what names it, on
\* the registry and in what makers and readers still hold.
StoreInv ==
  /\ \A t \in Tags : tags[t] # Absent =>
       tags[t] \in manifests \ Foreign /\ tags[t].subject = "none"
  /\ \A x \in manifests \ Foreign : x.layer \in layers /\ x.created = 0
                                    /\ x.type = "sigstore"

MakerInv ==
  \A m \in Makers :
    /\ maker[m].pc \in {"layer", "manifest", "tag"} =>
         maker[m].bundle \in WellFormed /\ maker[m].place \in ValidTags \cup Images
    /\ maker[m].pc \in {"manifest", "tag"} => maker[m].bundle \in layers
    /\ maker[m].pc = "tag" =>
         maker[m].place \in Tags /\ packedManifest(m) \in manifests

ReaderInv ==
  \A r \in Readers :
    /\ reader[r].seen \subseteq manifests
    /\ \A x \in reader[r].seen :
         IF reader[r].place \in Images THEN x.type = "sigstore"
         ELSE x \notin Foreign /\ reader[r].seen = {x}
    /\ reader[r].pc = "new" => reader[r].got = {}
    /\ reader[r].pc # "failed" => reader[r].why = ""
    /\ reader[r].pc = "fetch" => reader[r].seen = reader[r].got \cup reader[r].todo
    /\ IsFiniteSet(reader[r].got) /\ Cardinality(reader[r].got) <= Cap
    /\ reader[r].got \subseteq reader[r].seen

IInv ==
  TypeOK /\ StoreInv /\ MakerInv /\ ReaderInv /\ NoHalfPublishSeen
=============================================================================
