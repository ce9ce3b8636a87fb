---------------------------- MODULE Discovery_proofs ----------------------------
(***************************************************************************)
(* Proofs about discovery, for every set of packages, names, digests and   *)
(* attestation bases, any number of makers that publish and any number of  *)
(* changes of the npm registry while it runs.                              *)
(***************************************************************************)
EXTENDS Discovery, TLAPS

\* The steps before anything was looked up in a store.
Before == {"identity", "bundle", "referrers", "tag"}

\* Which steps an argument leads through.
PathInv ==
  /\ query \in Queries /\ integrity \in Packuments /\ latest \in Versions
  /\ pc = "bundle" => query.bundle # "none"
  /\ pc = "referrers" => query.shape = "oci"
  /\ pc = "tag" => query.shape # "oci"
  /\ pc = "provenance" => query.shape # "oci" /\ query.source = "npm"

\* Whatever was published has a place, and somebody's offer is there.
StoreInv ==
  /\ store \subseteq published /\ published \subseteq Offers
  /\ \A o \in published : placeOf(o) # Nothing
  /\ \A o \in published : \E x \in store : placeOf(x) = placeOf(o)

\* An artifact from npm is of a version, and has that version's digest.
VersionInv ==
  pc \in {"tag", "provenance"} /\ query.source = "npm" /\ query.kind # "skill" =>
    ref.version \in Versions /\ ref.digest = integrity[ref.version]

\* The attestations of the artifact that were published when its place was read
\* were found, or what took their tag was.
LookedUp ==
  \A o \in before :
    /\ o.digest = ref.digest /\ o.name = query.name /\ o.kind = query.kind
    /\ toldBase(o.config) = toldBase(query.config)
    => \E x \in found :
         /\ sameName(x.name, o.name) /\ x.kind = o.kind
         /\ x.digest.head = o.digest.head

FoundInv ==
  /\ pc \in Before => found = {}
  /\ pc \in Before \cup {"provenance"} => provenance = Nothing
  /\ pc = "provenance" => LookedUp

Inv ==
  /\ PathInv /\ StoreInv /\ VersionInv /\ FoundInv
  /\ AttestedIsFound /\ ProvenanceOfTheVersion /\ PlacesAreApart

-----------------------------------------------------------------------------
\* Facts about places.

LEMMA SamePlaces ==
  ASSUME NEW b, NEW e, NEW n, NEW t, NEW c, NEW f, NEW m, NEW u,
         <<b, e, n, t>> = <<c, f, m, u>>
  PROVE  e = f /\ n = m /\ t = u
OBVIOUS

\* A place tells artifacts apart by kind, by name up to case and by the first half
\* of the digest.
LEMMA PlaceIsOfTheArtifact ==
  ASSUME NEW b, NEW k \in {"skill", "mcp-server"}, NEW s, NEW n \in Name, NEW d,
         NEW c, NEW l \in {"skill", "mcp-server"}, NEW t, NEW m \in Name, NEW e,
         AttestationRef(b, k, s, n, d) # Nothing,
         AttestationRef(b, k, s, n, d) = AttestationRef(c, l, t, m, e)
  PROVE  k = l /\ sameName(n, m) /\ d.head = e.head
<1>. DEFINE tag(j, g) == IF j = "skill" THEN <<g.head, g.tail>> ELSE <<g.head>>
<1>1. /\ mappableName(k, n) /\ mappableName(l, m)
      /\ AttestationRef(b, k, s, n, d) = <<b, ecosystem(k), encodedName(n), tag(k, d)>>
      /\ AttestationRef(c, l, t, m, e) = <<c, ecosystem(l), encodedName(m), tag(l, e)>>
  BY DEF AttestationRef
<1>2. /\ ecosystem(k) = ecosystem(l) /\ encodedName(n) = encodedName(m)
      /\ tag(k, d) = tag(l, e)
  <2>. HIDE DEF tag
  <2>1. <<b, ecosystem(k), encodedName(n), tag(k, d)>>
          = <<c, ecosystem(l), encodedName(m), tag(l, e)>>
    BY <1>1
  <2>. QED  BY <2>1, SamePlaces
<1>3. k = l
  BY <1>2 DEF ecosystem
<1>4. d.head = e.head
  BY <1>2, <1>3
<1>5. n.scope = m.scope /\ n.word = m.word
  BY <1>2 DEF encodedName
<1>6. n.segment = m.segment
  BY <1>1 DEF mappableName, Name
<1>7. sameName(n, m)
  BY <1>5, <1>6 DEF sameName, Name
<1>. QED  BY <1>3, <1>4, <1>7

\* Of the configuration a place depends on the base alone, and on the source not
\* at all.
LEMMA SameBaseSamePlace ==
  ASSUME NEW c, NEW f, toldBase(c) = toldBase(f),
         NEW k, NEW s, NEW t, NEW n, NEW d,
         AttestationRef(ResolveAttestationBase(c), k, s, n, d) # Nothing,
         AttestationRef(ResolveAttestationBase(f), k, t, n, d) # Nothing
  PROVE  AttestationRef(ResolveAttestationBase(c), k, s, n, d)
           = AttestationRef(ResolveAttestationBase(f), k, t, n, d)
<1>1. ResolveAttestationBase(c) # Nothing /\ ResolveAttestationBase(f) # Nothing
  BY DEF AttestationRef
<1>2. ResolveAttestationBase(c) = ResolveAttestationBase(f)
  BY <1>1 DEF ResolveAttestationBase, toldBase
<1>. HIDE DEF ResolveAttestationBase
<1>. QED  BY <1>2 DEF AttestationRef

\* A version that is one stays that one, or is gone.
LEMMA VersionKeys ==
  ASSUME NEW v
  PROVE  /\ v \in Versions => resolveVersionKey(v) \in {v, Nothing}
         /\ latest \in Versions /\ resolveVersionKey(v) # Nothing
              => resolveVersionKey(v) \in Versions
BY DiscoveryAssumption DEF resolveVersionKey

-----------------------------------------------------------------------------
LEMMA InitKeepsInv == Init => Inv
BY DEF Init, Inv, PathInv, StoreInv, VersionInv, FoundInv, Before, AttestedIsFound,
       ProvenanceOfTheVersion, PlacesAreApart

\* Whatever goes on around it, what Resolve has put together stays as it is.
LEMMA OthersKeepInv ==
  ASSUME Inv, UNCHANGED <<integrity, query, pc, ref, found, provenance, before>>,
         latest' \in Versions, StoreInv'
  PROVE  Inv'
BY DEF Inv, PathInv, VersionInv, FoundInv, LookedUp, AttestedIsFound,
       ProvenanceOfTheVersion, PlacesAreApart

LEMMA PublishKeepsInv == ASSUME Inv, NEW o \in Offers, Publish(o) PROVE Inv'
<1>1. /\ UNCHANGED <<npm, query, pc, ref, found, provenance, before>>
      /\ placeOf(o) # Nothing /\ published' = published \cup {o}
      /\ store' = {x \in store : placeOf(x) # placeOf(o)} \cup {o}
  BY DEF Publish
<1>2. StoreInv'
  <2>1. store' \subseteq published' /\ published' \subseteq Offers
    BY <1>1 DEF Inv, StoreInv
  <2>2. \A p \in published' : placeOf(p) # Nothing
    BY <1>1 DEF Inv, StoreInv
  <2>3. ASSUME NEW p \in published' PROVE \E x \in store' : placeOf(x) = placeOf(p)
    <3>1. CASE placeOf(p) = placeOf(o)
      BY <1>1, <3>1
    <3>2. CASE placeOf(p) # placeOf(o)
      <4>1. PICK x \in store : placeOf(x) = placeOf(p)
        BY <1>1, <3>2 DEF Inv, StoreInv
      <4>. QED  BY <1>1, <3>2, <4>1
    <3>. QED  BY <3>1, <3>2
  <2>. QED  BY <2>1, <2>2, <2>3 DEF StoreInv, placeOf
<1>. QED  BY <1>1, <1>2, OthersKeepInv DEF npm, Inv, PathInv

LEMMA ChangeKeepsInv == ASSUME Inv, ChangeNPM PROVE Inv'
<1>1. UNCHANGED <<integrity, store, published, query, pc, ref, found, provenance, before>>
  BY DEF ChangeNPM
<1>2. latest' \in Versions
  BY DEF ChangeNPM, Inv, PathInv
<1>3. StoreInv'
  BY <1>1 DEF Inv, StoreInv, placeOf
<1>. QED  BY <1>1, <1>2, <1>3, OthersKeepInv

\* A failure is not a finding: it says nothing.
LEMMA FailingKeepsInv ==
  ASSUME Inv, NEW reason, fail(reason)
  PROVE  Inv'
BY DEF fail, npm, Inv, PathInv, StoreInv, placeOf, VersionInv, FoundInv, Before,
       AttestedIsFound, ProvenanceOfTheVersion, PlacesAreApart

LEMMA IdentityKeepsInv == ASSUME Inv, ResolveIdentity PROVE Inv'
<1>1. CASE fail("operational") \/ fail("noTarget")
  BY <1>1, FailingKeepsInv
<1>2. CASE \E step \in {"bundle", "referrers", "tag"} :
             /\ go(step)
             /\ step = "bundle" <=> query.bundle # "none"
             /\ step = "referrers" <=> query.bundle = "none" /\ query.shape = "oci"
             /\ pc = "identity" /\ UNCHANGED <<found, provenance, before>>
             /\ CASE query.shape = "oci" -> ociIdentity
                  [] query.shape = "npm" -> npmIdentity(query.version)
                  [] query.shape = "dir" -> localIdentity
  <2>1. PICK step \in {"bundle", "referrers", "tag"} :
             /\ go(step)
             /\ step = "bundle" <=> query.bundle # "none"
             /\ step = "referrers" <=> query.bundle = "none" /\ query.shape = "oci"
    BY <1>2
  <2>2. /\ UNCHANGED <<npm, store, published, query, found, provenance, before>>
        /\ pc' = step /\ pc = "identity" /\ found = {} /\ provenance = Nothing
    BY <1>2, <2>1 DEF go, Inv, FoundInv, Before
  <2>3. PathInv'
    BY <2>1, <2>2 DEF Inv, PathInv, npm
  <2>4. StoreInv'
    BY <2>2 DEF Inv, StoreInv, placeOf
  <2>5. VersionInv'
    <3>. SUFFICES ASSUME step = "tag", query.source = "npm", query.kind # "skill"
                  PROVE  ref'.version \in Versions /\ ref'.digest = integrity[ref'.version]
      BY <2>2 DEF VersionInv, npm
    <3>1. query.shape \in {"npm", "dir"}
      BY <2>1, DiscoveryAssumption DEF Inv, PathInv, Query
    <3>2. npmIdentity(query.version)
      BY <1>2, <3>1 DEF localIdentity
    <3>3. resolveVersionKey(query.version) \in Versions
      BY <3>2, VersionKeys DEF npmIdentity, Inv, PathInv
    <3>. QED  BY <3>2, <3>3 DEF npmIdentity
  <2>6. FoundInv'
    BY <2>2 DEF FoundInv, Before
  <2>7. AttestedIsFound' /\ ProvenanceOfTheVersion' /\ PlacesAreApart'
    BY <2>2 DEF AttestedIsFound, ProvenanceOfTheVersion, PlacesAreApart
  <2>. QED  BY <2>3, <2>4, <2>5, <2>6, <2>7 DEF Inv
<1>. QED  BY <1>1, <1>2 DEF ResolveIdentity

\* The explicit bundle and the referrers are outside what is found by tag.
LEMMA OtherSourcesKeepInv ==
  ASSUME Inv, ReadBundle \/ DiscoverReferrers
  PROVE  Inv'
<1>1. CASE fail("operational")
  BY <1>1, FailingKeepsInv
<1>2. CASE go("resolved") /\ UNCHANGED <<ref, found, provenance, before>>
  <2>1. /\ pc \in Before /\ pc' = "resolved" /\ found = {} /\ provenance = Nothing
        /\ query.bundle # "none" \/ query.shape = "oci"
    BY <1>2 DEF ReadBundle, DiscoverReferrers, go, Inv, PathInv, FoundInv, Before
  <2>. QED
    BY <1>2, <2>1 DEF go, npm, Inv, PathInv, StoreInv, placeOf, VersionInv, FoundInv,
       Before, AttestedIsFound, ProvenanceOfTheVersion, PlacesAreApart
<1>. QED  BY <1>1, <1>2 DEF ReadBundle, DiscoverReferrers

\* What lies at the place is of this artifact.
LEMMA FoundAtThePlace ==
  ASSUME Inv, place # Nothing, NEW x \in store, placeOf(x) = place
  PROVE  x.kind = query.kind /\ sameName(x.name, query.name)
         /\ x.digest.head = ref.digest.head
<1>1. x \in Offer /\ query \in Query
  BY DiscoveryAssumption DEF Inv, StoreInv, PathInv
<1>2. /\ x.kind \in {"skill", "mcp-server"} /\ x.name \in Name
      /\ query.kind \in {"skill", "mcp-server"} /\ query.name \in Name
  BY <1>1 DEF Offer, Query
<1>. QED  BY <1>2, PlaceIsOfTheArtifact DEF placeOf, place

LEMMA TagKeepsInv == ASSUME Inv, DiscoverByTag PROVE Inv'
<1>1. CASE fail("operational") \/ fail("unmapped")
  BY <1>1, FailingKeepsInv
<1>2. CASE /\ ref.digest # Nothing => place # Nothing
           /\ found' = IF ref.digest = Nothing THEN {}
                       ELSE {o \in store : placeOf(o) = place}
           /\ before' = published
           /\ go(IF query.source = "npm" THEN "provenance" ELSE "resolved")
           /\ UNCHANGED <<ref, provenance>>
           /\ pc = "tag"
  <2>1. /\ UNCHANGED <<npm, store, published, query, ref, provenance>>
        /\ pc' = IF query.source = "npm" THEN "provenance" ELSE "resolved"
        /\ provenance = Nothing /\ query.shape # "oci"
    BY <1>2 DEF go, Inv, PathInv, FoundInv, Before
  <2>2. PathInv' /\ StoreInv' /\ VersionInv'
    BY <1>2, <2>1 DEF Inv, PathInv, StoreInv, VersionInv, placeOf, npm
  <2>3. LookedUp'
    <3>. SUFFICES ASSUME NEW o \in published, o.digest = ref.digest,
                         o.name = query.name, o.kind = query.kind,
                         toldBase(o.config) = toldBase(query.config)
                  PROVE  \E x \in found' : /\ sameName(x.name, o.name) /\ x.kind = o.kind
                                           /\ x.digest.head = o.digest.head
      BY <1>2, <2>1 DEF LookedUp
    <3>1. ref.digest # Nothing
      BY DiscoveryAssumption DEF Inv, StoreInv, Offer
    <3>2. placeOf(o) = place
      BY <1>2, <3>1, SameBaseSamePlace DEF Inv, StoreInv, placeOf, place
    <3>3. PICK x \in store : placeOf(x) = placeOf(o)
      BY DEF Inv, StoreInv
    <3>. QED  BY <1>2, <3>1, <3>2, <3>3, FoundAtThePlace
  <2>4. PlacesAreApart'
    <3>. SUFFICES ASSUME NEW o \in found'
                  PROVE  /\ o.kind = query.kind /\ sameName(o.name, query.name)
                         /\ o.digest.head = ref.digest.head
      BY <2>1 DEF PlacesAreApart
    <3>. QED  BY <1>2, FoundAtThePlace
  <2>5. FoundInv' /\ AttestedIsFound' /\ ProvenanceOfTheVersion'
    BY <2>1, <2>3 DEF FoundInv, Before, AttestedIsFound, ProvenanceOfTheVersion, LookedUp
  <2>. QED  BY <2>2, <2>4, <2>5 DEF Inv
<1>. QED  BY <1>1, <1>2 DEF DiscoverByTag

LEMMA ProvenanceKeepsInv == ASSUME Inv, FetchNPMProvenance PROVE Inv'
<1>1. CASE fail("operational")
  BY <1>1, FailingKeepsInv
<1>2. CASE /\ provenance' \in {Nothing, provenanceOf(ref.version)}
           /\ go("resolved") /\ UNCHANGED <<ref, found, before>>
           /\ pc = "provenance"
  <2>1. /\ UNCHANGED <<npm, store, published, query, ref, found, before>>
        /\ pc' = "resolved" /\ LookedUp
        /\ query.shape # "oci" /\ query.source = "npm"
    BY <1>2 DEF go, Inv, PathInv, FoundInv
  <2>2. PathInv' /\ StoreInv' /\ VersionInv'
    BY <2>1 DEF Inv, PathInv, StoreInv, VersionInv, placeOf, npm
  <2>3. FoundInv' /\ AttestedIsFound' /\ PlacesAreApart'
    BY <2>1 DEF Inv, FoundInv, Before, AttestedIsFound, PlacesAreApart, LookedUp
  <2>4. ProvenanceOfTheVersion'
    <3>. SUFFICES ASSUME provenance' # Nothing, query.kind # "skill"
                  PROVE  ref.digest = integrity[provenance']
      BY <2>1 DEF ProvenanceOfTheVersion, npm
    <3>1. ref.version \in Versions /\ ref.digest = integrity[ref.version]
      BY <1>2, <2>1 DEF Inv, VersionInv
    <3>2. provenance' = ref.version
      BY <1>2, <3>1, VersionKeys DEF provenanceOf
    <3>. QED  BY <3>1, <3>2
  <2>. QED  BY <2>2, <2>3, <2>4 DEF Inv
<1>. QED  BY <1>1, <1>2 DEF FetchNPMProvenance

LEMMA NextKeepsInv == Inv /\ [Next]_vars => Inv'
<1>. SUFFICES ASSUME Inv, [Next]_vars PROVE Inv'
  OBVIOUS
<1>1. CASE Resolve
  BY <1>1, IdentityKeepsInv, OtherSourcesKeepInv, TagKeepsInv, ProvenanceKeepsInv
     DEF Resolve
<1>2. CASE UNCHANGED vars
  <2>1. StoreInv'
    BY <1>2 DEF vars, Inv, StoreInv, placeOf
  <2>. QED  BY <1>2, <2>1, OthersKeepInv DEF vars, npm, Inv, PathInv
<1>. QED  BY <1>1, <1>2, ChangeKeepsInv, PublishKeepsInv DEF Next

LEMMA InvAlways == Spec => []Inv
BY InitKeepsInv, NextKeepsInv, PTL DEF Spec

\* Whatever is published, unpublished and moved while it is looked for, an
\* attestation of this very artifact that was published in time, under the base the
\* consumer was told of, is found, or what took its tag is (AttestationRef on both
\* sides, pushAttestation, discoverByTag).
THEOREM AttestedAlwaysFound == Spec => []AttestedIsFound
<1>1. Inv => AttestedIsFound
  BY DEF Inv
<1>. QED  BY <1>1, InvAlways, PTL

\* For every packument and every sequence of changes of the npm registry, the
\* provenance of a report belongs to the version whose digest the report is about
\* (resolveNPMIdentity, fetchNPMProvenance).
THEOREM ProvenanceAlwaysOfTheVersion == Spec => []ProvenanceOfTheVersion
<1>1. Inv => ProvenanceOfTheVersion
  BY DEF Inv
<1>. QED  BY <1>1, InvAlways, PTL

\* For every set of names and digests, what is found is of the same kind, of the
\* same name up to case, and of the same first half of the digest: the mapping to
\* places keeps all other artifacts apart (encodeNPMName, AttestationRef).
THEOREM PlacesAlwaysApart == Spec => []PlacesAreApart
<1>1. Inv => PlacesAreApart
  BY DEF Inv
<1>. QED  BY <1>1, InvAlways, PTL

-----------------------------------------------------------------------------
\* Types.

LEMMA BoundIsNat == MaxChanges \in Nat
BY DiscoveryAssumption

\* A key is a version or nothing, whatever was asked for.
LEMMA KeyTypes ==
  ASSUME NEW v, latest \in Versions
  PROVE  resolveVersionKey(v) \in Versions \cup {Nothing}
BY DEF resolveVersionKey

\* The digest of a version is one, and the version is of the package.
LEMMA NPMTypes ==
  ASSUME TypeOK, NEW v, npmIdentity(v)
  PROVE  ref'.version \in Versions /\ ref'.digest \in Digests
<1> DEFINE key == resolveVersionKey(v)
<1>1. key # Nothing /\ integrity[key] # Nothing
      /\ ref' = [version |-> key, digest |-> integrity[key]]
  BY DEF npmIdentity
<1>2. key \in Versions
  BY <1>1, KeyTypes DEF TypeOK
<1>. HIDE DEF key
<1>3. integrity \in [Versions -> {d \in Digests : d.alg = "sha512"} \cup {Nothing}]
  BY DiscoveryAssumption DEF TypeOK
<1>4. integrity[key] \in Digests
  BY <1>1, <1>2, <1>3
<1>. QED  BY <1>1, <1>2, <1>4

LEMMA TypesNext == TypeOK /\ [Next]_vars => TypeOK'
<1> SUFFICES ASSUME TypeOK, [Next]_vars PROVE TypeOK'
  OBVIOUS
<1>1. ASSUME NEW o \in Offers, Publish(o) PROVE TypeOK'
  <2>1. /\ store' = {x \in store : placeOf(x) # placeOf(o)} \cup {o}
        /\ published' = published \cup {o}
        /\ UNCHANGED <<integrity, unpublished, latest, changes, query, pc, ref,
                       found, provenance, before>>
    BY <1>1 DEF Publish, npm
  <2>2. \A x, y \in store' : placeOf(x) = placeOf(y) => x = y
    <3>1. \A x, y \in store : placeOf(x) = placeOf(y) => x = y
      BY DEF TypeOK
    <3>. HIDE DEF placeOf
    <3>. QED  BY <2>1, <3>1
  <2>3. /\ store' \subseteq published' /\ published' \subseteq Offers
        /\ found' \subseteq published' /\ before' \subseteq published'
    BY <2>1 DEF TypeOK
  <2>. QED  BY <2>1, <2>2, <2>3 DEF TypeOK
<1>2. CASE ChangeNPM
  <2>1. /\ unpublished' \cup {latest'} \subseteq Versions
        /\ UNCHANGED <<integrity, store, published, query, pc, ref, found,
                       provenance, before>>
    BY <1>2 DEF ChangeNPM, TypeOK
  <2>2. changes' \in 0..MaxChanges
    <3>1. changes' = changes + 1 /\ changes < MaxChanges /\ changes \in 0..MaxChanges
      BY <1>2 DEF ChangeNPM, TypeOK
    <3>. QED  BY <3>1, BoundIsNat
  <2>. QED  BY <2>1, <2>2 DEF TypeOK
<1>3. CASE Resolve
  <2>1. UNCHANGED <<integrity, unpublished, latest, changes, store, published, query>>
    BY <1>3 DEF Resolve, ResolveIdentity, ReadBundle, DiscoverReferrers,
                DiscoverByTag, FetchNPMProvenance, fail, go, npm
  <2>2. pc' \in {"identity", "bundle", "referrers", "tag", "provenance", "resolved",
                 "failed"}
    BY <1>3 DEF Resolve, ResolveIdentity, ReadBundle, DiscoverReferrers,
                DiscoverByTag, FetchNPMProvenance, fail, go
  <2>3. /\ ref'.version \in Versions \cup {"latest", Nothing}
        /\ ref'.digest \in Digests \cup {Nothing}
        /\ query.shape # "oci" /\ query.kind # "skill" /\ ref'.digest # Nothing =>
             ref'.version \in Versions
    <3>1. CASE UNCHANGED ref
      BY <3>1 DEF TypeOK
    <3>2. CASE query.shape = "oci" /\ ociIdentity
      BY <3>2, DiscoveryAssumption DEF ociIdentity, TypeOK, Query
    <3>3. CASE \E v : npmIdentity(v)
      BY <3>3, NPMTypes
    <3>4. CASE query.shape = "dir" /\ localIdentity
      <4>1. CASE query.kind # "skill" /\ query.source = "npm"
        BY <3>4, <4>1, NPMTypes DEF localIdentity
      <4>2. CASE ~(query.kind # "skill" /\ query.source = "npm")
        <5>1. ref' = [version |-> query.version,
                      digest |-> IF query.kind = "skill" THEN query.digest ELSE Nothing]
          BY <3>4, <4>2 DEF localIdentity
        <5>2. query.version \in Versions \cup {"latest"} /\ query.digest \in Digests
          BY DiscoveryAssumption DEF TypeOK, Query
        <5>. QED  BY <5>1, <5>2
      <4>. QED  BY <4>1, <4>2
    <3>5. \/ UNCHANGED ref \/ \E v : npmIdentity(v)
          \/ query.shape = "oci" /\ ociIdentity
          \/ query.shape = "dir" /\ localIdentity
      <4>1. query.shape \in {"dir", "npm", "oci"}
        BY DiscoveryAssumption DEF TypeOK, Query
      <4>. QED
        BY <1>3, <4>1
           DEF Resolve, ResolveIdentity, ReadBundle, DiscoverReferrers,
               DiscoverByTag, FetchNPMProvenance, fail
    <3>. QED  BY <3>1, <3>2, <3>3, <3>4, <3>5
  <2>4. /\ found' \subseteq published /\ before' \subseteq published
        /\ provenance' \in Versions \cup {Nothing}
    <3>1. /\ found' \in {found, {}, {o \in store : placeOf(o) = place}}
          /\ before' \in {before, published}
          /\ \/ provenance' \in {provenance, Nothing}
             \/ \E v : provenance' = resolveVersionKey(v)
      BY <1>3 DEF Resolve, ResolveIdentity, ReadBundle, DiscoverReferrers,
                  DiscoverByTag, FetchNPMProvenance, fail, go, provenanceOf
    <3>. HIDE DEF placeOf, place
    <3>. QED  BY <3>1, KeyTypes DEF TypeOK
  <2>. QED  BY <2>1, <2>2, <2>3, <2>4 DEF TypeOK, placeOf
<1>4. CASE UNCHANGED vars
  BY <1>4 DEF vars, npm, TypeOK
<1>. QED  BY <1>1, <1>2, <1>3, <1>4 DEF Next

\* A place shows one offer at any time, however many makers publish to it; what is
\* found was published, and an MCP server with a digest has the version the digest
\* is of.
THEOREM TypeCorrect == Spec => []TypeOK
<1>1. Init => TypeOK
  <2> SUFFICES ASSUME Init PROVE TypeOK
    OBVIOUS
  <2>1. changes \in 0..MaxChanges
    <3>1. changes = 0
      BY DEF Init
    <3>. QED  BY <3>1, BoundIsNat
  <2>. QED  BY <2>1 DEF Init, TypeOK
<1>. QED  BY <1>1, TypesNext, PTL DEF Spec
=============================================================================
