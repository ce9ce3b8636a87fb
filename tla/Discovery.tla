------------------------------ MODULE Discovery ------------------------------
(***************************************************************************)
(* How the two sides meet: `smithmark attest` publishes under a place it   *)
(* computes from the maker's project, and discover.Resolve looks at a      *)
(* place it computes from what the consumer names (a directory, an npm     *)
(* name@version or an OCI image).  A place is a base registry, an          *)
(* ecosystem, an encoded name and a tag (AttestationRef).                  *)
(*                                                                         *)
(* Resolve asks the npm registry twice (packument, then provenance) and    *)
(* the OCI registry in between.  Meanwhile versions are unpublished,       *)
(* dist-tags move and makers publish.  Publishing and reading a place are  *)
(* single steps here; AttestationStore has the requests they consist of.   *)
(***************************************************************************)
EXTENDS Naturals, FiniteSets

CONSTANTS
  Words,      \* names without scope, marker and case
  Versions,   \* versions of the npm package
  Digests,    \* digests that occur
  Packuments, \* dist.integrity of the versions; Nothing where none is usable
  Bases,      \* attestation bases; BadBase is none AttestationRef accepts
  BadBase,
  Offers,     \* what makers publish, and with which configuration
  Queries,    \* what consumers ask for, and with which configuration
  MaxChanges, \* bound on the changes of the npm registry
  MaxOffers,  \* bound on the offers published
  Nothing     \* no value

\* A name as far as the mapping tells names apart: @scope or nothing, upper case
\* letters or none, inside or outside the grammar of an OCI path segment.
Name ==
  [scope: Words \cup {""}, word: Words, upper: BOOLEAN, segment: BOOLEAN]

\* The part of the digest that goes into a tag, and the rest.
Digest == [alg: {"sha512", "bundle", "sha256"}, head: {"h1", "h2"}, tail: {"t1", "t2"}]

\* The flag, the environment, and smithmark.attestationBase of a package.json.
Config ==
  [flag: Bases \cup {""}, env: Bases \cup {""},
   packageJSON: Bases \cup {"", "unreadable"}]

Offer ==
  [kind: {"skill", "mcp-server"}, source: {"npm", "local"}, name: Name,
   digest: Digests, config: Config]

\* shape is what the argument is taken for, declared what smithmark.yaml says in
\* a directory; version is one of the package or its dist-tag "latest"; an npm
\* or OCI argument has no directory, and packageJSON is then that of the working
\* directory.
Query ==
  [shape: {"dir", "npm", "oci"}, kind: {"skill", "mcp-server"},
   source: {"npm", "local"}, name: Name, version: Versions \cup {"latest"},
   digest: Digests, bundle: {"none", "readable", "unreadable"}, config: Config]

ASSUME DiscoveryAssumption ==
  /\ Digests \subseteq Digest /\ Offers \subseteq Offer /\ Queries \subseteq Query
  /\ BadBase \in Bases /\ "" \notin Bases /\ "unreadable" \notin Bases
  /\ "latest" \notin Versions /\ Nothing \notin Digests
  /\ MaxChanges \in Nat /\ MaxOffers \in Nat
  /\ \A o \in Offers : (o.digest.alg = "bundle") <=> (o.kind = "skill")
  /\ \A q \in Queries : q.shape = "npm" => q.source = "npm" /\ q.kind = "mcp-server"
  /\ Packuments \subseteq
       [Versions -> {d \in Digests : d.alg = "sha512"} \cup {Nothing}]

VARIABLES
  integrity,  \* dist.integrity of the versions, which no one can change
  unpublished,\* the versions that are gone
  latest,     \* what the dist-tag points at
  changes,    \* changes of the npm registry so far
  store,      \* what each place shows: the offer published last
  published,  \* the offers that reached the store
  query,      \* what the consumer asks
  pc,         \* the step of Resolve
  ref,        \* version and digest of the artifact it resolved
  found,      \* the bundles it found, as the offers they came from
  provenance, \* the version whose provenance it found
  before,     \* the offers published when it looked at its place
  why         \* why it failed

npm == <<integrity, unpublished, latest, changes>>
vars == <<npm, store, published, query, pc, ref, found, provenance, before, why>>

-----------------------------------------------------------------------------
\* ResolveAttestationBase; Nothing stands for an error.
ResolveAttestationBase(c) ==
  IF c.flag # "" THEN c.flag ELSE IF c.env # "" THEN c.env
  ELSE IF c.packageJSON \in {"", "unreadable"} THEN Nothing ELSE c.packageJSON

ecosystem(kind) == IF kind = "skill" THEN "skill" ELSE "npm"

\* Mutation: the scope goes the way of its marker.
encodedName_unscoped(n) == <<n.word>>

\* encodeNPMName drops the marker of the scope and the case; the name of a skill
\* is taken as it is or not at all.
encodedName(n) ==
  IF n.scope = "" THEN <<n.word>> ELSE <<n.scope, n.word>>

mappableName(kind, n) ==
  n.segment /\ (kind = "skill" => n.scope = "" /\ ~n.upper)

\* AttestationRef; Nothing stands for an error.  Of an npm digest only the first
\* half goes into the tag.
AttestationRef(base, kind, source, n, d) ==
  IF \/ base \in {Nothing, BadBase} \/ ~mappableName(kind, n)
     \/ kind # "skill" /\ (source # "npm" \/ d.alg # "sha512")
     \/ kind = "skill" /\ d.alg # "bundle"
  THEN Nothing
  ELSE <<base, ecosystem(kind), encodedName(n),
         IF kind = "skill" THEN <<d.head, d.tail>> ELSE <<d.head>>>>

\* resolveVersionKey: a version of the packument, or what the dist-tag points at
\* if that is one.
resolveVersionKey(v) ==
  CASE v \in Versions \ unpublished -> v
    [] v = "latest" /\ latest \notin unpublished -> latest
    [] OTHER -> Nothing

-----------------------------------------------------------------------------
Init ==
  /\ integrity \in Packuments /\ unpublished = {}
  /\ latest \in Versions /\ changes = 0
  /\ store = {} /\ published = {}
  /\ query \in Queries
  /\ pc = "identity"
  /\ ref = [version |-> Nothing, digest |-> Nothing]
  /\ found = {} /\ provenance = Nothing /\ before = {} /\ why = ""

placeOf(o) ==
  AttestationRef(ResolveAttestationBase(o.config), o.kind, o.source, o.name, o.digest)

running == pc \notin {"resolved", "failed"}  \* nothing reads what changes later

\* A maker attests and pushes; one without a place fails instead.
Publish(o) ==
  /\ running /\ Cardinality(published) < MaxOffers
  /\ o \notin published /\ placeOf(o) # Nothing
  /\ store' = {x \in store : placeOf(x) # placeOf(o)} \cup {o}
  /\ published' = published \cup {o}
  /\ UNCHANGED <<npm, query, pc, ref, found, provenance, before, why>>

\* A version is unpublished, or the dist-tag moves; no version changes.
ChangeNPM ==
  /\ running /\ changes < MaxChanges /\ changes' = changes + 1
  /\ \/ /\ \E v \in Versions : unpublished' = unpublished \cup {v}
        /\ UNCHANGED latest
     \/ latest' \in Versions /\ UNCHANGED unpublished
  /\ UNCHANGED <<integrity, store, published, query, pc, ref, found,
                 provenance, before, why>>

fail(reason) ==
  /\ pc' = "failed" /\ why' = reason
  /\ UNCHANGED <<npm, store, published, query, ref, found, provenance, before>>

go(step) == pc' = step /\ UNCHANGED <<npm, store, published, query, why>>

\* What resolveNPMIdentity makes of the packument it fetches.
npmIdentity(version) ==
  LET key == resolveVersionKey(version)
  IN  /\ key # Nothing /\ integrity[key] # Nothing
      /\ ref' = [version |-> key, digest |-> integrity[key]]

\* resolveIdentity of a directory: a skill is digested from its files, whatever
\* its source; an MCP server from npm has its digest from there, and one from
\* elsewhere has none.
localIdentity ==
  IF query.kind # "skill" /\ query.source = "npm" THEN npmIdentity(query.version)
  ELSE ref' = [version |-> query.version,
               digest |-> IF query.kind = "skill" THEN query.digest ELSE Nothing]

\* The factory of OCI targets is only there without --bundle
\* (discoverForVerification).
ociIdentity ==
  query.bundle = "none" /\ ref' = [version |-> Nothing, digest |-> query.digest]

\* resolveIdentity of what the argument is.  A request may fail, a version be
\* missing and a declaration be malformed at any time.
ResolveIdentity ==
  /\ pc = "identity"
  /\ \/ fail("operational")
     \/ query.shape = "oci" /\ query.bundle # "none" /\ fail("noTarget")
     \/ /\ CASE query.shape = "oci" -> ociIdentity
            [] query.shape = "npm" -> npmIdentity(query.version)
            [] query.shape = "dir" -> localIdentity
        /\ go(CASE query.bundle # "none" -> "bundle"
                [] query.bundle = "none" /\ query.shape = "oci" -> "referrers"
                [] OTHER -> "tag")
        /\ UNCHANGED <<found, provenance, before>>

\* An explicit bundle is all there is to find.
ReadBundle ==
  /\ pc = "bundle"
  /\ IF query.bundle = "unreadable" THEN fail("operational")
     ELSE go("resolved") /\ UNCHANGED <<ref, found, provenance, before>>

\* discoverReferrers, which AttestationStore has in detail.
DiscoverReferrers ==
  /\ pc = "referrers"
  /\ \/ fail("operational")
     \/ go("resolved") /\ UNCHANGED <<ref, found, provenance, before>>

place ==
  AttestationRef(ResolveAttestationBase(query.config), query.kind, query.source,
                 query.name, ref.digest)

\* Mutation: what went wrong at the registry counts as nothing found.
DiscoverByTag_lenient ==
  /\ pc = "tag"
  /\ found' \in {{}, {o \in store : placeOf(o) = place}}
  /\ before' = published
  /\ go(IF query.source = "npm" THEN "provenance" ELSE "resolved")
  /\ UNCHANGED <<ref, provenance>>

\* discoverByTag: without a digest there is nothing to look for, and that is no
\* error; without a base or a place it is one.
DiscoverByTag ==
  /\ pc = "tag"
  /\ \/ fail("operational")
     \/ /\ ref.digest # Nothing /\ place = Nothing /\ fail("unmapped")
     \/ /\ ref.digest # Nothing => place # Nothing
        /\ found' = IF ref.digest = Nothing THEN {}
                    ELSE {o \in store : placeOf(o) = place}
        /\ before' = published
        /\ go(IF query.source = "npm" THEN "provenance" ELSE "resolved")
        /\ UNCHANGED <<ref, provenance>>

\* The version whose provenance the endpoint may have, Nothing if it is gone; it is
\* asked for a dist-tag only by a skill declared to come from npm, whose version no
\* one resolved.
provenanceOf(version) == resolveVersionKey(version)

\* Mutation: asks for the version the consumer named.
FetchNPMProvenance_asked ==
  /\ pc = "provenance" /\ provenance' \in {Nothing, provenanceOf(query.version)}
  /\ go("resolved") /\ UNCHANGED <<ref, found, before>>

\* fetchNPMProvenance of the version that was resolved.  A 404, or attestations with
\* no SLSA predicate among them, are no error.
FetchNPMProvenance ==
  /\ pc = "provenance"
  /\ \/ fail("operational")
     \/ /\ provenance' \in {Nothing, provenanceOf(ref.version)}
        /\ go("resolved") /\ UNCHANGED <<ref, found, before>>

Resolve ==
  \/ ResolveIdentity \/ ReadBundle \/ DiscoverReferrers \/ DiscoverByTag
  \/ FetchNPMProvenance

Next == Resolve \/ ChangeNPM \/ \E o \in Offers : Publish(o)

Spec == Init /\ [][Next]_vars

-----------------------------------------------------------------------------
\* Properties.

\* Every variable has its type.
TypeOK ==
  /\ integrity \in Packuments /\ unpublished \cup {latest} \subseteq Versions
  /\ changes \in 0..MaxChanges
  /\ store \subseteq published /\ published \subseteq Offers
  /\ \A o, p \in store : placeOf(o) = placeOf(p) => o = p
  /\ query \in Queries
  /\ pc \in {"identity", "bundle", "referrers", "tag", "provenance", "resolved",
             "failed"}
  /\ ref.version \in Versions \cup {"latest", Nothing}
  /\ ref.digest \in Digests \cup {Nothing}
  /\ query.shape # "oci" /\ query.kind # "skill" /\ ref.digest # Nothing =>
       ref.version \in Versions
  /\ found \subseteq published /\ before \subseteq published
  /\ provenance \in Versions \cup {Nothing}

\* Where maker and consumer agree on a base: by flag, else by environment, else by
\* the same key in the package.json of a project both have.
toldBase(c) ==
  CASE c.flag # "" -> c.flag [] c.flag = "" /\ c.env # "" -> c.env
    [] OTHER -> c.packageJSON

sameName(n, m) == [n EXCEPT !.upper = FALSE] = [m EXCEPT !.upper = FALSE]

\* An attestation of this very artifact, published under the base the consumer
\* was told of before it looked, is found, or one of the same name (up to case),
\* kind and first half of the digest took its tag; a discovery that cannot tell
\* fails instead of finding nothing (AttestationRef on both sides,
\* pushAttestation, discoverByTag).
AttestedIsFound ==
  pc = "resolved" /\ query.shape # "oci" /\ query.bundle = "none" =>
    \A o \in before :
      /\ o.digest = ref.digest /\ o.name = query.name /\ o.kind = query.kind
      /\ toldBase(o.config) = toldBase(query.config)
      => \E x \in found :
           /\ sameName(x.name, o.name) /\ x.kind = o.kind
           /\ x.digest.head = o.digest.head

\* The provenance of a report is that of the version whose digest the report is
\* about, wherever the dist-tag points and whatever is unpublished by then
\* (resolveNPMIdentity, fetchNPMProvenance).
ProvenanceOfTheVersion ==
  provenance # Nothing /\ query.kind # "skill" => ref.digest = integrity[provenance]

\* Whatever is found was attested for an artifact of the same kind, the same name
\* up to case, and the same first half of the digest: no two other artifacts
\* share a place (encodeNPMName, AttestationRef).
PlacesAreApart ==
  \A o \in found :
    /\ o.kind = query.kind /\ sameName(o.name, query.name)
    /\ o.digest.head = ref.digest.head

\* What docs/decisions.md:43 says: after the flag and the environment the base
\* comes from "the artifact's own package.json"; an npm or OCI argument has none
\* on disk ("for local args only", resolve.go:36-38).
BaseIsTheArtifacts ==
  query.shape = "npm" /\ found # {} =>
    query.config.flag # "" \/ query.config.env # ""

\* What resolve.go:40-50 says: with an explicit bundle the identity "is still
\* resolved normally from arg", for an OCI reference by calling NewTarget once.
\* This does not hold: the command sets no NewTarget then.
ExplicitBundleKeepsIdentity == why # "noTarget"
=============================================================================
