----------------------------- MODULE MCDiscovery -----------------------------
(***************************************************************************)
(* Instances of Discovery for TLC.                                         *)
(***************************************************************************)
EXTENDS Discovery

mcDigest(alg, head, tail) == [alg |-> alg, head |-> head, tail |-> tail]

\* Two that agree in the half that goes into a tag, and others.
mcDigests ==
  {mcDigest("sha512", "h1", "t1"), mcDigest("sha512", "h1", "t2"),
   mcDigest("sha512", "h2", "t1"), mcDigest("bundle", "h1", "t1"),
   mcDigest("sha256", "h1", "t1")}

mcName(scope, word, upper, segment) ==
  [scope |-> scope, word |-> word, upper |-> upper, segment |-> segment]

mcPlain == mcName("", "w", FALSE, TRUE)

\* Plain, scoped, in upper case (which maps onto plain), and unmappable.
mcNames ==
  {mcPlain, mcName("w", "w", FALSE, TRUE), mcName("", "w", TRUE, TRUE),
   mcName("", "w", FALSE, FALSE)}

mcConfig(flag, env, packageJSON) ==
  [flag |-> flag, env |-> env, packageJSON |-> packageJSON]

\* Every source of the base, alone and against another one.
mcConfigs ==
  {mcConfig("b", "", ""), mcConfig("", "b", "c"), mcConfig("b", "c", ""),
   mcConfig("", "", "b"), mcConfig("", "", "unreadable"), mcConfig("bad", "", "")}

mcOffer(kind, source, name, digest, config) ==
  [kind |-> kind, source |-> source, name |-> name, digest |-> digest,
   config |-> config]

\* The package; one that collides with it in the tag, where the flag beats the
\* environment; its name in upper case, under a package.json; the package of that
\* name in a scope; a name that cannot be mapped; a skill of the same name.
mcOffers ==
  {mcOffer("mcp-server", "npm", mcPlain, mcDigest("sha512", "h1", "t1"),
           mcConfig("b", "", "")),
   mcOffer("mcp-server", "npm", mcPlain, mcDigest("sha512", "h1", "t2"),
           mcConfig("b", "c", "")),
   mcOffer("mcp-server", "npm", mcName("", "w", TRUE, TRUE),
           mcDigest("sha512", "h2", "t1"), mcConfig("", "", "b")),
   mcOffer("mcp-server", "npm", mcName("w", "w", FALSE, TRUE),
           mcDigest("sha512", "h1", "t1"), mcConfig("b", "", "")),
   mcOffer("mcp-server", "npm", mcName("", "w", FALSE, FALSE),
           mcDigest("sha512", "h2", "t1"), mcConfig("b", "", "")),
   mcOffer("skill", "local", mcPlain, mcDigest("bundle", "h1", "t1"),
           mcConfig("b", "", ""))}

\* Of a version with a digest of its own, and of one that may have none usable or
\* collide with it in the tag.
mcPackuments ==
  {[v1 |-> mcDigest("sha512", "h1", "t1"), v2 |-> d] :
     d \in {mcDigest("sha512", "h1", "t2"), mcDigest("sha512", "h2", "t1"), Nothing}}

mcQuery(shape, kind, source, name, version, bundle, config) ==
  [shape |-> shape, kind |-> kind, source |-> source, name |-> name,
   version |-> version, bundle |-> bundle, config |-> config,
   digest |-> mcDigest(IF shape = "oci" THEN "sha256" ELSE "bundle", "h1", "t1")]

\* Every shape with every configuration, every name, and every kind of explicit
\* bundle, varied one at a time.
mcQueries ==
  LET shapes == {<<"npm", "mcp-server", "npm">>, <<"dir", "mcp-server", "npm">>,
                 <<"dir", "skill", "local">>, <<"dir", "skill", "npm">>,
                 <<"dir", "mcp-server", "local">>, <<"oci", "mcp-server", "local">>}
      asked(s, n, b, c) ==
        {mcQuery(s[1], s[2], s[3], n, v, b, c) : v \in {"v1", "latest"}}
      flagged == mcConfig("b", "", "")
  IN  UNION {asked(s, mcPlain, "none", c) : s \in shapes, c \in mcConfigs}
      \cup UNION {asked(s, n, "none", flagged) : s \in shapes, n \in mcNames}
      \cup UNION {asked(s, mcPlain, b, flagged) :
                    s \in shapes, b \in {"readable", "unreadable"}}
=============================================================================
