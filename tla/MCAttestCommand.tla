--------------------------- MODULE MCAttestCommand ---------------------------
(***************************************************************************)
(* Instances of AttestCommand for TLC.                                     *)
(***************************************************************************)
EXTENDS AttestCommand, TLC

mcFlag(k, l, s, o, d) ==
  [key |-> k, keyless |-> l, skipSBOM |-> s, output |-> o, dryRun |-> d]

\* Writing and pushing, with and without an SBOM, a dry run of each, no mode and
\* both modes of signing.
mcFlags ==
  {mcFlag(TRUE, FALSE, FALSE, TRUE, FALSE), mcFlag(TRUE, FALSE, TRUE, TRUE, FALSE),
   mcFlag(FALSE, TRUE, FALSE, FALSE, FALSE), mcFlag(FALSE, TRUE, TRUE, TRUE, FALSE),
   mcFlag(FALSE, TRUE, TRUE, FALSE, TRUE), mcFlag(TRUE, FALSE, FALSE, TRUE, TRUE),
   mcFlag(FALSE, FALSE, TRUE, TRUE, FALSE), mcFlag(TRUE, TRUE, TRUE, TRUE, FALSE)}

\* Two good projects that differ in every part; one with no declaration, one of
\* another identity, one that is invalid, one without a place in a registry and
\* one whose forgeseal is too old.
mcProject(p, q, s) ==
  [declared |-> TRUE, agrees |-> TRUE, valid |-> TRUE, mappable |-> TRUE,
   forgeseal |-> "supported", first |-> p, second |-> q, deps |-> s]

mcProjects ==
  LET base == mcProject("x", "x", "d")
  IN  {base, mcProject("y", "y", "e"),
       [base EXCEPT !.declared = FALSE],
       [mcProject("y", "x", "d") EXCEPT !.agrees = FALSE],
       [mcProject("x", "y", "e") EXCEPT !.valid = FALSE],
       [base EXCEPT !.mappable = FALSE],
       [base EXCEPT !.forgeseal = "unsupported"]}

mcSymmetry == Permutations(Runs)
=============================================================================
