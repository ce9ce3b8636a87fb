---------------------------- MODULE MCToolListing ----------------------------
(***************************************************************************)
(* Instances of ToolListing for TLC.                                       *)
(***************************************************************************)
EXTENDS ToolListing

mcA == [name |-> "a", schema |-> "s"]
mcOtherA == [name |-> "a", schema |-> "t"]
mcB == [name |-> "b", schema |-> "s"]
mcBare == [name |-> "b", schema |-> "absent"]

mcTools == {mcA, mcOtherA, mcB, mcBare}

\* One page, or two of which the first has a cursor to the second.
mcListings ==
  {<<t>> : t \in {<<mcA>>, <<mcB, mcA>>, <<mcA, mcA>>, <<mcBare>>}}
  \cup {<< <<mcA>>, <<mcB>> >>}

mcFiles == {<<>>, <<mcA>>, <<mcOtherA>>, <<mcA, mcB>>, <<mcA, mcA>>, <<mcBare>>}
mcNoFiles == {<<>>}

mcEscapes == {{"stderr"}, {"stdout", "stderr"}}
mcStdoutEscape == {{"stdout"}}
=============================================================================
