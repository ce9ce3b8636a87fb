------------------------------ MODULE MCHookGate ------------------------------
(***************************************************************************)
(* Instances of HookGate for TLC.                                          *)
(***************************************************************************)
EXTENDS HookGate

mcFields == <<"trustRoot", "bundle">>
mcValues == {"", "s1", "s2", "e"}

mcEntry(a, t, b) == [artifact |-> a, trustRoot |-> t, bundle |-> b]

mcSidecars ==
  {Nothing, mcEntry("s1", "s1", "s1"), mcEntry("s1", "", ""),
   mcEntry("s2", "s2", ""), mcEntry("", "s1", "")}
mcEnvs == {Nothing, mcEntry("e", "e", "e"), mcEntry("e", "", "e")}
=============================================================================
