---------------------------- MODULE MCAgentPacks ----------------------------
(***************************************************************************)
(* AgentPacks with two packs.  "amy" has three versions: the second drops  *)
(* a persona and brings another integration, the third withdraws the       *)
(* preset.  "bob" vendors what the first version of "amy" does, and        *)
(* provides a preset of the same slug.                                     *)
(***************************************************************************)
EXTENDS AgentPacks, TLC

MCPacks == {"amy", "bob"}

Archive(p, v, preset, lead, roster, shas) ==
    [pack |-> p, version |-> v, preset |-> preset, lead |-> lead,
     roster |-> roster, shas |-> shas]

MCBundles ==
    {Archive("amy", 1, "kitchen", "x", {"x", "y"}, {"s1"}),
     Archive("amy", 2, "kitchen", "x", {"x"}, {"s2"}),
     Archive("amy", 3, "baking", "x", {"x"}, {"s2"}),
     Archive("bob", 1, "kitchen", "x", {"x"}, {"s1"})}

Symmetry == Permutations(Workers)
=============================================================================
