---------------------------- MODULE MCBrowseTree ----------------------------
(* BrowseTree for TLC: two objects, a top-level object that a filter may    *)
(* reject, and a method; the references among them that make shortcuts,     *)
(* shared children and cycles.                                              *)
EXTENDS BrowseTree

CONSTANTS a, b, h, m

MCNodes == {a, b, h, m}
MCBranches == {a, b, h}
MCLinks ==
  {<<Root, a>>, <<Root, b>>, <<Root, h>>, <<a, b>>, <<a, h>>, <<b, a>>,
   <<h, b>>, <<b, Root>>, <<a, m>>, <<b, m>>}
MCDepths == {-1, 0, 1}
\* No result is Bad, that of a is, or the rest of that of the Objects folder.
MCLosses == {{}, {<<a, b>>, <<a, h>>, <<a, m>>}, {<<Root, b>>, <<Root, h>>}}
MCFilters == {MCNodes, {a, b, m}}
=============================================================================
