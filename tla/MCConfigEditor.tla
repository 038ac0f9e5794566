--------------------------- MODULE MCConfigEditor ---------------------------
(***************************************************************************)
(* Small instances of ConfigEditor: two entries.                           *)
(***************************************************************************)
EXTENDS ConfigEditor, TLC

CONSTANTS a, b

MCPaths == {a, b}
Symmetry == Permutations(MCPaths)
=============================================================================
