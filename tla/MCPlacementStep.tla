--------------------------- MODULE MCPlacementStep ---------------------------
(* A small instance of PlacementStep: short days and few inputs. *)
EXTENDS PlacementStep

Evening == [start |-> 4, end |-> 8]
MCPhases == {Evening}
MCHome == [s \in Series |-> [start |-> 2, end |-> 4]]
MCSymmetry == Permutations(OneOffs)
=============================================================================
