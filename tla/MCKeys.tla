-------------------------------- MODULE MCKeys --------------------------------
\* Instances of Keys for TLC.
EXTENDS Keys

Content(active, k1, k2) == [active |-> active, keys |-> [k \in {"k1", "k2"} |-> IF k = "k1" THEN k1 ELSE k2]]

\* Two sources: one holds the field's key, the other may override it or name another active key.
TwoSources ==
  << {Content("k1", 1, 0), Content("k1", 2, 1), Content("k2", 0, 1)},
     {Content("", 0, 0), Content("k2", 0, 2), Content("", 3, 0)} >>
=============================================================================
