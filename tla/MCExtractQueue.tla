--------------------------- MODULE MCExtractQueue ---------------------------
(* Instances of ExtractQueue for TLC: three jobs, two of which share an ID. *)
EXTENDS ExtractQueue, TLC

CONSTANTS j1, j2, j3, x, y, c1, c2

MCJobs == {j1, j2, j3}
MCIds == {x, y}
MCIdOf == j1 :> x @@ j2 :> x @@ j3 :> y

=============================================================================
