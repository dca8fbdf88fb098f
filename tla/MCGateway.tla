----------------------------- MODULE MCGateway -----------------------------
(* Small instances of Gateway for TLC.                                     *)
EXTENDS Gateway, MCFrontend

\* Workers are interchangeable, and so are the controllers of one subsystem.
Interchangeable == {f @@ g : f \in Workers, g \in Permutations(Controllers)}
=============================================================================
