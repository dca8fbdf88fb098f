-------------------------- MODULE MCFrontendReads --------------------------
(* Small instances of FrontendReads for TLC: those of MCFrontend and readers. *)
EXTENDS MCFrontend, FrontendReads

CONSTANT r1

SomePageSizes == {-1, 0, 1}
=============================================================================
