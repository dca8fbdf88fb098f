------------------------ MODULE MCFrontendCatalogue ------------------------
(* Small instances of FrontendCatalogue for TLC.                           *)
EXTENDS FrontendCatalogue, MCFrontend
=============================================================================
