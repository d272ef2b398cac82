----------------------------- MODULE MCWebPages -----------------------------
(***************************************************************************)
(* Two devices or boards for each part of the pages.                       *)
(***************************************************************************)
EXTENDS WebPages
=============================================================================
