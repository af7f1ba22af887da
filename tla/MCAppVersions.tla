--------------------------- MODULE MCAppVersions ---------------------------
(***************************************************************************)
(* Lookups that may fail or find a tag, as often as the hours pass.        *)
(***************************************************************************)
EXTENDS AppVersions

MCTags == {"1.9.0"}
=============================================================================
