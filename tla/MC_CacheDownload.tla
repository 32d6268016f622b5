--------------------------- MODULE MC_CacheDownload ---------------------------
(***************************************************************************)
(* Instances of CacheDownload for TLC.  Three versions of a two-page body  *)
(* let a partial download be resumed after the resource changed; one 401   *)
(* challenge and one 5xx answer exercise the loop's other exits.           *)
(***************************************************************************)
EXTENDS CacheDownload

MC_ServerErrors == {503}
=============================================================================
