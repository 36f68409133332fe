------------------------------ MODULE MCFetcher ------------------------------
(***************************************************************************)
(* Instances of Fetcher for TLC.                                           *)
(***************************************************************************)
EXTENDS Fetcher
=============================================================================
