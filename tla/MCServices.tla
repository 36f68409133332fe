------------------------------ MODULE MCServices -------------------------------
(***************************************************************************)
(* Instance of Services for TLC.                                           *)
(***************************************************************************)
EXTENDS Services

\* Bound: at first no profile is stored.
EmptyInit == ServicesInit /\ profiles = {}
EmptySpec == EmptyInit /\ [][ServicesNext]_allVars /\ ServicesFairness
=============================================================================
