------------------------------- MODULE Coverage -------------------------------
(***************************************************************************)
(* What a crawler promises that keeps marks of its progress in the         *)
(* database, without saying what the marks are.                            *)
(*                                                                         *)
(* The marks claim some of the events that sources have: those are taken   *)
(* as fetched.  A claim is never given up, also when a crawler dies, when  *)
(* two crawlers work at once or when one marks from what it read long ago. *)
(* And nothing is claimed but what is stored by then, or was passed over   *)
(* for a cause that is known.                                              *)
(***************************************************************************)
VARIABLES claimed,  \* what the marks take as fetched
          stored,   \* what is in the database
          excused   \* what a known cause passed over

vars == <<claimed, stored, excused>>

Init == claimed = {} /\ stored = {} /\ excused = {}

\* One conversation with a source may store, pass over and claim at once.
Progress == /\ stored \subseteq stored'
            /\ excused \subseteq excused'
            /\ claimed \subseteq claimed'
            /\ claimed' \subseteq stored' \cup excused'

Spec == Init /\ [][Progress]_vars
=============================================================================
