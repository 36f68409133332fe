------------------------------ MODULE CrawlModes -------------------------------
(***************************************************************************)
(* The two crawlers that reconcile: CRAWL_MODE, read by main at start-up,  *)
(* says which of them the process runs.                                    *)
(***************************************************************************)
EXTENDS Negentropy

CONSTANTS Authors, NoteTiers, Pinned, BatchSize, MaxAges, Nobody

\* Authors are numbered in the order of priority_tier and follower_count.
ASSUME CrawlModesAssumption ==
    /\ Authors \subseteq Nat /\ IsFiniteSet(Authors)
    /\ BatchSize \in Nat \ {0} /\ MaxAges \in Nat

VARIABLES crawlMode, phase, confirmed, notesDue, zapsDue, author, left, batch, offset,
          begun, clean, ages

Only == INSTANCE NegentropyOnly

hybridVars == <<envVars, stored, caps, row, pc, syncVars, reach, lost>>
onlyVars   == <<phase, confirmed, notesDue, zapsDue, author, left, batch, offset, begun, clean, ages>>
allVars    == <<crawlMode, hybridVars, onlyVars, faults>>

ModesInit == crawlMode \in {"hybrid", "negentropy_only"} /\ Init /\ Only!Init

ModesNext ==
    /\ UNCHANGED crawlMode
    /\ \/ crawlMode = "hybrid" /\ Next /\ UNCHANGED onlyVars
       \/ crawlMode = "negentropy_only" /\ Only!Next /\ UNCHANGED hybridVars

\* One of the two crawlers goes on, as each does alone.
EitherWorks == \/ crawlMode = "hybrid" /\ Work /\ UNCHANGED <<crawlMode, onlyVars>>
               \/ crawlMode = "negentropy_only" /\ Only!Work /\ UNCHANGED <<crawlMode, hybridVars>>

Expires(r) == crawlMode = "hybrid" /\ ExpireCaps(r) /\ UNCHANGED <<crawlMode, onlyVars>>

ModesSpec == /\ ModesInit /\ [][ModesNext]_allVars
             /\ WF_allVars(EitherWorks) /\ \A r \in Relays : SF_allVars(Expires(r))

\* The types of both.
TypesOK == TypeOK /\ Only!TypeOK

\* WalkEnds, if the hybrid crawler runs.
HybridWalkEnds == <>(crawlMode = "hybrid" => FullyBackfilled)

\* PassEnds: while the hybrid crawler runs the other is off.
OnlyPassEnds == Only!PassEnds

\* PassTakesHalf.
OnlyTakesHalf == Only!PassTakesHalf
=============================================================================
