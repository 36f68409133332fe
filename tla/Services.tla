-------------------------------- MODULE Services -------------------------------
(***************************************************************************)
(* The services around the archive, which run side by side in one process  *)
(* and share none of the state modelled here: the metadata resolver, the   *)
(* relay ingester, the counters and the cached answers in Redis, and the   *)
(* sets in memory.  Each behaviour is one of `service`; the others stay    *)
(* where they began.                                                       *)
(***************************************************************************)
EXTENDS Answers

CONSTANTS Authors, NamesCap, QueueCap, MaxAsked, Watched, TrimAbove, MaxFaults,
          Relays, Events, ChannelCap,
          Storing, Readers, Minute, Absent, MaxStored, MaxTime,
          CacheNames, Callers, MaxGraph

\* The queues of metadata.rs:17-20 and ingester.rs may have any limit, also none at all.
ASSUME ServicesAssumption ==
    /\ Watched \in Authors /\ None \notin Authors \cup Events
    /\ NamesCap \in Nat /\ QueueCap \in Nat /\ ChannelCap \in Nat
    /\ MaxAsked \in Nat \ {0} /\ Minute \in Nat \ {0}
    /\ IsFiniteSet(Storing) /\ Absent \notin Nat
    /\ {MaxFaults, MaxStored, MaxTime, MaxGraph} \subseteq Nat

VARIABLES service, shutdown, faults,
          names, receiver, candidate, pending, attempted, resolver, batch, remaining, asked,
          profiles, sighted, passedOver, requests,
          loop, held, channel, processor, stored,
          rowCount, rowless, total, totalLife, window, windowLife, writer, reader, seen, now, steps,
          graph, view, scores, memory, old, pc, cache, rows, unseen

Resolver == INSTANCE Resolver
Ingester == INSTANCE Ingester
Stats    == INSTANCE Stats WITH stored <- rowCount, Writers <- Storing
Caches   == INSTANCE Caches

resolverVars == <<names, receiver, candidate, pending, attempted, resolver, batch, remaining, asked,
                  profiles, sighted, passedOver, requests>>
ingesterVars == <<loop, held, channel, processor, stored>>
statsVars    == <<rowCount, rowless, total, totalLife, window, windowLife,
                  writer, reader, seen, now, steps>>
answersVars  == vars
cachesVars   == <<graph, view, scores, memory, old, pc, cache, rows, unseen>>
allVars == <<service, resolverVars, faults, shutdown, ingesterVars, statsVars, answersVars, cachesVars>>

ServicesInit ==
    /\ service \in {"resolver", "ingester", "stats", "answers", "caches"}
    /\ Resolver!Init /\ Ingester!Init /\ Stats!Init /\ Init /\ Caches!Init

\* A step of one service leaves the others alone.
Resolving(A) ==
    /\ service = "resolver" /\ A
    /\ UNCHANGED <<service, ingesterVars, statsVars, answersVars, cachesVars>>
Ingests(A) ==
    /\ service = "ingester" /\ A
    /\ UNCHANGED <<service, resolverVars, faults, statsVars, answersVars, cachesVars>>
Counting(A) ==
    /\ service = "stats" /\ A
    /\ UNCHANGED <<service, resolverVars, faults, shutdown, ingesterVars, answersVars, cachesVars>>
Answering(A) ==
    /\ service = "answers" /\ A
    /\ UNCHANGED <<service, resolverVars, faults, shutdown, ingesterVars, statsVars, cachesVars>>
Caching(A) ==
    /\ service = "caches" /\ A
    /\ UNCHANGED <<service, resolverVars, shutdown, ingesterVars, statsVars, answersVars>>

ServicesNext ==
    \/ Resolving(Resolver!Next) \/ Ingests(Ingester!Next) \/ Counting(Stats!Next)
    \/ Answering(Next) \/ Caching(Caches!Next)

\* The fairness of each service, for the one that runs.
ServicesFairness ==
    /\ WF_allVars(Ingests(Ingester!Process) \/ Answering(RefreshViews) \/ Caching(Caches!RefreshView))
    /\ WF_allVars(Answering(Deletes) \/ Ingests(\E r \in Relays : Ingester!GoOn(r)))
    /\ \A r \in Relays : SF_allVars(Ingests(Ingester!Send(r))) /\ SF_allVars(Ingests(Ingester!StopLoop(r)))
    /\ \A k \in TableKeys \cup ViewKeys : WF_allVars(Answering(Expire(k)))
    /\ \A t \in Callers : WF_allVars(Caching(Caches!Refresh(t)))
    /\ \A c \in CacheNames :
          WF_allVars(Caching(Caches!GrowOld(c))) /\ SF_allVars(Caching(Caches!Calls(c)))

ServicesSpec == ServicesInit /\ [][ServicesNext]_allVars /\ ServicesFairness

\* The types of all.
TypesOK == TypeOK /\ Resolver!TypeOK /\ Ingester!TypeOK /\ Stats!TypeOK /\ Caches!TypeOK

\* SightingIsAccounted and AskedAtMostThrice.
ResolverAccounts == Resolver!SightingIsAccounted /\ Resolver!AskedAtMostThrice

\* Of Ingester and Stats, while they run.
IngestersStop   == Ingester!LoopsStop
CountersBounded == Stats!CountersBounded

\* AnswersCatchUp, and CachesCatchUp of Caches: once nothing changes, what is cached
\* in Redis and in memory agrees with the tables at last.
CachesCatchUp ==
    <>[](NoneIsOld /\ (service = "caches" => Caches!AllAgree))
=============================================================================
