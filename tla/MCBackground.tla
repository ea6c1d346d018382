----------------------------- MODULE MCBackground -----------------------------
(***************************************************************************)
(* The background mechanisms, each by itself, in one run for TLC: the      *)
(* initial state chooses one of them, and only that one moves.  They share *)
(* no variable, so that the states are those of the five modules together  *)
(* (their sum, not their product) and a property of one of them holds here *)
(* just when it holds of its own specification.                            *)
(***************************************************************************)
EXTENDS RecallCache, RedisBreaker, WriteTickets, GovernanceRuns, Coordination

VARIABLE part   \* the mechanism that moves

Parts == {"cache", "breaker", "tickets", "runs", "coordination"}

partVars == <<cacheVars, breakerVars, ticketVars, govVars, coordVars, part>>

\* seconds 300, 600 and 600 of the entries, in ticks of 300
TtlMC == [search |-> 1, startup |-> 2, recent |-> 2]

Init ==
  /\ CacheInit /\ BreakerInit /\ TicketInit /\ GovInit /\ CoordInit
  /\ part \in Parts

Next ==
  /\ UNCHANGED part
  /\ \/ /\ part = "cache" /\ CacheNext
        /\ UNCHANGED <<breakerVars, ticketVars, govVars, coordVars>>
     \/ /\ part = "breaker" /\ BreakerNext
        /\ UNCHANGED <<cacheVars, ticketVars, govVars, coordVars>>
     \/ /\ part = "tickets" /\ TicketNext
        /\ UNCHANGED <<cacheVars, breakerVars, govVars, coordVars>>
     \/ /\ part = "runs" /\ GovNext
        /\ UNCHANGED <<cacheVars, breakerVars, ticketVars, coordVars>>
     \/ /\ part = "coordination" /\ CoordNext
        /\ UNCHANGED <<cacheVars, breakerVars, ticketVars, govVars>>

Spec ==
  /\ Init /\ [][Next]_partVars
  /\ CacheFairness /\ CoordFairness   \* nothing fair is enabled in a part at rest

\* Every variable of the part that moves keeps its type.
PartsTypeOK ==
  CASE part = "cache"        -> CacheTypeOK
    [] part = "breaker"      -> BreakerTypeOK
    [] part = "tickets"      -> TicketTypeOK
    [] part = "runs"         -> GovTypeOK
    [] part = "coordination" -> CoordTypeOK
=============================================================================
