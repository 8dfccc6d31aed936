----------------------------- MODULE MCClients -----------------------------
(***************************************************************************)
(* What a client's standing is kept in: its login attempts and its         *)
(* reputation.  They share no state, so a behaviour exercises the one that *)
(* part names.  Clients.cfg gives the constants small values, for TLC: a   *)
(* cache of one entry, for one tick of three.                              *)
(***************************************************************************)
EXTENDS BruteForce

CONSTANTS IP, Checker, Closer, Job, cacheMax, ttl, MaxClock, MaxVersion    \* Intelligence

VARIABLES part,
          time, version, closed, inFlight, inFlightMu, cache, asks, refresh, closing   \* Intelligence

R == INSTANCE Intelligence WITH now <- time, MaxTime <- MaxClock

ASSUME ClientsOptions == R!Options

reputationVars == <<time, version, closed, inFlight, inFlightMu, cache, asks, refresh, closing>>

allVars == <<part, vars, reputationVars>>

ClientsInit ==
    /\ part \in {"BruteForce", "Intelligence"}
    /\ Init /\ R!Init

InBruteForce(A) == part = "BruteForce" /\ A /\ UNCHANGED <<part, reputationVars>>
InIntelligence(A) == part = "Intelligence" /\ A /\ UNCHANGED <<part, vars>>

ClientsNext == InBruteForce(Next) \/ InIntelligence(R!Next)

\* As Intelligence has it.
ClientsFairness ==
    /\ \A p \in Checker : WF_allVars(InIntelligence(R!ScheduleAdd(p)))
    /\ \A j \in Job :
        /\ WF_allVars(InIntelligence(R!Fetch(j) \/ R!StoreTest(j) \/ R!Store(j) \/ R!Done(j)))
        /\ SF_allVars(InIntelligence(R!Delete(j)))
    /\ \A c \in Closer : WF_allVars(InIntelligence(R!Close(c)))

ClientsSpec == ClientsInit /\ [][ClientsNext]_allVars /\ ClientsFairness

\* The properties of the parts; BruteForce's own are GuessesBounded,
\* NoEarlyAdmission and LockoutEnds.
InFlightExact == R!InFlightExact
VerdictsAdvance == R!VerdictsAdvance
CloseReturns == R!CloseReturns
=============================================================================
