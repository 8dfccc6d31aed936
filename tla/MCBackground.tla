---------------------------- MODULE MCBackground ----------------------------
(***************************************************************************)
(* The goroutines that run behind the requests, for TLC: the telemetry     *)
(* worker and the overload sampler.  They share no state, so a behaviour   *)
(* exercises the one that part names.                                      *)
(***************************************************************************)
EXTENDS Telemetry

CONSTANTS SampleInterval, MaxLag, Parts, AlphaNum, AlphaDen, MaxStall             \* Overload

VARIABLES part,
          age, late, tick, waited, smoothed, shut, stopped, answer, loaded, lagged, streak  \* Overload

O == INSTANCE Overload WITH closed <- shut

ASSUME SamplerOptions == O!Options

overloadVars == <<age, late, tick, waited, smoothed, shut, stopped, answer, loaded, lagged, streak>>
allVars == <<part, vars, overloadVars>>

BackgroundInit == part \in {"Telemetry", "Overload"} /\ Init /\ O!Init

InTelemetry(A) == part = "Telemetry" /\ A /\ UNCHANGED <<part, overloadVars>>
InOverload(A) == part = "Overload" /\ A /\ UNCHANGED <<part, vars>>

BackgroundNext == InTelemetry(Next) \/ InOverload(O!Next)

\* As Telemetry and Overload have it.
BackgroundFairness ==
    /\ \A s \in Sender : /\ WF_allVars(InTelemetry(Overflow(s)))
                         /\ WF_allVars(InTelemetry(SignalSend(s)))
    /\ \A c \in Caller : /\ SF_allVars(InTelemetry(FlushNothing(c) \/ TakeBatch(c)))
                         /\ WF_allVars(InTelemetry(PostSucceeds(c) \/ PostFails(c) \/ SignalFlush(c)))
    /\ WF_allVars(InTelemetry(WorkerTicks \/ WorkerWakes))
    /\ SF_allVars(InTelemetry(WorkerExits))
    /\ WF_allVars(InTelemetry(CloseSignals)) /\ WF_allVars(InTelemetry(CloseJoins))
    /\ WF_allVars(InOverload(O!Tick)) /\ WF_allVars(InOverload(O!Fire)) /\ WF_allVars(InOverload(O!sample))

BackgroundSpec == BackgroundInit /\ [][BackgroundNext]_allVars /\ BackgroundFairness

\* Overload's property; Telemetry's own are FreshestInOrder, FullBatchAwake,
\* CloseLeavesTail, EventuallyLeaves and CloseReturns.
Recovers == O!Recovers
=============================================================================
