------------------------------ MODULE Overload ------------------------------
(***************************************************************************)
(* middleware/overload.go: a ticker's lateness, smoothed, decides whether  *)
(* requests are shed.                                                      *)
(*                                                                         *)
(* Times are relative, so that a behaviour may go on for ever: age is the  *)
(* time since the sampler's last stamp, late the time since the ticker was *)
(* due (negative before).  The ticker is external: it fires only while the *)
(* sampler waits in its select, stamps the tick with the time it was due   *)
(* or, depending on the Go version, the time it fired, and skips the       *)
(* periods it has missed.                                                  *)
(***************************************************************************)
EXTENDS Integers

CONSTANTS SampleInterval,     \* ticks of the clock between two samples
          MaxLag,             \* smoothed lag, in parts, above which requests are shed
          Parts,              \* parts of a tick
          AlphaNum, AlphaDen, \* weight of the new sample
          MaxStall,           \* bound: no step is more than this late
          None

Options ==
    /\ SampleInterval \in Nat \ {0} /\ MaxLag \in Nat \ {0} /\ Parts \in Nat \ {0}
    /\ AlphaNum \in 1 .. AlphaDen /\ AlphaDen \in Nat /\ MaxStall \in Nat

VARIABLES age,        \* now - last
          late,       \* now - the time the ticker is due
          tick,       \* the stamp the sampler was handed less last, or None
          waited,     \* how long the sampler has held it
          smoothed, closed,
          stopped,    \* the sampler has returned
          answer,     \* how the last request was answered
          loaded,     \* whether the machine delays anything
          lagged,     \* history: a sample measured more than MaxLag
          streak      \* history: samples in a row later than MaxLag, up to two

vars == <<age, late, tick, waited, smoothed, closed, stopped, answer, loaded, lagged, streak>>

Larger(a, b) == IF a > b THEN a ELSE b

TypeOK ==
    /\ age \in Nat /\ late \in Int /\ tick \in Int \cup {None} /\ waited \in 0 .. MaxStall
    /\ smoothed \in Nat /\ lagged \in BOOLEAN /\ streak \in 0 .. 2
    /\ closed \in BOOLEAN /\ stopped \in BOOLEAN /\ loaded \in BOOLEAN /\ answer \in {"none", "next", "503"}

Init ==
    /\ age = 0 /\ late = -SampleInterval /\ tick = None /\ waited = 0
    /\ smoothed = 0 /\ closed = FALSE /\ stopped = FALSE /\ answer = "none" /\ loaded = TRUE
    /\ lagged = FALSE /\ streak = 0

\* Unless the machine is loaded nothing that is due waits.
Due == late >= 0 \/ tick # None

Tick ==
    /\ Due => loaded /\ late < MaxStall /\ waited < MaxStall
    /\ age' = age + 1 /\ late' = late + 1
    /\ waited' = IF tick = None THEN 0 ELSE waited + 1
    /\ UNCHANGED <<tick, smoothed, closed, stopped, answer, loaded, lagged, streak>>

\* The runtime fires the ticker, late by whatever the machine imposes.
Fire ==
    /\ late >= 0 /\ tick = None /\ ~stopped
    /\ tick' \in {age - late, age}
    /\ late' = (late % SampleInterval) - SampleInterval
    /\ UNCHANGED <<age, waited, smoothed, closed, stopped, answer, loaded, lagged, streak>>

\* Wrong: the prior lag is not weighed down.
addStep(prior, measured) == prior + (AlphaNum * measured) \div AlphaDen

\* emaStep, rounding down to a part.
emaStep(prior, measured) == ((AlphaDen - AlphaNum) * prior + AlphaNum * measured) \div AlphaDen

Measured(elapsed) == Larger(elapsed - SampleInterval, 0) * Parts

\* The sampler runs, this much later than it was handed the tick.
sample ==
    /\ tick # None
    /\ LET measured == Measured(tick) IN
       /\ smoothed' = emaStep(smoothed, measured)
       /\ lagged' = (lagged \/ measured > MaxLag)
    /\ age' = age - tick /\ tick' = None /\ waited' = 0
    /\ streak' = IF waited * Parts > MaxLag THEN (IF streak = 0 THEN 1 ELSE 2) ELSE 0
    /\ stopped' \in { b \in BOOLEAN : (~closed => ~b) /\ (closed /\ late < 0 => b) }
    /\ UNCHANGED <<late, closed, answer, loaded>>

\* A sampler that waits in its select returns; one that holds a tick reaches
\* the select again, where a tick that is due may be chosen first.
Close ==
    /\ ~closed /\ closed' = TRUE /\ stopped' = (tick = None)
    /\ UNCHANGED <<age, late, tick, waited, smoothed, answer, loaded, lagged, streak>>

Overloaded == smoothed > MaxLag

Handler ==
    /\ answer' = IF Overloaded THEN "503" ELSE "next"
    /\ UNCHANGED <<age, late, tick, waited, smoothed, closed, stopped, loaded, lagged, streak>>

\* The load of the machine begins and ends.
Load ==
    /\ loaded' = ~loaded
    /\ UNCHANGED <<age, late, tick, waited, smoothed, closed, stopped, answer, lagged, streak>>

Next == Tick \/ Fire \/ sample \/ Close \/ Handler \/ Load

\* Time passes, and the runtime fires timers and runs goroutines.
Fairness == WF_vars(Tick) /\ WF_vars(Fire) /\ WF_vars(sample)

Spec == Init /\ [][Next]_vars /\ Fairness

\* emaStep, Handler: requests are shed only after a sample measured more lag
\* than the limit: smoothing never adds lag up, and a tick that is fired early
\* after a late one does not count.
ShedForCause == answer = "503" => lagged

\* sample: once the machine stays calm, requests are let through again for
\* good, whatever was measured before (unless Close has frozen the measure).
Recovers == <>[](~loaded /\ ~closed) => <>[]~Overloaded

\* overload.go:17: when the sampler's goroutine is scheduled later than the
\* limit twice in a row, requests are being shed.
LatenessMeasured == streak = 2 => Overloaded
=============================================================================
