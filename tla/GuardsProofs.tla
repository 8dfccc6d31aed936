---------------------------- MODULE GuardsProofs ----------------------------
(***************************************************************************)
(* Theorems about what an application mounts by itself, as MCStandalone    *)
(* has it: Guards (G), for every number of concurrent calls, and what      *)
(* looks into a request: Graphql (Q), for all texts and all graphs of      *)
(* fragments, Csrf (C), Protections (P), for all options and requests, and *)
(* Pii (PII!P), for all texts whose matches lie apart.                     *)
(***************************************************************************)
EXTENDS MCStandalone, FiniteSetTheorems, SequenceTheorems, WellFoundedInduction, TLAPS

\* A well-formed entry, or none, is one or the other; so with calls.
LEMMA Stored ==
    ASSUME G!TypeOK
    PROVE  /\ \A k \in GuardKey : rlStore[k] \in G!rlEntry \/ rlStore[k] = NoEntry
           /\ \A k \in GuardKey : tbStore[k] \in G!tbEntry \/ tbStore[k] = NoEntry
           /\ \A j \in Job : call[j] # G!Idle => call[j] \in G!Running
<1>1. /\ rlStore \in [GuardKey -> G!rlEntry \cup {NoEntry}]
      /\ tbStore \in [GuardKey -> G!tbEntry \cup {NoEntry}]
      /\ call \in [Job -> G!Running \cup {G!Idle}]
  BY DEF G!TypeOK
<1> QED BY <1>1, Zenon

\* The entry checkRateLimit leaves is well formed.
LEMMA Counted ==
    ASSUME G!Options, NEW e, NEW t \in Nat, e \in G!rlEntry \/ e = NoEntry
    PROVE  (IF G!Over(e, t) THEN [count |-> 1, resetTime |-> t + GuardWindow]
            ELSE [e EXCEPT !.count = @ + 1]) \in G!rlEntry
<1>1. CASE G!Over(e, t)
  BY <1>1 DEF G!Options, G!rlEntry
<1>2. CASE ~G!Over(e, t)
  BY <1>2 DEF G!Over, G!rlEntry
<1> QED BY <1>1, <1>2

\* So is the one checkTokenBudget leaves.
LEMMA ChargedType ==
    ASSUME G!Options, NEW e \in G!tbEntry, NEW c \in Nat
    PROVE  G!Charged(e, c) \in G!tbEntry
BY DEF G!Charged, G!tbEntry, G!Options

\* Every state of Guards is well formed, whatever calls, sweeps, resets and
\* Close interleave (Run, sweepLoop, Reset, Close).
THEOREM GuardsTypeCorrect == G!Spec => []G!TypeOK
<1>0. G!Options
  BY StandaloneOptions
<1> USE <1>0
<1>1. G!Init => G!TypeOK
  <2> SUFFICES ASSUME G!Init PROVE G!TypeOK
    OBVIOUS
  <2>1. now \in 0 .. GuardMaxTime
    BY DEF G!Init, G!Options
  <2> QED BY <2>1 DEF G!Init, G!TypeOK
<1>2. G!TypeOK /\ [G!Next]_(G!vars) => G!TypeOK'
  <2> SUFFICES ASSUME G!TypeOK, [G!Next]_(G!vars) PROVE G!TypeOK'
    OBVIOUS
  <2>a. ASSUME NEW j \in Job, NEW c, c \in G!Running \/ c = G!Idle, c # G!Idle => c.stamp <= now,
               call' = [call EXCEPT ![j] = c], now' = now
        PROVE  /\ call' \in [Job -> G!Running \cup {G!Idle}]
               /\ \A i \in Job : call'[i] # G!Idle => call'[i].stamp <= now'
    <3>1. c \in G!Running \cup {G!Idle}
      BY <2>a, Zenon
    <3> QED BY <2>a, <3>1 DEF G!TypeOK
  <2>b. \A j \in Job : call[j] # G!Idle => call[j] \in G!Running /\ call[j].stamp <= now
    BY Stored DEF G!TypeOK
  <2>c. now \in Nat
    BY DEF G!TypeOK, G!Options
  <2>d. G!Idle.at = "idle"
    BY DEF G!Idle
  <2>e. ASSUME NEW j \in Job, NEW place \in {"screen", "budget"}, call[j] # G!Idle, G!Reaches(j, place),
               now' = now
        PROVE  /\ call' \in [Job -> G!Running \cup {G!Idle}]
               /\ \A i \in Job : call'[i] # G!Idle => call'[i].stamp <= now'
    <3> DEFINE c == [call[j] EXCEPT !.at = place, !.stamp = now]
    <3>1. c \in G!Running /\ c.stamp = now
      BY <2>b, <2>c, <2>e DEF G!Running
    <3>2. call' = [call EXCEPT ![j] = c]
      BY <2>e DEF G!Reaches
    <3> HIDE DEF c
    <3>3. c.stamp <= now
      BY <2>c, <3>1
    <3> QED BY <2>a, <2>e, <3>1, <3>2, <3>3, Zenon
  <2>f. ASSUME NEW j \in Job, G!Returns(j), now' = now
        PROVE  /\ call' \in [Job -> G!Running \cup {G!Idle}]
               /\ \A i \in Job : call'[i] # G!Idle => call'[i].stamp <= now'
    BY <2>a, <2>f DEF G!Returns
  <2>1. ASSUME NEW j \in Job, NEW k \in GuardKey, NEW tokens \in Tokens, G!Call(j, k, tokens)
        PROVE  G!TypeOK'
    <3> DEFINE c == [at |-> "rate", key |-> k, stamp |-> now,
                     cost |-> IF tokens < 0 THEN 0 ELSE tokens]
    <3>1. c \in G!Running /\ c.stamp = now
      BY <2>c DEF G!Running, G!Options
    <3>2. call' = [call EXCEPT ![j] = c] /\ now' = now
      BY <2>1 DEF G!Call
    <3> HIDE DEF c
    <3>4. c.stamp <= now
      BY <2>c, <3>1
    <3>3. /\ call' \in [Job -> G!Running \cup {G!Idle}]
          /\ \A i \in Job : call'[i] # G!Idle => call'[i].stamp <= now'
      BY <2>a, <3>1, <3>2, <3>4, Zenon
    <3> QED BY <2>1, <3>3 DEF G!Call, G!TypeOK
  <2>2. ASSUME NEW j \in Job, G!checkRateLimit(j) PROVE G!TypeOK'
    <3> DEFINE k == call[j].key
               e == IF G!Over(rlStore[k], call[j].stamp)
                    THEN [count |-> 1, resetTime |-> call[j].stamp + GuardWindow]
                    ELSE [rlStore[k] EXCEPT !.count = @ + 1]
    <3>1. call[j] # G!Idle /\ now' = now /\ tbStore' = tbStore /\ closed' = closed /\ spent' = spent
      BY <2>2, <2>d DEF G!checkRateLimit
    <3>2. k \in GuardKey /\ call[j].stamp \in Nat
      BY <2>b, <3>1 DEF G!Running
    <3>3. e \in G!rlEntry
      BY <3>2, Stored, Counted
    <3>4. rlStore' = [rlStore EXCEPT ![k] = e]
      BY <2>2 DEF G!checkRateLimit
    <3>5. G!Returns(j) \/ G!Reaches(j, "screen")
      BY <2>2 DEF G!checkRateLimit
    <3>6. /\ call' \in [Job -> G!Running \cup {G!Idle}]
          /\ \A i \in Job : call'[i] # G!Idle => call'[i].stamp <= now'
      BY <2>e, <2>f, <3>1, <3>5
    <3>8. told' = told \/ told' = [told EXCEPT ![k] = e.resetTime]
      BY <2>2 DEF G!checkRateLimit
    <3>9. e.resetTime \in Nat
      BY <3>3 DEF G!rlEntry
    <3> HIDE DEF k, e
    <3>10. told' \in [GuardKey -> Nat]
      BY <3>8, <3>9 DEF G!TypeOK
    <3>7. rlStore' \in [GuardKey -> G!rlEntry \cup {NoEntry}]
      BY <3>2, <3>3, <3>4 DEF G!TypeOK
    <3> QED BY <3>1, <3>6, <3>7, <3>10 DEF G!TypeOK
  <2>3. ASSUME NEW j \in Job, G!Denied(j) PROVE G!TypeOK'
    BY <2>3, <2>f DEF G!Denied, G!TypeOK
  <2>4. ASSUME NEW j \in Job, G!Screened(j) PROVE G!TypeOK'
    BY <2>4, <2>e, <2>d DEF G!Screened, G!TypeOK
  <2>5. ASSUME NEW j \in Job, G!checkTokenBudget(j) PROVE G!TypeOK'
    <3> DEFINE k == call[j].key
               e == IF G!Over(tbStore[k], call[j].stamp)
                    THEN [used |-> 0, resetTime |-> call[j].stamp + TokenWindow] ELSE tbStore[k]
    <3>1. /\ call[j] # G!Idle /\ G!Returns(j)
          /\ now' = now /\ rlStore' = rlStore /\ closed' = closed /\ told' = told
      BY <2>5, <2>d DEF G!checkTokenBudget
    <3>2. k \in GuardKey /\ call[j].stamp \in Nat /\ call[j].cost \in Nat
      BY <2>b, <3>1 DEF G!Running
    <3>3. e \in G!tbEntry
      <4>1. CASE G!Over(tbStore[k], call[j].stamp)
        BY <3>2, <4>1 DEF G!tbEntry, G!Options
      <4>2. CASE ~G!Over(tbStore[k], call[j].stamp)
        BY <3>2, <4>2, Stored DEF G!Over
      <4> QED BY <4>1, <4>2
    <3>4. tbStore' = [tbStore EXCEPT ![k] = G!Charged(e, call[j].cost)]
      BY <2>5 DEF G!checkTokenBudget
    <3> HIDE DEF k, e
    <3>5. G!Charged(e, call[j].cost) \in G!tbEntry
      BY <3>2, <3>3, ChargedType
    <3>6. tbStore' \in [GuardKey -> G!tbEntry \cup {NoEntry}]
      BY <3>2, <3>4, <3>5 DEF G!TypeOK
    <3>7. PICK n \in Nat : spent' = [spent EXCEPT ![k] = n]
      <4> DEFINE n == (IF G!Over(tbStore[k], call[j].stamp) THEN 0 ELSE spent[k])
                      + (IF e.used + call[j].cost <= MaxTokens THEN call[j].cost ELSE 0)
      <4>1. spent' = [spent EXCEPT ![k] = n]
        BY <2>5 DEF G!checkTokenBudget, k, e
      <4>2. spent[k] \in Nat
        BY <3>2 DEF G!TypeOK
      <4>3. n \in Nat
        BY <3>2, <4>2
      <4> QED BY <4>1, <4>3
    <3>8. spent' \in [GuardKey -> Nat]
      BY <3>7 DEF G!TypeOK
    <3>9. /\ call' \in [Job -> G!Running \cup {G!Idle}]
          /\ \A i \in Job : call'[i] # G!Idle => call'[i].stamp <= now'
      BY <2>f, <3>1
    <3> QED BY <3>1, <3>6, <3>8, <3>9 DEF G!TypeOK
  <2>6. ASSUME NEW Ns, G!Reset(Ns) PROVE G!TypeOK'
    BY <2>6 DEF G!Reset, G!TypeOK
  <2>7. ASSUME NEW t, G!Sweep(t) PROVE G!TypeOK'
    BY <2>7 DEF G!Sweep, G!Swept, G!TypeOK
  <2>8. CASE G!Close
    BY <2>8 DEF G!Close, G!TypeOK
  <2>9. CASE G!Tick
    <3>1. now' \in 0 .. GuardMaxTime /\ now' = now + 1
      BY <2>9, <2>c DEF G!Tick, G!TypeOK, G!Options
    <3>2. \A j \in Job : call'[j] # G!Idle => call'[j].stamp <= now'
      BY <2>9, <2>b, <2>c, <3>1 DEF G!Tick, G!Running
    <3> QED BY <2>9, <3>1, <3>2 DEF G!Tick, G!TypeOK
  <2>10. CASE UNCHANGED G!vars
    BY <2>10 DEF G!vars, G!TypeOK
  <2> QED BY <2>1, <2>2, <2>3, <2>4, <2>5, <2>6, <2>7, <2>8, <2>9, <2>10 DEF G!Next
<1> QED BY <1>1, <1>2, PTL DEF G!Spec

\* A refusal stays backed by the full window behind it until the client's time
\* is up: checkRateLimit and sweepLoop apply stamps that others have overtaken,
\* but none that lies in the future.
THEOREM DenialsHeld == G!Spec => []G!RefusalHeld
<1>0. G!Options
  BY StandaloneOptions
<1> USE <1>0
<1>1. G!Init => G!RefusalHeld
  BY DEF G!Init, G!RefusalHeld
<1>2. G!TypeOK /\ G!RefusalHeld /\ [G!Next]_(G!vars) => G!RefusalHeld'
  <2> DEFINE Backed(h) == /\ rlStore'[h] # NoEntry
                          /\ rlStore'[h].resetTime = told'[h]
                          /\ rlStore'[h].count > GuardMax
  <2> SUFFICES ASSUME G!TypeOK, G!RefusalHeld, [G!Next]_(G!vars), NEW h \in GuardKey,
                      told'[h] # 0, told'[h] >= now'
               PROVE  Backed(h)
    BY DEF G!RefusalHeld
  <2>t. now \in Nat /\ told \in [GuardKey -> Nat]
    BY DEF G!TypeOK, G!Options
  <2>a. ASSUME now' = now \/ now' = now + 1, told'[h] = told[h], rlStore'[h] = rlStore[h]
        PROVE  Backed(h)
    BY <2>a, <2>t DEF G!RefusalHeld
  \* A stamp of the past cannot find the window of h over.
  <2>b. ASSUME NEW t \in Nat, t <= now, now' = now, told'[h] = told[h]
        PROVE  /\ rlStore[h] \in G!rlEntry /\ rlStore[h].count > GuardMax
               /\ rlStore[h].resetTime = told[h]
               /\ ~G!Over(rlStore[h], t)
    <3>1. /\ rlStore[h] # NoEntry /\ rlStore[h].resetTime = told[h]
          /\ rlStore[h].count > GuardMax /\ told[h] >= now
      BY <2>b DEF G!RefusalHeld
    <3>2. rlStore[h] \in G!rlEntry
      BY <3>1, Stored, Zenon
    <3>3. ~(rlStore[h].resetTime < t)
      BY <2>b, <2>t, <3>1
    <3> QED BY <3>1, <3>2, <3>3 DEF G!Over
  <2>1. ASSUME NEW j \in Job, G!checkRateLimit(j) PROVE Backed(h)
    <3> DEFINE k == call[j].key
               e == IF G!Over(rlStore[k], call[j].stamp)
                    THEN [count |-> 1, resetTime |-> call[j].stamp + GuardWindow]
                    ELSE [rlStore[k] EXCEPT !.count = @ + 1]
    <3>1. call[j] # G!Idle /\ now' = now /\ rlStore' = [rlStore EXCEPT ![k] = e]
      BY <2>1 DEF G!checkRateLimit, G!Idle
    <3>2. k \in GuardKey /\ call[j].stamp \in Nat /\ call[j].stamp <= now
      BY <3>1, Stored DEF G!Running, G!TypeOK
    <3>3. e \in G!rlEntry
      BY <3>2, Stored, Counted
    <3>4. \/ e.count > GuardMax /\ told' = [told EXCEPT ![k] = e.resetTime]
          \/ ~(e.count > GuardMax) /\ told' = told
      BY <2>1 DEF G!checkRateLimit
    <3>5. CASE k # h
      <4>1. rlStore'[h] = rlStore[h] /\ told'[h] = told[h]
        BY <3>1, <3>2, <3>4, <3>5 DEF G!TypeOK
      <4> QED BY <2>a, <3>1, <4>1
    <3>6. CASE k = h
      <4>1. rlStore'[h] = e /\ e # NoEntry
        BY <3>1, <3>2, <3>3, <3>6 DEF G!TypeOK, G!Options
      <4>2. CASE e.count > GuardMax /\ told' = [told EXCEPT ![k] = e.resetTime]
        BY <2>t, <3>6, <4>1, <4>2
      <4>3. CASE ~(e.count > GuardMax) /\ told' = told
        <5>1. /\ rlStore[k] \in G!rlEntry /\ rlStore[k].count > GuardMax
              /\ ~G!Over(rlStore[k], call[j].stamp)
          BY <2>b, <3>1, <3>2, <3>6, <4>3
        <5>2. e.count = rlStore[k].count + 1
          BY <5>1 DEF G!rlEntry
        <5> HIDE DEF e
        <5> QED BY <4>3, <5>1, <5>2 DEF G!rlEntry, G!Options
      <4> QED BY <3>4, <4>2, <4>3
    <3> QED BY <3>5, <3>6
  <2>2. ASSUME NEW Ns, G!Reset(Ns) PROVE Backed(h)
    <3>1. h \notin Ns
      BY <2>2 DEF G!Reset
    <3> QED BY <2>2, <2>a, <3>1 DEF G!Reset
  <2>3. ASSUME NEW t \in 0 .. GuardMaxTime, G!Sweep(t) PROVE Backed(h)
    <3>1. t \in Nat /\ t <= now /\ now' = now /\ told' = told
      BY <2>3 DEF G!Sweep
    <3>2. ~G!Over(rlStore[h], t)
      BY <2>b, <3>1
    <3>3. rlStore'[h] = rlStore[h]
      BY <2>3, <3>2 DEF G!Sweep, G!Swept
    <3> QED BY <2>a, <3>1, <3>3
  <2>4. ASSUME NEW j \in Job,
               \/ \E k \in GuardKey, tokens \in Tokens : G!Call(j, k, tokens)
               \/ G!Denied(j) \/ G!Screened(j) \/ G!checkTokenBudget(j)
        PROVE  Backed(h)
    <3>1. now' = now /\ told' = told /\ rlStore' = rlStore
      BY <2>4 DEF G!Call, G!Denied, G!Screened, G!checkTokenBudget
    <3> QED BY <2>a, <3>1
  <2>5. CASE G!Close \/ G!Tick \/ UNCHANGED G!vars
    BY <2>5, <2>a DEF G!Close, G!Tick, G!vars
  <2> HIDE DEF Backed
  <2> QED BY <2>1, <2>2, <2>3, <2>4, <2>5 DEF G!Next
<1> QED BY <1>1, <1>2, GuardsTypeCorrect, PTL DEF G!Spec

\* No call of a refused key gets past checkRateLimit before the time the key
\* was told, unless Reset was called, in whatever order calls and sweeps reach
\* the mutex.
THEOREM RefusalsHonoured == G!Spec => RefusedStaysOut
<1>0. G!Options
  BY StandaloneOptions
<1> USE <1>0
<1>1. G!TypeOK /\ G!RefusalHeld /\ [G!Next]_(G!vars) =>
         \A j \in Job : G!checkRateLimit(j) /\ call'[j] # G!Idle =>
            LET k == call[j].key IN told[k] = 0 \/ told[k] < now
  <2> SUFFICES ASSUME G!TypeOK, G!RefusalHeld, NEW j \in Job, G!checkRateLimit(j), call'[j] # G!Idle,
                      told[call[j].key] # 0, ~(told[call[j].key] < now)
               PROVE  FALSE
    OBVIOUS
  <2> DEFINE k == call[j].key
             e == IF G!Over(rlStore[k], call[j].stamp)
                  THEN [count |-> 1, resetTime |-> call[j].stamp + GuardWindow]
                  ELSE [rlStore[k] EXCEPT !.count = @ + 1]
  <2>1. call[j] # G!Idle
    BY DEF G!checkRateLimit, G!Idle
  <2>2. k \in GuardKey /\ call[j].stamp \in Nat /\ call[j].stamp <= now
    BY <2>1, Stored DEF G!Running, G!TypeOK
  <2>3. now \in Nat /\ told[k] \in Nat
    BY <2>2 DEF G!TypeOK, G!Options
  <2>4. rlStore[k] # NoEntry /\ rlStore[k].resetTime = told[k] /\ rlStore[k].count > GuardMax
    BY <2>2, <2>3 DEF G!RefusalHeld
  <2>5. rlStore[k] \in G!rlEntry
    BY <2>2, <2>4, Stored, Zenon
  <2>6. ~G!Over(rlStore[k], call[j].stamp)
    BY <2>2, <2>3, <2>4 DEF G!Over
  <2>7. e.count = rlStore[k].count + 1
    BY <2>5, <2>6 DEF G!rlEntry
  <2>8. e.count > GuardMax
    <3> HIDE DEF e
    <3> QED BY <2>4, <2>5, <2>7 DEF G!rlEntry, G!Options
  <2>9. G!Returns(j)
    BY <2>8 DEF G!checkRateLimit
  <2> QED BY <2>9 DEF G!Returns, G!TypeOK
<1> QED BY <1>1, GuardsTypeCorrect, DenialsHeld, PTL DEF G!Spec, G!RefusedStaysOut, RefusedStaysOut

\* Denied calls are not charged, however calls overlap: checkTokenBudget decides
\* and charges under one mutex.
THEOREM DenialsFree == G!Spec => []DenialsAreFree
<1>0. G!Options
  BY StandaloneOptions
<1> USE <1>0
<1>1. G!Init => G!DenialsAreFree
  BY DEF G!Init, G!DenialsAreFree
<1>2. G!TypeOK /\ G!DenialsAreFree /\ [G!Next]_(G!vars) => G!DenialsAreFree'
  <2> SUFFICES ASSUME G!TypeOK, G!DenialsAreFree, [G!Next]_(G!vars), NEW h \in GuardKey, tbStore'[h] # NoEntry
               PROVE  tbStore'[h].used = spent'[h] /\ spent'[h] <= MaxTokens
    BY DEF G!DenialsAreFree
  <2>a. ASSUME tbStore'[h] = tbStore[h], spent'[h] = spent[h]
        PROVE  tbStore'[h].used = spent'[h] /\ spent'[h] <= MaxTokens
    BY <2>a DEF G!DenialsAreFree
  <2>1. ASSUME NEW j \in Job, G!checkTokenBudget(j)
        PROVE  tbStore'[h].used = spent'[h] /\ spent'[h] <= MaxTokens
    <3> DEFINE k == call[j].key
               c == call[j].cost
               opens == G!Over(tbStore[k], call[j].stamp)
               e == IF opens THEN [used |-> 0, resetTime |-> call[j].stamp + TokenWindow]
                    ELSE tbStore[k]
               before == IF opens THEN 0 ELSE spent[k]
               n == before + (IF e.used + c <= MaxTokens THEN c ELSE 0)
    <3>1. call[j] # G!Idle
      BY <2>1 DEF G!checkTokenBudget, G!Idle
    <3>2. k \in GuardKey /\ call[j].stamp \in Nat /\ c \in Nat
      BY <3>1, Stored DEF G!Running
    <3>3. tbStore' = [tbStore EXCEPT ![k] = G!Charged(e, c)] /\ spent' = [spent EXCEPT ![k] = n]
      BY <2>1 DEF G!checkTokenBudget
    <3>4. e \in G!tbEntry /\ e.used = before
      <4>1. CASE opens
        BY <3>2, <4>1 DEF G!tbEntry, G!Options
      <4>2. CASE ~opens
        <5>1. tbStore[k] # NoEntry
          BY <4>2 DEF G!Over
        <5>2. tbStore[k] \in G!tbEntry
          BY <3>2, <5>1, Stored, Zenon
        <5> QED BY <3>2, <4>2, <5>1, <5>2 DEF G!DenialsAreFree
      <4> QED BY <4>1, <4>2
    <3>5. G!Charged(e, c).used = n /\ n <= MaxTokens
      <4> HIDE DEF e, before
      <4>1. e.used \in 0 .. MaxTokens
        BY <3>4 DEF G!tbEntry
      <4> QED BY <3>2, <3>4, <4>1 DEF G!Charged, G!tbEntry, G!Options
    <3> HIDE DEF k, e, n
    <3>6. CASE k = h
      BY <3>2, <3>3, <3>5, <3>6 DEF G!TypeOK
    <3>7. CASE k # h
      BY <2>a, <3>2, <3>3, <3>7 DEF G!TypeOK
    <3> QED BY <3>6, <3>7
  <2>2. ASSUME NEW Ns, G!Reset(Ns)
        PROVE  tbStore'[h].used = spent'[h] /\ spent'[h] <= MaxTokens
    BY <2>2, <2>a DEF G!Reset
  <2>3. ASSUME NEW t, G!Sweep(t)
        PROVE  tbStore'[h].used = spent'[h] /\ spent'[h] <= MaxTokens
    BY <2>3, <2>a DEF G!Sweep, G!Swept
  <2>4. ASSUME NEW j \in Job,
               \/ \E k \in GuardKey, tokens \in Tokens : G!Call(j, k, tokens)
               \/ G!checkRateLimit(j) \/ G!Denied(j) \/ G!Screened(j)
        PROVE  tbStore'[h].used = spent'[h] /\ spent'[h] <= MaxTokens
    <3>1. tbStore' = tbStore /\ spent' = spent
      BY <2>4 DEF G!Call, G!checkRateLimit, G!Denied, G!Screened
    <3> QED BY <2>a, <3>1
  <2>5. CASE G!Close \/ G!Tick \/ UNCHANGED G!vars
    BY <2>5, <2>a DEF G!Close, G!Tick, G!vars
  <2> QED BY <2>1, <2>2, <2>3, <2>4, <2>5 DEF G!Next
<1> QED BY <1>1, <1>2, GuardsTypeCorrect, PTL DEF G!Spec, DenialsAreFree
-----------------------------------------------------------------------------
(* GraphQL. *)

\* A nonempty set of naturals has a least element: what the inductions below
\* rest on.
LEMMA Least ==
    ASSUME NEW Ns, Ns \subseteq Nat, Ns # {}
    PROVE  \E m \in Ns : \A n \in Ns : m <= n
<1> DEFINE R == OpToRel(<, Nat)
<1>1. IsWellFoundedOn(R, Nat)
  BY NatLessThanWellFounded
<1>2. \A x, y \in Nat : <<y, x>> \in R <=> y < x
  BY DEF OpToRel
<1> HIDE DEF R
<1>3. PICK m \in Ns : \A n \in Ns : ~(<<n, m>> \in R)
  BY <1>1, WFMin, Zenon
<1>4. \A n \in Ns : ~(n < m)
  BY <1>2, <1>3
<1> QED BY <1>3, <1>4

\* f starts at z and is stepped by s.
Stepped(f, n, D, z, s) ==
    /\ f \in [0 .. n -> D] /\ f[0] = z
    /\ \A i \in 1 .. n : f[i] = s[i][f[i - 1]]

\* Such a function exists.
LEMMA Iterates ==
    ASSUME NEW n \in Nat, NEW D, NEW z \in D, NEW s \in [1 .. n -> [D -> D]]
    PROVE  \E f : Stepped(f, n, D, z, s)
<1> DEFINE Steps(m) == \E f \in [0 .. m -> D] : f[0] = z /\ \A i \in 1 .. m : f[i] = s[i][f[i - 1]]
           Rest == {m \in 0 .. n : ~Steps(m)}
<1>1. Steps(0)
  <2>1. [i \in 0 .. 0 |-> z] \in [0 .. 0 -> D]
    OBVIOUS
  <2>2. [i \in 0 .. 0 |-> z][0] = z
    OBVIOUS
  <2>3. 1 .. 0 = {}
    OBVIOUS
  <2> QED BY <2>1, <2>2, <2>3
<1>2. ASSUME NEW m \in 1 .. n, Steps(m - 1) PROVE Steps(m)
  <2>1. PICK f \in [0 .. m - 1 -> D] : f[0] = z /\ \A i \in 1 .. m - 1 : f[i] = s[i][f[i - 1]]
    BY <1>2
  <2> DEFINE g == [i \in 0 .. m |-> IF i = m THEN s[m][f[m - 1]] ELSE f[i]]
  <2>2. f[m - 1] \in D
    BY <2>1
  <2>3. s[m][f[m - 1]] \in D
    BY <2>2
  <2>4. g \in [0 .. m -> D]
    BY <2>1, <2>3
  <2>5. \A i \in 0 .. m - 1 : g[i] = f[i]
    OBVIOUS
  <2>6. g[m] = s[m][f[m - 1]]
    OBVIOUS
  <2> HIDE DEF g
  <2>7. g[0] = z
    BY <2>1, <2>5
  <2>8. \A i \in 1 .. m : g[i] = s[i][g[i - 1]]
    BY <2>1, <2>5, <2>6
  <2> QED BY <2>4, <2>7, <2>8
<1> HIDE DEF Steps
<1>3. Rest = {}
  <2> SUFFICES ASSUME Rest # {} PROVE FALSE
    OBVIOUS
  <2>1. PICK m \in Rest : \A k \in Rest : m <= k
    <3>1. Rest \subseteq Nat
      OBVIOUS
    <3> HIDE DEF Rest
    <3> QED BY <3>1, Least
  <2>2. m # 0
    BY <1>1, <2>1
  <2>3. m \in 1 .. n /\ m - 1 \in 0 .. n /\ m - 1 \notin Rest
    BY <2>1, <2>2
  <2> QED BY <1>2, <2>1, <2>3
<1>4. Steps(n)
  BY <1>3
<1> QED BY <1>4 DEF Steps, Stepped

\* A recursive definition over 0 .. n that a function satisfies is that function.
LEMMA Unfolds ==
    ASSUME NEW n \in Nat, NEW f, NEW g, DOMAIN f = 0 .. n, DOMAIN g = 0 .. n,
           f = [i \in 0 .. n |-> f[i]], g = [i \in 0 .. n |-> g[i]],
           f[0] = g[0], \A i \in 1 .. n : f[i - 1] = g[i - 1] => f[i] = g[i]
    PROVE  f = g
<1> DEFINE Differ == {i \in 0 .. n : f[i] # g[i]}
<1>1. Differ = {}
  <2> SUFFICES ASSUME Differ # {} PROVE FALSE
    OBVIOUS
  <2>1. PICK m \in Differ : \A k \in Differ : m <= k
    <3>1. Differ \subseteq Nat
      OBVIOUS
    <3> HIDE DEF Differ
    <3> QED BY <3>1, Least
  <2>2. m \in 1 .. n /\ m - 1 \in 0 .. n /\ m - 1 \notin Differ
    BY <2>1
  <2> QED BY <2>1, <2>2
<1>2. \A i \in 0 .. n : f[i] = g[i]
  BY <1>1
<1> QED BY <1>2

\* Open counts the braces.
LEMMA Opened ==
    ASSUME NEW q \in Seq({1, -1})
    PROVE  /\ Q!Open(q) \in [0 .. Len(q) -> Int] /\ Q!Open(q)[0] = 0
           /\ \A i \in 1 .. Len(q) : Q!Open(q)[i] = Q!Open(q)[i - 1] + q[i]
<1> DEFINE s == [i \in 1 .. Len(q) |-> [d \in Int |-> d + q[i]]]
           Body(f) == [i \in 0 .. Len(q) |-> IF i = 0 THEN 0 ELSE f[i - 1] + q[i]]
           o == Q!Open(q)
<1>1. s \in [1 .. Len(q) -> [Int -> Int]]
  OBVIOUS
<1>2. PICK f \in [0 .. Len(q) -> Int] : f[0] = 0 /\ \A i \in 1 .. Len(q) : f[i] = s[i][f[i - 1]]
  <2> DEFINE n == Len(q)
             z == 0
             Z == Int
  <2>1. n \in Nat /\ z \in Z
    OBVIOUS
  <2> HIDE DEF s, n, z, Z
  <2>3. s \in [1 .. n -> [Z -> Z]]
    BY <1>1, Zenon DEF n, Z
  <2>2. \E f : Stepped(f, n, Z, z, s)
    BY <2>1, <2>3, Iterates
  <2> QED BY <2>2 DEF n, z, Z, Stepped
<1>3. ASSUME NEW i \in 1 .. Len(q) PROVE f[i] = f[i - 1] + q[i]
  <2>1. f[i - 1] \in Int
    BY <1>3
  <2> QED BY <1>2, <1>3, <2>1
<1>4. f = Body(f)
  <2>1. \A i \in 0 .. Len(q) : f[i] = IF i = 0 THEN 0 ELSE f[i - 1] + q[i]
    BY <1>2, <1>3
  <2>2. Body(f) \in [0 .. Len(q) -> Int]
    <3>1. \A i \in 0 .. Len(q) : (IF i = 0 THEN 0 ELSE f[i - 1] + q[i]) \in Int
      BY <2>1
    <3> QED BY <3>1
  <2>3. \A i \in 0 .. Len(q) : f[i] = Body(f)[i]
    BY <2>1
  <2> HIDE DEF Body
  <2> QED BY <2>2, <2>3
<1>5. o = Body(o)
  <2>1. o = CHOOSE g : g = Body(g)
    BY DEF Q!Open
  <2> HIDE DEF Body, o
  <2> QED BY <1>4, <2>1
<1>6. /\ DOMAIN o = 0 .. Len(q) /\ o = [i \in 0 .. Len(q) |-> o[i]] /\ o[0] = 0
      /\ \A i \in 1 .. Len(q) : o[i] = o[i - 1] + q[i]
  <2> HIDE DEF o
  <2>1. DOMAIN o = 0 .. Len(q)
    BY <1>5
  <2>2. o = [i \in 0 .. Len(q) |-> o[i]]
    BY <1>5, <2>1
  <2>3. \A i \in 0 .. Len(q) : o[i] = IF i = 0 THEN 0 ELSE o[i - 1] + q[i]
    BY <1>5
  <2> QED BY <2>1, <2>2, <2>3
<1> HIDE DEF o
<1>7. o = f
  <2>1. Len(q) \in Nat /\ DOMAIN f = 0 .. Len(q) /\ f = [i \in 0 .. Len(q) |-> f[i]]
    OBVIOUS
  <2>2. o[0] = f[0] /\ \A i \in 1 .. Len(q) : o[i - 1] = f[i - 1] => o[i] = f[i]
    BY <1>2, <1>3, <1>6
  <2> QED BY <1>6, <2>1, <2>2, Unfolds
<1> QED BY <1>6, <1>7 DEF o
\* Depth does, but stays at zero when a brace closes nothing.
LEMMA Deepened ==
    ASSUME NEW q \in Seq({1, -1})
    PROVE  /\ Q!Depth(q) \in [0 .. Len(q) -> Nat] /\ Q!Depth(q)[0] = 0
           /\ \A i \in 1 .. Len(q) :
                 Q!Depth(q)[i] = IF q[i] = 1 THEN Q!Depth(q)[i - 1] + 1 ELSE Q!Lower(Q!Depth(q)[i - 1])
<1> DEFINE s == [i \in 1 .. Len(q) |-> [d \in Nat |-> IF q[i] = 1 THEN d + 1 ELSE Q!Lower(d)]]
           Body(f) == [i \in 0 .. Len(q) |-> IF i = 0 THEN 0 ELSE IF q[i] = 1 THEN f[i - 1] + 1 ELSE Q!Lower(f[i - 1])]
           o == Q!Depth(q)
<1>0. \A d \in Nat : Q!Lower(d) \in Nat
  BY DEF Q!Lower
<1>1. s \in [1 .. Len(q) -> [Nat -> Nat]]
  BY <1>0, SMTT(60)
<1>2. PICK f \in [0 .. Len(q) -> Nat] : f[0] = 0 /\ \A i \in 1 .. Len(q) : f[i] = s[i][f[i - 1]]
  <2> DEFINE n == Len(q)
             z == 0
             Z == Nat
  <2>1. n \in Nat /\ z \in Z
    OBVIOUS
  <2> HIDE DEF s, n, z, Z
  <2>3. s \in [1 .. n -> [Z -> Z]]
    BY <1>1, Zenon DEF n, Z
  <2>2. \E f : Stepped(f, n, Z, z, s)
    BY <2>1, <2>3, Iterates
  <2> QED BY <2>2 DEF n, z, Z, Stepped
<1>3. ASSUME NEW i \in 1 .. Len(q) PROVE f[i] = IF q[i] = 1 THEN f[i - 1] + 1 ELSE Q!Lower(f[i - 1])
  <2>1. f[i - 1] \in Nat
    BY <1>3
  <2> QED BY <1>2, <1>3, <2>1
<1>4. f = Body(f)
  <2>1. \A i \in 0 .. Len(q) : f[i] = IF i = 0 THEN 0 ELSE IF q[i] = 1 THEN f[i - 1] + 1 ELSE Q!Lower(f[i - 1])
    BY <1>2, <1>3
  <2>2. Body(f) \in [0 .. Len(q) -> Nat]
    <3>1. \A i \in 0 .. Len(q) : (IF i = 0 THEN 0 ELSE IF q[i] = 1 THEN f[i - 1] + 1 ELSE Q!Lower(f[i - 1])) \in Nat
      BY <2>1
    <3> QED BY <3>1
  <2>3. \A i \in 0 .. Len(q) : f[i] = Body(f)[i]
    BY <2>1
  <2> HIDE DEF Body
  <2> QED BY <2>2, <2>3
<1>5. o = Body(o)
  <2>1. o = CHOOSE g : g = Body(g)
    BY DEF Q!Depth
  <2> HIDE DEF Body, o
  <2> QED BY <1>4, <2>1
<1>6. /\ DOMAIN o = 0 .. Len(q) /\ o = [i \in 0 .. Len(q) |-> o[i]] /\ o[0] = 0
      /\ \A i \in 1 .. Len(q) : o[i] = IF q[i] = 1 THEN o[i - 1] + 1 ELSE Q!Lower(o[i - 1])
  <2> HIDE DEF o
  <2>1. DOMAIN o = 0 .. Len(q)
    BY <1>5
  <2>2. o = [i \in 0 .. Len(q) |-> o[i]]
    BY <1>5, <2>1
  <2>3. \A i \in 0 .. Len(q) : o[i] = IF i = 0 THEN 0 ELSE IF q[i] = 1 THEN o[i - 1] + 1 ELSE Q!Lower(o[i - 1])
    BY <1>5
  <2> QED BY <2>1, <2>2, <2>3
<1> HIDE DEF o
<1>7. o = f
  <2>1. Len(q) \in Nat /\ DOMAIN f = 0 .. Len(q) /\ f = [i \in 0 .. Len(q) |-> f[i]]
    OBVIOUS
  <2>2. o[0] = f[0]
    BY <1>2, <1>6
  <2>3. ASSUME NEW i \in 1 .. Len(q), o[i - 1] = f[i - 1] PROVE o[i] = f[i]
    BY <1>3, <1>6, <2>3, ZenonT(60)
  <2> QED BY <1>6, <2>1, <2>2, <2>3, Unfolds, ZenonT(60)
<1> QED BY <1>6, <1>7 DEF o

\* The depth computeGraphqlDepth finds, which never goes below zero, is the
\* nesting of the text, whose count may.
LEMMA DepthIsNesting ==
    ASSUME NEW q \in Seq({1, -1})
    PROVE  Q!computeGraphqlDepth(q) = Q!Nesting(q)
<1> DEFINE n == Len(q)
           o == Q!Open(q)
           d == Q!Depth(q)
           Deepest(j) == /\ d[j] <= j
                         /\ \A i \in 0 .. j : o[j] - o[i] <= d[j]
                         /\ \E i \in 0 .. j : o[j] - o[i] = d[j]
           Net == { o[p[2]] - o[p[1]] : p \in {r \in (0 .. n) \X (0 .. n) : r[1] <= r[2]} }
<1>0. n \in Nat
  OBVIOUS
<1>1. /\ o \in [0 .. n -> Int] /\ o[0] = 0
      /\ \A i \in 1 .. n : o[i] = o[i - 1] + q[i]
  BY Opened
<1>2. /\ d \in [0 .. n -> Nat] /\ d[0] = 0
      /\ \A i \in 1 .. n : d[i] = IF q[i] = 1 THEN d[i - 1] + 1 ELSE Q!Lower(d[i - 1])
  BY Deepened
<1>3. \A i \in 1 .. n : q[i] = 1 \/ q[i] = -1
  OBVIOUS
<1>4. Q!computeGraphqlDepth(q) = CHOOSE m \in 0 .. n :
        (\E i \in 0 .. n : d[i] = m) /\ (\A i \in 0 .. n : d[i] <= m)
  BY Zenon DEF Q!computeGraphqlDepth
<1>5. Q!Nesting(q) = CHOOSE m \in Net : \A x \in Net : x <= m
  BY DEF Q!Nesting
<1> HIDE DEF n, o, d
<1>6. \A j \in 0 .. n : Deepest(j)
  <2> DEFINE Rest == {j \in 0 .. n : ~Deepest(j)}
  <2> SUFFICES ASSUME Rest # {} PROVE FALSE
    OBVIOUS
  <2>1. PICK j \in Rest : \A k \in Rest : j <= k
    <3>1. Rest \subseteq Nat
      BY <1>0
    <3> HIDE DEF Rest
    <3> QED BY <3>1, Least
  <2>2. j # 0
    <3>1. Deepest(0)
      BY <1>1, <1>2
    <3> QED BY <2>1, <3>1
  <2>3. j \in 1 .. n /\ j - 1 \in 0 .. n /\ j - 1 \notin Rest
    BY <1>0, <2>1, <2>2
  <2>4. Deepest(j - 1)
    BY <2>3
  <2>9. j \in Nat /\ \A i \in 0 .. j : i \in 0 .. n
    BY <1>0, <2>3
  <2>10. d[j - 1] \in Nat
    <3>1. d \in [0 .. n -> Nat]
      BY <1>2
    <3> QED BY <2>3, <3>1
  <2>5. j \in Nat /\ d[j - 1] \in Nat /\ \A i \in 0 .. j : o[i] \in Int
    BY <1>1, <2>9, <2>10
  <2>8. j \in 0 .. j /\ j - 1 \in 0 .. j /\ \A i \in 0 .. j : i # j => i \in 0 .. j - 1
    BY <2>3, <2>5
  <2>6. CASE q[j] = 1
    <3>1. d[j] = d[j - 1] + 1 /\ o[j] = o[j - 1] + 1
      BY <1>1, <1>2, <2>3, <2>6
    <3>3. \A i \in 0 .. j - 1 : i \in 0 .. j
      BY <2>5
    <3>4. ASSUME NEW i \in 0 .. j PROVE o[j] - o[i] <= d[j]
      <4>1. o[i] \in Int /\ o[j] \in Int /\ o[j - 1] \in Int
        BY <2>5, <2>8
      <4>2. CASE i = j
        BY <2>5, <3>1, <4>1, <4>2
      <4>3. CASE i # j
        <5>1. o[j - 1] - o[i] <= d[j - 1]
          BY <2>4, <2>8, <4>3
        <5> QED BY <2>5, <3>1, <4>1, <5>1, SMTT(60)
      <4> QED BY <4>2, <4>3
    <3>5. \E i \in 0 .. j : o[j] - o[i] = d[j]
      BY <2>4, <2>5, <3>1, <3>3
    <3>6. d[j] <= j
      BY <2>4, <2>5, <3>1
    <3> QED BY <2>1, <3>4, <3>5, <3>6
  <2>7. CASE q[j] = -1
    <3>0. o[j] = o[j - 1] + q[j] /\ o[j - 1] \in Int
      BY <1>1, <2>3, <2>5, <2>8
    <3>1. d[j] = Q!Lower(d[j - 1]) /\ o[j] = o[j - 1] - 1
      BY <1>2, <2>3, <2>7, <3>0
    <3>3. \A i \in 0 .. j - 1 : i \in 0 .. j
      BY <2>5
    <3>4. ASSUME NEW i \in 0 .. j PROVE o[j] - o[i] <= d[j]
      <4>1. o[i] \in Int /\ o[j] \in Int /\ o[j - 1] \in Int
        BY <2>5, <2>8
      <4>2. CASE i = j
        BY <2>5, <3>1, <4>1, <4>2 DEF Q!Lower
      <4>3. CASE i # j
        <5>1. o[j - 1] - o[i] <= d[j - 1]
          BY <2>4, <2>8, <4>3
        <5> QED BY <2>5, <3>1, <4>1, <5>1 DEF Q!Lower
      <4> QED BY <4>2, <4>3
    <3>5. \E i \in 0 .. j : o[j] - o[i] = d[j]
      <4>1. CASE d[j - 1] = 0
        <5>1. d[j] = 0 /\ j \in 0 .. j /\ o[j] - o[j] = 0
          BY <2>5, <3>1, <4>1 DEF Q!Lower
        <5> QED BY <5>1
      <4>2. CASE d[j - 1] # 0
        <5>1. PICK i \in 0 .. j - 1 : o[j - 1] - o[i] = d[j - 1]
          BY <2>4
        <5>2. o[i] \in Int /\ o[j - 1] \in Int /\ i \in 0 .. j
          BY <2>5, <2>8, <3>3
        <5>3. o[j] - o[i] = d[j]
          BY <2>5, <3>1, <4>2, <5>1, <5>2 DEF Q!Lower
        <5> QED BY <5>2, <5>3
      <4> QED BY <4>1, <4>2
    <3>6. d[j] <= j
      BY <2>4, <2>5, <3>1 DEF Q!Lower
    <3> QED BY <2>1, <3>4, <3>5, <3>6
  <2> QED BY <1>3, <2>3, <2>6, <2>7
<1>7. PICK m \in 0 .. n : (\E i \in 0 .. n : d[i] = m) /\ (\A i \in 0 .. n : d[i] <= m)
  <2> DEFINE Bounds == {b \in Nat : \A i \in 0 .. n : d[i] <= b}
  <2>1. n \in Bounds
    BY <1>0, <1>2, <1>6
  <2>2. PICK b \in Bounds : \A c \in Bounds : b <= c
    <3>1. Bounds \subseteq Nat /\ Bounds # {}
      BY <2>1
    <3> HIDE DEF Bounds
    <3> QED BY <3>1, Least
  <2>3. b \in 0 .. n
    BY <1>0, <2>1, <2>2
  <2>4. ASSUME ~ \E i \in 0 .. n : d[i] = b PROVE FALSE
    <3>1. d[0] # b
      BY <1>0, <2>4
    <3>2. b - 1 \in Nat
      BY <1>2, <2>2, <3>1
    <3>3. \A i \in 0 .. n : d[i] <= b - 1
      BY <1>2, <2>2, <2>4
    <3>4. b - 1 \in Bounds
      BY <3>2, <3>3
    <3> QED BY <2>2, <3>4
  <2> QED BY <2>2, <2>3, <2>4
<1>8. Q!computeGraphqlDepth(q) = m
  <2>1. \A x, y \in 0 .. n : /\ (\E i \in 0 .. n : d[i] = x) /\ (\A i \in 0 .. n : d[i] <= x)
                             /\ (\E i \in 0 .. n : d[i] = y) /\ (\A i \in 0 .. n : d[i] <= y)
                             => x = y
    BY <1>0, <1>2
  <2> QED BY <1>4, <1>7, <2>1
<1>9. m \in Net /\ \A x \in Net : x <= m
  <2>1. PICK j \in 0 .. n : d[j] = m
    BY <1>7
  <2>2. PICK i \in 0 .. j : o[j] - o[i] = d[j]
    BY <1>6, <2>1
  <2>3. <<i, j>> \in (0 .. n) \X (0 .. n) /\ i <= j
    BY <1>0, <2>1, <2>2
  <2>4. m = o[<<i, j>>[2]] - o[<<i, j>>[1]]
    BY <2>1, <2>2
  <2>5. ASSUME NEW p \in (0 .. n) \X (0 .. n), p[1] <= p[2] PROVE o[p[2]] - o[p[1]] <= m
    <3>1. p[1] \in 0 .. p[2] /\ p[2] \in 0 .. n
      BY <1>0, <2>5
    <3>2. o[p[2]] - o[p[1]] <= d[p[2]]
      BY <1>6, <3>1
    <3>3. d[p[2]] <= m /\ d[p[2]] \in Nat /\ o[p[2]] \in Int /\ o[p[1]] \in Int /\ m \in Nat
      BY <1>0, <1>1, <1>2, <1>7, <2>5, <3>1
    <3> QED BY <3>2, <3>3
  <2> QED BY <2>3, <2>4, <2>5
<1>10. Q!Nesting(q) = m
  <2>1. \A x \in Net : x \in Int
    BY <1>0, <1>1
  <2>2. \A y \in Net : (\A x \in Net : x <= y) => y = m
    <3> HIDE DEF Net
    <3> QED BY <1>9, <2>1
  <2> HIDE DEF Net
  <2> QED BY <1>5, <1>9, <2>2
<1> QED BY <1>8, <1>10

(* The search.  Its gray fragments are the open calls of visit, a path of   *)
(* spreads; what they are done with is black, and black fragments reach only *)
(* black ones and no cycle.                                                  *)

Black == {f \in DOMAIN color : color[f] = "black"}

Frame == [name : DOMAIN Q!deps, children : SUBSET Fragment]

WellFormed ==
    /\ DOMAIN color = DOMAIN Q!deps
    /\ \A f \in DOMAIN color : color[f] \in {"white", "gray", "black"}
    /\ stack \in Seq(Frame)
    /\ roots \subseteq DOMAIN Q!deps

\* The open calls are the gray fragments, one call each, along spreads.
OpenPath ==
    /\ \A f \in DOMAIN Q!deps : color[f] = "gray" <=> \E i \in 1 .. Len(stack) : stack[i].name = f
    /\ \A i, j \in 1 .. Len(stack) : stack[i].name = stack[j].name => i = j
    /\ \A i \in 1 .. Len(stack) : stack[i].children \subseteq Q!deps[stack[i].name]
    /\ \A i \in 1 .. Len(stack) - 1 : stack[i + 1].name \in Q!deps[stack[i].name]

\* What a call, or the last loop, no longer has to visit is black or the call
\* it is waiting for.
Visited ==
    /\ \A i \in 1 .. Len(stack) : \A f \in Q!deps[stack[i].name] \ stack[i].children :
          f \in DOMAIN Q!deps => color[f] = "black" \/ (i < Len(stack) /\ f = stack[i + 1].name)
    /\ \A f \in DOMAIN Q!deps \ roots :
          color[f] = "black" \/ (stack # <<>> /\ f = stack[1].name)

BlackDone ==
    /\ \A f \in Black : \A g \in Q!deps[f] : g \in DOMAIN Q!deps => g \in Black
    /\ \A Cs \in SUBSET Black : Cs # {} => \E f \in Cs : Q!deps[f] \cap Cs = {}

Search ==
    /\ WellFormed /\ OpenPath /\ Visited /\ BlackDone
    /\ ~query.deep /\ ~query.introspects /\ ~query.many

\* The inductive invariant of the guard.
GuardInv ==
    /\ left \in Nat /\ query \in Q!Queries
    /\ at \in {"inspect", "walk"} => left >= 1
    /\ clean = TRUE
    /\ at = "walk" => Search
    /\ Q!VerdictExact

LEMMA SearchStarts ==
    ASSUME NEW g \in Q!Graphs, Q!deps' = g, ~query'.deep, ~query'.introspects, ~query'.many,
           color' = [f \in DOMAIN g |-> "white"], stack' = <<>>, roots' = DOMAIN g
    PROVE  Search'
<1>1. WellFormed'
  BY DEF WellFormed
<1>2. OpenPath'
  BY DEF OpenPath
<1>3. Visited'
  BY DEF Visited
<1>4. BlackDone'
  <2>1. Black' = {}
    BY DEF Black
  <2> QED BY <2>1 DEF BlackDone
<1> QED BY <1>1, <1>2, <1>3, <1>4 DEF Search

LEMMA Framed ==
    ASSUME WellFormed
    PROVE  /\ Len(stack) \in Nat
           /\ \A i \in 1 .. Len(stack) : stack[i] \in Frame
           /\ \A i \in 1 .. Len(stack) : stack[i].name \in DOMAIN Q!deps /\ stack[i].children \subseteq Fragment
<1>1. /\ Len(stack) \in Nat
      /\ \A i \in 1 .. Len(stack) : stack[i] \in Frame
  BY DEF WellFormed
<1> QED BY <1>1 DEF Frame

\* A back-edge closes a cycle: the open calls from the gray fragment on.
LEMMA BackEdgeCyclic ==
    ASSUME Search, NEW f \in Q!Callees, f \in DOMAIN Q!deps, color[f] = "gray"
    PROVE  Q!Cyclic(Q!deps)
<1>w. WellFormed /\ OpenPath /\ Visited
  BY DEF Search
<1>n. Len(stack) \in Nat
  BY <1>w DEF WellFormed
<1>1. PICK k \in 1 .. Len(stack) : stack[k].name = f
  BY <1>w DEF OpenPath
<1>2. stack # <<>>
  BY <1>1
<1>3. f \in Q!deps[stack[Len(stack)].name]
  BY <1>w, <1>n, <1>1, <1>2 DEF Q!Callees, OpenPath
<1> DEFINE Cs == {stack[i].name : i \in k .. Len(stack)}
<1>4. Cs \in SUBSET DOMAIN Q!deps
  <2>1. ASSUME NEW i \in k .. Len(stack) PROVE stack[i].name \in DOMAIN Q!deps
    <3>1. i \in 1 .. Len(stack)
      BY <1>n, <1>1, <2>1
    <3> QED BY <1>w, <3>1, Framed
  <2> QED BY <2>1
<1>5. f \in Cs
  BY <1>n, <1>1
<1>6. ASSUME NEW g \in Cs PROVE Q!deps[g] \cap Cs # {}
  <2>1. PICK i \in k .. Len(stack) : g = stack[i].name
    BY <1>6
  <2>2. CASE i = Len(stack)
    BY <1>3, <1>5, <2>1, <2>2
  <2>3. CASE i # Len(stack)
    <3>1. i \in 1 .. Len(stack) - 1 /\ i + 1 \in k .. Len(stack)
      BY <1>n, <1>1, <2>1, <2>3
    <3>2. stack[i + 1].name \in Q!deps[g] /\ stack[i + 1].name \in Cs
      BY <1>w, <2>1, <3>1 DEF OpenPath
    <3> QED BY <3>2
  <2> QED BY <2>2, <2>3
<1> QED BY <1>4, <1>5, <1>6 DEF Q!Cyclic

\* A search that visited every root found every defined fragment black.
LEMMA SearchedAcyclic ==
    ASSUME Search, stack = <<>>, roots = {}
    PROVE  ~Q!Cyclic(Q!deps)
<1>1. \A f \in DOMAIN Q!deps : f \in Black
  BY DEF Search, Visited, WellFormed, Black
<1>2. \A Cs \in SUBSET DOMAIN Q!deps : Cs # {} => \E f \in Cs : Q!deps[f] \cap Cs = {}
  BY <1>1 DEF Search, BlackDone
<1> QED BY <1>2 DEF Q!Cyclic

LEMMA SkipKeeps ==
    ASSUME Search, NEW f \in Q!Callees, Q!Skip(f), roots' = IF stack = <<>> THEN roots \ {f} ELSE roots
    PROVE  Search'
<1>w. WellFormed /\ OpenPath /\ Visited /\ BlackDone
  BY DEF Search
<1>n. Len(stack) \in Nat
  BY <1>w DEF WellFormed
<1>u. color' = color /\ query' = query /\ Q!deps' = Q!deps /\ (f \in DOMAIN Q!deps => color[f] = "black")
  BY DEF Q!Skip, Q!deps, Q!Known
<1>f. Frame' = Frame
  BY <1>u DEF Frame
<1>b. f \in DOMAIN Q!deps => color[f] = "black"
  BY <1>u
<1>r. roots' \subseteq roots
  OBVIOUS
<1>1. CASE stack = <<>>
  <2>1. stack' = stack
    BY <1>1 DEF Q!Skip, Q!Remaining
  <2>2. WellFormed'
    BY <1>w, <1>u, <1>r, <1>f, <2>1 DEF WellFormed
  <2>3. OpenPath' /\ BlackDone'
    BY <1>w, <1>u, <2>1 DEF OpenPath, BlackDone, Black
  <2>4. Visited'
    <3>1. Len(stack) = 0 /\ \A i \in 1 .. 0 : FALSE
      BY <1>1
    <3>2. \A g \in DOMAIN Q!deps \ roots' : color[g] = "black"
      BY <1>1, <1>w, <1>u DEF Visited
    <3> QED BY <1>u, <2>1, <3>1, <3>2 DEF Visited
  <2> QED BY <1>u, <2>2, <2>3, <2>4 DEF Search
<1>2. CASE stack # <<>>
  <2> DEFINE n == Len(stack)
  <2>1. n \in 1 .. n /\ roots' = roots
    BY <1>2, <1>w DEF WellFormed
  <2>2. stack' = [stack EXCEPT ![n].children = @ \ {f}]
    BY <1>2 DEF Q!Skip, Q!Remaining
  <2>3. /\ stack' \in Seq(Frame) /\ Len(stack') = n
        /\ \A i \in 1 .. n : stack'[i].name = stack[i].name
        /\ \A i \in 1 .. n : i # n => stack'[i] = stack[i]
        /\ stack'[n].children = stack[n].children \ {f}
    <3> DEFINE frame == [stack[n] EXCEPT !.children = @ \ {f}]
    <3>1. stack[n] \in Frame
      BY <1>w, <2>1, Framed
    <3>2. frame \in Frame /\ frame.name = stack[n].name /\ frame.children = stack[n].children \ {f}
      BY <3>1 DEF Frame
    <3>3. stack' = [stack EXCEPT ![n] = frame]
      BY <2>2
    <3> HIDE DEF frame
    <3> QED BY <1>w, <2>1, <3>2, <3>3 DEF WellFormed
  <2>4. WellFormed'
    BY <1>w, <1>u, <1>f, <2>1, <2>3 DEF WellFormed
  <2>5. OpenPath'
    <3>1. \A i \in 1 .. n : stack'[i].children \subseteq stack[i].children
      BY <2>3
    <3>2. \A i \in 1 .. n - 1 : i \in 1 .. n /\ i + 1 \in 1 .. n
      BY <1>n
    <3>3. \A g \in DOMAIN Q!deps : color[g] = "gray" <=> \E i \in 1 .. n : stack'[i].name = g
      BY <1>w, <2>3 DEF OpenPath
    <3>4. \A i, j \in 1 .. n : stack'[i].name = stack'[j].name => i = j
      BY <1>w, <2>3 DEF OpenPath
    <3>5. \A i \in 1 .. n : stack'[i].children \subseteq Q!deps[stack'[i].name]
      BY <1>w, <2>3, <3>1 DEF OpenPath
    <3>6. \A i \in 1 .. n - 1 : stack'[i + 1].name \in Q!deps[stack'[i].name]
      BY <1>w, <2>3, <3>2 DEF OpenPath
    <3> QED BY <1>u, <2>3, <3>3, <3>4, <3>5, <3>6 DEF OpenPath
  <2>6. Visited'
    <3>1. ASSUME NEW i \in 1 .. n, NEW g \in Q!deps[stack[i].name] \ stack'[i].children, g \in DOMAIN Q!deps
          PROVE  color[g] = "black" \/ (i < n /\ g = stack'[i + 1].name)
      <4>1. CASE g = f
        BY <1>b, <3>1, <4>1
      <4>2. CASE g # f
        <5>1. g \notin stack[i].children
          BY <2>3, <3>1, <4>2
        <5>2. color[g] = "black" \/ (i < n /\ g = stack[i + 1].name)
          BY <1>w, <3>1, <5>1 DEF Visited
        <5>3. i < n => i + 1 \in 1 .. n
          BY <1>n
        <5> QED BY <2>3, <5>2, <5>3
      <4> QED BY <4>1, <4>2
    <3>2. ASSUME NEW g \in DOMAIN Q!deps \ roots
          PROVE  color[g] = "black" \/ (stack' # <<>> /\ g = stack'[1].name)
      <4>1. stack' # <<>> /\ 1 \in 1 .. n
        BY <2>1, <2>3
      <4> QED BY <1>w, <2>3, <3>2, <4>1 DEF Visited
    <3> QED BY <1>u, <2>1, <2>3, <3>1, <3>2 DEF Visited
  <2>7. BlackDone'
    BY <1>w, <1>u DEF BlackDone, Black
  <2> QED BY <1>u, <2>4, <2>5, <2>6, <2>7 DEF Search
<1> QED BY <1>1, <1>2

\* What Remaining does to the open calls: f is no longer to be visited.
LEMMA Remains ==
    ASSUME Search, NEW f \in Q!Callees
    PROVE  /\ Q!Remaining(f) \in Seq(Frame) /\ Len(Q!Remaining(f)) = Len(stack)
           /\ \A i \in 1 .. Len(stack) : Q!Remaining(f)[i].name = stack[i].name
           /\ \A i \in 1 .. Len(stack) : Q!Remaining(f)[i].children \subseteq stack[i].children
           /\ \A i \in 1 .. Len(stack) : \A g \in stack[i].children :
                 g \in Q!Remaining(f)[i].children \/ (g = f /\ i = Len(stack))
<1>w. WellFormed
  BY DEF Search
<1>1. CASE stack = <<>>
  BY <1>1, <1>w DEF Q!Remaining, WellFormed
<1>2. CASE stack # <<>>
  <2> DEFINE n == Len(stack)
             frame == [stack[n] EXCEPT !.children = @ \ {f}]
  <2>1. n \in 1 .. n
    BY <1>2, <1>w DEF WellFormed
  <2>2. stack[n] \in Frame
    BY <1>w, <2>1, Framed
  <2>3. frame \in Frame /\ frame.name = stack[n].name /\ frame.children = stack[n].children \ {f}
    BY <2>2 DEF Frame
  <2>4. Q!Remaining(f) = [stack EXCEPT ![n] = frame]
    BY <1>2 DEF Q!Remaining
  <2> HIDE DEF frame
  <2>5. Q!Remaining(f) \in Seq(Frame) /\ Len(Q!Remaining(f)) = n
    BY <1>w, <2>1, <2>3, <2>4 DEF WellFormed
  <2>6. \A i \in 1 .. n : Q!Remaining(f)[i] = IF i = n THEN frame ELSE stack[i]
    BY <1>w, <2>1, <2>4 DEF WellFormed
  <2>7. ASSUME NEW i \in 1 .. n
        PROVE  /\ Q!Remaining(f)[i].name = stack[i].name
               /\ Q!Remaining(f)[i].children \subseteq stack[i].children
               /\ \A g \in stack[i].children : g \in Q!Remaining(f)[i].children \/ (g = f /\ i = n)
    <3>1. CASE i = n
      BY <2>3, <2>6, <3>1
    <3>2. CASE i # n
      BY <2>6, <3>2
    <3> QED BY <3>1, <3>2
  <2> QED BY <2>5, <2>7
<1> QED BY <1>1, <1>2

\* visit(f) goes into a white f: one more gray fragment, one more open call.
LEMMA EnterKeeps ==
    ASSUME Search, NEW f \in Q!Callees, Q!Enter(f), roots' = IF stack = <<>> THEN roots \ {f} ELSE roots,
           query \in Q!Queries
    PROVE  Search'
<1> DEFINE n == Len(stack)
           left_ == Q!Remaining(f)
           top == [name |-> f, children |-> Q!deps[f]]
<1>w. WellFormed /\ OpenPath /\ Visited /\ BlackDone
  BY DEF Search
<1>n. n \in Nat
  BY <1>w, Framed
<1>u. query' = query /\ Q!deps' = Q!deps /\ f \in DOMAIN Q!deps /\ color[f] = "white"
  BY DEF Q!Enter, Q!deps
<1>f. Frame' = Frame
  BY <1>u DEF Frame
<1>c. /\ DOMAIN color' = DOMAIN Q!deps
      /\ \A g \in DOMAIN Q!deps : color'[g] = IF g = f THEN "gray" ELSE color[g]
  <2>1. color' = [color EXCEPT ![f] = "gray"]
    BY DEF Q!Enter
  <2> QED BY <1>w, <1>u, <2>1 DEF WellFormed
<1>t. top \in Frame
  <2>1. Q!deps \in Q!Graphs
    BY DEF Q!Queries, Q!deps
  <2>2. Q!deps[f] \subseteq Fragment
    BY <1>u, <2>1 DEF Q!Graphs
  <2> QED BY <1>u, <2>2 DEF Frame
<1>r. /\ left_ \in Seq(Frame) /\ Len(left_) = n
      /\ \A i \in 1 .. n : left_[i].name = stack[i].name
      /\ \A i \in 1 .. n : left_[i].children \subseteq stack[i].children
      /\ \A i \in 1 .. n : \A g \in stack[i].children :
            g \in left_[i].children \/ (g = f /\ i = n)
  BY Remains
<1>a. stack' = Append(left_, top)
  BY DEF Q!Enter
<1>0. top.name = f /\ top.children = Q!deps[f]
  OBVIOUS
<1> HIDE DEF left_, top
<1>s. /\ stack' \in Seq(Frame) /\ Len(stack') = n + 1 /\ stack'[n + 1] = top
      /\ \A i \in 1 .. n : stack'[i] = left_[i]
  BY <1>a, <1>r, <1>t, <1>n
<1>i. \A i \in 1 .. n + 1 : i \in 1 .. n \/ i = n + 1
  BY <1>n
<1>j. n + 1 \in 1 .. n + 1 /\ \A i \in 1 .. n : i \in 1 .. n + 1 /\ i # n + 1
  BY <1>n
<1>k. \A i \in 1 .. n + 1 : stack'[i].name = IF i = n + 1 THEN f ELSE stack[i].name
  BY <1>0, <1>i, <1>j, <1>r, <1>s
<1>1. WellFormed'
  <2>1. \A g \in DOMAIN Q!deps : color'[g] \in {"white", "gray", "black"}
    BY <1>c, <1>w DEF WellFormed
  <2>2. roots' \subseteq DOMAIN Q!deps
    BY <1>w DEF WellFormed
  <2> QED BY <1>c, <1>s, <1>f, <1>u, <2>1, <2>2 DEF WellFormed
<1>2. OpenPath'
  <2>1. ASSUME NEW g \in DOMAIN Q!deps
        PROVE  color'[g] = "gray" <=> \E i \in 1 .. n + 1 : stack'[i].name = g
    <3>1. CASE g = f
      BY <1>c, <1>j, <1>k, <3>1
    <3>2. CASE g # f
      <4>1. color'[g] = color[g]
        BY <1>c, <3>2
      <4>2. color[g] = "gray" <=> \E i \in 1 .. n : stack[i].name = g
        BY <1>w DEF OpenPath
      <4> QED BY <1>i, <1>j, <1>k, <3>2, <4>1, <4>2
    <3> QED BY <3>1, <3>2
  <2>2. \A i \in 1 .. n : stack[i].name # f
    <3>1. color[f] # "gray"
      BY <1>u
    <3> QED BY <1>w, <1>u, <3>1 DEF OpenPath
  <2>3. \A i, j \in 1 .. n : stack[i].name = stack[j].name => i = j
    BY <1>w DEF OpenPath
  <2>4. \A i, j \in 1 .. n + 1 : stack'[i].name = stack'[j].name => i = j
    BY <1>i, <1>j, <1>k, <2>2, <2>3
  <2>5. ASSUME NEW i \in 1 .. n + 1 PROVE stack'[i].children \subseteq Q!deps[stack'[i].name]
    <3>1. CASE i = n + 1
      BY <1>0, <1>s, <3>1
    <3>2. CASE i # n + 1
      <4>1. i \in 1 .. n
        BY <1>i, <3>2
      <4>2. stack[i].children \subseteq Q!deps[stack[i].name]
        BY <1>w, <4>1 DEF OpenPath
      <4> QED BY <1>s, <1>r, <4>1, <4>2
    <3> QED BY <3>1, <3>2
  <2>6. ASSUME NEW i \in 1 .. (n + 1) - 1 PROVE stack'[i + 1].name \in Q!deps[stack'[i].name]
    <3>1. i \in 1 .. n /\ i + 1 \in 1 .. n + 1 /\ i \in 1 .. n + 1 /\ i # n + 1
      BY <1>n, <2>6
    <3>2. CASE i = n
      <4>1. stack # <<>>
        BY <3>1, <3>2
      <4>2. f \in stack[n].children
        BY <4>1 DEF Q!Callees
      <4>3. f \in Q!deps[stack[n].name]
        BY <1>w, <3>1, <3>2, <4>2 DEF OpenPath
      <4> QED BY <1>k, <3>1, <3>2, <4>3
    <3>3. CASE i # n
      <4>1. i \in 1 .. n - 1 /\ i + 1 # n + 1
        BY <1>n, <3>1, <3>3
      <4>2. stack[i + 1].name \in Q!deps[stack[i].name]
        BY <1>w, <4>1 DEF OpenPath
      <4> QED BY <1>k, <3>1, <4>1, <4>2
    <3> QED BY <3>2, <3>3
  <2> QED BY <1>s, <1>u, <2>1, <2>4, <2>5, <2>6 DEF OpenPath
<1>b. \A g \in DOMAIN Q!deps : color[g] = "black" => color'[g] = "black"
  BY <1>c, <1>u
<1>3. Visited'
  <2>1. ASSUME NEW i \in 1 .. n + 1, NEW g \in Q!deps[stack'[i].name] \ stack'[i].children, g \in DOMAIN Q!deps
        PROVE  color'[g] = "black" \/ (i < n + 1 /\ g = stack'[i + 1].name)
    <3>1. i # n + 1
      BY <1>0, <1>s, <2>1
    <3>2. i \in 1 .. n /\ i < n + 1 /\ i + 1 \in 1 .. n + 1
      BY <1>i, <1>n, <3>1
    <3>3. g \in Q!deps[stack[i].name] /\ g \notin left_[i].children
      BY <1>r, <1>s, <2>1, <3>2
    <3>4. CASE g \in stack[i].children
      <4>1. g = f /\ i = n
        BY <1>r, <3>2, <3>3, <3>4
      <4>2. stack'[i + 1].name = g
        BY <1>k, <1>j, <4>1
      <4> QED BY <3>2, <4>2
    <3>5. CASE g \notin stack[i].children
      <4>1. color[g] = "black" \/ (i < n /\ g = stack[i + 1].name)
        BY <1>w, <2>1, <3>2, <3>3, <3>5 DEF Visited
      <4>2. i < n => i + 1 # n + 1
        BY <1>n, <3>2
      <4> QED BY <1>b, <1>k, <2>1, <3>2, <4>1, <4>2
    <3> QED BY <3>4, <3>5
  <2>2. ASSUME NEW g \in DOMAIN Q!deps \ roots'
        PROVE  color'[g] = "black" \/ (stack' # <<>> /\ g = stack'[1].name)
    <3>1. stack' # <<>> /\ 1 \in 1 .. n + 1
      BY <1>n, <1>s
    <3>2. CASE stack = <<>>
      <4>1. n = 0
        BY <3>2
      <4>2. stack'[1].name = f
        BY <1>k, <3>1, <4>1
      <4>3. g = f \/ g \in DOMAIN Q!deps \ roots
        BY <2>2, <3>2
      <4>4. g \in DOMAIN Q!deps \ roots => color[g] = "black"
        BY <1>w, <3>2 DEF Visited
      <4> QED BY <1>b, <2>2, <3>1, <4>2, <4>3, <4>4
    <3>3. CASE stack # <<>>
      <4>1. 1 \in 1 .. n /\ 1 # n + 1
        BY <1>n, <1>w, <3>3 DEF WellFormed
      <4>2. stack'[1].name = stack[1].name
        BY <1>k, <3>1, <4>1
      <4>3. g \in DOMAIN Q!deps \ roots
        BY <2>2, <3>3
      <4>4. color[g] = "black" \/ g = stack[1].name
        BY <1>w, <4>3 DEF Visited
      <4> QED BY <1>b, <3>1, <4>2, <4>3, <4>4
    <3> QED BY <3>2, <3>3
  <2> QED BY <1>s, <1>u, <2>1, <2>2 DEF Visited
<1>4. BlackDone'
  <2>1. Black' = Black
    BY <1>c, <1>u, <1>w DEF Black, WellFormed
  <2> QED BY <1>w, <1>u, <2>1 DEF BlackDone
<1> QED BY <1>u, <1>1, <1>2, <1>3, <1>4 DEF Search

\* The loop over the children of a call is done: its fragment turns black, and
\* since all it reaches is black no cycle runs through it.
LEMMA LeaveKeeps ==
    ASSUME Search, Q!Leave
    PROVE  Search'
<1> DEFINE n == Len(stack)
           f == stack[n].name
<1>w. WellFormed /\ OpenPath /\ Visited /\ BlackDone
  BY DEF Search
<1>e. stack # <<>> /\ stack[n].children = {}
  BY DEF Q!Leave
<1>n. n \in Nat /\ n \in 1 .. n /\ n >= 1 /\ \A i \in 1 .. n - 1 : i \in 1 .. n /\ i + 1 \in 1 .. n /\ i # n
  <2>1. n \in Nat
    BY <1>w, Framed
  <2>2. n # 0
    BY <1>e, <1>w DEF WellFormed
  <2> QED BY <2>1, <2>2
<1>d. f \in DOMAIN Q!deps
  BY <1>n, <1>w, Framed
<1>u. query' = query /\ Q!deps' = Q!deps /\ roots' = roots
  BY DEF Q!Leave, Q!deps
<1>f. Frame' = Frame
  BY <1>u DEF Frame
<1>c. /\ DOMAIN color' = DOMAIN Q!deps
      /\ \A g \in DOMAIN Q!deps : color'[g] = IF g = f THEN "black" ELSE color[g]
  <2>1. color' = [color EXCEPT ![f] = "black"]
    BY DEF Q!Leave
  <2> HIDE DEF f
  <2> QED BY <1>w, <1>d, <2>1 DEF WellFormed
<1>g. color[f] = "gray"
  BY <1>w, <1>d, <1>n DEF OpenPath
<1>s. /\ stack' \in Seq(Frame) /\ Len(stack') = n - 1
      /\ \A i \in 1 .. n - 1 : stack'[i] = stack[i]
  <2>1. stack' = SubSeq(stack, 1, n - 1)
    BY DEF Q!Leave
  <2>2. stack \in Seq(Frame) /\ n = Len(stack)
    BY <1>w DEF WellFormed
  <2>3. /\ SubSeq(stack, 1, n - 1) \in Seq(Frame) /\ Len(SubSeq(stack, 1, n - 1)) = n - 1
        /\ \A i \in 1 .. n - 1 : SubSeq(stack, 1, n - 1)[i] = stack[i]
    <3> HIDE DEF n
    <3>1. n - 1 \in Nat /\ n - 1 <= n
      BY <1>n
    <3> QED BY <2>2, <3>1
  <2> QED BY <2>1, <2>3
<1>b. \A g \in DOMAIN Q!deps : color[g] = "black" => color'[g] = "black"
  BY <1>c
<1>k. \A g \in Q!deps[f] : g \in DOMAIN Q!deps => g \in Black
  <2>1. ASSUME NEW g \in Q!deps[f], g \in DOMAIN Q!deps PROVE color[g] = "black"
    <3>1. g \notin stack[n].children
      BY <1>e
    <3>2. ~(n < n)
      BY <1>n
    <3> QED BY <1>w, <1>n, <2>1, <3>1, <3>2 DEF Visited
  <2> QED BY <1>w, <2>1 DEF Black, WellFormed
<1>1. WellFormed'
  <2>1. \A g \in DOMAIN Q!deps : color'[g] \in {"white", "gray", "black"}
    BY <1>c, <1>w DEF WellFormed
  <2>2. roots' \subseteq DOMAIN Q!deps
    BY <1>u, <1>w DEF WellFormed
  <2> QED BY <1>c, <1>s, <1>f, <1>u, <2>1, <2>2 DEF WellFormed
<1>2. OpenPath'
  <2>0. \A i, j \in 1 .. n : stack[i].name = stack[j].name => i = j
    BY <1>w DEF OpenPath
  <2>1. ASSUME NEW g \in DOMAIN Q!deps
        PROVE  color'[g] = "gray" <=> \E i \in 1 .. n - 1 : stack'[i].name = g
    <3>1. CASE g = f
      <4>1. \A i \in 1 .. n - 1 : stack[i].name # f
        BY <1>n, <2>0
      <4> QED BY <1>c, <1>s, <3>1, <4>1
    <3>2. CASE g # f
      <4>1. color'[g] = color[g]
        BY <1>c, <3>2
      <4>2. color[g] = "gray" <=> \E i \in 1 .. n : stack[i].name = g
        BY <1>w DEF OpenPath
      <4>3. \A i \in 1 .. n : stack[i].name = g => i \in 1 .. n - 1
        BY <1>n, <3>2
      <4> QED BY <1>n, <1>s, <4>1, <4>2, <4>3
    <3> QED BY <3>1, <3>2
  <2>2. \A i, j \in 1 .. n - 1 : stack'[i].name = stack'[j].name => i = j
    BY <1>n, <1>s, <2>0
  <2>3. \A i \in 1 .. n - 1 : stack'[i].children \subseteq Q!deps[stack'[i].name]
    BY <1>n, <1>s, <1>w DEF OpenPath
  <2>4. ASSUME NEW i \in 1 .. (n - 1) - 1 PROVE stack'[i + 1].name \in Q!deps[stack'[i].name]
    <3>1. i \in 1 .. n - 1 /\ i + 1 \in 1 .. n - 1
      BY <1>n, <2>4
    <3> QED BY <1>s, <1>w, <3>1 DEF OpenPath
  <2> QED BY <1>s, <1>u, <2>1, <2>2, <2>3, <2>4 DEF OpenPath
<1>3. Visited'
  <2>1. ASSUME NEW i \in 1 .. n - 1, NEW g \in Q!deps[stack'[i].name] \ stack'[i].children, g \in DOMAIN Q!deps
        PROVE  color'[g] = "black" \/ (i < n - 1 /\ g = stack'[i + 1].name)
    <3>1. g \in Q!deps[stack[i].name] \ stack[i].children
      BY <1>s, <2>1
    <3>2. color[g] = "black" \/ (i < n /\ g = stack[i + 1].name)
      BY <1>n, <1>w, <2>1, <3>1 DEF Visited
    <3>3. CASE i = n - 1
      <4>1. stack[i + 1].name = f
        BY <1>n, <3>3
      <4> QED BY <1>b, <1>c, <2>1, <3>2, <4>1
    <3>4. CASE i # n - 1
      <4>1. i < n - 1 /\ i + 1 \in 1 .. n - 1
        BY <1>n, <2>1, <3>4
      <4> QED BY <1>b, <1>s, <2>1, <3>2, <4>1
    <3> QED BY <3>3, <3>4
  <2>2. ASSUME NEW g \in DOMAIN Q!deps \ roots
        PROVE  color'[g] = "black" \/ (stack' # <<>> /\ g = stack'[1].name)
    <3>1. color[g] = "black" \/ g = stack[1].name
      BY <1>w, <2>2 DEF Visited
    <3>2. CASE n = 1
      BY <1>b, <1>c, <2>2, <3>1, <3>2
    <3>3. CASE n # 1
      <4>1. 1 \in 1 .. n - 1 /\ stack' # <<>>
        BY <1>n, <1>s, <3>3
      <4> QED BY <1>b, <1>s, <2>2, <3>1, <4>1
    <3> QED BY <3>2, <3>3
  <2> QED BY <1>s, <1>u, <2>1, <2>2 DEF Visited
<1>4. BlackDone'
  <2>1. Black' = Black \cup {f}
    BY <1>c, <1>d, <1>u, <1>w DEF Black, WellFormed
  <2>2. f \notin Black /\ Black \subseteq DOMAIN Q!deps
    BY <1>g, <1>w DEF Black, WellFormed
  <2>3. \A g \in Black : \A h \in Q!deps[g] : h \in DOMAIN Q!deps => h \in Black
    BY <1>w DEF BlackDone
  <2>4. \A g \in Black' : \A h \in Q!deps[g] : h \in DOMAIN Q!deps => h \in Black'
    BY <1>k, <2>1, <2>3
  <2>5. \A g \in Black' : f \notin Q!deps[g]
    BY <1>d, <1>k, <2>1, <2>2, <2>3
  <2>6. ASSUME NEW Cs \in SUBSET Black', Cs # {} PROVE \E g \in Cs : Q!deps[g] \cap Cs = {}
    <3>1. CASE Cs \ {f} = {}
      <4>1. f \in Cs /\ Q!deps[f] \cap Cs = {}
        BY <2>1, <2>5, <2>6, <3>1
      <4> QED BY <4>1
    <3>2. CASE Cs \ {f} # {}
      <4>1. Cs \ {f} \in SUBSET Black
        BY <2>1, <2>6
      <4>2. PICK g \in Cs \ {f} : Q!deps[g] \cap (Cs \ {f}) = {}
        BY <1>w, <3>2, <4>1 DEF BlackDone
      <4>3. f \notin Q!deps[g]
        BY <2>5, <2>6
      <4> QED BY <4>2, <4>3
    <3> QED BY <3>1, <3>2
  <2> QED BY <1>u, <2>4, <2>6 DEF BlackDone
<1> QED BY <1>u, <1>1, <1>2, <1>3, <1>4 DEF Search

\* Whatever order the search takes, a query is blocked exactly when it exceeds a
\* limit, with the first of them as the reason, and a request reaches its
\* handler only when no query of its body exceeds one (InspectGraphqlQuery,
\* hasGraphqlFragmentCycle, GraphqlGuard).
THEOREM VerdictsExact == Q!Spec => []VerdictExact
<1>0. Q!Options
  BY StandaloneOptions
<1> USE <1>0
<1>1. Q!Init => GuardInv
  <2> SUFFICES ASSUME Q!Init PROVE GuardInv
    OBVIOUS
  <2>1. [f \in {} |-> {}] \in Q!Graphs
    <3>1. [f \in {} |-> {}] \in [{} -> SUBSET Fragment]
      OBVIOUS
    <3> QED BY <3>1 DEF Q!Graphs
  <2> QED BY <2>1 DEF Q!Init, GuardInv, Q!VerdictExact, Q!Queries, Q!NoQuery
<1>2. GuardInv /\ [Q!Next]_(Q!vars) => GuardInv'
  <2> SUFFICES ASSUME GuardInv, [Q!Next]_(Q!vars) PROVE GuardInv'
    OBVIOUS
  <2>q. Q!NoQuery \in Q!Queries
    <3>1. [f \in {} |-> {}] \in [{} -> SUBSET Fragment]
      OBVIOUS
    <3>2. [f \in {} |-> {}] \in Q!Graphs
      BY <3>1 DEF Q!Graphs
    <3> QED BY <3>2 DEF Q!Queries, Q!NoQuery
  <2>1. CASE Q!Receive
    <3>0. left' \in 0 .. MaxBatch /\ MaxBatch \in Nat
      BY <2>1 DEF Q!Receive, Q!Options
    <3>1. left' \in Nat /\ (left' # 0 => left' >= 1)
      BY <3>0
    <3> QED BY <2>1, <3>1 DEF Q!Receive, GuardInv, Q!VerdictExact
  <2>2. CASE Q!Inspect
    <3>1. PICK b \in Braces, introspects, many, long \in BOOLEAN, g \in Q!Graphs :
             /\ query' = [deep |-> Q!Nesting(b) > MaxDepth, introspects |-> introspects,
                          many |-> many, long |-> long, deps |-> g]
             /\ IF Q!computeGraphqlDepth(b) > MaxDepth THEN Q!Block("depth")
                ELSE IF introspects THEN Q!Block("introspection")
                ELSE IF many THEN Q!Block("aliases")
                ELSE /\ at' = "walk"
                     /\ color' = [f \in DOMAIN g |-> "white"]
                     /\ stack' = <<>>
                     /\ roots' = DOMAIN g
                     /\ UNCHANGED <<left, reason>>
      BY <2>2 DEF Q!Inspect
    <3>2. Q!computeGraphqlDepth(b) = Q!Nesting(b)
      BY DepthIsNesting DEF Q!Options
    <3>3. query' \in Q!Queries
      BY <3>1 DEF Q!Queries
    <3>4. at = "inspect" /\ clean' = clean
      BY <2>2 DEF Q!Inspect
    <3>d. Q!deps' = g
      BY <3>1 DEF Q!deps
    <3>5. CASE at' = "blocked"
      <4>1. reason' \in {"depth", "introspection", "aliases"} /\ reason' = Q!FirstReason' /\ left' = left
        BY <3>1, <3>2, <3>5 DEF Q!Block, Q!FirstReason
      <4> QED BY <3>3, <3>4, <3>5, <4>1 DEF GuardInv, Q!VerdictExact
    <3>6. CASE at' # "blocked"
      <4>1. /\ ~query'.deep /\ ~query'.introspects /\ ~query'.many
            /\ at' = "walk" /\ left' = left
            /\ color' = [f \in DOMAIN g |-> "white"] /\ stack' = <<>> /\ roots' = DOMAIN g
        BY <3>1, <3>2, <3>6 DEF Q!Block
      <4>2. Search'
        BY <3>d, <4>1, SearchStarts
      <4> QED BY <3>3, <3>4, <4>1, <4>2 DEF GuardInv, Q!VerdictExact
    <3> QED BY <3>5, <3>6
  <2>3. CASE Q!Visit
    <3>1. PICK f \in Q!Callees :
             \/ Q!BackEdge(f)
             \/ /\ Q!Skip(f) \/ Q!Enter(f)
                /\ roots' = IF stack = <<>> THEN roots \ {f} ELSE roots
      BY <2>3 DEF Q!Visit
    <3>2. at = "walk" /\ Search
      BY <2>3 DEF Q!Visit, GuardInv
    <3>3. CASE Q!BackEdge(f)
      <4>1. Q!Cyclic(Q!deps)
        BY <3>2, <3>3, BackEdgeCyclic DEF Q!BackEdge
      <4>2. query' = query /\ clean' = clean /\ at' = "blocked" /\ reason' = "fragment_cycle" /\ left' = left
        BY <3>3 DEF Q!BackEdge, Q!Block
      <4>3. Q!FirstReason' = Q!FirstReason
        BY <4>2 DEF Q!FirstReason, Q!deps, Q!Cyclic
      <4>4. Q!FirstReason = "fragment_cycle"
        BY <3>2, <4>1 DEF Q!FirstReason, Search
      <4> QED BY <4>2, <4>3, <4>4 DEF GuardInv, Q!VerdictExact
    <3>4. CASE /\ Q!Skip(f) \/ Q!Enter(f)
               /\ roots' = IF stack = <<>> THEN roots \ {f} ELSE roots
      <4>1. at' = at /\ left' = left /\ clean' = clean /\ query' = query
        BY <3>4 DEF Q!Skip, Q!Enter
      <4>2. Search'
        <5>1. query \in Q!Queries
          BY DEF GuardInv
        <5>2. CASE Q!Skip(f)
          BY <3>2, <3>4, <5>2, SkipKeeps
        <5>3. CASE Q!Enter(f)
          BY <3>2, <3>4, <5>1, <5>3, EnterKeeps
        <5> QED BY <3>4, <5>2, <5>3
      <4> QED BY <3>2, <4>1, <4>2 DEF GuardInv, Q!VerdictExact
    <3> QED BY <3>1, <3>3, <3>4
  <2>4. CASE Q!Leave
    <3>1. at = "walk" /\ at' = at /\ left' = left /\ clean' = clean /\ query' = query
      BY <2>4 DEF Q!Leave
    <3>2. Search'
      BY <2>4, <3>1, LeaveKeeps DEF GuardInv
    <3> QED BY <3>1, <3>2 DEF GuardInv, Q!VerdictExact
  <2>5. CASE Q!Clear
    <3>1. at = "walk" /\ stack = <<>> /\ roots = {} /\ Search /\ left >= 1 /\ left \in Nat /\ clean = TRUE
      BY <2>5 DEF Q!Clear, GuardInv
    <3>2. ~Q!Cyclic(Q!deps) /\ ~query.deep /\ ~query.introspects /\ ~query.many
      BY <3>1, SearchedAcyclic DEF Search
    <3>3. CASE query.long
      <4>1. query' = query /\ clean' = clean /\ at' = "blocked" /\ reason' = "length" /\ left' = left
        BY <2>5, <3>3 DEF Q!Clear, Q!Block
      <4>2. Q!FirstReason' = Q!FirstReason
        BY <4>1 DEF Q!FirstReason, Q!deps, Q!Cyclic
      <4>3. Q!FirstReason = "length"
        BY <3>2, <3>3 DEF Q!FirstReason
      <4> QED BY <3>1, <4>1, <4>2, <4>3 DEF GuardInv, Q!VerdictExact
    <3>4. CASE ~query.long
      <4>1. Q!FirstReason = ""
        BY <3>2, <3>4 DEF Q!FirstReason
      <4>2. /\ left' = left - 1 /\ at' = IF left = 1 THEN "handler" ELSE "inspect"
            /\ clean' = (clean /\ Q!FirstReason = "") /\ query' = Q!NoQuery
        BY <2>5, <3>4 DEF Q!Clear
      <4>3. left' \in Nat /\ (left # 1 => left' >= 1) /\ (left = 1 => left' = 0)
        <5>1. left' = left - 1
          BY <4>2
        <5> QED BY <3>1, <5>1
      <4>4. clean' = TRUE
        BY <3>1, <4>1, <4>2, Zenon
      <4> QED BY <2>q, <4>2, <4>3, <4>4 DEF GuardInv, Q!VerdictExact
    <3> QED BY <3>3, <3>4
  <2>6. CASE Q!Done
    BY <2>6, <2>q DEF Q!Done, GuardInv, Q!VerdictExact
  <2>7. CASE UNCHANGED Q!vars
    <3>1. /\ at' = at /\ left' = left /\ query' = query /\ color' = color /\ stack' = stack
          /\ roots' = roots /\ reason' = reason /\ clean' = clean /\ Q!deps' = Q!deps
      BY <2>7 DEF Q!vars, Q!deps
    <3>2. Frame' = Frame /\ Black' = Black /\ Q!FirstReason' = Q!FirstReason
      BY <3>1 DEF Frame, Black, Q!FirstReason, Q!Cyclic
    <3>3. Search => WellFormed' /\ OpenPath'
      BY <3>1, <3>2 DEF Search, WellFormed, OpenPath
    <3>4. Search => Visited' /\ BlackDone'
      BY <3>1, <3>2 DEF Search, Visited, BlackDone
    <3>5. Search => Search'
      BY <3>1, <3>3, <3>4 DEF Search
    <3> QED BY <3>1, <3>2, <3>5 DEF GuardInv, Q!VerdictExact
  <2> QED BY <2>1, <2>2, <2>3, <2>4, <2>5, <2>6, <2>7 DEF Q!Next
<1>3. GuardInv => Q!VerdictExact
  BY DEF GuardInv
<1> QED BY <1>1, <1>2, <1>3, PTL DEF Q!Spec, VerdictExact
-----------------------------------------------------------------------------
(* CSRF protection. *)

\* Without the two deployments whose answers break a property (MCCsrf).
Sound ==
    /\ Setups \subseteq C!Deployment
    /\ \A s \in Setups : ~(s.adapter = "gin" /\ s.onError) /\ ~(s.adapter = "echo" /\ s.renamed)

\* An answer sets a cookie only where the request had none, and lets the handler
\* run once for what needs no token or brought the right one.
Judged(r, a) ==
    /\ a.cookie # NoToken => r.cookie = NoToken
    /\ a.runs \in {0, 1} /\ (a.runs = 1 <=> ~a.rejected)
    /\ a.rejected => r.kind # "safe"
    /\ a.runs = 1 => r.kind = "safe" \/ r.exempt # "no" \/ (r.token = r.cookie /\ r.cookie # NoToken)
    /\ (r.carrier = "header" /\ r.token = r.cookie /\ r.cookie # NoToken) => ~a.rejected

LEMMA AnswersJudged ==
    ASSUME Sound, setup \in Setups, NEW r, r.kind \in {"safe", "protected"}, NEW a \in C!Answers(r)
    PROVE  Judged(r, a) /\ a # C!Idle
<1>1. setup.adapter \in {"http", "gin", "echo"} /\ setup.onError \in BOOLEAN /\ setup.renamed \in BOOLEAN
  BY DEF Sound, C!Deployment
<1>2. ASSUME NEW b \in C!HandlerAnswers(r) PROVE Judged(r, b) /\ b # C!Idle
  <2> DEFINE passes == C!ValidateCsrfToken(r.cookie, C!getRequestToken(r))
  <2>v. /\ passes => r.token = r.cookie /\ r.cookie # NoToken
        /\ (r.carrier = "header" /\ r.token = r.cookie /\ r.cookie # NoToken) => passes
    BY DEF C!ValidateCsrfToken, C!getRequestToken
  <2>1. CASE r.exempt # "no"
    <3>1. b = C!Answer(NoToken, 1, FALSE)
      BY <1>2, <2>1 DEF C!HandlerAnswers
    <3>2. b.cookie = NoToken /\ b.runs = 1 /\ b.rejected = FALSE /\ b # C!Idle
      BY <3>1 DEF C!Answer, C!Idle
    <3> QED BY <2>1, <3>2 DEF Judged
  <2>2. CASE r.exempt = "no" /\ C!Safe(r)
    <3>1. PICK c \in IF C!LacksCookie(r) THEN C!Generated ELSE {NoToken} : b = C!Answer(c, 1, FALSE)
      BY <1>2, <2>2 DEF C!HandlerAnswers
    <3>2. c # NoToken => r.cookie = NoToken
      BY <3>1 DEF C!LacksCookie
    <3>3. b.cookie = c /\ b.runs = 1 /\ b.rejected = FALSE /\ b # C!Idle
      BY <3>1 DEF C!Answer, C!Idle
    <3> QED BY <2>2, <3>2, <3>3 DEF Judged, C!Safe
  <2>3. CASE r.exempt = "no" /\ ~C!Safe(r) /\ passes
    <3>1. b = C!Answer(NoToken, 1, FALSE)
      BY <1>2, <2>3 DEF C!HandlerAnswers
    <3>2. b.cookie = NoToken /\ b.runs = 1 /\ b.rejected = FALSE /\ b # C!Idle
      BY <3>1 DEF C!Answer, C!Idle
    <3> HIDE DEF passes
    <3> QED BY <2>v, <2>3, <3>2 DEF Judged
  <2>4. CASE r.exempt = "no" /\ ~C!Safe(r) /\ ~passes
    <3>1. b = C!Answer(NoToken, 0, TRUE)
      BY <1>2, <2>4 DEF C!HandlerAnswers
    <3>2. b.cookie = NoToken /\ b.runs = 0 /\ b.rejected = TRUE /\ b # C!Idle
      BY <3>1 DEF C!Answer, C!Idle
    <3> HIDE DEF passes
    <3> QED BY <2>v, <2>4, <3>2 DEF Judged, C!Safe
  <2> QED BY <2>1, <2>2, <2>3, <2>4
<1>3. CASE setup.adapter = "http"
  BY <1>2, <1>3 DEF C!Answers
<1>4. CASE setup.adapter = "gin"
  <2>1. ~setup.onError
    BY <1>4 DEF Sound
  <2>2. a \in C!GinAnswers(r)
    BY <1>4 DEF C!Answers
  <2>3. a \in C!HandlerAnswers(r)
    BY <2>1, <2>2 DEF C!GinAnswers
  <2> QED BY <1>2, <2>3
<1>5. CASE setup.adapter = "echo"
  <2>0. ~setup.renamed
    BY <1>5 DEF Sound
  <2>a. a \in C!EchoAnswers(r)
    BY <1>5 DEF C!Answers
  <2>1. CASE C!Safe(r)
    <3>1. PICK c \in IF setup.renamed \/ r.cookie = NoToken THEN C!Generated ELSE {NoToken} :
             a = C!Answer(c, 1, FALSE)
      BY <2>a, <2>1 DEF C!EchoAnswers
    <3>2. c # NoToken => r.cookie = NoToken
      BY <2>0, <3>1
    <3>3. a.cookie = c /\ a.runs = 1 /\ a.rejected = FALSE /\ a # C!Idle
      BY <3>1 DEF C!Answer, C!Idle
    <3> QED BY <2>1, <3>2, <3>3 DEF Judged, C!Safe
  <2>2. CASE ~C!Safe(r)
    <3> DEFINE token == IF r.carrier = "header" THEN r.token ELSE NoToken
               passes == r.exempt = "path" \/ C!ValidateCsrfToken(r.cookie, token)
    <3>1. a \in IF passes THEN {C!Answer(NoToken, 1, FALSE)} ELSE {C!Answer(NoToken, 0, TRUE)}
      BY <2>a, <2>2 DEF C!EchoAnswers
    <3>2. CASE passes
      <4>1. a.cookie = NoToken /\ a.runs = 1 /\ a.rejected = FALSE /\ a # C!Idle
        BY <3>1, <3>2 DEF C!Answer, C!Idle
      <4>2. r.exempt # "no" \/ (r.token = r.cookie /\ r.cookie # NoToken)
        BY <3>2 DEF C!ValidateCsrfToken
      <4> QED BY <4>1, <4>2 DEF Judged
    <3>3. CASE ~passes
      <4>1. a.cookie = NoToken /\ a.runs = 0 /\ a.rejected = TRUE /\ a # C!Idle
        BY <3>1, <3>3 DEF C!Answer, C!Idle
      <4>2. ~(r.carrier = "header" /\ r.token = r.cookie /\ r.cookie # NoToken)
        BY <3>3 DEF C!ValidateCsrfToken
      <4> QED BY <2>2, <4>1, <4>2 DEF Judged, C!Safe
    <3> QED BY <3>2, <3>3
  <2> QED BY <2>1, <2>2
<1> QED BY <1>1, <1>3, <1>4, <1>5

\* The inductive invariant: every answer is judged, and while some page is
\* settled the jar is what that page read, and all under way leave it alone.
BrowserInv ==
    /\ setup \in Setups
    /\ DOMAIN request = Tab /\ DOMAIN answer = Tab /\ DOMAIN page = Tab /\ DOMAIN settled = Tab
    /\ \A t \in Tab : request[t] # C!Idle => request[t].kind \in {"safe", "protected"}
    /\ \A t \in Tab : answer[t] # C!Idle => request[t] # C!Idle /\ Judged(request[t], answer[t])
    /\ \A t \in Tab : settled[t] => C!Settled /\ page[t] = jar
    /\ \A t \in Tab : settled[t] /\ request[t] # C!Idle =>
          request[t].token = page[t] /\ request[t].cookie = page[t]

LEMMA BrowserInvHolds == ASSUME Sound PROVE C!Spec => []BrowserInv
<1>1. C!Init => BrowserInv
  BY DEF C!Init, BrowserInv
<1>2. BrowserInv /\ [C!Next]_(C!vars) => BrowserInv'
  <2> SUFFICES ASSUME BrowserInv, [C!Next]_(C!vars) PROVE BrowserInv'
    OBVIOUS
  <2>1. ASSUME NEW t \in Tab, C!Serve(t) PROVE BrowserInv'
    <3>1. /\ request[t] # C!Idle /\ answer[t] = C!Idle
          /\ setup' = setup /\ jar' = jar /\ page' = page /\ settled' = settled /\ request' = request
      BY <2>1 DEF C!Serve
    <3>2. PICK a \in C!Answers(request[t]) : answer' = [answer EXCEPT ![t] = a]
      BY <2>1 DEF C!Serve
    <3>3. Judged(request[t], a) /\ a # C!Idle
      BY <3>1, <3>2, AnswersJudged DEF BrowserInv
    <3>4. DOMAIN answer' = Tab /\ \A u \in Tab : answer'[u] = IF u = t THEN a ELSE answer[u]
      BY <3>2 DEF BrowserInv
    <3>5. \A u \in Tab : answer'[u] # C!Idle => request[u] # C!Idle /\ Judged(request[u], answer'[u])
      BY <3>1, <3>3, <3>4 DEF BrowserInv
    <3>6. C!Settled' = C!Settled
      BY <3>1 DEF C!Settled
    <3> QED BY <3>1, <3>4, <3>5, <3>6 DEF BrowserInv, Judged
  <2>2. ASSUME NEW t \in Tab, C!Load(t) PROVE BrowserInv'
    <3>1. /\ request[t] = C!Idle /\ request' = request /\ answer' = answer /\ setup' = setup /\ jar' = jar
          /\ page' = [page EXCEPT ![t] = jar] /\ settled' = [settled EXCEPT ![t] = C!Settled]
      BY <2>2 DEF C!Load
    <3>2. /\ DOMAIN page' = Tab /\ DOMAIN settled' = Tab
          /\ \A u \in Tab : page'[u] = IF u = t THEN jar ELSE page[u]
          /\ \A u \in Tab : settled'[u] = IF u = t THEN C!Settled ELSE settled[u]
      BY <3>1 DEF BrowserInv
    <3>3. C!Settled' <=> C!Settled
      BY <3>1 DEF C!Settled
    <3>4. \A u \in Tab : settled'[u] => C!Settled' /\ page'[u] = jar'
      BY <3>1, <3>2, <3>3 DEF BrowserInv
    <3>5. \A u \in Tab : settled'[u] /\ request[u] # C!Idle =>
             request[u].token = page'[u] /\ request[u].cookie = page'[u]
      BY <3>1, <3>2 DEF BrowserInv
    <3> QED BY <3>1, <3>2, <3>4, <3>5 DEF BrowserInv, Judged
  <2>3. ASSUME NEW t \in Tab, C!Send(t) PROVE BrowserInv'
    <3>1. /\ request[t] = C!Idle /\ answer' = answer /\ setup' = setup /\ jar' = jar
          /\ page' = page /\ settled' = settled
      BY <2>3 DEF C!Send
    <3>2. PICK s \in C!Shape : request' = [request EXCEPT ![t] =
              [kind |-> s.kind, carrier |-> s.carrier, exempt |-> s.exempt,
               cookie |-> jar, token |-> page[t]]]
      BY <2>3 DEF C!Send
    <3> DEFINE r == [kind |-> s.kind, carrier |-> s.carrier, exempt |-> s.exempt,
                     cookie |-> jar, token |-> page[t]]
    <3>3. r.cookie = jar /\ r.token = page[t] /\ r.kind \in {"safe", "protected"}
      BY DEF C!Shape
    <3>4. request' = [request EXCEPT ![t] = r]
      BY <3>2
    <3> HIDE DEF r
    <3>5. DOMAIN request' = Tab /\ \A u \in Tab : request'[u] = IF u = t THEN r ELSE request[u]
      BY <3>4 DEF BrowserInv
    <3>6. answer[t] = C!Idle
      BY <3>1 DEF BrowserInv
    <3>7. C!Settled => C!Settled'
      BY <3>1, <3>3, <3>5 DEF C!Settled
    <3>8. \A u \in Tab : request'[u] # C!Idle => request'[u].kind \in {"safe", "protected"}
      BY <3>3, <3>5 DEF BrowserInv
    <3>9. \A u \in Tab : answer[u] # C!Idle => request'[u] # C!Idle /\ Judged(request'[u], answer[u])
      BY <3>5, <3>6 DEF BrowserInv
    <3>10. \A u \in Tab : settled[u] => C!Settled' /\ page[u] = jar
      BY <3>7 DEF BrowserInv
    <3>11. \A u \in Tab : settled[u] /\ request'[u] # C!Idle =>
              request'[u].token = page[u] /\ request'[u].cookie = page[u]
      BY <3>3, <3>5, <3>10 DEF BrowserInv
    <3> QED BY <3>1, <3>5, <3>8, <3>9, <3>10, <3>11 DEF BrowserInv, Judged
  <2>4. ASSUME NEW t \in Tab, C!Receive(t) PROVE BrowserInv'
    <3>1. /\ answer[t] # C!Idle /\ jar' = IF answer[t].cookie = NoToken THEN jar ELSE answer[t].cookie
          /\ request' = [request EXCEPT ![t] = C!Idle] /\ answer' = [answer EXCEPT ![t] = C!Idle]
          /\ setup' = setup /\ page' = page /\ settled' = settled
      BY <2>4 DEF C!Receive
    <3>2. /\ DOMAIN request' = Tab /\ DOMAIN answer' = Tab
          /\ \A u \in Tab : request'[u] = IF u = t THEN C!Idle ELSE request[u]
          /\ \A u \in Tab : answer'[u] = IF u = t THEN C!Idle ELSE answer[u]
      BY <3>1 DEF BrowserInv
    <3>3. answer[t].cookie # NoToken => request[t].cookie = NoToken /\ request[t] # C!Idle
      BY <3>1 DEF BrowserInv, Judged
    <3>4. C!Settled => jar' = jar /\ C!Settled'
      BY <3>1, <3>2, <3>3 DEF C!Settled
    <3>5. \A u \in Tab : settled[u] => C!Settled' /\ page[u] = jar'
      BY <3>4 DEF BrowserInv
    <3>6. \A u \in Tab : request'[u] # C!Idle => request'[u] = request[u] /\ u # t
      BY <3>2
    <3>7. \A u \in Tab : answer'[u] # C!Idle => answer'[u] = answer[u] /\ request'[u] = request[u]
      BY <3>2
    <3>8. \A u \in Tab : answer'[u] # C!Idle => request'[u] # C!Idle /\ Judged(request'[u], answer'[u])
      BY <3>7 DEF BrowserInv
    <3> QED BY <3>1, <3>2, <3>5, <3>6, <3>8 DEF BrowserInv, Judged
  <2>5. CASE UNCHANGED C!vars
    BY <2>5 DEF C!vars, BrowserInv, C!Settled, Judged
  <2> QED BY <2>1, <2>2, <2>3, <2>4, <2>5 DEF C!Next
<1> QED BY <1>1, <1>2, PTL DEF C!Spec

\* The handler runs once, and only for requests that need no token or proved to
\* have read the cookie they came with (Handler, Check, and the adapters' wraps).
THEOREM VerifiedOnly == ASSUME Sound PROVE C!Spec => []OnlyVerifiedHandled
<1>1. BrowserInv => C!OnlyVerifiedHandled
  BY DEF BrowserInv, Judged, C!OnlyVerifiedHandled, C!Safe
<1> QED BY <1>1, BrowserInvHolds, PTL DEF OnlyVerifiedHandled

\* A page that reads its token once nothing under way can change the cookie
\* keeps working, whatever its other tabs load meanwhile and in whatever order
\* the answers reach the jar (Handler, Check, setCookie).
THEOREM SettledAccepted == ASSUME Sound PROVE C!Spec => []SettledPageAccepted
<1>1. BrowserInv => C!SettledPageAccepted
  BY DEF BrowserInv, Judged, C!SettledPageAccepted, C!Settled
<1> QED BY <1>1, BrowserInvHolds, PTL DEF SettledPageAccepted

-----------------------------------------------------------------------------
(* The endpoint protections. *)

\* Counting drops leading stamps, of the past only.
LEMMA Counts ==
    ASSUME NEW s \in Seq(Nat), now \in Nat, LoginWindow \in Nat
    PROVE  \E first \in 1 .. Len(s) + 1 :
              /\ P!Counting(s) = SubSeq(s, first, Len(s))
              /\ \A j \in 1 .. first - 1 : s[j] + LoginWindow < now
<1> DEFINE First(i) == /\ \A j \in 1 .. i - 1 : s[j] + LoginWindow < now
                       /\ i <= Len(s) => s[i] + LoginWindow >= now
           Ends == {i \in 1 .. Len(s) + 1 : i <= Len(s) => s[i] + LoginWindow >= now}
<1>1. Len(s) \in Nat /\ \A i \in 1 .. Len(s) : s[i] \in Nat
  OBVIOUS
<1>2. Len(s) + 1 \in Ends /\ Ends \subseteq Nat
  BY <1>1
<1>3. PICK i \in Ends : \A j \in Ends : i <= j
  <2> HIDE DEF Ends
  <2> QED BY <1>2, Least
<1>4. \A j \in 1 .. i - 1 : j \in 1 .. Len(s) /\ j \notin Ends
  BY <1>1, <1>3
<1>5. \A j \in 1 .. i - 1 : s[j] + LoginWindow < now
  BY <1>1, <1>4, SMTT(60)
<1>6. i \in 1 .. Len(s) + 1 /\ First(i)
  BY <1>3, <1>5
<1>7. P!Counting(s) = LET first == CHOOSE k \in 1 .. Len(s) + 1 : First(k) IN SubSeq(s, first, Len(s))
  BY DEF P!Counting
<1> HIDE DEF First
<1>8. PICK first \in 1 .. Len(s) + 1 : First(first) /\ P!Counting(s) = SubSeq(s, first, Len(s))
  BY <1>6, <1>7
<1> QED BY <1>8 DEF First

\* The last n stamps of s were made no more than a window before r.
Recent(s, n, r) ==
    /\ n <= Len(s)
    /\ \A i \in Len(s) - n + 1 .. Len(s) : s[i] + LoginWindow >= r

LEMMA RecentKept ==
    ASSUME NEW s \in Seq(Nat), now \in Nat, LoginWindow \in Nat, NEW n \in Nat, NEW r \in Nat,
           Recent(s, n, r), r >= now
    PROVE  Recent(P!Counting(s), n, r)
<1>1. PICK first \in 1 .. Len(s) + 1 : /\ P!Counting(s) = SubSeq(s, first, Len(s))
                                       /\ \A j \in 1 .. first - 1 : s[j] + LoginWindow < now
  BY Counts
<1> DEFINE l == Len(s)
           c == P!Counting(s)
<1>2. l \in Nat /\ \A i \in 1 .. l : s[i] \in Nat
  OBVIOUS
<1>3. Len(c) = l - first + 1 /\ \A i \in 1 .. Len(c) : c[i] = s[i + first - 1]
  BY <1>1
<1>4. first <= l - n + 1
  <2>1. CASE n = 0
    BY <1>2, <2>1
  <2>2. CASE n # 0
    <3>1. l - n + 1 \in 1 .. l /\ l - n + 1 \in l - n + 1 .. l
      BY <1>2, <2>2 DEF Recent
    <3>2. s[l - n + 1] + LoginWindow >= r
      BY <3>1 DEF Recent
    <3>3. ~(s[l - n + 1] + LoginWindow < now)
      BY <1>2, <3>1, <3>2
    <3>4. ~(l - n + 1 <= first - 1)
      BY <1>1, <1>2, <3>1, <3>3
    <3> QED BY <1>2, <3>4
  <2> QED BY <2>1, <2>2
<1> HIDE DEF c, l
<1>5. n <= Len(c)
  BY <1>2, <1>3, <1>4
<1>6. ASSUME NEW i \in Len(c) - n + 1 .. Len(c) PROVE c[i] + LoginWindow >= r
  <2>1. i \in 1 .. Len(c) /\ i + first - 1 \in l - n + 1 .. l
    BY <1>2, <1>3, <1>4, <1>5, <1>6
  <2> QED BY <1>3, <2>1 DEF Recent, l
<1> QED BY <1>5, <1>6 DEF Recent, c

LEMMA RecentMore ==
    ASSUME NEW s \in Seq(Nat), now \in Nat, LoginWindow \in Nat, NEW n \in Nat, NEW r \in Nat,
           Recent(s, n, r), r <= now + LoginWindow
    PROVE  Recent(Append(s, now), n + 1, r)
<1>1. Len(Append(s, now)) = Len(s) + 1 /\ Len(s) \in Nat
  OBVIOUS
<1>2. /\ \A i \in 1 .. Len(s) : Append(s, now)[i] = s[i]
      /\ Append(s, now)[Len(s) + 1] = now
  OBVIOUS
<1> DEFINE a == Append(s, now)
<1> HIDE DEF a
<1>3. ASSUME NEW i \in Len(s) + 1 - (n + 1) + 1 .. Len(s) + 1 PROVE a[i] + LoginWindow >= r
  <2>1. CASE i = Len(s) + 1
    BY <1>2, <2>1 DEF a
  <2>2. CASE i # Len(s) + 1
    <3>1. i \in Len(s) - n + 1 .. Len(s) /\ i \in 1 .. Len(s)
      BY <1>1, <1>3, <2>2 DEF Recent
    <3> QED BY <1>2, <3>1 DEF a, Recent
  <2> QED BY <2>1, <2>2
<1> QED BY <1>1, <1>3 DEF Recent, a

LEMMA CountsType ==
    ASSUME NEW s \in Seq(Nat), now \in Nat, LoginWindow \in Nat
    PROVE  P!Counting(s) \in Seq(Nat)
<1>1. PICK first \in 1 .. Len(s) + 1 : P!Counting(s) = SubSeq(s, first, Len(s))
  BY Counts
<1>2. SubSeq(s, first, Len(s)) \in Seq(Nat)
  OBVIOUS
<1> QED BY <1>1, <1>2

\* The inductive invariant: while the window of an IP lasts, every request it
\* counts is among the stamps that count.
Backed ==
    /\ now \in Nat /\ opts \in Protections
    /\ counters \in [Key -> P!L!Entry \cup {NoEntry}]
    /\ screened \in [Key -> Seq(Nat)]
    /\ \A who \in Key : counters[who] # NoEntry =>
          /\ counters[who].resetTime <= now + LoginWindow
          /\ counters[who].resetTime >= now =>
                Recent(screened[who], counters[who].count, counters[who].resetTime)

Entitled ==
    /\ verdict' = "rate_limited" => Len(screened'[attempt']) > LoginMax
    /\ verdict' = "ok" /\ opts.limited =>
          /\ counters'[attempt'].count <= LoginMax
          /\ counters'[attempt'].count <= Len(screened'[attempt'])

\* Check, whatever the request is: an objection leaves the limiter alone.
LEMMA ConcludeKeeps ==
    ASSUME P!L!LimiterAssumption, Backed, NEW a, a.ip \in Key,
           NEW why \in {"ok", "bot", "missing_credentials", "missing_email", "invalid_email",
                           "disposable_email", "bad_origin", "threat"},
           P!Conclude(a, why)
    PROVE  Backed' /\ Entitled
<1> DEFINE who == a.ip
           e == counters[who]
           c == P!Counting(screened[who])
<1>t. /\ now \in Nat /\ LoginWindow \in Nat /\ LoginWindow >= 1 /\ LoginMax \in Nat /\ LoginMax >= 1 /\ who \in Key
      /\ opts \in Protections
  BY DEF Backed, P!L!LimiterAssumption
<1>e. \A i \in Key : counters[i] # NoEntry => counters[i] \in P!L!Entry
  <2>1. \A i \in Key : counters[i] \in P!L!Entry \cup {NoEntry}
    BY DEF Backed
  <2> QED BY <2>1
<1>n. \A x \in P!L!Entry : x # NoEntry
  BY DEF P!L!LimiterAssumption
<1>c. \A i \in Key : screened[i] \in Seq(Nat) /\ P!Counting(screened[i]) \in Seq(Nat)
  BY <1>t, CountsType DEF Backed
<1>k. ASSUME NEW i \in Key, counters[i] # NoEntry, counters[i].resetTime >= now
      PROVE  Recent(P!Counting(screened[i]), counters[i].count, counters[i].resetTime)
  <2>1. counters[i].count \in Nat /\ counters[i].resetTime \in Nat
    BY <1>e, <1>k DEF P!L!Entry
  <2> QED BY <1>t, <1>c, <1>k, <2>1, RecentKept DEF Backed
<1>1. ASSUME counters' = counters, now' = now, opts' = opts,
             \A i \in Key : screened'[i] = P!Counting(screened[i]),
             screened' \in [Key -> Seq(Nat)]
      PROVE  Backed'
  BY <1>1, <1>k DEF Backed
<1>2. CASE why # "ok"
  <2>1. P!Block(a, why)
    BY <1>2 DEF P!Conclude
  <2>2. /\ counters' = counters /\ now' = now /\ opts' = opts /\ verdict' = why
        /\ screened' = [i \in Key |-> P!Counting(screened[i])]
    BY <1>2, <2>1 DEF P!Block, P!CountedAfter, P!limiterVars
  <2>3. Backed'
    BY <1>1, <1>c, <2>2
  <2> QED BY <1>2, <2>2, <2>3 DEF Entitled
<1>3. CASE why = "ok"
  <2>1. P!Limit(a)
    BY <1>3 DEF P!Conclude
  <2>2. attempt' = who /\ opts' = opts /\ screened' = P!CountedAfter(a, "ok")
    BY <2>1 DEF P!Limit
  <2>3. CASE ~opts.limited
    <3>1. verdict' = "ok" /\ counters' = counters /\ now' = now
      BY <2>1, <2>3 DEF P!Limit, P!limiterVars
    <3>2. screened' = [i \in Key |-> P!Counting(screened[i])]
      BY <2>2, <2>3 DEF P!CountedAfter
    <3>3. Backed'
      BY <1>1, <1>c, <2>2, <3>1, <3>2
    <3> QED BY <2>3, <3>1, <3>3 DEF Entitled
  <2>4. CASE opts.limited
    <3>1. P!L!CheckKey(who) /\ verdict' = IF limit'.allowed THEN "ok" ELSE "rate_limited"
      BY <2>1, <2>4 DEF P!Limit
    <3>2. /\ screened' \in [Key -> Seq(Nat)]
          /\ \A i \in Key : screened'[i] = IF i = who THEN Append(c, now) ELSE P!Counting(screened[i])
      <4>1. screened' = [i \in Key |-> IF i = who THEN Append(c, now) ELSE P!Counting(screened[i])]
        BY <2>2, <2>4 DEF P!CountedAfter
      <4>2. Append(c, now) \in Seq(Nat)
        BY <1>c, <1>t
      <4> QED BY <1>c, <4>1, <4>2
    <3>3. PICK x \in P!L!Entry : /\ counters' = [counters EXCEPT ![who] = x] /\ now' = now
                                 /\ x.resetTime <= now + LoginWindow
                                 /\ Recent(Append(c, now), x.count, x.resetTime)
                                 /\ limit'.allowed <=> x.count <= LoginMax
      <4>1. CASE P!L!OpenWindow(who)
        <5> DEFINE x == [count |-> 1, resetTime |-> now + LoginWindow]
        <5>1. x \in P!L!Entry /\ x.resetTime = now + LoginWindow /\ x.count = 1
          BY <1>t DEF P!L!Entry
        <5>2. counters' = [counters EXCEPT ![who] = x] /\ now' = now /\ limit' = [key |-> who, allowed |-> TRUE]
          BY <4>1 DEF P!L!OpenWindow, P!L!EndOf
        <5> HIDE DEF x
        <5>3. Recent(Append(c, now), 1, now + LoginWindow)
          <6>1. Recent(c, 0, now + LoginWindow)
            BY <1>c, <1>t DEF Recent
          <6>2. c \in Seq(Nat) /\ 0 \in Nat /\ now + LoginWindow \in Nat /\ now + LoginWindow <= now + LoginWindow
            BY <1>c, <1>t
          <6>3. Recent(Append(c, now), 0 + 1, now + LoginWindow)
            <7> HIDE DEF c
            <7> QED BY <1>t, <6>1, <6>2, RecentMore
          <6> QED BY <6>3
        <5>4. limit'.allowed <=> x.count <= LoginMax
          BY <1>t, <5>1, <5>2
        <5>5. x.resetTime <= now + LoginWindow
          BY <1>t, <5>1
        <5> QED BY <5>1, <5>2, <5>3, <5>4, <5>5
      <4>2. CASE P!L!CountRequest(who)
        <5> DEFINE x == P!L!Bump(e)
        <5>1. /\ e # NoEntry /\ ~P!L!Over(e, now) /\ counters' = [counters EXCEPT ![who] = x] /\ now' = now
              /\ limit' = [key |-> who, allowed |-> x.count <= LoginMax]
          BY <4>2 DEF P!L!CountRequest
        <5>2. e \in P!L!Entry
          BY <1>e, <1>t, <5>1
        <5>3. /\ x \in P!L!Entry /\ x.count = e.count + 1 /\ x.resetTime = e.resetTime
              /\ e.count \in Nat /\ e.resetTime \in Nat
          BY <5>2 DEF P!L!Bump, P!L!Entry
        <5>4. e.resetTime <= now + LoginWindow /\ e.resetTime >= now
          BY <1>t, <5>1, <5>3 DEF Backed, P!L!Over
        <5>5. Recent(c, e.count, e.resetTime)
          BY <1>k, <1>t, <5>1, <5>4
        <5>6. Recent(Append(c, now), e.count + 1, e.resetTime)
          <6>1. c \in Seq(Nat)
            BY <1>c, <1>t
          <6> HIDE DEF c, e
          <6> QED BY <1>t, <5>3, <5>4, <5>5, <6>1, RecentMore
        <5>7. limit'.allowed <=> x.count <= LoginMax
          BY <5>1
        <5> HIDE DEF x, e
        <5> QED BY <5>1, <5>3, <5>4, <5>6, <5>7
      <4> QED BY <3>1, <4>1, <4>2 DEF P!L!CheckKey
    <3>4. counters' \in [Key -> P!L!Entry \cup {NoEntry}] /\ counters'[who] = x
          /\ \A i \in Key : i # who => counters'[i] = counters[i]
      BY <3>3 DEF Backed
    <3>5. ASSUME NEW i \in Key, counters'[i] # NoEntry
          PROVE  /\ counters'[i].resetTime <= now + LoginWindow
                 /\ counters'[i].resetTime >= now =>
                       Recent(screened'[i], counters'[i].count, counters'[i].resetTime)
      <4>1. CASE i = who
        BY <3>2, <3>3, <3>4, <4>1
      <4>2. CASE i # who
        BY <1>k, <3>2, <3>4, <3>5, <4>2 DEF Backed
      <4> QED BY <4>1, <4>2
    <3>6. Backed'
      BY <1>t, <2>2, <3>2, <3>3, <3>4, <3>5 DEF Backed
    <3>7. Entitled
      <4>1. x.count <= Len(screened'[who]) /\ Len(screened'[who]) \in Nat /\ x.count \in Nat
        BY <1>t, <3>2, <3>3 DEF Recent, P!L!Entry
      <4> QED BY <1>t, <2>2, <3>1, <3>3, <3>4, <4>1 DEF Entitled
    <3> QED BY <3>6, <3>7
  <2> QED BY <2>3, <2>4
<1> QED BY <1>2, <1>3

\* An IP is refused for its rate only when more than Max requests nothing else
\* objects to were made in the last window, and a request that passes was
\* counted (the Check methods of protect_login.go, signup_protection.go and
\* protect_api.go, which ask the limiter last).
THEOREM ScreenedOnlyCharged == P!Spec => OnlyScreenedCharged
<1>0. P!L!LimiterAssumption
  BY StandaloneOptions
<1> USE <1>0
<1>1. P!Init => Backed
  <2> SUFFICES ASSUME P!Init PROVE Backed
    OBVIOUS
  <2>1. /\ opts \in Protections /\ now = 0 /\ counters = [k \in Key |-> NoEntry]
        /\ screened = [who \in Key |-> <<>>]
    BY DEF P!Init, P!L!Init
  <2> QED BY <2>1 DEF Backed
<1>2. Backed /\ [P!Next]_(P!vars) =>
         /\ Backed'
         /\ \/ attempt' = attempt /\ screened' = screened
            \/ Entitled
  <2> SUFFICES ASSUME Backed, [P!Next]_(P!vars)
               PROVE  Backed' /\ ((attempt' = attempt /\ screened' = screened) \/ Entitled)
    OBVIOUS
  <2>1. ASSUME NEW who \in Key, NEW bot, NEW c, P!CheckLogin([ip |-> who, bot |-> bot, credentials |-> c])
        PROVE  Backed' /\ Entitled
    <3> DEFINE a == [ip |-> who, bot |-> bot, credentials |-> c]
    <3>1. PICK why \in {"ok", "bot", "missing_credentials"} : P!Conclude(a, why)
      BY <2>1 DEF P!CheckLogin
    <3>2. a.ip \in Key
      OBVIOUS
    <3> HIDE DEF a
    <3> QED BY <3>1, <3>2, ConcludeKeeps
  <2>2. ASSUME NEW who \in Key, NEW bot, NEW e, P!CheckSignup([ip |-> who, bot |-> bot, email |-> e])
        PROVE  Backed' /\ Entitled
    <3> DEFINE a == [ip |-> who, bot |-> bot, email |-> e]
               why == IF P!BlockedBot(bot) THEN "bot" ELSE P!EmailRefusal(e)
    <3>1. P!Conclude(a, why)
      BY <2>2 DEF P!CheckSignup
    <3>2. P!EmailRefusal(e) \in {"ok", "missing_email", "invalid_email", "disposable_email"}
      BY DEF P!EmailRefusal
    <3>3. why \in {"ok", "bot", "missing_email", "invalid_email", "disposable_email"}
      BY <3>2
    <3>4. a.ip \in Key
      OBVIOUS
    <3> HIDE DEF a, why
    <3> QED BY <3>1, <3>3, <3>4, ConcludeKeeps
  <2>3. ASSUME NEW who \in Key, NEW bot, NEW o, NEW t,
               P!CheckApi([ip |-> who, bot |-> bot, origin |-> o, threat |-> t])
        PROVE  Backed' /\ Entitled
    <3> DEFINE a == [ip |-> who, bot |-> bot, origin |-> o, threat |-> t]
    <3>1. PICK why \in {"ok", "bot", "bad_origin", "threat"} : P!Conclude(a, why)
      BY <2>3 DEF P!CheckApi
    <3>2. a.ip \in Key
      OBVIOUS
    <3> HIDE DEF a
    <3> QED BY <3>1, <3>2, ConcludeKeeps
  <2>4. CASE P!Sweep
    <3>1. /\ now' = now /\ opts' = opts /\ attempt' = attempt /\ screened' = screened
          /\ counters' = counters \/ counters' = [k \in Key |-> IF counters[k] # NoEntry /\ P!L!Forgets(counters[k], now)
                                                     THEN NoEntry ELSE counters[k]]
      BY <2>4 DEF P!Sweep, P!L!cleanup, P!L!Close
    <3>2. \A who \in Key : counters'[who] = counters[who] \/ counters'[who] = NoEntry
      BY <3>1
    <3>3. counters' \in [Key -> P!L!Entry \cup {NoEntry}]
      BY <3>1 DEF Backed
    <3> QED BY <3>1, <3>2, <3>3 DEF Backed, Recent
  <2>5. CASE P!Tick
    <3>1. now' = now + 1 /\ opts' = opts /\ counters' = counters /\ attempt' = attempt /\ screened' = screened
      BY <2>5 DEF P!Tick, P!L!Tick
    <3>2. ASSUME NEW who \in Key, counters[who] # NoEntry
          PROVE  counters[who].resetTime \in Nat
      <4>1. counters[who] \in P!L!Entry
        BY <3>2 DEF Backed
      <4> QED BY <4>1 DEF P!L!Entry
    <3>3. \A who \in Key : counters[who] # NoEntry =>
             counters[who].resetTime <= now' + LoginWindow /\ (counters[who].resetTime >= now' => counters[who].resetTime >= now)
      BY <3>1, <3>2 DEF Backed, P!L!LimiterAssumption
    <3> QED BY <3>1, <3>3 DEF Backed, Recent
  <2>6. CASE UNCHANGED P!vars
    BY <2>6 DEF P!vars, P!limiterVars, Backed, Recent
  <2> QED BY <2>1, <2>2, <2>3, <2>4, <2>5, <2>6, Zenon DEF P!Next
<1>3. Backed /\ Backed' /\ [P!Next]_(P!vars)
        /\ (\/ attempt' = attempt /\ screened' = screened
            \/ Entitled)
      => [ \/ attempt' = attempt /\ screened' = screened
           \/ /\ verdict' = "rate_limited" => Len(screened'[attempt']) > LoginMax
              /\ verdict' = "ok" /\ opts.limited =>
                    /\ counters'[attempt'].count <= LoginMax
                    /\ counters'[attempt'].count <= Len(screened'[attempt']) ]_(P!vars)
  BY DEF Entitled
<1> QED BY <1>1, <1>2, <1>3, PTL DEF P!Spec, P!OnlyScreenedCharged, OnlyScreenedCharged
-----------------------------------------------------------------------------
(* The redaction of a text. *)

\* The types of MCPii, and what a redacted text is made of.
Kinds == {"email", "phone", "credit_card"}
Chars == [place : Nat, label : Kinds \cup {"none"}]

\* A text of MCPii whose matches lie apart.
Readable(t) ==
    /\ t.length \in Nat /\ IsFiniteSet(t.hits)
    /\ \A m \in t.hits : /\ m \in [type : Kinds, start : Nat, end : Nat]
                         /\ m.start < m.end /\ m.end <= t.length
    /\ \A a, b \in t.hits : a = b \/ a.end <= b.start \/ b.end <= a.start

\* Label and Expected for a text and labels that do not change.
Tag(l, type) == [k \in 1 .. l[type] |-> [place |-> 0, label |-> type]]
Within(t, p) == \E m \in t.hits : m.start < p /\ p <= m.end
Starts(t, p) == \E m \in t.hits : m.start = p - 1
Piece(t, l, p) ==
    IF ~Within(t, p) THEN <<PII!P!Original(p)>>
    ELSE IF Starts(t, p) THEN Tag(l, (CHOOSE m \in t.hits : m.start = p - 1).type)
         ELSE <<>>

\* f[p] is what the first p characters should become.
Flat(f, t, l) ==
    /\ f \in [0 .. t.length -> Seq(Chars)] /\ f[0] = <<>>
    /\ \A p \in 1 .. t.length : f[p] = f[p - 1] \o Piece(t, l, p)

\* What is replaced in a text, and with what, are sequences of characters.
LEMMA WholeType ==
    ASSUME NEW t, t.length \in Nat
    PROVE  /\ PII!P!Whole(t) \in Seq(Chars) /\ Len(PII!P!Whole(t)) = t.length
           /\ \A p \in 1 .. t.length : PII!P!Whole(t)[p] = PII!P!Original(p)
<1>1. \A p \in 1 .. t.length : PII!P!Original(p) \in Chars
  BY DEF PII!P!Original, Chars
<1>2. PII!P!Whole(t) \in [1 .. t.length -> Chars]
  BY <1>1 DEF PII!P!Whole
<1> QED BY <1>2 DEF PII!P!Whole

LEMMA TagType ==
    ASSUME NEW l \in [Kinds -> Nat], NEW type \in Kinds
    PROVE  Tag(l, type) \in Seq(Chars)
<1>1. l[type] \in Nat
  OBVIOUS
<1>2. [place |-> 0, label |-> type] \in Chars
  BY DEF Chars
<1> QED BY <1>1, <1>2 DEF Tag

LEMMA PieceType ==
    ASSUME NEW t, Readable(t), NEW l \in [Kinds -> Nat], NEW p \in 1 .. t.length
    PROVE  Piece(t, l, p) \in Seq(Chars)
<1>1. CASE ~Within(t, p)
  <2>1. PII!P!Original(p) \in Chars
    BY DEF PII!P!Original, Chars, Readable
  <2> QED BY <1>1, <2>1 DEF Piece
<1>2. CASE Within(t, p) /\ Starts(t, p)
  <2> DEFINE m == CHOOSE m \in t.hits : m.start = p - 1
  <2>1. m \in t.hits
    BY <1>2 DEF Starts
  <2>2. m.type \in Kinds
    BY <2>1 DEF Readable
  <2>3. Piece(t, l, p) = Tag(l, m.type)
    BY <1>2 DEF Piece
  <2> HIDE DEF m
  <2> QED BY <2>2, <2>3, TagType
<1>3. CASE Within(t, p) /\ ~Starts(t, p)
  BY <1>3 DEF Piece
<1> QED BY <1>1, <1>2, <1>3

\* FlattenSeq puts the pieces together one after the other.
LEMMA Flattened ==
    ASSUME NEW t, Readable(t), NEW l \in [Kinds -> Nat]
    PROVE  \E f : Flat(f, t, l) /\ f[t.length] = PII!P!FlattenSeq([p \in 1 .. t.length |-> Piece(t, l, p)])
<1> DEFINE n == t.length
           D == Seq(Chars)
           seqs == [p \in 1 .. n |-> Piece(t, l, p)]
           s == [p \in 1 .. n |-> [x \in D |-> x \o Piece(t, l, p)]]
           z == <<>>
<1>0. n \in Nat
  BY DEF Readable
<1>1. \A p \in 1 .. n : Piece(t, l, p) \in D
  BY PieceType
<1>2. s \in [1 .. n -> [D -> D]]
  <2>1. ASSUME NEW p \in 1 .. n PROVE [x \in D |-> x \o Piece(t, l, p)] \in [D -> D]
    BY <1>1
  <2> HIDE DEF D
  <2> QED BY <2>1
<1>3. PICK f : Stepped(f, n, D, z, s)
  <2>1. z \in D
    OBVIOUS
  <2> HIDE DEF s, n, z, D
  <2> QED BY <1>0, <1>2, <2>1, Iterates
<1>4. Flat(f, t, l)
  <2>1. ASSUME NEW p \in 1 .. n PROVE f[p] = f[p - 1] \o Piece(t, l, p)
    <3>1. f[p - 1] \in D
      BY <1>0, <1>3 DEF Stepped
    <3>2. f[p] = s[p][f[p - 1]]
      BY <1>3 DEF Stepped
    <3> HIDE DEF D
    <3> QED BY <3>1, <3>2
  <2> QED BY <1>3, <2>1 DEF Flat, Stepped
<1>5. CASE n = 0
  <2>1. seqs = <<>>
    BY <1>5
  <2>2. PII!P!FlattenSeq(seqs) = <<>>
    BY <2>1 DEF PII!P!FlattenSeq
  <2> QED BY <1>4, <1>5, <2>2 DEF Flat
<1>6. CASE n # 0
  <2> DEFINE Body(g) == [i \in 1 .. Len(seqs) |-> IF i = 1 THEN seqs[i] ELSE g[i - 1] \o seqs[i]]
             o == CHOOSE g : g = Body(g)
             h == [i \in 1 .. n |-> f[i]]
  <2>1. Len(seqs) = n /\ \A i \in 1 .. n : seqs[i] = Piece(t, l, i)
    BY <1>0
  <2>2. PII!P!FlattenSeq(seqs) = o[n]
    BY <1>6, <2>1 DEF PII!P!FlattenSeq
  <2> HIDE DEF seqs
  <2>3. f[1] = seqs[1]
    <3>0. 1 \in 1 .. n /\ 1 - 1 = 0
      BY <1>0, <1>6
    <3>1. f[1] = f[0] \o Piece(t, l, 1) /\ f[0] = <<>>
      BY <1>4, <3>0 DEF Flat
    <3>2. Piece(t, l, 1) \in Seq(Chars)
      BY <1>1, <3>0
    <3> QED BY <2>1, <3>0, <3>1, <3>2
  <2>4. \A i \in 1 .. n : i # 1 => h[i - 1] = f[i - 1]
    BY <1>0
  <2>5. \A i \in 1 .. n : h[i] = IF i = 1 THEN seqs[i] ELSE h[i - 1] \o seqs[i]
    BY <1>4, <2>1, <2>3, <2>4 DEF Flat
  <2>6. h = Body(h)
    BY <2>1, <2>5, ZenonT(60)
  <2>7. o = Body(o)
    <3> HIDE DEF Body, h
    <3> QED BY <2>6
  <2> HIDE DEF o
  <2>8. \A i \in 1 .. n : o[i] = IF i = 1 THEN seqs[i] ELSE o[i - 1] \o seqs[i]
    BY <2>1, <2>7
  <2> DEFINE Differ == {i \in 1 .. n : o[i] # f[i]}
  <2>9. Differ = {}
    <3> SUFFICES ASSUME Differ # {} PROVE FALSE
      OBVIOUS
    <3>1. PICK m \in Differ : \A k \in Differ : m <= k
      <4>1. Differ \subseteq Nat
        OBVIOUS
      <4> HIDE DEF Differ
      <4> QED BY <4>1, Least
    <3>2. m \in 1 .. n /\ m # 1
      BY <2>3, <2>8, <3>1
    <3>3. m - 1 \in 1 .. n /\ m - 1 \notin Differ
      BY <1>0, <3>1, <3>2
    <3>4. o[m] = f[m]
      BY <1>4, <2>1, <2>8, <3>2, <3>3, ZenonT(60) DEF Flat
    <3> QED BY <3>1, <3>4
  <2>10. n \in 1 .. n /\ n \notin Differ
    BY <1>0, <1>6, <2>9
  <2>11. f[n] = o[n]
    BY <2>10
  <2> QED BY <1>4, <2>2, <2>11 DEF seqs
<1> QED BY <1>5, <1>6

\* Characters can be put together in any order.
LEMMA Joined ==
    ASSUME NEW s \in Seq(Chars), NEW u \in Seq(Chars), NEW v \in Seq(Chars)
    PROVE  s \o u \in Seq(Chars) /\ (s \o u) \o v = s \o (u \o v)
BY ConcatAssociative

\* Where no match covers a text it stays as it is.
LEMMA Stretch ==
    ASSUME NEW t, Readable(t), NEW l \in [Kinds -> Nat], NEW f, Flat(f, t, l),
           NEW a \in 0 .. t.length, NEW b \in a .. t.length, \A p \in a + 1 .. b : ~Within(t, p)
    PROVE  f[b] = f[a] \o SubSeq(PII!P!Whole(t), a + 1, b)
<1> DEFINE W == PII!P!Whole(t)
           Kept(k) == f[k] = f[a] \o SubSeq(W, a + 1, k)
           Differ == {k \in a .. b : ~Kept(k)}
<1>0. t.length \in Nat
  BY DEF Readable
<1>1. /\ W \in Seq(Chars) /\ Len(W) = t.length
      /\ \A p \in 1 .. t.length : W[p] = PII!P!Original(p)
  BY <1>0, WholeType
<1>2. \A p \in 0 .. t.length : f[p] \in Seq(Chars)
  BY DEF Flat
<1> HIDE DEF W, Kept
<1>3. Differ = {}
  <2> SUFFICES ASSUME Differ # {} PROVE FALSE
    OBVIOUS
  <2>1. PICK k \in Differ : \A j \in Differ : k <= j
    <3>1. Differ \subseteq Nat
      BY <1>0
    <3> HIDE DEF Differ
    <3> QED BY <3>1, Least
  <2>2. k # a
    <3>1. SubSeq(W, a + 1, a) = <<>>
      BY <1>0, SubSeqEmpty
    <3>2. f[a] \o <<>> = f[a]
      BY <1>2, ConcatEmptySeq
    <3>3. Kept(a)
      BY <3>1, <3>2 DEF Kept
    <3> QED BY <2>1, <3>3
  <2>3. k \in a + 1 .. b /\ k \in 1 .. t.length /\ k - 1 \in a .. b /\ k - 1 \notin Differ
    BY <1>0, <2>1, <2>2
  <2>4. f[k - 1] = f[a] \o SubSeq(W, a + 1, k - 1)
    BY <2>3 DEF Kept
  <2>5. f[k] = f[k - 1] \o <<W[k]>>
    BY <1>1, <2>3 DEF Flat, Piece
  <2>6. SubSeq(W, a + 1, k) = SubSeq(W, a + 1, k - 1) \o <<W[k]>>
    <3>1. a + 1 \in 1 .. Len(W) /\ k \in a + 1 .. Len(W)
      BY <1>0, <1>1, <2>3
    <3> QED BY <1>1, <3>1, SubSeqRecursiveSecond
  <2>7. SubSeq(W, a + 1, k - 1) \in Seq(Chars) /\ <<W[k]>> \in Seq(Chars)
    <3>1. \A i \in a + 1 .. k - 1 : W[i] \in Chars
      BY <1>0, <1>1, <2>3, ElementOfSeq
    <3>2. W[k] \in Chars
      BY <1>0, <1>1, <2>3, ElementOfSeq
    <3>3. a + 1 \in Int /\ k - 1 \in Int
      BY <2>3
    <3> QED BY <3>1, <3>2, <3>3, SubSeqProperties
  <2>8. Kept(k)
    <3>1. f[a] \in Seq(Chars)
      BY <1>0, <1>2
    <3>2. (f[a] \o SubSeq(W, a + 1, k - 1)) \o <<W[k]>> = f[a] \o (SubSeq(W, a + 1, k - 1) \o <<W[k]>>)
      <4> DEFINE u == f[a]
                 v == SubSeq(W, a + 1, k - 1)
                 w == <<W[k]>>
      <4>1. u \in Seq(Chars) /\ v \in Seq(Chars) /\ w \in Seq(Chars)
        BY <2>7, <3>1
      <4> HIDE DEF u, v, w
      <4>2. (u \o v) \o w = u \o (v \o w)
        BY <4>1, Joined, Zenon
      <4> QED BY <4>2 DEF u, v, w
    <3> QED BY <2>4, <2>5, <2>6, <3>2, Zenon DEF Kept
  <2> QED BY <2>1, <2>8
<1>4. b \in a .. b /\ b \notin Differ
  BY <1>0, <1>3
<1> QED BY <1>4 DEF W, Kept

\* What a match covers becomes its label.
LEMMA Span ==
    ASSUME NEW t, Readable(t), NEW l \in [Kinds -> Nat], NEW f, Flat(f, t, l), NEW m \in t.hits
    PROVE  f[m.end] = f[m.start] \o Tag(l, m.type)
<1> DEFINE Labelled(k) == f[k] = f[m.start] \o Tag(l, m.type)
           Differ == {k \in m.start + 1 .. m.end : ~Labelled(k)}
<1>0. /\ t.length \in Nat /\ m.start \in Nat /\ m.end \in Nat /\ m.type \in Kinds
      /\ m.start < m.end /\ m.end <= t.length
  BY DEF Readable
<1>1. \A p \in 0 .. t.length : f[p] \in Seq(Chars)
  BY DEF Flat
<1>2. Tag(l, m.type) \in Seq(Chars)
  BY <1>0, TagType
<1>3. ASSUME NEW p \in m.start + 1 .. m.end
      PROVE  Within(t, p) /\ p \in 1 .. t.length
  BY <1>0, <1>3 DEF Within
<1>4. \A x \in t.hits : x = m \/ x.end <= m.start \/ m.end <= x.start
  BY DEF Readable
<1>5. \A x \in t.hits : x.start \in Nat /\ x.end \in Nat /\ x.start < x.end
  BY DEF Readable
<1> HIDE DEF Labelled
<1>6. Differ = {}
  <2> SUFFICES ASSUME Differ # {} PROVE FALSE
    OBVIOUS
  <2>1. PICK k \in Differ : \A j \in Differ : k <= j
    <3>1. Differ \subseteq Nat
      BY <1>0
    <3> HIDE DEF Differ
    <3> QED BY <3>1, Least
  <2>2. k \in m.start + 1 .. m.end /\ k \in 1 .. t.length /\ Within(t, k)
    BY <1>3, <2>1
  <2>3. f[k] = f[k - 1] \o Piece(t, l, k)
    BY <2>2 DEF Flat
  <2>4. CASE k = m.start + 1
    <3>1. \A x \in t.hits : x.start = k - 1 => x = m
      BY <1>0, <1>4, <1>5, <2>4
    <3>2. m.start = k - 1
      BY <1>0, <2>4
    <3>3. (CHOOSE x \in t.hits : x.start = k - 1) = m
      BY <3>1, <3>2
    <3>4. Piece(t, l, k) = Tag(l, m.type)
      BY <2>2, <3>2, <3>3 DEF Piece, Starts
    <3>5. Labelled(k)
      BY <2>3, <3>2, <3>4 DEF Labelled
    <3> QED BY <2>1, <3>5
  <2>5. CASE k # m.start + 1
    <3>1. \A x \in t.hits : x.start # k - 1
      BY <1>0, <1>4, <1>5, <2>2, <2>5
    <3>2. Piece(t, l, k) = <<>>
      BY <2>2, <3>1 DEF Piece, Starts
    <3>3. k - 1 \in m.start + 1 .. m.end /\ k - 1 \notin Differ /\ k - 1 \in 0 .. t.length
      BY <1>0, <2>1, <2>2, <2>5
    <3>4. f[k - 1] \o <<>> = f[k - 1]
      BY <1>1, <3>3, ConcatEmptySeq
    <3>5. Labelled(k - 1)
      BY <3>3
    <3>6. Labelled(k)
      BY <2>3, <3>2, <3>4, <3>5, Zenon DEF Labelled
    <3> QED BY <2>1, <3>6
  <2> QED BY <2>4, <2>5
<1>7. m.end \in m.start + 1 .. m.end /\ m.end \notin Differ
  BY <1>0, <1>6
<1> QED BY <1>7 DEF Labelled

\* Cutting within the first of two sequences.
LEMMA CutConcat ==
    ASSUME NEW D, NEW s \in Seq(D), NEW r \in Seq(D), NEW a \in 0 .. Len(s), NEW b \in a .. Len(s)
    PROVE  /\ SubSeq(s \o r, 1, a) = SubSeq(s, 1, a)
           /\ SubSeq(s \o r, b + 1, Len(s \o r)) = SubSeq(s, b + 1, Len(s)) \o r
<1> DEFINE w == s \o r
           x == SubSeq(w, b + 1, Len(w))
           y == SubSeq(s, b + 1, Len(s))
<1>0. Len(s) \in Nat /\ Len(r) \in Nat
  OBVIOUS
<1>1. /\ w \in Seq(D) /\ Len(w) = Len(s) + Len(r)
      /\ \A i \in 1 .. Len(s) + Len(r) : w[i] = IF i <= Len(s) THEN s[i] ELSE r[i - Len(s)]
  BY ConcatProperties
<1> HIDE DEF w
<1>2. \A i \in 1 .. Len(w) : w[i] \in D
  BY <1>1, ElementOfSeq
<1>3. \A i \in 1 .. Len(s) : s[i] \in D
  BY ElementOfSeq
<1>4. SubSeq(w, 1, a) = SubSeq(s, 1, a)
  <2>1. /\ SubSeq(w, 1, a) \in Seq(D) /\ Len(SubSeq(w, 1, a)) = a
        /\ \A i \in 1 .. a : SubSeq(w, 1, a)[i] = w[i]
    <3>1. \A i \in 1 .. a : w[i] \in D
      BY <1>0, <1>1, <1>2
    <3>2. /\ SubSeq(w, 1, a) \in Seq(D)
          /\ Len(SubSeq(w, 1, a)) = IF 1 <= a THEN a - 1 + 1 ELSE 0
          /\ \A i \in 1 .. a - 1 + 1 : SubSeq(w, 1, a)[i] = w[1 + i - 1]
      BY <1>0, <3>1, SubSeqProperties
    <3> QED BY <1>0, <3>2
  <2>2. /\ SubSeq(s, 1, a) \in Seq(D) /\ Len(SubSeq(s, 1, a)) = a
        /\ \A i \in 1 .. a : SubSeq(s, 1, a)[i] = s[i]
    <3>1. \A i \in 1 .. a : s[i] \in D
      BY <1>0, <1>3
    <3>2. /\ SubSeq(s, 1, a) \in Seq(D)
          /\ Len(SubSeq(s, 1, a)) = IF 1 <= a THEN a - 1 + 1 ELSE 0
          /\ \A i \in 1 .. a - 1 + 1 : SubSeq(s, 1, a)[i] = s[1 + i - 1]
      BY <1>0, <3>1, SubSeqProperties
    <3> QED BY <1>0, <3>2
  <2>3. \A i \in 1 .. a : w[i] = s[i]
    BY <1>0, <1>1
  <2> QED BY <2>1, <2>2, <2>3, SeqEqual
<1>5. x = y \o r
  <2>1. /\ x \in Seq(D) /\ Len(x) = Len(w) - b
        /\ \A i \in 1 .. Len(w) - b : x[i] = w[b + i]
    <3>1. \A i \in b + 1 .. Len(w) : w[i] \in D
      BY <1>0, <1>2
    <3>2. b + 1 \in Int /\ Len(w) \in Int
      BY <1>0, <1>1
    <3>3. /\ x \in Seq(D)
          /\ Len(x) = IF b + 1 <= Len(w) THEN Len(w) - (b + 1) + 1 ELSE 0
          /\ \A i \in 1 .. Len(w) - (b + 1) + 1 : x[i] = w[b + 1 + i - 1]
      BY <3>1, <3>2, SubSeqProperties
    <3> QED BY <1>0, <1>1, <3>3
  <2>2. /\ y \in Seq(D) /\ Len(y) = Len(s) - b
        /\ \A i \in 1 .. Len(s) - b : y[i] = s[b + i]
    <3>1. \A i \in b + 1 .. Len(s) : s[i] \in D
      BY <1>0, <1>3
    <3>2. b + 1 \in Int /\ Len(s) \in Int
      BY <1>0
    <3>3. /\ y \in Seq(D)
          /\ Len(y) = IF b + 1 <= Len(s) THEN Len(s) - (b + 1) + 1 ELSE 0
          /\ \A i \in 1 .. Len(s) - (b + 1) + 1 : y[i] = s[b + 1 + i - 1]
      BY <3>1, <3>2, SubSeqProperties
    <3> QED BY <1>0, <3>3
  <2> HIDE DEF x, y
  <2>3. /\ y \o r \in Seq(D) /\ Len(y \o r) = Len(y) + Len(r)
        /\ \A i \in 1 .. Len(y) + Len(r) : (y \o r)[i] = IF i <= Len(y) THEN y[i] ELSE r[i - Len(y)]
    BY <2>2, ConcatProperties
  <2> DEFINE z == y \o r
  <2>4. z \in Seq(D) /\ Len(z) = Len(x)
    BY <1>0, <1>1, <2>1, <2>2, <2>3
  <2>5. ASSUME NEW i \in 1 .. Len(x) PROVE x[i] = z[i]
    <3>1. i \in 1 .. Len(w) - b /\ b + i \in 1 .. Len(s) + Len(r) /\ i \in 1 .. Len(y) + Len(r)
      BY <1>0, <1>1, <2>1, <2>2, <2>5
    <3>2. x[i] = IF b + i <= Len(s) THEN s[b + i] ELSE r[b + i - Len(s)]
      BY <1>1, <2>1, <3>1
    <3>3. z[i] = IF i <= Len(y) THEN y[i] ELSE r[i - Len(y)]
      BY <2>3, <3>1
    <3>4. CASE i <= Len(y)
      BY <1>0, <2>2, <3>2, <3>3, <3>4
    <3>5. CASE ~(i <= Len(y))
      <4>1. i - Len(y) = b + i - Len(s) /\ ~(b + i <= Len(s))
        BY <1>0, <2>2, <3>5
      <4> QED BY <3>2, <3>3, <3>5, <4>1
    <3> QED BY <3>4, <3>5
  <2> HIDE DEF z
  <2>6. x = z
    BY <2>1, <2>4, <2>5, SeqEqual
  <2> QED BY <2>6 DEF z
<1> QED BY <1>4, <1>5 DEF w

\* What is left to replace are the matches ms, in order and within the first c
\* characters of the text, which are as they were; what follows is what the
\* rest of the text should become.
Replacing(t, f, ms, red, c, r) ==
    /\ r \in Seq(Chars) /\ red = SubSeq(PII!P!Whole(t), 1, c) \o r /\ f[t.length] = f[c] \o r
    /\ ms \in Seq(t.hits)
    /\ \A i \in 1 .. Len(ms) : ms[i].end <= c
    /\ \A i, j \in 1 .. Len(ms) : i < j => ms[i].end <= ms[j].start
    /\ \A m \in t.hits : (\E i \in 1 .. Len(ms) : ms[i] = m) \/ c <= m.start

\* When no match is left, the whole text is what it should become.
LEMMA NoneLeft ==
    ASSUME NEW t, Readable(t), NEW l \in [Kinds -> Nat], NEW f, Flat(f, t, l),
           NEW c \in 0 .. t.length, NEW r, NEW red, Replacing(t, f, <<>>, red, c, r)
    PROVE  red = f[t.length]
<1> DEFINE x == SubSeq(PII!P!Whole(t), 1, c)
<1>0. t.length \in Nat
  BY DEF Readable
<1>1. \A m \in t.hits : c <= m.start
  BY DEF Replacing
<1>2. \A p \in 0 + 1 .. c : ~Within(t, p)
  BY <1>0, <1>1 DEF Within, Readable
<1>3. f[c] = f[0] \o SubSeq(PII!P!Whole(t), 0 + 1, c)
  <2>1. 0 \in 0 .. t.length /\ c \in 0 .. t.length
    BY <1>0
  <2> QED BY <1>2, <2>1, Stretch
<1>4. f[0] = <<>> /\ 0 + 1 = 1
  BY DEF Flat
<1>5. x \in Seq(Chars)
  BY <1>0, WholeType
<1>6. f[c] = <<>> \o x
  BY <1>3, <1>4, Zenon
<1> HIDE DEF x
<1>7. <<>> \o x = x
  BY <1>5, ConcatEmptySeq
<1> QED BY <1>6, <1>7 DEF Replacing, x

\* Replacing the last match is within the text, and leaves the ones before it to
\* replace.
LEMMA ReplaceLast ==
    ASSUME NEW t, Readable(t), NEW l \in [Kinds -> Nat], NEW f, Flat(f, t, l),
           NEW c \in 0 .. t.length, NEW r, NEW ms, NEW red, Replacing(t, f, ms, red, c, r), ms # <<>>,
           NEW m, m = ms[Len(ms)]
    PROVE  /\ m \in t.hits /\ Len(red) \in Nat /\ m.end <= Len(red)
           /\ \E c2 \in 0 .. t.length : \E r2 :
                 Replacing(t, f, SubSeq(ms, 1, Len(ms) - 1),
                           SubSeq(red, 1, m.start) \o Tag(l, m.type) \o SubSeq(red, m.end + 1, Len(red)), c2, r2)
<1> DEFINE W == PII!P!Whole(t)
           x == SubSeq(W, 1, c)
           y == SubSeq(W, m.end + 1, c)
           g == Tag(l, m.type)
           n == Len(ms)
           rest == SubSeq(ms, 1, n - 1)
<1>0. t.length \in Nat
  BY DEF Readable
<1>1. W \in Seq(Chars) /\ Len(W) = t.length
  BY <1>0, WholeType
<1>2. /\ ms \in Seq(t.hits) /\ n \in Nat /\ n # 0 /\ \A i \in 1 .. n : ms[i] \in t.hits
      /\ \A i \in 1 .. n : ms[i].end <= c
      /\ \A i, j \in 1 .. n : i < j => ms[i].end <= ms[j].start
      /\ \A h \in t.hits : (\E i \in 1 .. n : ms[i] = h) \/ c <= h.start
  BY DEF Replacing
<1>3. m \in t.hits /\ m.end <= c
  BY <1>2
<1>4. m.start \in Nat /\ m.end \in Nat /\ m.start < m.end /\ m.type \in Kinds
  BY <1>3 DEF Readable
<1>5. /\ rest \in Seq(t.hits) /\ Len(rest) = n - 1
      /\ \A i \in 1 .. n - 1 : rest[i] = ms[i]
  <2>1. \A i \in 1 .. n - 1 : ms[i] \in t.hits
    BY <1>2
  <2>2. /\ rest \in Seq(t.hits)
        /\ Len(rest) = IF 1 <= n - 1 THEN n - 1 - 1 + 1 ELSE 0
        /\ \A i \in 1 .. n - 1 - 1 + 1 : rest[i] = ms[1 + i - 1]
    <3> DEFINE H == t.hits
               k == n - 1
    <3>1. k \in Int /\ 1 \in Int /\ \A i \in 1 .. k : ms[i] \in H
      BY <1>2, <2>1
    <3> HIDE DEF H, k
    <3>2. /\ SubSeq(ms, 1, k) \in Seq(H)
          /\ Len(SubSeq(ms, 1, k)) = IF 1 <= k THEN k - 1 + 1 ELSE 0
          /\ \A i \in 1 .. k - 1 + 1 : SubSeq(ms, 1, k)[i] = ms[1 + i - 1]
      BY <3>1, SubSeqProperties
    <3> QED BY <3>2, Zenon DEF H, k
  <2> HIDE DEF rest, n
  <2> QED BY <1>2, <2>2
<1> HIDE DEF W
<1>6. /\ x \in Seq(Chars) /\ Len(x) = c
      /\ SubSeq(x, 1, m.start) = SubSeq(W, 1, m.start) /\ SubSeq(x, m.end + 1, Len(x)) = y
      /\ y \in Seq(Chars)
  <2>1. /\ x \in Seq(Chars) /\ Len(x) = c /\ \A i \in 1 .. c : x[i] = W[i]
    BY <1>0, <1>1
  <2>2. y \in Seq(Chars)
    BY <1>0, <1>1, <1>4
  <2>3. SubSeq(x, 1, m.start) = SubSeq(W, 1, m.start)
    <3> HIDE DEF x
    <3> QED BY <1>0, <1>1, <1>3, <1>4, <2>1
  <2>4. SubSeq(x, m.end + 1, Len(x)) = y
    <3> DEFINE u == SubSeq(x, m.end + 1, c)
    <3> HIDE DEF x
    <3>1. \A i \in m.end + 1 .. c : x[i] \in Chars /\ W[i] \in Chars
      BY <1>0, <1>1, <1>3, <1>4, <2>1
    <3>2. m.end + 1 \in Int /\ c \in Int
      BY <1>0, <1>4
    <3>3. /\ u \in Seq(Chars) /\ Len(u) = IF m.end + 1 <= c THEN c - (m.end + 1) + 1 ELSE 0
          /\ \A i \in 1 .. c - (m.end + 1) + 1 : u[i] = x[m.end + 1 + i - 1]
      BY <3>1, <3>2, SubSeqProperties
    <3>4. /\ y \in Seq(Chars) /\ Len(y) = IF m.end + 1 <= c THEN c - (m.end + 1) + 1 ELSE 0
          /\ \A i \in 1 .. c - (m.end + 1) + 1 : y[i] = W[m.end + 1 + i - 1]
      BY <3>1, <3>2, SubSeqProperties
    <3> HIDE DEF u, y
    <3>5. ASSUME NEW i \in 1 .. Len(u) PROVE u[i] = y[i]
      <4> DEFINE k == m.end + 1 + i - 1
      <4>1. i \in 1 .. c - (m.end + 1) + 1 /\ k \in 1 .. c
        BY <1>0, <1>3, <1>4, <3>3, <3>5
      <4>2. u[i] = x[k] /\ y[i] = W[k]
        BY <3>3, <3>4, <4>1
      <4> HIDE DEF k
      <4> QED BY <2>1, <4>1, <4>2
    <3>6. u = y
      BY <3>3, <3>4, <3>5, SeqEqual
    <3> QED BY <2>1, <3>6 DEF u
  <2> QED BY <2>1, <2>2, <2>3, <2>4
<1>7. g \in Seq(Chars) /\ r \in Seq(Chars) /\ red = x \o r
  BY <1>4, TagType DEF Replacing, W
<1> HIDE DEF x, y, g, n, rest
<1>8. /\ Len(red) \in Nat /\ m.end <= Len(red)
      /\ SubSeq(red, 1, m.start) = SubSeq(W, 1, m.start)
      /\ SubSeq(red, m.end + 1, Len(red)) = y \o r
  <2>1. Len(red) = Len(x) + Len(r) /\ Len(x) \in Nat /\ Len(r) \in Nat
    BY <1>6, <1>7
  <2>2. m.start \in 0 .. Len(x) /\ m.end \in 0 .. Len(x) /\ m.start \in 0 .. Len(x) /\ m.end \in m.start .. Len(x)
    BY <1>3, <1>4, <1>6, <2>1
  <2>3. SubSeq(x \o r, 1, m.start) = SubSeq(x, 1, m.start)
    BY <1>6, <1>7, <2>2, CutConcat
  <2>4. SubSeq(x \o r, m.end + 1, Len(x \o r)) = SubSeq(x, m.end + 1, Len(x)) \o r
    BY <1>6, <1>7, <2>2, CutConcat, ZenonT(60)
  <2>5. m.end <= Len(red) /\ Len(red) \in Nat
    BY <1>3, <1>4, <1>6, <2>1
  <2> QED BY <1>6, <1>7, <2>3, <2>4, <2>5, Zenon
<1> DEFINE z == g \o (y \o r)
<1>9. z \in Seq(Chars) /\ y \o r \in Seq(Chars)
  BY <1>6, <1>7
<1>10. SubSeq(red, 1, m.start) \o g \o SubSeq(red, m.end + 1, Len(red)) = SubSeq(W, 1, m.start) \o z
  <2> DEFINE a == SubSeq(W, 1, m.start)
  <2>1. a \in Seq(Chars)
    BY <1>0, <1>1, <1>3, <1>4
  <2>2. SubSeq(red, 1, m.start) \o g \o SubSeq(red, m.end + 1, Len(red)) = (a \o g) \o (y \o r)
    BY <1>8, Zenon
  <2> HIDE DEF a
  <2>3. (a \o g) \o (y \o r) = a \o (g \o (y \o r))
    BY <1>7, <1>9, <2>1, Joined, Zenon
  <2> QED BY <2>2, <2>3, Zenon DEF a
<1>11. f[t.length] = f[m.start] \o z
  <2> DEFINE a == f[m.start]
  <2>1. a \in Seq(Chars)
    BY <1>0, <1>3, <1>4 DEF Flat
  <2>2. \A p \in m.end + 1 .. c : ~Within(t, p)
    <3> SUFFICES ASSUME NEW p \in m.end + 1 .. c, NEW h \in t.hits, h.start < p, p <= h.end PROVE FALSE
      BY Zenon DEF Within
    <3>1. h.start \in Nat /\ h.end \in Nat
      BY DEF Readable
    <3>2. PICK i \in 1 .. n : ms[i] = h
      <4>1. ~(c <= h.start)
        BY <1>0, <1>4, <3>1
      <4>2. (\E i \in 1 .. n : ms[i] = h) \/ c <= h.start
        BY <1>2, Zenon
      <4> QED BY <4>1, <4>2, Zenon
    <3>3. i # n
      BY <1>2, <1>4, <3>2 DEF n
    <3>4. h.end <= m.start
      BY <1>2, <3>2, <3>3 DEF n
    <3> QED BY <1>4, <3>1, <3>4
  <2>3. f[c] = f[m.end] \o y
    <3>1. m.end \in 0 .. t.length /\ c \in m.end .. t.length
      BY <1>0, <1>3, <1>4
    <3> QED BY <2>2, <3>1, Stretch, ZenonT(60) DEF y, W
  <2>4. f[m.end] = a \o g
    <3>0. \A h \in t.hits : f[h.end] = f[h.start] \o Tag(l, h.type)
      BY Span
    <3>1. f[m.end] = f[m.start] \o Tag(l, m.type)
      BY <1>3, <3>0, Zenon
    <3> QED BY <3>1, Zenon DEF g
  <2>5. f[t.length] = f[c] \o r
    BY DEF Replacing
  <2> HIDE DEF a
  <2>6. ((a \o g) \o y) \o r = a \o (g \o (y \o r))
    <3>1. (a \o g) \in Seq(Chars)
      BY <1>7, <2>1, Joined, Zenon
    <3>2. ((a \o g) \o y) \o r = (a \o g) \o (y \o r)
      BY <1>6, <1>7, <3>1, Joined, ZenonT(60)
    <3>3. (a \o g) \o (y \o r) = a \o (g \o (y \o r))
      BY <1>7, <1>9, <2>1, Joined, Zenon
    <3> QED BY <3>2, <3>3, Zenon
  <2> QED BY <2>3, <2>4, <2>5, <2>6, Zenon DEF a
<1>12. /\ \A i \in 1 .. n - 1 : rest[i].end <= m.start
       /\ \A i, j \in 1 .. n - 1 : i < j => rest[i].end <= rest[j].start
       /\ \A h \in t.hits : (\E i \in 1 .. n - 1 : rest[i] = h) \/ m.start <= h.start
  <2>1. \A i \in 1 .. n - 1 : i \in 1 .. n /\ n \in 1 .. n /\ i < n
    BY <1>2 DEF n
  <2>2. \A i \in 1 .. n - 1 : rest[i].end <= m.start
    BY <1>2, <1>5, <2>1 DEF n
  <2>3. \A i, j \in 1 .. n - 1 : i < j => rest[i].end <= rest[j].start
    BY <1>2, <1>5, <2>1
  <2>4. ASSUME NEW h \in t.hits, ~(m.start <= h.start) PROVE \E i \in 1 .. n - 1 : rest[i] = h
    <3>1. h.start \in Nat
      BY DEF Readable
    <3>2. PICK i \in 1 .. n : ms[i] = h
      BY <1>0, <1>2, <1>3, <1>4, <2>4, <3>1
    <3>3. i # n
      BY <1>4, <2>4, <3>2 DEF n
    <3> QED BY <1>2, <1>5, <3>2, <3>3
  <2> QED BY <2>2, <2>3, <2>4
<1>13. m.start \in 0 .. t.length
  BY <1>0, <1>3, <1>4
<1> HIDE DEF z
<1>14. Replacing(t, f, rest, SubSeq(red, 1, m.start) \o g \o SubSeq(red, m.end + 1, Len(red)), m.start, z)
  BY <1>5, <1>9, <1>10, <1>11, <1>12 DEF Replacing, W
<1> QED BY <1>3, <1>8, <1>13, <1>14 DEF rest, g, n

\* The call is at a text of MCPii.
OfText ==
    /\ Readable(text) /\ labels \in [Kinds -> Nat]
    /\ PII!P!Expected = PII!P!FlattenSeq([p \in 1 .. text.length |-> Piece(text, labels, p)])

\* redacted is the text with the matches found so far from its end replaced.
Redacting ==
    /\ OfText
    /\ outcome \in {"scan", "replace", "done"}
    /\ outcome = "scan" => redacted = PII!P!Whole(text)
    /\ outcome = "replace" =>
          \E f, c, r : /\ Flat(f, text, labels) /\ f[text.length] = PII!P!Expected
                       /\ c \in 0 .. text.length /\ Replacing(text, f, matches, redacted, c, r)
    /\ outcome = "done" => redacted = PII!P!Expected

\* ScanPii finds the matches in the order of the text.
LEMMA ScanOrders ==
    ASSUME NEW t, Readable(t), NEW s \in PII!P!Sorted(t.hits)
    PROVE  /\ s \in Seq(t.hits)
           /\ \A i, j \in 1 .. Len(s) : i < j => s[i].end <= s[j].start
           /\ \A m \in t.hits : \E i \in 1 .. Len(s) : s[i] = m
<1> DEFINE n == Cardinality(t.hits)
<1>1. /\ s \in [1 .. n -> t.hits] /\ PII!P!Range(s) = t.hits
      /\ \A i, j \in DOMAIN s : i < j => PII!P!Before(s[i], s[j])
  <2> DEFINE R(x) == /\ PII!P!Range(x) = t.hits
                     /\ \A i, j \in DOMAIN x : i < j => PII!P!Before(x[i], x[j])
  <2>1. s \in {x \in [1 .. n -> t.hits] : R(x)}
    BY DEF PII!P!Sorted, PII!P!Cardinality, Cardinality
  <2> HIDE DEF R
  <2>2. s \in [1 .. n -> t.hits] /\ R(s)
    BY <2>1
  <2> QED BY <2>2 DEF R
<1>2. n \in Nat
  BY FS_CardinalityType DEF Readable
<1> HIDE DEF n
<1>3. s \in Seq(t.hits) /\ Len(s) = n
  BY <1>1, <1>2
<1>4. ASSUME NEW m \in t.hits PROVE PII!P!Rank(m) \in Int
  <2>1. m.type \in Kinds
    BY DEF Readable
  <2>2. \E k \in DOMAIN PII!Types : PII!Types[k] = m.type
    BY <2>1 DEF PII!Types, Kinds
  <2>3. PII!P!Rank(m) \in DOMAIN PII!Types
    BY <2>2 DEF PII!P!Rank
  <2> QED BY <2>3 DEF PII!Types
<1>5. ASSUME NEW i \in 1 .. n, NEW j \in 1 .. n, i < j PROVE s[i].end <= s[j].start
  <2> DEFINE a == s[i]
             b == s[j]
  <2>1. a \in t.hits /\ b \in t.hits
    BY <1>1
  <2>2. PII!P!Before(a, b)
    BY <1>1, <1>5
  <2> HIDE DEF a, b
  <2>3. a.start \in Nat /\ a.end \in Nat /\ b.start \in Nat /\ b.end \in Nat /\ b.start < b.end
    BY <2>1 DEF Readable
  <2>4. a.start <= b.start
    BY <2>2, <2>3 DEF PII!P!Before
  <2>5. a # b
    BY <1>4, <2>1, <2>2, <2>3 DEF PII!P!Before
  <2>6. a.end <= b.start \/ b.end <= a.start
    BY <2>1, <2>5 DEF Readable
  <2>7. a.end <= b.start
    BY <2>3, <2>4, <2>6
  <2> QED BY <2>7 DEF a, b
<1>6. \A m \in t.hits : \E i \in 1 .. n : s[i] = m
  BY <1>1 DEF PII!P!Range
<1> QED BY <1>3, <1>5, <1>6

\* RedactPii replaces the matches from the last to the first, whose places in the
\* text stay right while the text behind them grows and shrinks: for texts of any
\* length with matches that lie apart, and labels of any length, the redacted text
\* is the original with each match its label, and no index is ever out of range.
THEOREM EveryMatchLabelled == ASSUME Overlapping = FALSE PROVE PII!P!Spec => []Redacted
<1> DEFINE Texts == IF Overlapping THEN PII!PhoneInEmail ELSE { [length |-> Length, hits |-> h] : h \in PII!Disjoint }
<1>1. ASSUME NEW t \in Texts PROVE Readable(t)
  <2>1. /\ t.length \in Nat /\ IsFiniteSet(t.hits)
        /\ \A m \in t.hits : m.start < m.end /\ m.end <= t.length
    <3>1. \A x \in Texts : /\ x.length \in Nat /\ IsFiniteSet(x.hits)
                           /\ \A m \in x.hits : m.start < m.end /\ m.end <= x.length
      <4>1. PII!P!Options
        BY StandaloneOptions
      <4> QED BY <4>1 DEF PII!P!Options, PII!P!IsFiniteSet, IsFiniteSet
    <3> HIDE DEF Texts
    <3> QED BY <1>1, <3>1
  <2>2. PICK h \in PII!Disjoint : t = [length |-> Length, hits |-> h]
    BY <1>1
  <2>3. t.length = Length /\ t.hits = h
    BY <2>2
  <2>4. h \subseteq PII!Spans /\ PII!Apart(h)
    BY DEF PII!Disjoint
  <2>5. \A m \in h : m \in [type : Kinds, start : Nat, end : Nat]
    <3> SUFFICES ASSUME NEW m \in h PROVE m \in [type : Kinds, start : Nat, end : Nat]
      OBVIOUS
    <3>1. m \in PII!Hits
      BY <2>4 DEF PII!Spans
    <3>2. PICK type \in Kinds, start \in 0 .. Length - 1, end \in 1 .. Length : m = PII!Hit(type, start, end)
      BY <3>1 DEF PII!Hits, Kinds
    <3> QED BY <3>2 DEF PII!Hit
  <2> QED BY <2>1, <2>3, <2>4, <2>5 DEF Readable, PII!Apart
<1>2. PII!P!Init => Redacting
  <2> SUFFICES ASSUME PII!P!Init PROVE Redacting
    OBVIOUS
  <2>1. text \in Texts /\ redacted = PII!P!Whole(text) /\ outcome = "scan"
    BY DEF PII!P!Init
  <2>2. PII!P!Range(PII!Types) = Kinds
    BY DEF PII!P!Range, PII!Types, Kinds
  <2>3. labels \in [Kinds -> Nat]
    BY <2>2 DEF PII!P!Init
  <2>4. Readable(text)
    BY <1>1, <2>1
  <2>5. PII!P!Expected = PII!P!FlattenSeq([p \in 1 .. text.length |-> Piece(text, labels, p)])
    BY DEF PII!P!Expected, PII!P!Covered, PII!P!Label, Piece, Within, Starts, Tag
  <2> QED BY <2>1, <2>3, <2>4, <2>5 DEF Redacting, OfText
<1>3. Redacting /\ [PII!P!Next]_(PII!P!vars) => Redacting'
  <2> SUFFICES ASSUME Redacting, [PII!P!Next]_(PII!P!vars) PROVE Redacting'
    OBVIOUS
  <2>0. /\ text' = text /\ labels' = labels
        /\ OfText' /\ PII!P!Expected' = PII!P!Expected /\ PII!P!Whole(text)' = PII!P!Whole(text)
    <3>1. text' = text /\ labels' = labels
      BY DEF PII!P!Next, PII!P!ScanPii, PII!P!RedactPii, PII!P!Return, PII!P!vars
    <3>2. PII!P!Expected' = PII!P!Expected
      BY <3>1 DEF PII!P!Expected, PII!P!Covered, PII!P!Label
    <3> QED BY <3>1, <3>2 DEF Redacting, OfText
  <2>1. CASE PII!P!ScanPii
    <3> DEFINE W == PII!P!Whole(text)
               n == text.length
    <3>1. /\ outcome' = "replace" /\ redacted' = W /\ matches' \in PII!P!Sorted(text.hits)
          /\ Readable(text) /\ labels \in [Kinds -> Nat]
      BY <2>1 DEF PII!P!ScanPii, Redacting, OfText
    <3>2. PICK f : Flat(f, text, labels) /\ f[n] = PII!P!Expected
      BY <3>1, Flattened DEF Redacting, OfText
    <3>3. n \in Nat /\ W \in Seq(Chars) /\ Len(W) = n
      BY <3>1, WholeType DEF Readable
    <3>4. f[n] \in Seq(Chars)
      BY <3>2, <3>3 DEF Flat
    <3> HIDE DEF W
    <3>5. SubSeq(W, 1, n) \o <<>> = W /\ f[n] \o <<>> = f[n]
      BY <3>3, <3>4, SubSeqFull, ConcatEmptySeq
    <3>6. Replacing(text, f, matches', redacted', n, <<>>)
      <4>1. /\ matches' \in Seq(text.hits)
            /\ \A i, j \in 1 .. Len(matches') : i < j => matches'[i].end <= matches'[j].start
            /\ \A m \in text.hits : \E i \in 1 .. Len(matches') : matches'[i] = m
        BY <3>1, ScanOrders
      <4>2. \A i \in 1 .. Len(matches') : matches'[i].end <= n
        <5>1. \A i \in 1 .. Len(matches') : matches'[i] \in text.hits
          BY <4>1
        <5> QED BY <3>1, <5>1 DEF Readable
      <4> QED BY <3>1, <3>5, <4>1, <4>2 DEF Replacing, W
    <3>7. n \in 0 .. n
      BY <3>3
    <3> QED BY <2>0, <3>1, <3>2, <3>6, <3>7 DEF Redacting
  <2>2. CASE PII!P!RedactPii
    <3> DEFINE m == matches[Len(matches)]
    <3>1. /\ outcome = "replace" /\ matches # <<>> /\ Readable(text) /\ labels \in [Kinds -> Nat]
      BY <2>2 DEF PII!P!RedactPii, Redacting, OfText
    <3>2. PICK f, c, r : /\ Flat(f, text, labels) /\ f[text.length] = PII!P!Expected
                         /\ c \in 0 .. text.length /\ Replacing(text, f, matches, redacted, c, r)
      BY <3>1 DEF Redacting
    <3> HIDE DEF m
    <3>3. /\ Len(redacted) \in Nat /\ m.end <= Len(redacted) /\ m \in text.hits
          /\ \E c2 \in 0 .. text.length : \E r2 :
                Replacing(text, f, SubSeq(matches, 1, Len(matches) - 1),
                          SubSeq(redacted, 1, m.start) \o Tag(labels, m.type) \o SubSeq(redacted, m.end + 1, Len(redacted)), c2, r2)
      BY <3>1, <3>2, ReplaceLast DEF m
    <3>4. m.end \in Nat
      BY <3>1, <3>3 DEF Readable
    <3>5. /\ outcome' = outcome /\ matches' = SubSeq(matches, 1, Len(matches) - 1)
          /\ redacted' = SubSeq(redacted, 1, m.start) \o Tag(labels, m.type) \o SubSeq(redacted, m.end + 1, Len(redacted))
      <4>1. ~(m.end > Len(redacted))
        BY <3>3, <3>4
      <4>2. matches' = PII!P!Front(matches) /\ PII!P!Last(matches) = m
        BY <2>2 DEF PII!P!RedactPii, PII!P!Last, m
      <4>3. redacted' = PII!P!Replaced(redacted, m) /\ outcome' = outcome
        BY <2>2, <4>1, <4>2 DEF PII!P!RedactPii
      <4> QED BY <4>2, <4>3 DEF PII!P!Front, PII!P!Replaced, PII!P!Label, Tag
    <3>6. \E c2, r2 : c2 \in 0 .. text.length /\ Replacing(text, f, matches', redacted', c2, r2)
      BY <3>3, <3>5, Zenon
    <3> QED BY <2>0, <3>1, <3>2, <3>5, <3>6 DEF Redacting
  <2>3. CASE PII!P!Return
    <3>1. /\ outcome = "replace" /\ matches = <<>> /\ outcome' = "done" /\ redacted' = redacted
          /\ Readable(text) /\ labels \in [Kinds -> Nat]
      BY <2>3 DEF PII!P!Return, Redacting, OfText
    <3>2. PICK f, c, r : /\ Flat(f, text, labels) /\ f[text.length] = PII!P!Expected
                         /\ c \in 0 .. text.length /\ Replacing(text, f, <<>>, redacted, c, r)
      BY <3>1 DEF Redacting
    <3>3. redacted = f[text.length]
      BY <3>1, <3>2, NoneLeft
    <3> QED BY <2>0, <3>1, <3>2, <3>3 DEF Redacting
  <2>4. CASE UNCHANGED PII!P!vars
    BY <2>0, <2>4 DEF PII!P!vars, Redacting
  <2> QED BY <2>1, <2>2, <2>3, <2>4 DEF PII!P!Next
<1>4. Redacting => Redacted
  BY DEF Redacting, Redacted, PII!Redacted, PII!P!Redacted
<1> QED BY <1>2, <1>3, <1>4, PTL DEF PII!P!Spec
=============================================================================
