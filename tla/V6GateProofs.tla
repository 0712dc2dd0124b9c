---------------------------- MODULE V6GateProofs ----------------------------
(***************************************************************************)
(* Proofs about V6Gate, for every set of requests, window, threshold and   *)
(* timing the assumptions allow.                                           *)
(***************************************************************************)
EXTENDS V6Gate, FiniteSetTheorems, TLAPS

-----------------------------------------------------------------------------
(* The window *)

Failed1 == {i \in Slots : recent[i]}

Ring ==
    /\ recent \in [Slots -> BOOLEAN]
    /\ next \in Slots
    /\ failures = Cardinality(Failed1)

\* The window is finite, so its failures can be counted and never exceed it.
LEMMA FailuresBounded ==
    ASSUME NEW window \in [Slots -> BOOLEAN]
    PROVE  LET F == {i \in Slots : window[i]}
           IN  IsFiniteSet(F) /\ Cardinality(F) \in 0 .. Window
<1> DEFINE F == {i \in Slots : window[i]}
<1>1. IsFiniteSet(Slots) /\ Cardinality(Slots) = Window
  BY GateAssumption, FS_Interval DEF Slots
<1>2. F \subseteq Slots
  OBVIOUS
<1>3. IsFiniteSet(F) /\ Cardinality(F) <= Window
  BY <1>1, <1>2, FS_Subset
<1>4. Cardinality(F) \in Nat
  BY <1>3, FS_CardinalityType
<1> QED BY <1>3, <1>4, GateAssumption

\* record keeps the count: what leaves the window is taken off, what enters added.
LEMMA RecordCounts ==
    ASSUME Ring, NEW failed \in BOOLEAN, Record(failed)
    PROVE  Ring'
<1> DEFINE Rest == Failed1 \ {next}
<1>1. IsFiniteSet(Failed1)
  BY FailuresBounded DEF Ring, Failed1
<1>2. IsFiniteSet(Rest) /\ Cardinality(Rest) = Cardinality(Failed1) - (IF recent[next] THEN 1 ELSE 0)
  <2>1. CASE recent[next]
    BY <1>1, <2>1, FS_RemoveElement DEF Ring, Failed1
  <2>2. CASE ~recent[next]
    <3>1. Rest = Failed1
      BY <2>2 DEF Failed1
    <3>2. Cardinality(Failed1) \in Nat
      BY <1>1, FS_CardinalityType
    <3>3. Cardinality(Failed1) - 0 = Cardinality(Failed1)
      BY <3>2
    <3> QED BY <1>1, <2>2, <3>1, <3>3
  <2> QED BY <2>1, <2>2
<1>3. Failed1' = IF failed THEN Rest \cup {next} ELSE Rest
  BY DEF Record, Ring, Failed1
<1>4. Cardinality(Failed1') = Cardinality(Rest) + (IF failed THEN 1 ELSE 0)
  <2>1. CASE failed
    BY <1>2, <1>3, <2>1, FS_AddElement
  <2>2. CASE ~failed
    BY <1>2, <1>3, <2>2, FS_CardinalityType
  <2> QED BY <2>1, <2>2
<1>5. recent' \in [Slots -> BOOLEAN] /\ next' \in Slots
  BY GateAssumption DEF Record, Ring, Slots
<1>6. failures' = Cardinality(Failed1')
  BY <1>2, <1>4, <1>1, FS_CardinalityType DEF Record, Ring
<1> QED BY <1>5, <1>6 DEF Ring

\* Every step keeps the ring and its count, and an open gate stays below the
\* threshold.
LEMMA RingStep ==
    ASSUME TypeOK, FailuresCounted, [Next]_vars
    PROVE  Ring' /\ (~paused' => failures' < Strikes)
<1>1. Ring
  BY DEF TypeOK, FailuresCounted, Ring, Failed1
<1>2. failures \in Nat /\ Strikes \in Nat \ {0}
  BY GateAssumption DEF TypeOK
<1>3. CASE UNCHANGED <<recent, next, failures, paused>>
  BY <1>1, <1>3 DEF Ring, Failed1, FailuresCounted
<1>4. ASSUME GateOk PROVE Ring' /\ (~paused' => failures' < Strikes)
  <2>1. CASE paused
    <3>1. recent' = [i \in Slots |-> FALSE] /\ next' = 0 /\ failures' = 0
      BY <1>4, <2>1 DEF GateOk
    <3>2. Failed1' = {}
      BY <3>1 DEF Failed1
    <3>3. 0 \in Slots
      BY GateAssumption DEF Slots
    <3> QED BY <3>1, <3>2, <3>3, <1>2, FS_EmptySet DEF Ring
  <2>2. CASE ~paused
    <3>1. Record(FALSE) /\ paused' = paused
      BY <1>4, <2>2 DEF GateOk
    <3>2. Ring'
      BY <3>1, <1>1, RecordCounts
    <3>3. failures' <= failures
      BY <3>1, <1>2 DEF Record
    <3>4. failures' \in Int
      BY <3>1, <1>2 DEF Record
    <3> QED BY <3>2, <3>3, <3>4, <2>2, <1>2 DEF FailuresCounted
  <2> QED BY <2>1, <2>2
<1>5. ASSUME GateFail PROVE Ring' /\ (~paused' => failures' < Strikes)
  <2>1. CASE UNCHANGED gateVars
    BY <2>1, <1>3 DEF gateVars
  <2>2. CASE Record(TRUE)
    <3>1. Ring'
      BY <2>2, <1>1, RecordCounts
    <3>2. ~paused' => failures' < Strikes
      BY <1>5, <1>3 DEF GateFail, TooFew, gateVars, FailuresCounted
    <3> QED BY <3>1, <3>2
  <2> QED BY <1>5, <2>1, <2>2 DEF GateFail
<1>6. CASE Tick
  BY <1>3, <1>6 DEF Tick
<1>7. ASSUME NEW r \in Requests, Step(r) PROVE Ring' /\ (~paused' => failures' < Strikes)
  BY <1>3, <1>4, <1>5, <1>7
     DEF Step, Attempt, Allow, GoDC, CallerGone, GateRelease, Answered, Failed,
         Panicked, ReturnDC, gateVars
<1> QED BY <1>3, <1>6, <1>7 DEF Next, vars, gateVars

-----------------------------------------------------------------------------
(* Probes *)

OnV6(r) == attempt[r] = "v6"

\* A probe in flight belongs to a pause that has run out.
ProbesTestPauses == \A r \in Requests : Probing(r) => paused /\ left = 0

\* Once a pause has run out, the only attempt on IPv6 is its probe, and the
\* gate knows how long that has run.
OnlyTheProbe ==
    paused /\ left = 0 =>
        /\ \A r \in Requests : OnV6(r) => probe[r] /\ probeAge = age[r]
        /\ \A r, s \in Requests : OnV6(r) /\ OnV6(s) => r = s

\* A straggler is so old that the pause outlasts it.
StragglersEnd ==
    paused /\ left > 0 =>
        \A r \in Requests : OnV6(r) => left + age[r] >= PauseMin

ProbeInv ==
    TypeOK /\ FailuresCounted /\ ProbesTestPauses /\ OnlyTheProbe /\ StragglersEnd

\* The pause a failure sets lies between its bounds.
LEMMA PauseBounds ==
    ASSUME TypeOK
    PROVE  NextPause \in PauseMin .. PauseMax
BY GateAssumption DEF TypeOK, NextPause

\* The first state satisfies the whole invariant.
LEMMA InitProbe == ASSUME Init PROVE ProbeInv
<1>1. {i \in Slots : recent[i]} = {}
  BY DEF Init
<1>2. FailuresCounted
  BY <1>1, FS_EmptySet, GateAssumption DEF Init, FailuresCounted
<1>3. TypeOK
  <2>1. recent \in [Slots -> BOOLEAN] /\ probe \in [Requests -> BOOLEAN] /\ paused \in BOOLEAN
    BY Zenon DEF Init
  <2>2. next \in Slots /\ failures \in 0 .. Window
    BY GateAssumption DEF Init, Slots
  <2>3. left \in 0 .. PauseMax /\ pause \in 0 .. PauseMax /\ probeAge \in 0 .. ProbeWindow
    BY GateAssumption DEF Init, NoProbe
  <2>4. 0 \in 0 .. AttemptMax
    BY GateAssumption
  <2>5. attempt \in [Requests -> {"idle", "v6", "dc"}] /\ age \in [Requests -> 0 .. AttemptMax]
    BY <2>4, Zenon DEF Init
  <2> QED BY <2>1, <2>2, <2>3, <2>5 DEF TypeOK
<1> QED BY <1>2, <1>3
     DEF Init, ProbeInv, ProbesTestPauses, OnlyTheProbe, StragglersEnd, Probing, OnV6

ProbeParts == ProbesTestPauses /\ OnlyTheProbe /\ StragglersEnd

\* The type of the ring's variables is RingStep's; these are the others.
Clocks ==
    /\ paused \in BOOLEAN
    /\ left \in 0 .. PauseMax
    /\ pause \in 0 .. PauseMax
    /\ probeAge \in 0 .. ProbeWindow
    /\ attempt \in [Requests -> {"idle", "v6", "dc"}]
    /\ age \in [Requests -> 0 .. AttemptMax]
    /\ probe \in [Requests -> BOOLEAN]

\* An attempt admitted by a paused gate finds no other one on IPv6: the probe
\* before it is younger than the time allow waits.
LEMMA AttemptStep ==
    ASSUME ProbeInv, NEW r \in Requests, Attempt(r)
    PROVE  Clocks' /\ ProbeParts'
<1>1. TypeOK /\ ProbesTestPauses /\ OnlyTheProbe /\ StragglersEnd
  BY DEF ProbeInv
<1>2. UNCHANGED <<paused, left, pause>> /\ OnV6(r)' /\ age'[r] = 0 /\ (probe'[r] <=> paused)
  BY <1>1 DEF Attempt, Allow, TypeOK, OnV6
<1>3. \A s \in Requests \ {r} :
         attempt'[s] = attempt[s] /\ age'[s] = age[s] /\ (probe'[s] <=> probe[s])
  BY <1>1 DEF Attempt, TypeOK
<1>4. ASSUME paused PROVE left = 0 /\ probeAge' = 0 /\ \A s \in Requests : ~OnV6(s)
  <2>1. left = 0 /\ probeAge >= ProbeWindow /\ probeAge' = 0
    BY <1>4 DEF Attempt, Allow
  <2>2. ASSUME NEW s \in Requests, OnV6(s) PROVE FALSE
    <3>1. probeAge = age[s]
      BY <1>1, <1>4, <2>1, <2>2 DEF OnlyTheProbe
    <3>2. age[s] \in 0 .. AttemptMax
      BY <1>1 DEF TypeOK
    <3> QED BY <2>1, <3>1, <3>2, TimingAssumption, GateAssumption
  <2> QED BY <2>1, <2>2
<1>5. Clocks'
  <2>1. probeAge' \in 0 .. ProbeWindow /\ 0 \in 0 .. AttemptMax
    BY <1>1, GateAssumption DEF Attempt, Allow, TypeOK
  <2>2. probe' \in [Requests -> BOOLEAN]
    BY <1>1, Zenon DEF Attempt, TypeOK
  <2>3. attempt' \in [Requests -> {"idle", "v6", "dc"}] /\ age' \in [Requests -> 0 .. AttemptMax]
    BY <1>1, <2>1 DEF Attempt, TypeOK
  <2> QED BY <1>1, <1>2, <2>1, <2>2, <2>3 DEF TypeOK, Clocks
<1>6. ProbesTestPauses'
  <2> SUFFICES ASSUME NEW s \in Requests, Probing(s)' PROVE paused' /\ left' = 0
    BY DEF ProbesTestPauses
  <2>1. CASE s = r
    BY <2>1, <1>2, <1>4 DEF Probing
  <2>2. CASE s # r
    BY <2>2, <1>1, <1>2, <1>3 DEF Probing, ProbesTestPauses
  <2> QED BY <2>1, <2>2
<1>7. OnlyTheProbe'
  BY <1>2, <1>3, <1>4 DEF OnlyTheProbe, OnV6
<1>8. StragglersEnd'
  BY <1>2, <1>4 DEF StragglersEnd, Clocks, TypeOK
<1> QED BY <1>5, <1>6, <1>7, <1>8 DEF ProbeParts

\* A request that leaves IPv6 leaves no other behind when the pause has run
\* out, so whatever it reports takes nobody's place.
LEMMA FinishStep ==
    ASSUME ProbeInv, NEW r \in Requests, NEW to \in {"idle", "dc"}, Finish(r, to),
           GateRelease \/ GateOk \/ GateFail \/ UNCHANGED gateVars
    PROVE  Clocks' /\ ProbeParts'
<1>1. TypeOK /\ ProbesTestPauses /\ OnlyTheProbe /\ StragglersEnd
  BY DEF ProbeInv
<1>2. OnV6(r) /\ ~OnV6(r)' /\ ~Probing(r)'
  BY <1>1 DEF Finish, TypeOK, OnV6, Probing
<1>3. \A s \in Requests \ {r} :
         attempt'[s] = attempt[s] /\ age'[s] = age[s] /\ (probe'[s] <=> probe[s])
  BY <1>1 DEF Finish, TypeOK
<1>4. ASSUME paused, left = 0 PROVE \A s \in Requests : ~OnV6(s)'
  BY <1>1, <1>2, <1>3, <1>4 DEF OnlyTheProbe, OnV6
<1>5. ASSUME ~(paused /\ left = 0) PROVE \A s \in Requests : ~Probing(s)'
  BY <1>1, <1>2, <1>3, <1>5 DEF ProbesTestPauses, Probing
<1>6. NextPause \in PauseMin .. PauseMax
  BY <1>1, PauseBounds
<1>7. Clocks'
  <2>1. probe' \in [Requests -> BOOLEAN]
    BY <1>1, Zenon DEF Finish, TypeOK
  <2>2. 0 \in 0 .. AttemptMax
    BY GateAssumption
  <2>3. attempt' \in [Requests -> {"idle", "v6", "dc"}] /\ age' \in [Requests -> 0 .. AttemptMax]
    BY <1>1, <2>2 DEF Finish, TypeOK
  <2>4. paused' \in BOOLEAN
    BY <1>1, Zenon DEF GateRelease, GateOk, GateFail, gateVars, TypeOK
  <2>5. /\ left' \in 0 .. PauseMax
        /\ pause' \in 0 .. PauseMax /\ probeAge' \in 0 .. ProbeWindow
    <3>1. CASE GateRelease
      BY <1>1, <3>1, GateAssumption DEF GateRelease, TypeOK, NoProbe
    <3>2. CASE GateOk
      <4>1. (left' = 0 /\ pause' = 0 /\ probeAge' = ProbeWindow) \/ UNCHANGED <<left, pause, probeAge>>
        BY <3>2 DEF GateOk, NoProbe
      <4> QED BY <1>1, <4>1, GateAssumption DEF TypeOK
    <3>3. CASE GateFail
      <4>1. \/ left' = NextPause /\ pause' = NextPause /\ probeAge' = ProbeWindow
            \/ UNCHANGED <<left, pause, probeAge>>
        BY <3>3 DEF GateFail, gateVars, NoProbe
      <4> QED BY <1>1, <1>6, <4>1, GateAssumption DEF TypeOK
    <3>4. CASE UNCHANGED gateVars
      BY <1>1, <3>4 DEF gateVars, TypeOK
    <3> QED BY <3>1, <3>2, <3>3, <3>4
  <2> QED BY <2>1, <2>3, <2>4, <2>5 DEF Clocks
<1>8. ProbesTestPauses'
  BY <1>2, <1>4, <1>5 DEF ProbesTestPauses, Probing, OnV6
<1>9. CASE paused /\ left = 0
  <2>1. \A s \in Requests : ~OnV6(s)'
    BY <1>4, <1>9
  <2> QED BY <1>7, <1>8, <2>1 DEF ProbeParts, OnlyTheProbe, StragglersEnd
<1>10. CASE UNCHANGED <<paused, left>> /\ ~(paused /\ left = 0)
  BY <1>1, <1>2, <1>3, <1>7, <1>8, <1>10
     DEF ProbeParts, OnlyTheProbe, StragglersEnd, OnV6
<1>11. CASE ~paused'
  BY <1>7, <1>8, <1>11 DEF ProbeParts, OnlyTheProbe, StragglersEnd
<1>12. CASE left' = NextPause
  <2>1. left' >= PauseMin /\ left' > 0
    BY <1>6, <1>12, GateAssumption
  <2>2. \A s \in Requests : age'[s] \in 0 .. AttemptMax
    BY <1>7 DEF Clocks
  <2>3. \A s \in Requests : left' + age'[s] >= PauseMin
    BY <2>1, <2>2, <1>7, GateAssumption DEF Clocks
  <2> QED BY <1>7, <1>8, <2>1, <2>3 DEF ProbeParts, OnlyTheProbe, StragglersEnd
<1> QED BY <1>9, <1>10, <1>11, <1>12
        DEF GateRelease, GateOk, GateFail, gateVars

\* Time passes for the gate and its attempts alike, and the last straggler ends
\* before the pause does.
LEMMA TickStep ==
    ASSUME ProbeInv, Tick
    PROVE  Clocks' /\ ProbeParts'
<1>1. TypeOK /\ ProbesTestPauses /\ OnlyTheProbe /\ StragglersEnd
  BY DEF ProbeInv
<1>2. UNCHANGED <<paused, pause, attempt, probe>> /\ left' = IF left > 0 THEN left - 1 ELSE 0
  BY DEF Tick
<1>3. \A s \in Requests : OnV6(s) => age[s] \in 0 .. AttemptMax - 1 /\ age'[s] = age[s] + 1
  BY <1>1, GateAssumption DEF Tick, OnV6, TypeOK
<1>4. Clocks'
  <2>1. left' \in 0 .. PauseMax /\ probeAge' \in 0 .. ProbeWindow
    BY <1>1, GateAssumption DEF Tick, TypeOK
  <2>2. \A s \in Requests : age[s] \in 0 .. AttemptMax
    BY <1>1 DEF TypeOK
  <2>3. age' \in [Requests -> 0 .. AttemptMax]
    <3>1. \A s \in Requests :
             (IF attempt[s] = "v6" THEN age[s] + 1 ELSE age[s]) \in 0 .. AttemptMax
      BY <1>3, <2>2, GateAssumption DEF OnV6
    <3> QED BY <3>1 DEF Tick
  <2> QED BY <1>1, <1>2, <2>1, <2>3 DEF TypeOK, Clocks
<1>5. ProbesTestPauses'
  BY <1>1, <1>2 DEF ProbesTestPauses, Probing, TypeOK
<1>6. OnlyTheProbe'
  <2>1. CASE paused /\ left = 0
    <3> SUFFICES ASSUME NEW s \in Requests, OnV6(s)
                 PROVE  probe[s] /\ probeAge' = age'[s]
      BY <1>1, <1>2, <2>1 DEF OnlyTheProbe, OnV6
    <3>1. probe[s] /\ probeAge = age[s]
      BY <1>1, <2>1 DEF OnlyTheProbe
    <3>2. 0 <= probeAge /\ probeAge < ProbeWindow
      BY <1>3, <3>1, TimingAssumption, GateAssumption
    <3>3. probeAge' = probeAge + 1
      BY <3>2 DEF Tick
    <3> QED BY <1>3, <3>1, <3>3
  <2>2. CASE paused /\ left > 0
    <3>1. ASSUME left' = 0, NEW s \in Requests, OnV6(s) PROVE FALSE
      <4>1. left = 1
        BY <1>1, <1>2, <2>2, <3>1 DEF TypeOK
      <4>2. left + age[s] >= PauseMin
        BY <1>1, <2>2, <3>1 DEF StragglersEnd
      <4> QED BY <1>3, <3>1, <4>1, <4>2, TimingAssumption, GateAssumption
    <3> QED BY <1>2, <3>1 DEF OnlyTheProbe, OnV6
  <2>3. CASE ~paused
    BY <1>2, <2>3 DEF OnlyTheProbe
  <2> QED BY <1>1, <2>1, <2>2, <2>3 DEF TypeOK
<1>7. StragglersEnd'
  <2> SUFFICES ASSUME paused, left' > 0, NEW s \in Requests, OnV6(s)
               PROVE  left' + age'[s] >= PauseMin
    BY <1>2 DEF StragglersEnd, OnV6
  <2>1. left > 0 /\ left' = left - 1
    BY <1>1, <1>2 DEF TypeOK
  <2>2. left + age[s] >= PauseMin
    BY <1>1, <2>1 DEF StragglersEnd
  <2> QED BY <1>1, <1>3, <2>1, <2>2, GateAssumption DEF TypeOK
<1> QED BY <1>4, <1>5, <1>6, <1>7 DEF ProbeParts

\* A step of the next-state relation keeps the invariant.
LEMMA ProbeStep == ASSUME ProbeInv, [Next]_vars PROVE ProbeInv'
<1>1. Ring' /\ (~paused' => failures' < Strikes)
  BY RingStep DEF ProbeInv
<1>2. ASSUME Clocks', ProbeParts' PROVE ProbeInv'
  <2>1. recent' \in [Slots -> BOOLEAN] /\ next' \in Slots /\ failures' = Cardinality(Failed1')
    BY <1>1 DEF Ring
  <2>2. failures' \in 0 .. Window
    BY <2>1, FailuresBounded DEF Failed1
  <2>3. TypeOK'
    BY <1>2, <2>1, <2>2 DEF Clocks, TypeOK
  <2>4. FailuresCounted'
    BY <1>1, <2>1 DEF FailuresCounted, Failed1
  <2> QED BY <1>2, <2>3, <2>4 DEF ProbeInv, ProbeParts
<1>3. CASE UNCHANGED <<paused, left, pause, probeAge, attempt, age, probe>>
  <2>1. Clocks' /\ ProbeParts'
    BY <1>3 DEF ProbeInv, TypeOK, Clocks, ProbeParts, ProbesTestPauses, OnlyTheProbe,
                StragglersEnd, Probing, OnV6
  <2> QED BY <1>2, <2>1
<1>4. CASE Tick
  BY <1>2, <1>4, TickStep
<1>5. ASSUME NEW r \in Requests, Step(r) PROVE ProbeInv'
  <2>1. CASE Attempt(r)
    BY <1>2, <2>1, AttemptStep
  <2>2. CASE GoDC(r)
    <3>1. Clocks' /\ ProbeParts'
      BY <2>2 DEF GoDC, gateVars, ProbeInv, TypeOK, Clocks, ProbeParts, ProbesTestPauses,
                  OnlyTheProbe, StragglersEnd, Probing, OnV6
    <3> QED BY <1>2, <3>1
  <2>3. CASE ReturnDC(r)
    <3>1. Clocks' /\ ProbeParts'
      BY <2>3 DEF ReturnDC, gateVars, ProbeInv, TypeOK, Clocks, ProbeParts, ProbesTestPauses,
                  OnlyTheProbe, StragglersEnd, Probing, OnV6
    <3> QED BY <1>2, <3>1
  <2>4. CASE CallerGone(r) \/ Answered(r) \/ Failed(r) \/ Panicked(r)
    <3>1. PICK to \in {"idle", "dc"} : Finish(r, to)
      BY <2>4 DEF CallerGone, Answered, Failed, Panicked
    <3>2. GateRelease \/ GateOk \/ GateFail \/ UNCHANGED gateVars
      BY <2>4 DEF CallerGone, Answered, Failed, Panicked
    <3>3. Clocks' /\ ProbeParts'
      BY <3>1, <3>2, FinishStep
    <3> QED BY <1>2, <3>3
  <2> QED BY <1>5, <2>1, <2>2, <2>3, <2>4 DEF Step
<1> QED BY <1>3, <1>4, <1>5 DEF Next, vars, gateVars

-----------------------------------------------------------------------------
(* Theorems *)

\* The invariant holds in every reachable state.
THEOREM ProbeInvariant == Spec => []ProbeInv
<1>1. Init => ProbeInv
  BY InitProbe
<1>2. ProbeInv /\ [Next]_vars => ProbeInv'
  BY ProbeStep
<1> QED BY <1>1, <1>2, PTL DEF Spec

\* The variables keep their types: the back-off stays within its bounds.
THEOREM GateTypes == Spec => []TypeOK
BY ProbeInvariant, PTL DEF ProbeInv

\* record's running count is the number of failures in the window.
THEOREM CountAgrees == Spec => []FailuresCounted
BY ProbeInvariant, PTL DEF ProbeInv

\* allow admits one probe at a time to a paused gate.
THEOREM ProbesAreSingle == Spec => []OneProbe
<1>1. ProbeInv => OneProbe
  BY DEF ProbeInv, ProbesTestPauses, OnlyTheProbe, OneProbe, Probing, OnV6
<1> QED BY <1>1, ProbeInvariant, PTL

\* fail lengthens a pause for nothing but a probe that failed.
THEOREM StragglersDoNotLengthen == Spec => OnlyProbesLengthenPause
<1>1. ASSUME ProbeInv, [Next]_vars, paused, pause' > pause
      PROVE  \E r \in Requests : Probing(r) /\ attempt'[r] = "dc"
  <2>1. pause \in 0 .. PauseMax
    BY <1>1 DEF ProbeInv, TypeOK
  <2>2. ~(pause > pause) /\ ~(0 > pause)
    BY <2>1
  <2>3. PICK r \in Requests : Failed(r)
    <3>1. pause' # pause /\ pause' # 0
      BY <1>1, <2>2
    <3> QED BY <1>1, <3>1
        DEF Next, Step, Attempt, Allow, GoDC, CallerGone, GateRelease, Answered, GateOk,
            Panicked, ReturnDC, Tick, vars, gateVars
  <2>4. left = 0
    BY <1>1, <2>2, <2>3 DEF Failed, GateFail, CountsFailure, gateVars
  <2>5. Probing(r) /\ attempt'[r] = "dc"
    BY <1>1, <2>3, <2>4
       DEF ProbeInv, TypeOK, OnlyTheProbe, OnV6, Probing, Failed, Finish
  <2> QED BY <2>5
<1> QED BY <1>1, ProbeInvariant, PTL DEF Spec, OnlyProbesLengthenPause

=============================================================================
