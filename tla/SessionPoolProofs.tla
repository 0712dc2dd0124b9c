------------------------- MODULE SessionPoolProofs -------------------------
(***************************************************************************)
(* Proofs about SessionPool, for every set of requests, every number of    *)
(* sessions and every set of round trips, and that Egress behaves as it    *)
(* and as V6Gate.                                                          *)
(***************************************************************************)
EXTENDS Egress, FiniteSetTheorems, TLAPS

\* The requests that are out on a session.
Out(s) == {r \in Fetches : pc[r] \in {"picked", "running"} /\ sess[r] = s}

\* Everybody out on a session has been charged to it, and only they have.
Charged == \A s \in Sessions : IsFiniteSet(Out(s)) /\ pending[s] = Cardinality(Out(s))

\* A request past pick has a session, and one past getClient has a client.
Placed ==
    \A r \in Fetches :
        /\ pc[r] \in {"chosen", "picked", "running", "failing"} => sess[r] \in Sessions
        /\ pc[r] \in {"running", "failing"} => ran[r] \in Fetches \cup {Original}

PoolInv == PoolTypeOK /\ Placed /\ Charged /\ MeasuredOnOwnClient

-----------------------------------------------------------------------------
\* costLocked yields a number, so two sessions can be compared.
LEMMA CostType ==
    ASSUME PoolTypeOK, NEW s \in Sessions
    PROVE  Cost(s) \in Nat
<1>1. \A a, b \in Nat : a * b \in Nat
  OBVIOUS
<1>2. pending[s] \in Nat /\ pending[s] + 1 \in Nat /\ Hour \in Nat
  BY PoolAssumption DEF PoolTypeOK
<1>3. CASE rtt[s] = None
  BY <1>1, <1>2, <1>3 DEF Cost
<1>4. CASE rtt[s] # None
  <2>1. rtt[s] \in Nat
    BY <1>4, PoolAssumption DEF PoolTypeOK
  <2> QED BY <1>1, <1>2, <1>4, <2>1 DEF Cost
<1> QED BY <1>3, <1>4

\* pick takes one of the sessions it found ready; of two or more, one that some
\* other of them does not undercut.
LEMMA ChoiceIsReady ==
    ASSUME PoolTypeOK, NEW r \in Fetches, NEW s \in Choices(ready[r])
    PROVE  /\ s \in ready[r] /\ s \in Sessions
           /\ \/ Cardinality(ready[r]) = 1
              \/ \E t \in ready[r] \ {s} : Cost(t) >= Cost(s)
<1> DEFINE S == ready[r]
<1>1. S \subseteq Sessions
  BY DEF PoolTypeOK
<1>2. CASE Cardinality(S) = 1
  BY <1>1, <1>2 DEF Choices
<1>3. CASE Cardinality(S) # 1
  <2>1. PICK p \in TwoOf(S) : s = IF Cost(p[2]) < Cost(p[1]) THEN p[2] ELSE p[1]
    BY <1>3 DEF Choices
  <2>2. p[1] \in S /\ p[2] \in S /\ p[1] # p[2]
    BY DEF TwoOf
  <2>3. Cost(p[1]) \in Nat /\ Cost(p[2]) \in Nat
    BY <1>1, <2>2, CostType
  <2>4. CASE Cost(p[2]) < Cost(p[1])
    <3>1. s = p[2] /\ Cost(p[1]) >= Cost(s)
      BY <2>1, <2>3, <2>4
    <3> QED BY <1>1, <2>2, <3>1
  <2>5. CASE ~(Cost(p[2]) < Cost(p[1]))
    <3>1. s = p[1] /\ Cost(p[2]) >= Cost(s)
      BY <2>1, <2>3, <2>5
    <3> QED BY <1>1, <2>2, <3>1
  <2> QED BY <2>4, <2>5
<1> QED BY <1>2, <1>3

\* Nobody else's place changes the set of those out on a session.
LEMMA OutUnchanged ==
    ASSUME NEW s \in Sessions, Charged, pending'[s] = pending[s], Out(s)' = Out(s)
    PROVE  IsFiniteSet(Out(s)') /\ pending'[s] = Cardinality(Out(s)')
BY DEF Charged

-----------------------------------------------------------------------------
\* An empty pool satisfies the invariant.
LEMMA InitPool == PoolInit => PoolInv
<1> SUFFICES ASSUME PoolInit PROVE PoolInv
  OBVIOUS
<1>1. PoolTypeOK
  BY PoolAssumption DEF PoolInit, PoolTypeOK
<1>2. Placed /\ MeasuredOnOwnClient
  BY DEF PoolInit, Placed, MeasuredOnOwnClient
<1>3. \A s \in Sessions : Out(s) = {}
  BY DEF PoolInit, Out
<1>4. Charged
  BY <1>3, FS_EmptySet DEF PoolInit, Charged
<1> QED BY <1>1, <1>2, <1>4 DEF PoolInv

\* Looking for a session, and taking its client, charges nobody.
LEMMA LookStep ==
    ASSUME PoolInv, NEW r \in Fetches,
           (\E w \in BOOLEAN : Scan(r, w)) \/ ScanNone(r) \/ Compare(r) \/ Run(r)
    PROVE  PoolInv'
<1> USE DEF PoolInv, sessionVars, requestVars
<1>1. PoolTypeOK' /\ Placed'
  <2>1. CASE \E w \in BOOLEAN : Scan(r, w)
    BY <2>1 DEF Scan, ReadyFor, PoolTypeOK, Placed
  <2>2. CASE ScanNone(r)
    BY <2>2 DEF ScanNone, PoolTypeOK, Placed
  <2>3. CASE Compare(r)
    <3> PICK s \in Choices(ready[r]) : sess' = [sess EXCEPT ![r] = s]
      BY <2>3 DEF Compare
    <3>1. s \in Sessions
      BY ChoiceIsReady
    <3> QED BY <2>3, <3>1 DEF Compare, PoolTypeOK, Placed
  <2>4. CASE Run(r)
    BY <2>4 DEF Run, PoolTypeOK, Placed
  <2> QED BY <2>1, <2>2, <2>3, <2>4
<1>2. UNCHANGED sessionVars
  BY DEF Scan, ScanNone, Compare, Run
<1>3. \A s \in Sessions : Out(s)' = Out(s)
  BY DEF Scan, ScanNone, Compare, Run, Out, PoolTypeOK
<1>4. Charged'
  BY <1>2, <1>3, OutUnchanged DEF Charged
<1> QED BY <1>1, <1>2, <1>4 DEF MeasuredOnOwnClient

\* pick's last step adds one request to the session it counts on it.
LEMMA ChargeStep ==
    ASSUME PoolInv, NEW r \in Fetches, Charge(r)
    PROVE  PoolInv'
<1> USE DEF PoolInv
<1> PICK s \in Sessions : s = sess[r]
  BY DEF Charge, Placed
<1>1. r \notin Out(s)
  BY DEF Charge, Out
<1>2. PoolTypeOK' /\ Placed' /\ MeasuredOnOwnClient'
  BY <1>1 DEF Charge, PoolTypeOK, Placed, MeasuredOnOwnClient
<1>3. Out(s)' = Out(s) \cup {r}
  BY <1>1 DEF Charge, Out, PoolTypeOK
<1>4. IsFiniteSet(Out(s)') /\ pending'[s] = Cardinality(Out(s)')
  BY <1>1, <1>3, FS_AddElement DEF Charge, Charged, PoolTypeOK
<1>5. \A t \in Sessions \ {s} : Out(t)' = Out(t) /\ pending'[t] = pending[t]
  BY <1>1 DEF Charge, Out, PoolTypeOK
<1> QED BY <1>1, <1>2, <1>4, <1>5, OutUnchanged DEF Charged

\* done takes the request off the session it was charged to: the floor at zero
\* is never reached from below.
LEMMA DoneCharged ==
    ASSUME PoolInv, NEW r \in Fetches, NEW observe \in BOOLEAN, NEW rotated \in BOOLEAN,
           Done(r, observe, rotated)
    PROVE  Charged'
<1> USE DEF PoolInv
<1> PICK s \in Sessions : s = sess[r]
  BY DEF Done, Placed
<1>1. r \in Out(s)
  BY DEF Done, Out
<1>2. Cardinality(Out(s)) \in Nat \ {0}
  BY <1>1, FS_CardinalityType, FS_EmptySet DEF Charged
<1>3. Out(s)' = Out(s) \ {r}
  BY <1>1 DEF Done, Out, PoolTypeOK
<1>4. pending'[s] = pending[s] - 1
  BY <1>1, <1>2 DEF Done, TakeOff, Charged, PoolTypeOK
<1>5. IsFiniteSet(Out(s)') /\ pending'[s] = Cardinality(Out(s)')
  BY <1>1, <1>3, <1>4, FS_RemoveElement DEF Charged
<1>6. \A t \in Sessions \ {s} : Out(t)' = Out(t) /\ pending'[t] = pending[t]
  BY <1>1 DEF Done, TakeOff, Out, PoolTypeOK
<1> QED BY <1>1, <1>5, <1>6, OutUnchanged DEF Charged

\* done measures a session only on the client now in it.
LEMMA DoneStep ==
    ASSUME PoolInv, NEW r \in Fetches, NEW observe \in BOOLEAN, NEW rotated \in BOOLEAN,
           Done(r, observe, rotated)
    PROVE  PoolInv'
<1> USE DEF PoolInv
<1> PICK s \in Sessions : s = sess[r]
  BY DEF Done, Placed
<1>1. ran[r] \in Fetches \cup {Original}
  BY DEF Done, Placed
<1>2. pending' \in [Sessions -> Nat]
  BY <1>1 DEF Done, TakeOff, PoolTypeOK
<1>3. Placed'
  BY DEF Done, Placed, PoolTypeOK
<1>4. CASE observe /\ SameClient(r, s)
  <2>1. PICK e \in Rtts : rtt' = [rtt EXCEPT ![s] = e]
    BY <1>4 DEF Done
  <2>2. rttFrom' = [rttFrom EXCEPT ![s] = ran[r]] /\ ran[r] = client[s]
    BY <1>4 DEF Done, SameClient
  <2>3. PoolTypeOK'
    BY <1>1, <1>2, <2>1, <2>2 DEF Done, PoolTypeOK
  <2>4. MeasuredOnOwnClient'
    BY <1>1, <2>1, <2>2 DEF Done, MeasuredOnOwnClient, PoolTypeOK
  <2> QED BY <1>3, <2>3, <2>4, DoneCharged
<1>5. CASE ~(observe /\ SameClient(r, s))
  <2>1. UNCHANGED <<rtt, rttFrom>>
    BY <1>5 DEF Done
  <2>2. PoolTypeOK' /\ MeasuredOnOwnClient'
    BY <1>2, <2>1 DEF Done, PoolTypeOK, MeasuredOnOwnClient
  <2> QED BY <1>3, <2>2, DoneCharged
<1> QED BY <1>4, <1>5

\* A rotation forgets the estimate with the client it was taken on.
LEMMA FailStep ==
    ASSUME PoolInv, NEW r \in Fetches, Fail(r)
    PROVE  PoolInv'
<1> USE DEF PoolInv
<1>1. sess[r] \in Sessions
  BY DEF Fail, Placed
<1>2. PoolTypeOK'
  BY <1>1, PoolAssumption DEF Fail, PoolTypeOK
<1>3. Placed' /\ MeasuredOnOwnClient'
  BY <1>1 DEF Fail, Placed, MeasuredOnOwnClient, PoolTypeOK
<1>4. \A s \in Sessions : Out(s)' = Out(s) /\ pending'[s] = pending[s]
  BY DEF Fail, Out, PoolTypeOK
<1> QED BY <1>2, <1>3, <1>4, OutUnchanged DEF Charged

\* Time changes neither who is out nor whose estimate it is.
LEMMA TimeStep ==
    ASSUME PoolInv, PoolTick \/ (\E s \in Sessions : Decay(s))
    PROVE  PoolInv'
<1> USE DEF PoolInv, requestVars
<1>1. PoolTypeOK'
  <2>1. CASE PoolTick
    BY <2>1, PoolAssumption DEF PoolTick, PoolTypeOK
  <2>2. CASE \E s \in Sessions : Decay(s)
    BY <2>2 DEF Decay, PoolTypeOK
  <2> QED BY <2>1, <2>2
<1>2. Placed' /\ MeasuredOnOwnClient'
  BY DEF PoolTick, Decay, Placed, MeasuredOnOwnClient, PoolTypeOK
<1>3. \A s \in Sessions : Out(s)' = Out(s) /\ pending'[s] = pending[s]
  BY DEF PoolTick, Decay, Out
<1> QED BY <1>1, <1>2, <1>3, OutUnchanged DEF Charged

-----------------------------------------------------------------------------
\* The pool's invariant, from which its properties follow.
THEOREM PoolInvariant == PoolSpec => []PoolInv
<1>1. ASSUME PoolInv, [PoolNext]_poolVars PROVE PoolInv'
  <2>1. CASE UNCHANGED poolVars
    BY <1>1, <2>1 DEF poolVars, sessionVars, requestVars, PoolInv, PoolTypeOK, Placed, Charged, Out,
                      MeasuredOnOwnClient
  <2>2. ASSUME NEW r \in Fetches, PoolStep(r) PROVE PoolInv'
    BY <1>1, <2>2, LookStep, ChargeStep, DoneStep, FailStep DEF PoolStep
  <2>3. CASE PoolTick \/ (\E s \in Sessions : Decay(s))
    BY <1>1, <2>3, TimeStep
  <2> QED BY <1>1, <2>1, <2>2, <2>3 DEF PoolNext
<1> QED BY <1>1, InitPool, PTL DEF PoolSpec

\* SessionPool!PoolTypeOK.
THEOREM PoolTypes == PoolSpec => []PoolTypeOK
<1>1. PoolInv => PoolTypeOK
  BY DEF PoolInv
<1> QED BY <1>1, PoolInvariant, PTL

\* SessionPool!PendingExact: the load pick compares is the number of requests
\* out on the session, through every rotation.
THEOREM LoadIsExact == PoolSpec => []PendingExact
<1>1. PoolInv => PendingExact
  BY DEF PoolInv, Charged, Out, PendingExact
<1> QED BY <1>1, PoolInvariant, PTL

\* SessionPool!MeasuredOnOwnClient: no estimate survives its client.
THEOREM EstimatesAreCurrent == PoolSpec => []MeasuredOnOwnClient
<1>1. PoolInv => MeasuredOnOwnClient
  BY DEF PoolInv
<1> QED BY <1>1, PoolInvariant, PTL

\* SessionPool!RotatesOnlyItsOwnClient: a late failure leaves the replacement
\* of its client alone.
THEOREM LateFailureIsHarmless == PoolSpec => RotatesOnlyItsOwnClient
<1>1. ASSUME PoolInv, [PoolNext]_poolVars
      PROVE  [\A s \in Sessions :
                 client'[s] # client[s]
                 => \E r \in Fetches : pc[r] = "failing" /\ sess[r] = s /\ ran[r] = client[s]]_poolVars
  <2> SUFFICES ASSUME NEW s \in Sessions, client'[s] # client[s]
               PROVE  \E r \in Fetches : pc[r] = "failing" /\ sess[r] = s /\ ran[r] = client[s]
    OBVIOUS
  <2>1. PICK r \in Fetches : Fail(r)
    BY <1>1 DEF PoolNext, PoolStep, Scan, ScanNone, Compare, Charge, Run, Done, PoolTick, Decay,
                poolVars, sessionVars, requestVars
  <2> QED BY <1>1, <2>1 DEF Fail, BlamesClient, PoolInv, PoolTypeOK
<1> QED BY <1>1, PoolInvariant, PTL DEF PoolSpec, RotatesOnlyItsOwnClient

\* SessionPool!DearestNeverChosen: the power of two choices avoids the dearest
\* ready session, whatever the load.
THEOREM DearestIsAvoided == PoolSpec => DearestNeverChosen
<1>1. ASSUME PoolInv, [PoolNext]_poolVars
      PROVE  [\A r \in Fetches :
                 pc[r] = "scanned" /\ pc'[r] = "chosen"
                 => Cardinality(ready[r]) = 1
                    \/ \E t \in ready[r] \ {sess'[r]} : Cost(t) >= Cost(sess'[r])]_poolVars
  <2> SUFFICES ASSUME NEW r \in Fetches, pc[r] = "scanned", pc'[r] = "chosen"
               PROVE  \/ Cardinality(ready[r]) = 1
                      \/ \E t \in ready[r] \ {sess'[r]} : Cost(t) >= Cost(sess'[r])
    OBVIOUS
  <2>1. Compare(r)
    BY <1>1 DEF PoolNext, PoolStep, Scan, ScanNone, Compare, Charge, Run, Done, Fail,
                PoolTick, Decay, poolVars, sessionVars, requestVars, PoolInv, PoolTypeOK
  <2>2. sess'[r] \in Choices(ready[r])
    BY <1>1, <2>1 DEF Compare, PoolInv, PoolTypeOK
  <2> QED BY <1>1, <2>2, ChoiceIsReady DEF PoolInv
<1> QED BY <1>1, PoolInvariant, PTL DEF PoolSpec, DearestNeverChosen

\* Egress behaves as the gate and as the pool, so that what is proved of either
\* holds of both together.
THEOREM EgressComposes == EgressSpec => Spec /\ PoolSpec
<1>1. EgressInit => Init /\ PoolInit
  BY DEF EgressInit
<1>2. [EgressNext]_egressVars => [Next]_vars /\ [PoolNext]_poolVars
  BY DEF EgressNext, GateMoves, PoolMoves, egressVars
<1> QED BY <1>1, <1>2, PTL DEF EgressSpec, Spec, PoolSpec

=============================================================================
