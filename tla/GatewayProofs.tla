---------------------------- MODULE GatewayProofs ----------------------------
(***************************************************************************)
(* Proofs about gateway.go: admission (Gateway), for every number of       *)
(* requests, slots, visitors and hours and every limit; and what the edge  *)
(* keeps (EdgeCopy), for all durations and CDN expiries.                   *)
(***************************************************************************)
EXTENDS Gateway, EdgeCopy, FiniteSetTheorems, TLAPS

\* A request on its way to the limiter still knows whom it comes from.
VisitorKnown == \A r \in Clients : pc[r] = "clocked" => visitor[r] \in Bots

\* What the limiter's hour has granted is in the counts, except for what it had
\* granted before it was left and met again; a later hour has granted only that,
\* since a straggler took the limiter back from it.
Allowance(h, b) ==
    HourlyLimit * stragglers
    + (IF h = limiterHour THEN counts[b] ELSE IF h < limiterHour THEN HourlyLimit ELSE 0)

WithinAllowance == \A h \in Hours, b \in Bots : granted[h][b] <= Allowance(h, b)

GatewayInv ==
    /\ GatewayTypeOK /\ IsFiniteSet(slots)
    /\ VisitorKnown /\ QueriesMerged /\ WithinAllowance

-----------------------------------------------------------------------------
\* A map with room takes one visitor more.
LEMMA KeysFit ==
    ASSUME NEW c \in [Bots -> Nat], NEW b \in Bots, MaxKeys \in Nat,
           Cardinality({k \in Bots : c[k] > 0}) <= MaxKeys, MayPass(b, c), IsFiniteSet(Bots)
    PROVE  Cardinality({k \in Bots : [c EXCEPT ![b] = @ + 1][k] > 0}) <= MaxKeys
<1> DEFINE K == {k \in Bots : c[k] > 0}
           L == {k \in Bots : [c EXCEPT ![b] = @ + 1][k] > 0}
<1>1. IsFiniteSet(K)
  BY FS_Subset
<1>2. c[b] \in Nat /\ c[b] + 1 > 0
  OBVIOUS
<1>3. L = K \cup {b}
  BY <1>2
<1>4. CASE b \in K
  BY <1>3, <1>4
<1>5. CASE b \notin K
  <2>1. Cardinality(K) < MaxKeys
    BY <1>5, <1>2 DEF MayPass
  <2>2. Cardinality(L) = Cardinality(K) + 1
    BY <1>1, <1>3, <1>5, FS_AddElement
  <2> QED BY <1>1, <2>1, <2>2, FS_CardinalityType
<1> QED BY <1>4, <1>5

\* Each straggler is worth one more limit.
LEMMA OneMoreLimit ==
    ASSUME NEW l \in Nat, NEW n \in Nat
    PROVE  l * (n + 1) = l * n + l /\ l * (1 + n) = l * n + l /\ l * n \in Nat
  OBVIOUS

LEMMA StartInv == GatewayInit => GatewayInv
<1> SUFFICES ASSUME GatewayInit PROVE GatewayInv
  OBVIOUS
<1>1. IsFiniteSet({}) /\ Cardinality({}) = 0
  BY FS_EmptySet
<1>2. Keys = {}
  BY DEF GatewayInit, Keys
<1>3. GatewayTypeOK
  <2>1. 0 \in Hours /\ 0 \in 0 .. HourlyLimit /\ 0 \in 0 .. BacklogSize /\ 0 <= Slots /\ 0 <= MaxKeys
    BY GatewayAssumption DEF Hours
  <2>2. slots \subseteq Clients /\ Cardinality(slots) <= Slots /\ Cardinality(Keys) <= MaxKeys
    BY <1>1, <1>2, <2>1 DEF GatewayInit
  <2>3. /\ pc \in [Clients -> Places] /\ visitor \in [Clients -> Bots \cup {NoOne}]
        /\ read \in [Clients -> Hours] /\ counts \in [Bots -> 0 .. HourlyLimit]
    BY <2>1 DEF GatewayInit, Places
  <2>4. granted \in [Hours -> [Bots -> Nat]] /\ stragglers \in Nat
    BY DEF GatewayInit
  <2> QED BY <2>1, <2>2, <2>3, <2>4 DEF GatewayInit, GatewayTypeOK
<1>4. WithinAllowance
  <2> SUFFICES ASSUME NEW h \in Hours, NEW b \in Bots PROVE granted[h][b] <= Allowance(h, b)
    BY DEF WithinAllowance
  <2>1. granted[h][b] = 0 /\ stragglers = 0 /\ limiterHour = 0 /\ counts[b] = 0
    BY DEF GatewayInit
  <2>2. h >= 0 /\ HourlyLimit * 0 = 0 /\ HourlyLimit \in Nat
    BY GatewayAssumption DEF Hours
  <2> QED BY <2>1, <2>2 DEF Allowance
<1> QED BY <1>1, <1>3, <1>4 DEF GatewayInv, GatewayInit, VisitorKnown, QueriesMerged

\* The steps that leave the limiter and its counts alone.
LEMMA LimiterStands ==
    ASSUME GatewayInv, UNCHANGED limiterVars
    PROVE  WithinAllowance' /\ Keys' = Keys
BY DEF GatewayInv, WithinAllowance, Allowance, limiterVars, Keys

\* botLimiter.allow, with the three places its hour can have to the limiter's.
LEMMA AllowWithin ==
    ASSUME GatewayInv, NEW r \in Clients, Allow(r)
    PROVE  GatewayInv'
<1> DEFINE b == visitor[r]
           h == read[r]
           c == IF h = limiterHour THEN counts ELSE [k \in Bots |-> 0]
           K == {k \in Bots : c[k] > 0}
<1>1. GatewayTypeOK /\ b \in Bots /\ h \in Hours /\ limiterHour \in Hours
  BY DEF GatewayInv, GatewayTypeOK, VisitorKnown, Allow, Goes
<1>2. HourlyLimit \in Nat /\ stragglers \in Nat /\ MaxKeys \in Nat /\ IsFiniteSet(Bots)
  BY <1>1, GatewayAssumption DEF GatewayTypeOK
<1>3. c \in [Bots -> 0 .. HourlyLimit] /\ c \in [Bots -> Nat]
  BY <1>1, <1>2 DEF GatewayTypeOK
<1>4. Cardinality(K) <= MaxKeys
  <2>1. CASE h = limiterHour
    BY <1>1, <2>1 DEF GatewayTypeOK, Keys
  <2>2. CASE h # limiterHour
    <3>1. K = {}
      BY <2>2
    <3> QED BY <3>1, <1>2, FS_EmptySet
  <2> QED BY <2>1, <2>2
<1>5. /\ counts' = IF MayPass(b, c) THEN [c EXCEPT ![b] = @ + 1] ELSE c
      /\ granted' = IF MayPass(b, c) THEN [granted EXCEPT ![h][b] = @ + 1] ELSE granted
      /\ stragglers' = IF h < limiterHour THEN stragglers + 1 ELSE stragglers
      /\ limiterHour' = h
  BY DEF Allow
<1>6. counts' \in [Bots -> 0 .. HourlyLimit] /\ Cardinality(Keys') <= MaxKeys
  <2>1. CASE MayPass(b, c)
    <3>1. c[b] + 1 \in 0 .. HourlyLimit
      BY <1>1, <1>2, <1>3, <2>1 DEF MayPass
    <3>2. counts' = [c EXCEPT ![b] = @ + 1]
      BY <1>5, <2>1
    <3>3. Cardinality({k \in Bots : [c EXCEPT ![b] = @ + 1][k] > 0}) <= MaxKeys
      BY <1>1, <1>2, <1>3, <1>4, <2>1, KeysFit
    <3> QED BY <1>3, <3>1, <3>2, <3>3 DEF Keys
  <2>2. CASE ~ MayPass(b, c)
    BY <1>3, <1>4, <1>5, <2>2 DEF Keys
  <2> QED BY <2>1, <2>2
<1>7. granted' \in [Hours -> [Bots -> Nat]] /\ stragglers' \in Nat
  BY <1>1, <1>2, <1>5 DEF GatewayTypeOK
<1>8. GatewayTypeOK'
  <2>1. pc' \in [Clients -> Places]
    BY <1>1 DEF GatewayTypeOK, Allow, Goes, Places
  <2>2. 0 \in Hours
    BY GatewayAssumption DEF Hours
  <2>3. visitor' \in [Clients -> Bots \cup {NoOne}] /\ read' \in [Clients -> Hours]
    BY <1>1, <2>2 DEF GatewayTypeOK, Allow
  <2>4. limiterHour' \in Hours
    BY <1>1, <1>5
  <2>5. UNCHANGED <<slots, clock, statusLock, statusFresh, backlog>>
    BY DEF Allow, statusVars
  <2> QED BY <1>1, <1>6, <1>7, <2>1, <2>3, <2>4, <2>5 DEF GatewayTypeOK
<1>9. WithinAllowance'
  <2> SUFFICES ASSUME NEW g \in Hours, NEW v \in Bots
               PROVE  granted'[g][v] <= Allowance(g, v)'
    BY DEF WithinAllowance
  <2> DEFINE more == IF MayPass(b, c) /\ g = h /\ v = b THEN 1 ELSE 0
             old == HourlyLimit * stragglers
  <2>1. granted'[g][v] = granted[g][v] + more /\ granted[g][v] \in Nat
    BY <1>1, <1>5 DEF GatewayTypeOK
  <2>2. g = h => counts'[v] = c[v] + more
    BY <1>1, <1>3, <1>5
  <2>3. granted[g][v] <= Allowance(g, v)
    BY DEF GatewayInv, WithinAllowance
  <2>4. /\ old \in Nat
        /\ HourlyLimit * stragglers' = IF h < limiterHour THEN old + HourlyLimit ELSE old
    BY <1>2, <1>5, OneMoreLimit
  <2>5. c[v] \in Nat /\ counts[v] \in 0 .. HourlyLimit /\ more \in {0, 1}
        /\ g \in Int /\ h \in Int /\ limiterHour \in Int
    BY <1>1, <1>3 DEF GatewayTypeOK, Hours
  <2>6. granted[g][v] <= old + (IF g = limiterHour THEN counts[v]
                                ELSE IF g < limiterHour THEN HourlyLimit ELSE 0)
    BY <2>3 DEF Allowance
  <2>7. Allowance(g, v)' = HourlyLimit * stragglers'
            + (IF g = h THEN c[v] + more ELSE IF g < h THEN HourlyLimit ELSE 0)
    BY <1>5, <2>2 DEF Allowance
  <2>8. g # h => more = 0
    OBVIOUS
  <2>9. CASE h = limiterHour
    <3>1. c[v] = counts[v]
      BY <2>9
    <3> HIDE DEF old, more, c
    <3> QED BY <1>2, <2>1, <2>4, <2>5, <2>6, <2>7, <2>8, <2>9, <3>1
  <2>10. CASE h # limiterHour
    <3>1. c[v] = 0
      BY <2>10
    <3> HIDE DEF old, more, c
    <3> QED BY <1>2, <2>1, <2>4, <2>5, <2>6, <2>7, <2>8, <2>10, <3>1
  <2> QED BY <2>9, <2>10
<1>10. VisitorKnown' /\ QueriesMerged' /\ IsFiniteSet(slots)'
  BY <1>1 DEF GatewayInv, GatewayTypeOK, VisitorKnown, QueriesMerged, Allow, Goes, statusVars
<1> QED BY <1>8, <1>9, <1>10 DEF GatewayInv

\* A request that takes or gives back a slot.
LEMMA SlotStep ==
    ASSUME GatewayInv, NEW r \in Clients, Arrive(r) \/ Leave(r)
    PROVE  GatewayInv'
<1>1. IsFiniteSet(slots') /\ Cardinality(slots') <= Slots
  <2>1. CASE Arrive(r)
    <3>1. slots' = slots \cup {r} /\ Cardinality(slots) < Slots /\ IsFiniteSet(slots)
      BY <2>1 DEF Arrive, GatewayInv
    <3>2. /\ IsFiniteSet(slots')
          /\ Cardinality(slots') = Cardinality(slots) \/ Cardinality(slots') = Cardinality(slots) + 1
      BY <3>1, FS_AddElement
    <3> QED BY <3>1, <3>2, GatewayAssumption, FS_CardinalityType
  <2>2. CASE Leave(r)
    <3>1. slots' = slots \ {r} /\ Cardinality(slots) <= Slots /\ IsFiniteSet(slots)
      BY <2>2 DEF Leave, GatewayInv, GatewayTypeOK
    <3>2. IsFiniteSet(slots') /\ Cardinality(slots') <= Cardinality(slots)
      BY <3>1, FS_Subset
    <3> QED BY <3>1, <3>2, GatewayAssumption, FS_CardinalityType
  <2> QED BY <2>1, <2>2
<1>2. UNCHANGED limiterVars /\ UNCHANGED statusVars
  BY DEF Arrive, Leave
<1>3. WithinAllowance' /\ Keys' = Keys
  BY <1>2, LimiterStands
<1>4. GatewayTypeOK'
  BY <1>1, <1>2, <1>3
  DEF GatewayInv, GatewayTypeOK, Arrive, Leave, Goes, Places, limiterVars, statusVars
<1>5. VisitorKnown' /\ QueriesMerged'
  BY <1>2
      DEF GatewayInv, GatewayTypeOK, VisitorKnown, QueriesMerged, Arrive, Leave, Goes, statusVars
<1> QED BY <1>1, <1>3, <1>4, <1>5 DEF GatewayInv

\* The other steps of a request touch neither slots nor limiter.
LEMMA QuietStep ==
    ASSUME GatewayInv, NEW r \in Clients,
           \/ Refuse(r) \/ ReadClock(r) \/ CheckPreview(r) \/ VerifyTurnstile(r)
           \/ Render(r) \/ Answer(r) \/ RecordMetric(r)
    PROVE  GatewayInv'
<1>1. UNCHANGED <<slots, limiterVars, statusVars>>
  BY DEF Refuse, ReadClock, CheckPreview, VerifyTurnstile, Render, Answer, RecordMetric
<1>2. WithinAllowance' /\ Keys' = Keys
  BY <1>1, LimiterStands
<1>3. backlog' \in 0 .. BacklogSize
  BY GatewayAssumption DEF GatewayInv, GatewayTypeOK, Refuse, ReadClock, CheckPreview,
     VerifyTurnstile, Render, Answer, RecordMetric, Send
<1>4. /\ pc' \in [Clients -> Places] /\ visitor' \in [Clients -> Bots \cup {NoOne}]
      /\ read' \in [Clients -> Hours] /\ clock' \in Hours
  BY DEF GatewayInv, GatewayTypeOK, Refuse, ReadClock, CheckPreview, VerifyTurnstile, Render,
     Answer, RecordMetric, Goes, Places
<1>5. GatewayTypeOK'
  BY <1>1, <1>2, <1>3, <1>4 DEF GatewayInv, GatewayTypeOK, limiterVars, statusVars
<1>6. VisitorKnown' /\ QueriesMerged'
  BY <1>1 DEF GatewayInv, GatewayTypeOK, VisitorKnown, QueriesMerged, Refuse, ReadClock,
     CheckPreview, VerifyTurnstile, Render, Answer, RecordMetric, Goes, statusVars
<1> QED BY <1>1, <1>2, <1>5, <1>6 DEF GatewayInv

\* The status page: the lock is taken and given back.
LEMMA StatusStep ==
    ASSUME GatewayInv, NEW r \in Clients, LockStatus(r) \/ Queries(r)
    PROVE  GatewayInv'
<1>1. UNCHANGED <<slots, visitor, clock, read, limiterVars, backlog>>
  BY DEF LockStatus, Queries, Report, StatusFail
<1>2. WithinAllowance' /\ Keys' = Keys
  BY <1>1, LimiterStands
<1>3. GatewayTypeOK'
  BY <1>1, <1>2 DEF GatewayInv, GatewayTypeOK, LockStatus, Queries, Report, StatusFail, Goes,
     Places, limiterVars
<1>4. VisitorKnown'
  BY <1>1 DEF GatewayInv, GatewayTypeOK, VisitorKnown, LockStatus, Queries, Report, StatusFail, Goes
<1>5. QueriesMerged'
  <2>1. CASE LockStatus(r)
    BY <2>1, GatewayAssumption DEF GatewayInv, GatewayTypeOK, QueriesMerged, LockStatus, Goes
  <2>2. CASE Queries(r)
    BY <2>2 DEF GatewayInv, GatewayTypeOK, QueriesMerged, Queries, Report, StatusFail, Goes
  <2> QED BY <2>1, <2>2
<1> QED BY <1>1, <1>2, <1>3, <1>4, <1>5 DEF GatewayInv

\* The writer and the clock.
LEMMA OutsideStep ==
    ASSUME GatewayInv, WriteMetric \/ MinutePasses \/ HourTurns
    PROVE  GatewayInv'
<1>1. UNCHANGED <<slots, pc, visitor, read, limiterVars, statusLock>>
  BY DEF WriteMetric, MinutePasses, HourTurns, statusVars
<1>2. WithinAllowance' /\ Keys' = Keys
  BY <1>1, LimiterStands
<1>3. backlog' \in 0 .. BacklogSize /\ clock' \in Hours
  BY GatewayAssumption DEF GatewayInv, GatewayTypeOK, WriteMetric, MinutePasses, HourTurns, Hours
<1>4. statusFresh' \in BOOLEAN /\ (statusFresh' => statusFresh)
  <2>1. statusFresh \in BOOLEAN
    BY DEF GatewayInv, GatewayTypeOK
  <2>2. statusFresh' = FALSE \/ statusFresh' = statusFresh
    BY DEF WriteMetric, MinutePasses, HourTurns, statusVars
  <2>3. CASE statusFresh' = FALSE
    BY <2>3
  <2>4. CASE statusFresh' = statusFresh
    BY <2>1, <2>4
  <2> QED BY <2>2, <2>3, <2>4
<1>5. GatewayTypeOK'
  BY <1>1, <1>2, <1>3, <1>4 DEF GatewayInv, GatewayTypeOK, limiterVars
<1> QED BY <1>1, <1>2, <1>4, <1>5 DEF GatewayInv, VisitorKnown, QueriesMerged

-----------------------------------------------------------------------------
\* The inductive invariant of the gateway: types and bounds, who holds the
\* status lock, and what each hour has granted against what the limiter knows.
THEOREM GatewayInvariant == GatewaySpec => []GatewayInv
<1>1. ASSUME GatewayInv, [GatewayNext]_gatewayVars PROVE GatewayInv'
  <2>1. CASE UNCHANGED gatewayVars
    <3>1. UNCHANGED limiterVars
      BY <2>1 DEF gatewayVars
    <3>2. WithinAllowance' /\ Keys' = Keys
      BY <1>1, <3>1, LimiterStands
    <3> QED BY <1>1, <2>1, <3>2 DEF GatewayInv, GatewayTypeOK, VisitorKnown, QueriesMerged,
            gatewayVars, limiterVars, statusVars
  <2>2. CASE WriteMetric \/ MinutePasses \/ HourTurns
    BY <1>1, <2>2, OutsideStep
  <2>3. ASSUME NEW r \in Clients,
               Arrive(r) \/ Refuse(r) \/ Proceeds(r) \/ LockStatus(r) \/ Queries(r)
        PROVE  GatewayInv'
    <3>1. CASE Allow(r)
      BY <1>1, <3>1, AllowWithin
    <3>2. CASE Arrive(r) \/ Leave(r)
      BY <1>1, <3>2, SlotStep
    <3>3. CASE LockStatus(r) \/ Queries(r)
      BY <1>1, <3>3, StatusStep
    <3>4. CASE \/ Refuse(r) \/ ReadClock(r) \/ CheckPreview(r) \/ VerifyTurnstile(r)
               \/ Render(r) \/ Answer(r) \/ RecordMetric(r)
      BY <1>1, <3>4, QuietStep
    <3> QED BY <2>3, <3>1, <3>2, <3>3, <3>4 DEF Proceeds
  <2> QED BY <1>1, <2>1, <2>2, <2>3 DEF GatewayNext
<1> QED BY <1>1, StartInv, PTL DEF GatewaySpec

\* Gateway!GatewayTypeOK: admitted requests never exceed the slots, no visitor
\* the hourly limit within one run of the counts, and the limiter's map keeps its
\* bound.
THEOREM AdmissionBounded == GatewaySpec => []GatewayTypeOK
<1>1. GatewayInv => GatewayTypeOK
  BY DEF GatewayInv
<1> QED BY <1>1, GatewayInvariant, PTL

\* Gateway!BotCapKept: over the turn of every hour, a visitor is granted the
\* limit once, and once more for each straggling call.
THEOREM BotCap == GatewaySpec => []BotCapKept
<1>1. ASSUME GatewayInv PROVE BotCapKept
  <2> SUFFICES ASSUME NEW h \in Hours, NEW b \in Bots
               PROVE  granted[h][b] <= HourlyLimit * (1 + stragglers)
    BY DEF BotCapKept
  <2>1. /\ HourlyLimit \in Nat /\ stragglers \in Nat /\ counts[b] \in 0 .. HourlyLimit
        /\ granted[h][b] \in Nat
    BY <1>1, GatewayAssumption DEF GatewayInv, GatewayTypeOK
  <2>2. HourlyLimit * (1 + stragglers) = HourlyLimit * stragglers + HourlyLimit
        /\ HourlyLimit * stragglers \in Nat
    BY <2>1, OneMoreLimit
  <2>3. granted[h][b] <= Allowance(h, b)
    BY <1>1 DEF GatewayInv, WithinAllowance
  <2> DEFINE rest == IF h = limiterHour THEN counts[b]
                     ELSE IF h < limiterHour THEN HourlyLimit ELSE 0
  <2>4. rest \in 0 .. HourlyLimit
    BY <2>1
  <2>5. Allowance(h, b) = HourlyLimit * stragglers + rest
    BY DEF Allowance
  <2> HIDE DEF rest
  <2> QED BY <2>1, <2>2, <2>3, <2>4, <2>5
<1> QED BY <1>1, GatewayInvariant, PTL

\* Gateway!QueriesMerged: one query of the status page at a time, and none over
\* a fresh report.
THEOREM OneQuery == GatewaySpec => []QueriesMerged
<1>1. GatewayInv => QueriesMerged
  BY DEF GatewayInv
<1> QED BY <1>1, GatewayInvariant, PTL

-----------------------------------------------------------------------------
(* What the edge keeps *)

\* Answers of a lookup, as the cache and a handler hold them.
Kinds == {"none", "full", "partial", "transient", "final"}
Held == [kind : Kinds, cdn : Expiries, until : Nat]

\* What the cache holds and what a handler works from are answers; a handler
\* that is about to respond has one, and a live entry is one.
AnswersHeld ==
    /\ entry \in Held /\ ans \in Held
    /\ entry.kind = "none" => entry.until = 0
    /\ place = "answering" => ans.kind # "none"

EdgeInv == EdgeTypeOK /\ AnswersHeld /\ EdgeKeepsNothingProvisional /\ EdgeOutlivesNothing

-----------------------------------------------------------------------------
\* The larger of two numbers.
LEMMA MaxOfTwo ==
    ASSUME NEW a \in Int, NEW b \in Int
    PROVE  Max({a, b}) = IF a >= b THEN a ELSE b
<1> DEFINE m == IF a >= b THEN a ELSE b
<1>1. m \in {a, b} /\ \A y \in {a, b} : m >= y
  OBVIOUS
<1>2. \A x \in {a, b} : (\A y \in {a, b} : x >= y) => x = m
  OBVIOUS
<1> HIDE DEF m
<1>3. Max({a, b}) = m
  BY <1>1, <1>2 DEF Max
<1> QED BY <1>3 DEF m

\* The smaller of two numbers.
LEMMA MinOfTwo ==
    ASSUME NEW a \in Int, NEW b \in Int
    PROVE  Min({a, b}) = IF a <= b THEN a ELSE b
<1> DEFINE m == IF a <= b THEN a ELSE b
<1>1. m \in {a, b} /\ \A y \in {a, b} : m <= y
  OBVIOUS
<1>2. \A x \in {a, b} : (\A y \in {a, b} : x <= y) => x = m
  OBVIOUS
<1> HIDE DEF m
<1>3. Min({a, b}) = m
  BY <1>1, <1>2 DEF Min
<1> QED BY <1>3 DEF m

\* The constants as numbers.
LEMMA EdgeNumbers ==
    /\ Minute \in Nat \ {0} /\ Partial \in Nat \ {0} /\ Margin \in Nat \ {0} /\ Hour \in Nat \ {0}
    /\ Day \in Nat \ {0} /\ Capability \in Nat \ {0} /\ MaxTime \in Nat \ {0} /\ Never \in Nat \ {0}
    /\ Minute < Day /\ Hour <= Day /\ Minute <= Partial /\ 2 * Hour <= Capability + 1
    /\ Never > MaxTime + Day + Margin
    /\ Expiries \subseteq Nat /\ Never \in Expiries
BY EdgeAssumption DEF Expiries

\* cacheTTLFromURLs: within the floor and a day, and but for the floor never
\* past the expiry of the URL.
LEMMA CacheTTLBounds ==
    ASSUME now \in Times, NEW cdn \in Expiries
    PROVE  /\ CacheTTLFromURL(cdn) \in 1 .. Day
           /\ CacheTTLFromURL(cdn) = Minute \/ now + CacheTTLFromURL(cdn) <= cdn
<1>1. cdn \in Nat /\ now \in Nat /\ now <= MaxTime
  BY EdgeNumbers DEF Times
<1>2. CASE cdn = Never
  BY <1>1, <1>2, EdgeNumbers DEF CacheTTLFromURL
<1>3. CASE cdn # Never
  <2> DEFINE floored == Max({cdn - now - Margin, Minute})
  <2>1. floored = IF cdn - now - Margin >= Minute THEN cdn - now - Margin ELSE Minute
    BY <1>1, EdgeNumbers, MaxOfTwo
  <2>2. floored \in Int
    BY <1>1, <2>1, EdgeNumbers
  <2>3. CacheTTLFromURL(cdn) = Min({Day, floored})
    BY <1>3 DEF CacheTTLFromURL
  <2> HIDE DEF floored
  <2>4. CacheTTLFromURL(cdn) = IF Day <= floored THEN Day ELSE floored
    BY <2>2, <2>3, EdgeNumbers, MinOfTwo
  <2> QED BY <1>1, <2>1, <2>4, EdgeNumbers
<1> QED BY <1>2, <1>3

\* offloadEdgeTTL stays within the link and, but for the floor, within the URL.
LEMMA OffloadTTLBounds ==
    ASSUME now \in Times, NEW cdn \in Expiries, NEW exp \in Int
    PROVE  /\ OffloadEdgeTTL(cdn, exp) \in 0 .. Day
           /\ OffloadEdgeTTL(cdn, exp) > 0 =>
                 /\ now + OffloadEdgeTTL(cdn, exp) <= exp
                 /\ OffloadEdgeTTL(cdn, exp) <= Minute \/ now + OffloadEdgeTTL(cdn, exp) <= cdn
<1>1. cdn \in Nat /\ now \in Nat
  BY EdgeNumbers DEF Times
<1> DEFINE c == CacheTTLFromURL(cdn)
           rest == Min({c, exp - now})
<1>2. c \in 1 .. Day /\ (c = Minute \/ now + c <= cdn)
  BY CacheTTLBounds
<1> HIDE DEF c
<1>3. rest = IF c <= exp - now THEN c ELSE exp - now
  BY <1>1, <1>2, EdgeNumbers, MinOfTwo
<1>4. rest \in Int
  BY <1>1, <1>2, <1>3, EdgeNumbers
<1>5. OffloadEdgeTTL(cdn, exp) = IF rest >= 0 THEN rest ELSE 0
  BY <1>4, MaxOfTwo DEF OffloadEdgeTTL, c
<1> HIDE DEF rest
<1> QED BY <1>1, <1>2, <1>3, <1>4, <1>5, EdgeNumbers

\* directMediaEdgeTTL stays within the URL.
LEMMA DirectTTLBounds ==
    ASSUME now \in Times, NEW cdn \in Expiries
    PROVE  /\ DirectEdgeTTL(cdn) \in 0 .. Day
           /\ DirectEdgeTTL(cdn) > 0 => now + DirectEdgeTTL(cdn) <= cdn
<1>1. cdn \in Nat /\ now \in Nat
  BY EdgeNumbers DEF Times
<1>2. CASE cdn = Never
  BY <1>2, EdgeNumbers DEF DirectEdgeTTL
<1>3. CASE cdn # Never
  <2> DEFINE rest == Min({Day, cdn - now - Margin})
  <2>1. rest = IF Day <= cdn - now - Margin THEN Day ELSE cdn - now - Margin
    BY <1>1, EdgeNumbers, MinOfTwo
  <2>2. rest \in Int
    BY <1>1, <2>1, EdgeNumbers
  <2>3. DirectEdgeTTL(cdn) = IF rest >= 0 THEN rest ELSE 0
    BY <1>3, <2>2, MaxOfTwo DEF DirectEdgeTTL
  <2> HIDE DEF rest
  <2> QED BY <1>1, <2>1, <2>2, <2>3, EdgeNumbers
<1> QED BY <1>2, <1>3

\* A link minted now lasts an hour at the least, truncated as its expiry is.
LEMMA MintedLasts ==
    ASSUME now \in Times
    PROVE  Minted(now) \in Int /\ now + Hour <= Minted(now)
<1>1. now \in Nat
  BY EdgeNumbers DEF Times
<1> DEFINE t == now + Capability
<1>2. t \in Nat /\ t % Hour \in 0 .. Hour - 1
  BY <1>1, EdgeNumbers
<1>3. Minted(now) = t - (t % Hour)
  BY DEF Minted, Truncated
<1> QED BY <1>1, <1>2, <1>3, EdgeNumbers

-----------------------------------------------------------------------------
\* Responses.
Resps == [status : {200, 302, 404}, origin : BOOLEAN, html : BOOLEAN,
          cdn : Expiries, preset : {0, Minute}]

\* originStatus set on a response.
LEMMA MarkedResp ==
    ASSUME NEW r \in Resps
    PROVE  /\ [r EXCEPT !.origin = TRUE] \in Resps /\ [r EXCEPT !.origin = TRUE].origin
           /\ [r EXCEPT !.origin = TRUE].html = r.html
           /\ [r EXCEPT !.origin = TRUE].preset = r.preset
BY DEF Resps

\* The mark of a partial post.
LEMMA PartialMark ==
    ASSUME NEW r \in Resps, NEW a
    PROVE  /\ PartialResp(r, a) \in Resps
           /\ PartialResp(r, a).html = r.html /\ PartialResp(r, a).preset = r.preset
           /\ PartialResp(r, a).origin <=> r.origin \/ a.kind = "partial"
BY MarkedResp DEF PartialResp

\* A response that is not a page keeps no preset lifetime unmarked.
Bare(r) == r \in Resps /\ ~ r.html /\ (~ r.origin => r.preset = 0)

\* The redirects and the copied avatar.
LEMMA MediaMark ==
    ASSUME NEW cdn \in Expiries, NEW r \in MediaResps(cdn)
    PROVE  Bare(r)
<1>1. Never \in Expiries /\ cdn \in Expiries
  BY EdgeNumbers
<1>2. \/ r = Response(200, FALSE, FALSE, cdn, 0) \/ r = Response(302, FALSE, FALSE, Never, 0)
      \/ r = Response(302, TRUE, FALSE, cdn, Minute) \/ r = Response(302, FALSE, FALSE, cdn, 0)
  BY DEF MediaResps, AvatarResps
<1>3. ASSUME NEW u \in Expiries, NEW t \in {200, 302}, r = Response(t, FALSE, FALSE, u, 0)
      PROVE  Bare(r)
  BY <1>3 DEF Bare, Response, Resps
<1>4. CASE r = Response(302, TRUE, FALSE, cdn, Minute)
  BY <1>1, <1>4 DEF Bare, Response, Resps
<1> QED BY <1>1, <1>2, <1>3, <1>4 DEF Response

\* What the rest needs of a link.
LEMMA LinkFields ==
    ASSUME link \in Links
    PROVE  /\ link.route \in {"offload", "direct", "card"}
           /\ link.exp \in Nat
           /\ link.route = "offload" => link.exp <= Capability
           /\ link.want = "activity" => link.route = "card"
<1>1. CASE link \in [route : {"offload"}, source : {"post", "other"}, want : {"first", "later", "avatar"},
                     genuine : {TRUE}, exp : {h \in 1 .. Capability : h % Hour = 0}]
  BY <1>1, EdgeNumbers
<1>2. CASE link \in [route : {"offload"}, source : {"post"}, want : {"first"},
                     genuine : {FALSE}, exp : {Capability}]
  BY <1>2, EdgeNumbers
<1>3. CASE link \in [route : {"direct"}, source : {"post", "other"}, want : {"first", "later"},
                     genuine : {TRUE}, exp : {Never}]
  BY <1>3, EdgeNumbers
<1>4. CASE link \in [route : {"card"}, source : {"post", "other"}, want : {"html", "activity"},
                     genuine : {TRUE}, exp : {Never}]
  BY <1>4, EdgeNumbers
<1> QED BY <1>1, <1>2, <1>3, <1>4 DEF Links

\* What every handler keeps to: a response its own preset lifetime stands on is
\* marked, and of what is not a full answer only an activity document goes
\* unmarked.
Kept(a, r) ==
    /\ r \in Resps
    /\ ~ r.origin => r.preset = 0
    /\ ~ r.origin /\ a.kind # "full" => link.route = "card" /\ ~ r.html
    /\ link.route = "card" => (r.html <=> link.want = "html")

\* The card's page.
LEMMA PageMark ==
    ASSUME NEW a \in Held, a.kind # "none", NEW r \in Responses(a), link.route = "card"
    PROVE  Kept(a, r)
<1> DEFINE page == Response(200, FALSE, link.want = "html", Never, 0)
<1>1. /\ page \in Resps /\ page.preset = 0 /\ ~ page.origin
      /\ page.html <=> link.want = "html"
  <2>1. Never \in Expiries
    BY EdgeNumbers
  <2>2. CASE link.want = "html"
    <3>1. page = [status |-> 200, origin |-> FALSE, html |-> TRUE, cdn |-> Never, preset |-> 0]
      BY <2>2 DEF Response
    <3> HIDE DEF page
    <3> QED BY <2>1, <2>2, <3>1 DEF Resps
  <2>3. CASE link.want # "html"
    <3>1. page = [status |-> 200, origin |-> FALSE, html |-> FALSE, cdn |-> Never, preset |-> 0]
      BY <2>3 DEF Response
    <3> HIDE DEF page
    <3> QED BY <2>1, <2>3, <3>1 DEF Resps
  <2> QED BY <2>2, <2>3
<1>2. r \in IF a.kind \in {"transient", "final"} THEN {[page EXCEPT !.origin = TRUE]}
            ELSE IF link.want = "html" THEN {PartialResp(page, a)} ELSE {page}
  BY DEF Responses
<1> HIDE DEF page
<1>3. CASE a.kind \in {"transient", "final"}
  <2>1. r = [page EXCEPT !.origin = TRUE]
    BY <1>2, <1>3
  <2>2. /\ [page EXCEPT !.origin = TRUE] \in Resps /\ [page EXCEPT !.origin = TRUE].origin
        /\ [page EXCEPT !.origin = TRUE].html = page.html
    BY <1>1, MarkedResp
  <2> QED BY <1>1, <2>1, <2>2 DEF Kept
<1>4. CASE a.kind \notin {"transient", "final"} /\ link.want = "html"
  <2>1. r = PartialResp(page, a) /\ a.kind \in {"full", "partial"}
    BY <1>2, <1>4 DEF Held, Kinds
  <2> QED BY <1>1, <1>4, <2>1, PartialMark DEF Kept
<1>5. CASE a.kind \notin {"transient", "final"} /\ link.want # "html"
  BY <1>1, <1>2, <1>5 DEF Kept
<1> QED BY <1>3, <1>4, <1>5

\* Every handler keeps to it.
LEMMA HandlersMark ==
    ASSUME NEW a \in Held, a.kind # "none", NEW r \in Responses(a)
    PROVE  Kept(a, r)
<1>1. a.cdn \in Expiries /\ Never \in Expiries /\ 404 \in {200, 302, 404} /\ 302 \in {200, 302, 404}
  BY EdgeNumbers DEF Held
<1>2. a.kind \in {"full", "partial", "transient", "final"}
  BY DEF Held, Kinds
<1>3. CASE link.route = "card"
  BY <1>3, PageMark
<1>4. CASE link.route # "card" /\ a.kind \in {"transient", "final"}
  <2>1. \E t \in {302, 404} :
           r = [status |-> t, origin |-> TRUE, html |-> FALSE, cdn |-> Never, preset |-> 0]
    BY <1>4 DEF Responses, OffloadErrorResp, Response
  <2>2. r \in Resps /\ r.origin
    BY <1>1, <2>1 DEF Resps
  <2> QED BY <1>4, <2>2 DEF Kept
<1>5. CASE link.route # "card" /\ a.kind = "partial"
  <2>1. \/ r = PartialResp(Response(302, FALSE, FALSE, Never, 0), a)
        \/ \E m \in MediaResps(a.cdn) : r = PartialResp(m, a)
    BY <1>5 DEF Responses
  <2>2. PICK m \in Resps : r = PartialResp(m, a)
    BY <1>1, <2>1, MediaMark DEF Bare, Response, Resps
  <2> QED BY <1>5, <2>2, PartialMark DEF Kept
<1>6. CASE link.route # "card" /\ a.kind = "full"
  <2>1. \/ r = Response(404, FALSE, FALSE, Never, 0)
        \/ \E m \in MediaResps(a.cdn) : r = PartialResp(m, a)
    BY <1>6 DEF Responses
  <2>2. \A m : PartialResp(m, a) = m
    BY <1>6 DEF PartialResp
  <2>3. ASSUME r = Response(404, FALSE, FALSE, Never, 0) PROVE Bare(r)
    BY <1>1, <2>3 DEF Bare, Response, Resps
  <2>4. Bare(r)
    BY <1>1, <2>1, <2>2, <2>3, MediaMark DEF Response
  <2> QED BY <1>6, <2>4 DEF Bare, Kept
<1> QED BY <1>2, <1>3, <1>4, <1>5, <1>6

\* The edge's lifetime of a response: at most a day; more than a minute only for
\* a full answer; and for one within what EdgeOutlivesNothing allows.
LEMMA EdgeTTLBounds ==
    ASSUME now \in Times, link \in Links, NEW a \in Held, NEW r, Kept(a, r), a.kind # "none"
    PROVE  /\ EdgeTTL(r) \in 0 .. Day
           /\ EdgeTTL(r) > Minute => Called(a, r) = "full"
           /\ EdgeTTL(r) > 0 /\ Called(a, r) = "full" =>
                 /\ link.route = "offload" =>
                         /\ now + EdgeTTL(r) <= link.exp
                         /\ EdgeTTL(r) <= Minute \/ now + EdgeTTL(r) <= r.cdn
                 /\ link.route = "direct" => now + EdgeTTL(r) <= r.cdn
                 /\ link.route = "card" => now + EdgeTTL(r) <= Minted(now)
<1>1. /\ r.cdn \in Expiries /\ r.preset \in {0, Minute} /\ 0 <= r.preset /\ r.preset <= Minute
      /\ r.preset \in 0 .. Day
  BY EdgeNumbers DEF Kept, Resps
<1>2. /\ link.route \in {"offload", "direct", "card"} /\ link.exp \in Int
      /\ link.want = "activity" => link.route = "card"
  BY LinkFields
<1>3. Called(a, r) = "full" <=> a.kind = "full" /\ ~ r.origin /\ link.want # "activity"
  BY DEF Called, Held, Kinds
<1>4. CASE link.route = "offload" /\ r.status \in {200, 302} /\ ~ r.origin
  <2>1. EdgeTTL(r) = OffloadEdgeTTL(r.cdn, link.exp)
    BY <1>4 DEF EdgeTTL
  <2>2. Called(a, r) = "full"
    BY <1>2, <1>3, <1>4 DEF Kept
  <2> QED BY <1>1, <1>2, <1>4, <2>1, <2>2, OffloadTTLBounds
<1>5. CASE link.route = "direct" /\ r.status = 302 /\ ~ r.origin
  <2>1. EdgeTTL(r) = DirectEdgeTTL(r.cdn)
    BY <1>5 DEF EdgeTTL
  <2>2. Called(a, r) = "full"
    BY <1>2, <1>3, <1>5 DEF Kept
  <2> QED BY <1>1, <1>5, <2>1, <2>2, DirectTTLBounds
<1>6. CASE link.route = "card" /\ r.status = 200 /\ ~ r.origin /\ r.html
  <2>1. EdgeTTL(r) = Hour /\ Hour \in 0 .. Day
    BY <1>6, EdgeNumbers DEF EdgeTTL
  <2>2. Called(a, r) = "full"
    BY <1>3, <1>6 DEF Kept
  <2> QED BY <1>6, <2>1, <2>2, MintedLasts
<1>7. CASE /\ ~ (link.route = "offload" /\ r.status \in {200, 302} /\ ~ r.origin)
           /\ ~ (link.route = "direct" /\ r.status = 302 /\ ~ r.origin)
           /\ ~ (link.route = "card" /\ r.status = 200 /\ ~ r.origin /\ r.html)
  <2>1. EdgeTTL(r) = r.preset
    BY <1>7 DEF EdgeTTL
  <2>2. ~ (EdgeTTL(r) > Minute) /\ EdgeTTL(r) \in 0 .. Day
    BY <1>1, <2>1, EdgeNumbers
  <2>3. Called(a, r) = "full" => EdgeTTL(r) = 0
    BY <1>3, <2>1 DEF Kept
  <2> QED BY <2>2, <2>3
<1> QED BY <1>4, <1>5, <1>6, <1>7

-----------------------------------------------------------------------------
\* The start.
LEMMA StartEdge == EdgeInit => EdgeInv
<1> SUFFICES ASSUME EdgeInit PROVE EdgeInv
  OBVIOUS
<1>1. /\ 0 \in Times /\ 0 \in 0 .. MaxTime + Partial /\ 0 \in 0 .. MaxTime + Day
      /\ Never \in Expiries
  BY EdgeNumbers DEF Times
<1>2. EdgeTypeOK
  BY <1>1 DEF EdgeInit, EdgeTypeOK, KeyChoices, Nothing, NoCopy
<1>3. AnswersHeld
  BY <1>1 DEF EdgeInit, AnswersHeld, Nothing, Held, Kinds
<1>4. EdgeKeepsNothingProvisional /\ EdgeOutlivesNothing
  <2>1. copy.what = "none" /\ copy.until = 0 /\ copy.since = 0 /\ ~ (0 - 0 > Minute)
    BY EdgeNumbers DEF EdgeInit, NoCopy
  <2> QED BY <2>1 DEF EdgeKeepsNothingProvisional, KeptLong, EdgeOutlivesNothing
<1> QED BY <1>2, <1>3, <1>4 DEF EdgeInv

\* A step that leaves the clock, the link and the copy alone keeps what is said
\* of the copy.
LEMMA CopyStays ==
    ASSUME EdgeInv, UNCHANGED <<now, link, copy>>
    PROVE  EdgeKeepsNothingProvisional' /\ EdgeOutlivesNothing'
BY DEF EdgeInv, EdgeKeepsNothingProvisional, KeptLong, EdgeOutlivesNothing

\* The request before its answer.
LEMMA AskingKeeps ==
    ASSUME EdgeInv, Ask \/ LookAtCard \/ LookAtPosts \/ Get \/ Deadline
    PROVE  EdgeInv'
<1> USE DEF EdgeInv
<1>1. UNCHANGED <<now, link, known, card, entry, copy>>
  BY DEF Ask, LookAtCard, LookAtPosts, Get, Deadline
<1>2. now \in Nat /\ Never \in Expiries
  BY EdgeNumbers DEF EdgeTypeOK, Times
<1>3. Fresh => entry.kind # "none"
  BY <1>2 DEF AnswersHeld, Fresh
<1>4. ans' \in Held /\ (place' = "answering" => ans'.kind # "none")
  <2>1. CASE Ask \/ LookAtCard
    BY <2>1 DEF AnswersHeld, Ask, LookAtCard
  <2>2. CASE LookAtPosts
    <3>1. CASE Fresh
      BY <2>2, <3>1 DEF AnswersHeld, LookAtPosts
    <3>2. CASE ~ Fresh
      BY <1>2, <2>2, <3>2 DEF LookAtPosts, Held, Kinds
    <3> QED BY <3>1, <3>2
  <2>3. CASE Get
    <3>1. CASE Fresh
      BY <1>3, <2>3, <3>1 DEF AnswersHeld, Get, Held
    <3>2. CASE ~ Fresh
      BY <2>3, <3>2 DEF AnswersHeld, Get
    <3> QED BY <3>1, <3>2
  <2>4. CASE Deadline
    <3>1. \E k \in {"partial", "transient"} : ans' = [kind |-> k, cdn |-> Never, until |-> 0]
      BY <2>4 DEF Deadline, Nothing
    <3> QED BY <1>2, <3>1 DEF Held, Kinds
  <2> QED BY <2>1, <2>2, <2>3, <2>4
<1>5. /\ flying' \in BOOLEAN /\ late' \in BOOLEAN
      /\ place' \in {"idle", "looking", "carded", "looked", "waiting", "answering"}
  BY DEF EdgeTypeOK, Ask, LookAtCard, LookAtPosts, Get, Deadline
<1>6. EdgeTypeOK'
  BY <1>1, <1>4, <1>5 DEF EdgeTypeOK, Held, Kinds
<1> QED BY <1>1, <1>4, <1>6, CopyStays DEF AnswersHeld

\* What Keep leaves, for a lifetime of at most a day.
LEMMA KeepKeeps ==
    ASSUME EdgeInv, NEW what, NEW cdn \in Expiries, NEW ttl \in 0 .. Day, Keep(what, cdn, ttl),
           UNCHANGED <<now, link>>,
           ttl > Minute => \/ what = "full"
                           \/ what = "refused" /\ ~ (link.genuine /\ link.exp > now),
           ttl > 0 /\ what = "full" =>
                 /\ link.route = "offload" => /\ now + ttl <= link.exp
                                              /\ ttl <= Minute \/ now + ttl <= cdn
                 /\ link.route = "direct" => now + ttl <= cdn
                 /\ link.route = "card" => now + ttl <= Minted(now)
    PROVE  /\ copy'.until \in 0 .. MaxTime + Day /\ copy'.since \in Times
           /\ EdgeKeepsNothingProvisional' /\ EdgeOutlivesNothing'
<1> USE DEF EdgeInv
<1>1. CASE ~ (ttl > 0)
  <2>1. copy' = copy
    BY <1>1 DEF Keep
  <2> QED BY <2>1, CopyStays DEF EdgeTypeOK
<1>2. CASE ttl > 0
  <2>1. /\ copy'.what = what /\ copy'.cdn = cdn /\ copy'.since = now /\ copy'.until = now + ttl
        /\ link.route = "card" => copy'.minted = Minted(now)
    BY <1>2 DEF Keep
  <2>2. now \in Nat /\ now <= MaxTime /\ ttl \in Nat /\ ttl <= Day /\ cdn \in Nat
    BY EdgeNumbers DEF EdgeTypeOK, Times
  <2>3. copy'.until \in 0 .. MaxTime + Day /\ copy'.since \in Times
    BY <2>1, <2>2, EdgeNumbers DEF Times
  <2>4. copy'.until - copy'.since = ttl
    BY <2>1, <2>2
  <2>5. EdgeKeepsNothingProvisional'
    BY <2>1, <2>4 DEF EdgeKeepsNothingProvisional, KeptLong
  <2>6. ASSUME what = "full", link.route = "offload"
        PROVE  now + ttl <= link.exp /\ now + ttl <= Max({cdn, now + Minute})
    <3>1. Max({cdn, now + Minute}) = IF cdn >= now + Minute THEN cdn ELSE now + Minute
      BY <2>2, EdgeNumbers, MaxOfTwo
    <3> QED BY <1>2, <2>2, <2>6, <3>1, EdgeNumbers
  <2>7. EdgeOutlivesNothing'
    <3>1. link.route \in {"offload", "direct", "card"}
      BY LinkFields DEF EdgeTypeOK
    <3>2. CASE what = "full" /\ link.route = "offload"
      BY <2>1, <2>6, <3>2 DEF EdgeOutlivesNothing
    <3>3. CASE what = "full" /\ link.route # "offload"
      BY <1>2, <2>1, <3>1, <3>3 DEF EdgeOutlivesNothing
    <3>4. CASE what # "full"
      BY <2>1, <3>4 DEF EdgeOutlivesNothing
    <3> QED BY <3>2, <3>3, <3>4
  <2> QED BY <2>3, <2>5, <2>7
<1> QED BY <1>1, <1>2

\* A refusal is kept a day only where no key can make the link valid meanwhile.
LEMMA RefusalKeeps ==
    ASSUME EdgeInv, Refuse404
    PROVE  EdgeInv'
<1> USE DEF EdgeInv
<1>1. /\ UNCHANGED <<now, link, known, card, entry, flying, place, late, ans>>
      /\ Keep("refused", Never, RefusalTTL(known)) /\ link.route = "offload" /\ ~ Authorized
  BY DEF Refuse404
<1>2. RefusalTTL(known) \in 0 .. Day /\ (RefusalTTL(known) > Minute => known)
  BY EdgeNumbers DEF RefusalTTL
<1>3. known => ~ (link.genuine /\ link.exp > now)
  <2>1. link.exp \in Nat /\ link.exp <= Capability /\ now \in Nat
    BY <1>1, LinkFields, EdgeNumbers DEF EdgeTypeOK, Times
  <2>2. link.exp <= now + Capability
    BY <2>1, EdgeNumbers
  <2> QED BY <1>1, <2>2 DEF Authorized
<1>4. /\ copy'.until \in 0 .. MaxTime + Day /\ copy'.since \in Times
      /\ EdgeKeepsNothingProvisional' /\ EdgeOutlivesNothing'
  BY <1>1, <1>2, <1>3, EdgeNumbers, KeepKeeps
<1> QED BY <1>1, <1>4 DEF EdgeTypeOK, AnswersHeld

\* A response is kept as its handler has marked it.
LEMMA RespondKeeps ==
    ASSUME EdgeInv, Respond
    PROVE  EdgeInv'
<1> USE DEF EdgeInv
<1>1. /\ UNCHANGED <<now, link, known, card, entry, flying>>
      /\ place = "answering" /\ place' = "idle" /\ late' = FALSE /\ ans' = Nothing
  BY DEF Respond
<1>2. PICK r \in Responses(ans) : Keep(Called(ans, r), r.cdn, EdgeTTL(r))
  BY DEF Respond
<1>3. ans \in Held /\ ans.kind # "none" /\ Kept(ans, r)
  BY <1>1, HandlersMark DEF AnswersHeld
<1>4. /\ copy'.until \in 0 .. MaxTime + Day /\ copy'.since \in Times
      /\ EdgeKeepsNothingProvisional' /\ EdgeOutlivesNothing'
  <2>1. now \in Times /\ link \in Links
    BY DEF EdgeTypeOK
  <2>2. r.cdn \in Expiries
    BY <1>3 DEF Kept, Resps
  <2> QED BY <1>1, <1>2, <1>3, <2>1, <2>2, EdgeTTLBounds, KeepKeeps
<1>5. Nothing \in Held /\ Nothing.kind = "none"
  BY EdgeNumbers DEF Nothing, Held, Kinds
<1> QED BY <1>1, <1>4, <1>5 DEF EdgeTypeOK, AnswersHeld

\* What a flight brings is an answer.
LEMMA FlightKeeps ==
    ASSUME EdgeInv, FlightFindsCard \/ FlightEnds
    PROVE  EdgeInv'
<1> USE DEF EdgeInv
<1>1. UNCHANGED <<now, link, known, late, copy>>
  BY DEF FlightFindsCard, FlightEnds
<1>2. now \in Nat /\ now <= MaxTime /\ Never \in Expiries
  BY EdgeNumbers DEF EdgeTypeOK, Times
<1>3. CASE FlightFindsCard
  <2>1. /\ UNCHANGED <<entry, flying, place, ans>>
        /\ card' = now + Minute \/ card' = now + Partial
    BY <1>3 DEF FlightFindsCard
  <2>2. card' \in 0 .. MaxTime + Partial
    BY <1>2, <2>1, EdgeNumbers
  <2> QED BY <1>1, <2>1, <2>2, CopyStays DEF EdgeTypeOK, AnswersHeld
<1>4. CASE FlightEnds
  <2>1. PICK e \in Ends :
            /\ entry' = e
            /\ IF place = "waiting"
               THEN place' = "answering" /\ ans' = [e EXCEPT !.until = 0]
               ELSE UNCHANGED <<place, ans>>
    BY <1>4 DEF FlightEnds
  <2>2. e \in Held /\ e.kind # "none"
    <3>1. ASSUME NEW u \in Expiries,
                 e = [kind |-> "full", cdn |-> u, until |-> now + CacheTTLFromURL(u)]
          PROVE  e \in Held /\ e.kind # "none"
      <4>1. now + CacheTTLFromURL(u) \in Nat
        <5>1. CacheTTLFromURL(u) \in 1 .. Day
          BY CacheTTLBounds DEF EdgeTypeOK
        <5> QED BY <1>2, <5>1, EdgeNumbers
      <4> QED BY <3>1, <4>1 DEF Held, Kinds
    <3>2. ASSUME e \in [kind : IF link.source = "post" THEN {"partial"} ELSE {}, cdn : {Never},
                        until : {now + Minute, now + Hour}]
          PROVE  e \in Held /\ e.kind # "none"
      <4>1. e \in [kind : {"partial"}, cdn : {Never}, until : {now + Minute, now + Hour}]
        BY <3>2
      <4> QED BY <1>2, <4>1, EdgeNumbers DEF Held, Kinds
    <3>3. ASSUME e \in [kind : {"transient", "final"}, cdn : {Never},
                        until : {0, now + Minute, now + Hour}]
          PROVE  e \in Held /\ e.kind # "none"
      BY <1>2, <3>3, EdgeNumbers DEF Held, Kinds
    <3> QED BY <3>1, <3>2, <3>3 DEF Ends
  <2>3. [e EXCEPT !.until = 0] \in Held /\ [e EXCEPT !.until = 0].kind # "none"
    BY <2>2 DEF Held
  <2>4. flying' = FALSE /\ card' = card
    BY <1>4 DEF FlightEnds
  <2>5. AnswersHeld'
    BY <2>1, <2>2, <2>3 DEF AnswersHeld
  <2>6. EdgeTypeOK'
    BY <1>1, <2>1, <2>4, <2>5 DEF EdgeTypeOK, AnswersHeld, Held, Kinds
  <2> QED BY <1>1, <2>5, <2>6, CopyStays
<1> QED BY <1>3, <1>4

\* The clock moves past entries and copies.
LEMMA TimeKeeps ==
    ASSUME EdgeInv, Passes
    PROVE  EdgeInv'
<1> USE DEF EdgeInv
<1>1. UNCHANGED <<link, known, flying, place, ans>> /\ now' = now + 1
  BY DEF Passes
<1>2. now' \in Times /\ now \in Nat
  BY <1>1, EdgeNumbers DEF Passes, EdgeTypeOK, Times
<1>3. Nothing \in Held /\ Nothing.kind = "none" /\ Nothing.until = 0
  BY EdgeNumbers DEF Nothing, Held, Kinds
<1>4. AnswersHeld'
  BY <1>1, <1>3 DEF AnswersHeld, Passes
<1>5. ASSUME copy' = copy PROVE EdgeKeepsNothingProvisional' /\ EdgeOutlivesNothing'
  <2>1. link.exp > now' => link.exp > now
    BY <1>1, <1>2, LinkFields DEF EdgeTypeOK
  <2> QED BY <1>1, <1>5, <2>1 DEF EdgeKeepsNothingProvisional, KeptLong, EdgeOutlivesNothing
<1>6. ASSUME copy' = NoCopy PROVE EdgeKeepsNothingProvisional' /\ EdgeOutlivesNothing'
  BY <1>6, EdgeNumbers DEF NoCopy, EdgeKeepsNothingProvisional, KeptLong, EdgeOutlivesNothing, Times
<1>7. EdgeTypeOK'
  <2>1. card' \in 0 .. MaxTime + Partial /\ late' \in BOOLEAN
    BY EdgeNumbers DEF Passes, EdgeTypeOK
  <2>2. copy'.until \in 0 .. MaxTime + Day /\ copy'.since \in Times
    BY EdgeNumbers DEF Passes, EdgeTypeOK, NoCopy, Times
  <2> QED BY <1>1, <1>2, <1>4, <2>1, <2>2 DEF EdgeTypeOK, AnswersHeld, Held, Kinds
<1> QED BY <1>4, <1>5, <1>6, <1>7 DEF Passes

\* A restart forgets all but what SQLite and the edge have.
LEMMA RestartKeeps ==
    ASSUME EdgeInv, Restart
    PROVE  EdgeInv'
<1> USE DEF EdgeInv
<1>1. /\ UNCHANGED <<now, link, copy>> /\ known' \in BOOLEAN /\ card' = 0 /\ flying' = FALSE
      /\ entry' \in {entry, Nothing} /\ place' = "idle" /\ late' = FALSE /\ ans' = Nothing
  BY DEF Restart, KeyChoices
<1>2. Nothing \in Held /\ Nothing.kind = "none" /\ Nothing.until = 0
  BY EdgeNumbers DEF Nothing, Held, Kinds
<1>3. AnswersHeld'
  BY <1>1, <1>2 DEF AnswersHeld
<1>4. EdgeTypeOK'
  <2>1. card' \in 0 .. MaxTime + Partial
    BY <1>1, EdgeNumbers
  <2> QED BY <1>1, <1>3, <2>1 DEF EdgeTypeOK, AnswersHeld, Held, Kinds
<1> QED BY <1>1, <1>3, <1>4, CopyStays

\* Every step keeps the invariant.
LEMMA EdgeStep == EdgeInv /\ [EdgeNext]_edgeVars => EdgeInv'
<1> SUFFICES ASSUME EdgeInv, [EdgeNext]_edgeVars PROVE EdgeInv'
  OBVIOUS
<1>1. CASE UNCHANGED edgeVars
  <2>1. EdgeTypeOK' /\ AnswersHeld'
    BY <1>1 DEF edgeVars, EdgeInv, EdgeTypeOK, AnswersHeld
  <2> QED BY <1>1, <2>1, CopyStays DEF edgeVars, EdgeInv
<1> QED BY <1>1, AskingKeeps, RefusalKeeps, RespondKeeps, FlightKeeps, TimeKeeps, RestartKeeps
        DEF EdgeNext

\* The inductive invariant of EdgeCopy.
THEOREM EdgeInvariant == EdgeSpec => []EdgeInv
<1> QED BY StartEdge, EdgeStep, PTL DEF EdgeSpec

\* EdgeCopy!EdgeKeepsNothingProvisional: for more than a minute the edge keeps
\* only full answers, and refusals that no key can turn.
THEOREM NothingProvisional == EdgeSpec => []EdgeKeepsNothingProvisional
<1>1. EdgeInv => EdgeKeepsNothingProvisional
  BY DEF EdgeInv
<1> QED BY <1>1, EdgeInvariant, PTL

\* EdgeCopy!EdgeOutlivesNothing: no copy outlives its link, the CDN URL it
\* leads to, or the links of its card.
THEOREM NothingOutlived == EdgeSpec => []EdgeOutlivesNothing
<1>1. EdgeInv => EdgeOutlivesNothing
  BY DEF EdgeInv
<1> QED BY <1>1, EdgeInvariant, PTL

=============================================================================
