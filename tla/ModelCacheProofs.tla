-------------------------- MODULE ModelCacheProofs --------------------------
(***************************************************************************)
(* Proofs about ModelCache, for every set of requests, every set of keys   *)
(* and every number of fetch slots: first the flight map, its slots and    *)
(* the single fetch of a key, from the invariant Core; then, on top of it, *)
(* what the entries and answers are: whose key they carry, what reaches    *)
(* the disk, and what a helper's late post is safe from.                   *)
(***************************************************************************)
EXTENDS ModelCache, FiniteSetTheorems, TLAPS

-----------------------------------------------------------------------------
(* The inductive invariant of the flight map *)

\* A request that has not asked has done nothing; one that has, knows its key.
Begun ==
    \A r \in Requests :
        /\ pc[r] # "new" => key[r] \in Keys
        /\ pc[r] \in {"new", "lookup", "create"} => phase[r] = "none"
        /\ phase[r] = "none" => helper[r] = "none"
        /\ pc[r] = "wait" => joined[r] \in Requests

\* The flight map and the flights' phases name the same flights.
FlightIndex ==
    /\ \A f \in Requests : phase[f] \in Registered => flight[key[f]] = f
    /\ \A k \in Keys : flight[k] # None => /\ phase[flight[k]] \in Registered
                                           /\ key[flight[k]] = k

\* flightMu is held across steps exactly by a request about to create a flight.
LockHeld ==
    /\ lock # None => pc[lock] = "create"
    /\ \A r \in Requests : pc[r] = "create" => lock = r /\ flight[key[r]] = None

\* A flight that stores has an entry to store.
OutSet ==
    \A f \in Requests :
        /\ phase[f] = "store" => out[f] \in Verdict
        /\ phase[f] \in {"release"} \cup Released => out[f] \in Reply
        /\ phase[f] = "late" => out[f] \in Verdict

Fetching == {f \in Requests : phase[f] = "fetch"}
SlotCount == IsFiniteSet(Fetching) /\ slots = Cardinality(Fetching)

Core == TypeOK /\ Begun /\ FlightIndex /\ LockHeld /\ OutSet /\ SlotCount

-----------------------------------------------------------------------------
\* storeLocal keeps the types of the entries.
LEMMA StoreLocalType ==
    ASSUME local \in [Keys -> Verdict \cup {None}],
           NEW k \in Keys, NEW v \in Verdict, StoreLocal(k, v)
    PROVE  local' \in [Keys -> Verdict \cup {None}]
BY DEF StoreLocal

\* putModel writes one row or none.
LEMMA PersistentPutType ==
    ASSUME disk \in [Keys -> Verdict \cup {None}],
           NEW k \in Keys, NEW v \in Verdict, PersistentPut(k, v)
    PROVE  disk' \in [Keys -> Verdict \cup {None}]
BY DEF PersistentPut

\* A fetch that begins takes one slot more.
LEMMA FetchBegins ==
    ASSUME SlotCount, NEW f \in Requests, phase[f] # "fetch",
           slots' = slots + 1, Fetching' = Fetching \cup {f}
    PROVE  SlotCount'
<1>1. f \notin Fetching
  BY DEF Fetching
<1>2. QED
  BY <1>1, FS_AddElement DEF SlotCount

\* A fetch that ends, whatever it returns, gives one slot back.
LEMMA FetchEnds ==
    ASSUME SlotCount, NEW f \in Requests, phase[f] = "fetch",
           slots' = slots - 1, Fetching' = Fetching \ {f}
    PROVE  SlotCount'
<1>1. f \in Fetching
  BY DEF Fetching
<1>2. QED
  BY <1>1, FS_RemoveElement DEF SlotCount

\* While a flight fetches, the channel holds at least its token.
LEMMA SlotsHeldByFetch ==
    ASSUME SlotCount, NEW f \in Requests, phase[f] = "fetch"
    PROVE  slots \in Nat \ {0}
<1>1. f \in Fetching
  BY DEF Fetching
<1>2. QED
  BY <1>1, FS_CardinalityType, FS_EmptySet DEF SlotCount

-----------------------------------------------------------------------------
\* A freshly started process satisfies the invariant.
LEMMA CoreInit == Init => Core
<1> SUFFICES ASSUME Init PROVE Core
  OBVIOUS
<1>1. TypeOK
  BY FetchSlotsAssumption DEF Init, TypeOK
<1>2. Begun /\ FlightIndex /\ LockHeld /\ OutSet
  BY NoneAssumption DEF Init, Begun, FlightIndex, LockHeld, OutSet, Registered, Released
<1>3. Fetching = {}
  BY DEF Init, Fetching
<1>4. SlotCount
  BY <1>3, FS_EmptySet DEF Init, SlotCount
<1>5. QED
  BY <1>1, <1>2, <1>4 DEF Core

\* Every step of get keeps it: a flight is registered as it is created, under
\* the lock that kept every other request from creating one.
LEMMA GetStepCore ==
    ASSUME Core, NEW r \in Requests, GetStep(r)
    PROVE  Core'
<1> USE NoneAssumption DEF Core, requestVars, flightVars, helperVars, storeVars
<1>1. CASE \E k \in Keys : AskDone(r, k)
  <2> PICK k \in Keys : AskDone(r, k)
    BY <1>1
  <2>1. TypeOK'
    BY DEF TypeOK, AskDone, ContextError, Reply, Verdict, Fresh
  <2>2. (Begun /\ FlightIndex /\ LockHeld /\ OutSet)'
    BY DEF TypeOK, AskDone, Begun, FlightIndex, LockHeld, OutSet, Registered, Released
  <2>3. SlotCount'
    BY DEF AskDone, SlotCount, Fetching
  <2> QED BY <2>1, <2>2, <2>3
<1>2. CASE \E k \in Keys : AskMiss(r, k)
  <2> PICK k \in Keys : AskMiss(r, k)
    BY <1>2
  <2>1. TypeOK'
    BY DEF TypeOK, AskMiss, LocalMiss
  <2>2. (Begun /\ FlightIndex /\ LockHeld /\ OutSet)'
    BY DEF TypeOK, AskMiss, Begun, FlightIndex, LockHeld, OutSet, Registered, Released
  <2>3. SlotCount'
    BY DEF AskMiss, SlotCount, Fetching
  <2> QED BY <2>1, <2>2, <2>3
<1>3. CASE Join(r)
  <2>1. TypeOK'
    BY <1>3 DEF TypeOK, Join, Begun
  <2>2. (Begun /\ FlightIndex /\ LockHeld /\ OutSet)'
    BY <1>3 DEF TypeOK, Join, Begun, FlightIndex, LockHeld, OutSet, Registered, Released
  <2>3. SlotCount'
    BY <1>3 DEF Join, SlotCount, Fetching
  <2> QED BY <2>1, <2>2, <2>3
<1>4. CASE RecheckHit(r)
  <2>1. TypeOK'
    BY <1>4 DEF TypeOK, RecheckHit, Begun, Reply, Verdict, Fresh
  <2>2. (Begun /\ FlightIndex /\ LockHeld /\ OutSet)'
    BY <1>4 DEF TypeOK, RecheckHit, Begun, FlightIndex, LockHeld, OutSet, Registered, Released
  <2>3. SlotCount'
    BY <1>4 DEF RecheckHit, SlotCount, Fetching
  <2> QED BY <2>1, <2>2, <2>3
<1>5. CASE RecheckMiss(r)
  <2>1. TypeOK'
    BY <1>5 DEF TypeOK, RecheckMiss, LocalMiss, Begun
  <2>2. (Begun /\ FlightIndex /\ LockHeld /\ OutSet)'
    BY <1>5 DEF TypeOK, RecheckMiss, Begun, FlightIndex, LockHeld, OutSet, Registered, Released
  <2>3. SlotCount'
    BY <1>5 DEF RecheckMiss, SlotCount, Fetching
  <2> QED BY <2>1, <2>2, <2>3
<1>6. CASE Create(r)
  <2>1. TypeOK'
    BY <1>6 DEF TypeOK, Create, Begun, Registered
  <2>2. (Begun /\ OutSet)'
    BY <1>6 DEF TypeOK, Create, Begun, OutSet, Released
  <2>3. FlightIndex'
    BY <1>6 DEF TypeOK, Create, Begun, FlightIndex, LockHeld, Registered
  <2>4. LockHeld'
    BY <1>6 DEF TypeOK, Create, LockHeld
  <2>5. Fetching' = Fetching
    BY <1>6 DEF TypeOK, Create, Fetching, Begun
  <2>6. SlotCount'
    BY <1>6, <2>5 DEF Create, SlotCount
  <2> QED BY <2>1, <2>2, <2>3, <2>4, <2>6
<1>7. CASE Receive(r)
  <2>1. TypeOK'
    BY <1>7 DEF TypeOK, Receive, Begun
  <2>2. (Begun /\ FlightIndex /\ LockHeld /\ OutSet)'
    BY <1>7 DEF TypeOK, Receive, Begun, FlightIndex, LockHeld, OutSet, Registered, Released
  <2>3. SlotCount'
    BY <1>7 DEF Receive, SlotCount, Fetching
  <2> QED BY <2>1, <2>2, <2>3
<1>8. CASE GiveUp(r)
  <2>1. TypeOK'
    BY <1>8 DEF TypeOK, GiveUp, ContextError, Reply
  <2>2. (Begun /\ FlightIndex /\ LockHeld /\ OutSet)'
    BY <1>8 DEF TypeOK, GiveUp, Begun, FlightIndex, LockHeld, OutSet, Registered, Released
  <2>3. SlotCount'
    BY <1>8 DEF GiveUp, SlotCount, Fetching
  <2> QED BY <2>1, <2>2, <2>3
<1>9. QED
  BY <1>1, <1>2, <1>3, <1>4, <1>5, <1>6, <1>7, <1>8 DEF GetStep

\* Every step of runFlight keeps it: a phase is left with the slot it holds
\* returned, and the flight map only by release.
LEMMA FlightStepCore ==
    ASSUME Core, NEW f \in Requests, FlightStep(f)
    PROVE  Core'
<1> USE NoneAssumption DEF Core, requestVars, flightVars, helperVars, storeVars
<1>a. phase[f] # "none" => pc[f] \notin {"new", "lookup", "create"} /\ key[f] \in Keys
  BY DEF TypeOK, Begun
<1>1. CASE ProbeHit(f)
  <2>1. TypeOK'
    BY <1>1, <1>a DEF TypeOK, ProbeHit, Reply, Verdict, Fresh, Registered
  <2>2. (Begun /\ FlightIndex /\ LockHeld /\ OutSet)'
    BY <1>1, <1>a
        DEF TypeOK, ProbeHit, Begun, FlightIndex, LockHeld, OutSet, Registered, Released, Fresh,
            Reply, Verdict
  <2>3. Fetching' = Fetching
    BY <1>1 DEF TypeOK, ProbeHit, Fetching
  <2>4. SlotCount'
    BY <1>1, <2>3 DEF ProbeHit, SlotCount
  <2> QED BY <2>1, <2>2, <2>4
<1>2. CASE ProbeMiss(f)
  <2>1. TypeOK'
    BY <1>2, <1>a DEF TypeOK, ProbeMiss, Registered
  <2>2. (Begun /\ FlightIndex /\ LockHeld /\ OutSet)'
    BY <1>2, <1>a DEF TypeOK, ProbeMiss, Begun, FlightIndex, LockHeld, OutSet, Registered, Released
  <2>3. Fetching' = Fetching
    BY <1>2 DEF TypeOK, ProbeMiss, Fetching
  <2>4. SlotCount'
    BY <1>2, <2>3 DEF ProbeMiss, SlotCount
  <2> QED BY <2>1, <2>2, <2>4
<1>3. CASE AcquireSlot(f)
  <2>1. TypeOK'
    BY <1>3, FetchSlotsAssumption DEF TypeOK, AcquireSlot, Registered
  <2>2. (Begun /\ FlightIndex /\ LockHeld /\ OutSet)'
    BY <1>3, <1>a
        DEF TypeOK, AcquireSlot, Begun, FlightIndex, LockHeld, OutSet, Registered, Released
  <2>3. phase[f] # "fetch" /\ Fetching' = Fetching \cup {f}
    BY <1>3 DEF TypeOK, AcquireSlot, Fetching
  <2>4. SlotCount'
    BY <1>3, <2>3, FetchBegins DEF AcquireSlot
  <2> QED BY <2>1, <2>2, <2>4
<1>4. CASE SlotTimeout(f)
  <2>1. TypeOK'
    BY <1>4, <1>a DEF TypeOK, SlotTimeout, Registered, Uncached, Reply
  <2>2. (Begun /\ FlightIndex /\ LockHeld /\ OutSet)'
    BY <1>4, <1>a
        DEF TypeOK, SlotTimeout, Begun, FlightIndex, LockHeld, OutSet, Registered, Released,
            Uncached, Reply
  <2>3. Fetching' = Fetching
    BY <1>4 DEF TypeOK, SlotTimeout, Fetching
  <2>4. SlotCount'
    BY <1>4, <2>3 DEF SlotTimeout, SlotCount
  <2> QED BY <2>1, <2>2, <2>4
<1>5. CASE \E kind \in Cacheable \cup {"uncached"}, keep \in BOOLEAN : FetchReturn(f, kind, keep)
  <2> PICK kind \in Cacheable \cup {"uncached"}, keep \in BOOLEAN : FetchReturn(f, kind, keep)
    BY <1>5
  <2>0. slots - 1 \in 0 .. FetchSlots
    BY SlotsHeldByFetch, FetchSlotsAssumption DEF TypeOK, FetchReturn
  <2>1. TypeOK'
    BY <2>0, <1>a DEF TypeOK, FetchReturn, Registered, Uncached, Reply, Verdict
  <2>2. (Begun /\ FlightIndex /\ LockHeld)'
    BY <1>a DEF TypeOK, FetchReturn, Begun, FlightIndex, LockHeld, Registered
  <2>3. OutSet'
    BY DEF TypeOK, FetchReturn, OutSet, Uncached, Reply, Verdict, Released
  <2>4. phase[f] = "fetch" /\ Fetching' = Fetching \ {f}
    BY DEF TypeOK, FetchReturn, Fetching
  <2>5. SlotCount'
    BY <2>4, FetchEnds DEF FetchReturn
  <2> QED BY <2>1, <2>2, <2>3, <2>5
<1>6. CASE Store(f)
  <2>0. local' \in [Keys -> Verdict \cup {None}]
    BY <1>6, <1>a, StoreLocalType DEF TypeOK, Store, OutSet
  <2>1. TypeOK'
    BY <1>6, <2>0 DEF TypeOK, Store, Registered
  <2>2. (Begun /\ FlightIndex /\ LockHeld /\ OutSet)'
    BY <1>6, <1>a
        DEF TypeOK, Store, Reply, Verdict, Begun, FlightIndex, LockHeld, OutSet, Registered,
            Released
  <2>3. Fetching' = Fetching
    BY <1>6 DEF TypeOK, Store, Fetching
  <2>4. SlotCount'
    BY <1>6, <2>3 DEF Store, SlotCount
  <2> QED BY <2>1, <2>2, <2>4
<1>7. CASE Release(f)
  <2>1. TypeOK'
    BY <1>7, <1>a DEF TypeOK, Release, Released, Persists
  <2>2. (Begun /\ FlightIndex /\ LockHeld /\ OutSet)'
    BY <1>7, <1>a
        DEF TypeOK, Release, Begun, FlightIndex, LockHeld, OutSet, Registered, Released,
            Persists, Verdict, Reply, Cacheable
  <2>3. Fetching' = Fetching
    BY <1>7 DEF TypeOK, Release, Fetching
  <2>4. SlotCount'
    BY <1>7, <2>3 DEF Release, SlotCount
  <2> QED BY <2>1, <2>2, <2>4
<1>8. CASE PersistLate(f)
  <2>0. disk' \in [Keys -> Verdict \cup {None}]
    BY <1>8, <1>a, PersistentPutType DEF TypeOK, PersistLate, OutSet
  <2>1. TypeOK'
    BY <1>8, <2>0 DEF TypeOK, PersistLate, Released
  <2>2. (Begun /\ FlightIndex /\ LockHeld /\ OutSet)'
    BY <1>8, <1>a
        DEF TypeOK, PersistLate, Begun, FlightIndex, LockHeld, OutSet, Registered, Released
  <2>3. Fetching' = Fetching
    BY <1>8 DEF TypeOK, PersistLate, Fetching
  <2>4. SlotCount'
    BY <1>8, <2>3 DEF PersistLate, SlotCount
  <2> QED BY <2>1, <2>2, <2>4
<1>9. QED
  BY <1>1, <1>2, <1>3, <1>4, <1>5, <1>6, <1>7, <1>8 DEF FlightStep

\* keepAfterFlight and putAfterFlight touch the stores and their own state only.
LEMMA HelperStepCore ==
    ASSUME Core, NEW h \in Requests, HelperStep(h)
    PROVE  Core'
<1> USE NoneAssumption DEF Core, requestVars, flightVars, helperVars, storeVars
<1>a. helper[h] # "none" => key[h] \in Keys
  BY DEF TypeOK, Begun
<1>b. HelperPost(h) \in Verdict
  BY DEF HelperPost, Verdict, Cacheable
<1>c. (FlightIndex /\ LockHeld /\ OutSet /\ SlotCount)'
  <2>1. UNCHANGED <<requestVars, flightVars, flight, lock, slots>>
    BY DEF HelperStep, HelperFinish, HelperLook, HelperWake, HelperTimeout, HelperDisk, HelperLocal
  <2> QED
    BY <2>1 DEF FlightIndex, LockHeld, OutSet, SlotCount, Fetching
<1>d. Begun'
  BY DEF TypeOK, Begun, HelperStep, HelperFinish, HelperLook, HelperWake, HelperTimeout,
         HelperDisk, HelperLocal
<1>1. CASE \E ok \in BOOLEAN : HelperFinish(h, ok)
  BY <1>1, <1>c, <1>d DEF TypeOK, HelperFinish
<1>2. CASE HelperLook(h)
  BY <1>2, <1>a, <1>c, <1>d DEF TypeOK, HelperLook
<1>3. CASE HelperWake(h)
  BY <1>3, <1>c, <1>d DEF TypeOK, HelperWake
<1>4. CASE HelperTimeout(h)
  BY <1>4, <1>c, <1>d DEF TypeOK, HelperTimeout
<1>5. CASE HelperDisk(h)
  <2>1. disk' \in [Keys -> Verdict \cup {None}]
    BY <1>5, <1>a, <1>b, PersistentPutType DEF TypeOK, HelperDisk
  <2> QED
    BY <1>5, <2>1, <1>c, <1>d DEF TypeOK, HelperDisk
<1>6. CASE HelperLocal(h)
  <2>1. local' \in [Keys -> Verdict \cup {None}]
    BY <1>6, <1>a, <1>b, StoreLocalType DEF TypeOK, HelperLocal
  <2> QED
    BY <1>6, <2>1, <1>c, <1>d DEF TypeOK, HelperLocal
<1>7. QED
  BY <1>1, <1>2, <1>3, <1>4, <1>5, <1>6 DEF HelperStep

\* Expiry changes no flight; a restart ends all of them and empties the channel.
LEMMA EnvironmentCore ==
    ASSUME Core, (\E v \in Verdict : Expire(v)) \/ Restart
    PROVE  Core'
<1> USE NoneAssumption DEF Core, requestVars, flightVars, helperVars, storeVars
<1>1. CASE \E v \in Verdict : Expire(v)
  <2>1. TypeOK'
    BY <1>1 DEF TypeOK, Expire
  <2>2. (Begun /\ FlightIndex /\ LockHeld /\ OutSet /\ SlotCount)'
    BY <1>1 DEF Expire, Begun, FlightIndex, LockHeld, OutSet, SlotCount, Fetching
  <2> QED BY <2>1, <2>2
<1>2. CASE Restart
  <2>1. TypeOK'
    BY <1>2, FetchSlotsAssumption DEF TypeOK, Restart
  <2>2. (Begun /\ FlightIndex /\ LockHeld /\ OutSet)'
    BY <1>2 DEF TypeOK, Restart, Begun, FlightIndex, LockHeld, OutSet, Registered, Released
  <2>3. Fetching' = {}
    BY <1>2 DEF Restart, Fetching
  <2>4. SlotCount'
    BY <1>2, <2>3, FS_EmptySet DEF Restart, SlotCount
  <2> QED BY <2>1, <2>2, <2>4
<1> QED BY <1>1, <1>2

\* The flight map, the lock, the phases and the slots agree in every reachable state.
THEOREM CoreInvariant == Spec => []Core
<1>1. Core /\ [Next]_vars => Core'
  <2> SUFFICES ASSUME Core, [Next]_vars PROVE Core'
    OBVIOUS
  <2>1. CASE Next
    BY <2>1, GetStepCore, FlightStepCore, HelperStepCore, EnvironmentCore DEF Next
  <2>2. CASE UNCHANGED vars
    BY <2>2 DEF vars, requestVars, flightVars, helperVars, storeVars, Core, TypeOK, Begun,
                FlightIndex, LockHeld, OutSet, SlotCount, Fetching
  <2> QED BY <2>1, <2>2
<1> QED BY CoreInit, <1>1, PTL DEF Spec

-----------------------------------------------------------------------------
(* Consequences of the flight map *)

\* ModelCache!OneFlightPerKey: the flight map admits one flight of a key at a time.
THEOREM SingleFlight == Spec => []OneFlightPerKey
<1>1. Core => OneFlightPerKey
  BY DEF Core, FlightIndex, OneFlightPerKey
<1> QED BY <1>1, CoreInvariant, PTL

\* ModelCache!SlotsExact: every path through runFlight returns the slot it took.
THEOREM SlotsNeverLeak == Spec => []SlotsExact
<1>1. Core => SlotsExact
  BY FetchSlotsAssumption DEF Core, TypeOK, SlotCount, Fetching, SlotsExact
<1> QED BY <1>1, CoreInvariant, PTL

\* ModelCache!TypeOK.
THEOREM TypeCorrect == Spec => []TypeOK
<1>1. Core => TypeOK
  BY DEF Core
<1> QED BY <1>1, CoreInvariant, PTL

-----------------------------------------------------------------------------
(* What a request holding flightMu may rely on *)

\* Between its second look and the creation of its flight no flight's verdict
\* can appear: nobody else can register one, and only registered ones store.
Unserved ==
    \A r \in Requests :
        pc[r] = "create" => ~Fresh(local[key[r]]) \/ local[key[r]].src = "helper"

\* Between the second localGet and the registration of the flight, under
\* flightMu, no other lookup can store a verdict for the key.
LEMMA UnservedStep ==
    ASSUME Core, Unserved, [Next]_vars
    PROVE  Unserved'
<1> USE NoneAssumption DEF Core, requestVars, flightVars, helperVars, storeVars
<1>1. CASE UNCHANGED vars
  BY <1>1 DEF vars, Unserved, Fresh
<1>2. CASE \E r \in Requests : GetStep(r)
  <2> PICK r \in Requests : GetStep(r)
    BY <1>2
  <2>1. CASE RecheckMiss(r)
    BY <2>1 DEF RecheckMiss, LocalMiss, TypeOK, Begun, Unserved, Fresh
  <2>2. CASE \E k \in Keys : AskMiss(r, k)
    BY <2>2 DEF AskMiss, LocalMiss, TypeOK, Begun, Unserved, Fresh
  <2>3. CASE ~RecheckMiss(r) /\ ~(\E k \in Keys : AskMiss(r, k))
    <3>1. UNCHANGED <<local, expired>>
      BY <2>3 DEF GetStep, AskDone, Join, RecheckHit, Create, Receive, GiveUp
    <3>2. \A q \in Requests : pc'[q] = "create" => pc[q] = "create" /\ key'[q] = key[q]
      BY <2>3 DEF TypeOK, GetStep, AskDone, Join, RecheckHit, Create, Receive, GiveUp
    <3> QED BY <3>1, <3>2 DEF Unserved, Fresh
  <2> QED BY <2>1, <2>2, <2>3
<1>3. CASE \E f \in Requests : FlightStep(f)
  <2> PICK f \in Requests : FlightStep(f)
    BY <1>3
  <2>0. UNCHANGED <<pc, key, lock, expired>>
    BY DEF FlightStep, ProbeHit, ProbeMiss, AcquireSlot, SlotTimeout, FetchReturn, Store,
           Release, PersistLate
  <2>1. CASE Store(f)
    <3> SUFFICES ASSUME NEW r \in Requests, pc'[r] = "create"
                 PROVE  ~Fresh(local[key[r]])' \/ local'[key[r]].src = "helper"
      BY <2>0 DEF Unserved
    <3>1. key[r] # key[f] /\ key[r] \in Keys
      BY <2>0, <2>1 DEF Store, LockHeld, FlightIndex, Registered, TypeOK, Begun
    <3>2. local'[key[r]] \in {local[key[r]], None}
      BY <2>1, <3>1 DEF Store, StoreLocal, TypeOK
    <3> QED BY <2>0, <3>2 DEF Unserved, Fresh
  <2>2. CASE ~Store(f)
    <3>1. UNCHANGED local
      BY <2>2 DEF FlightStep, ProbeHit, ProbeMiss, AcquireSlot, SlotTimeout, FetchReturn,
                  Release, PersistLate
    <3> QED BY <2>0, <3>1 DEF Unserved, Fresh
  <2> QED BY <2>1, <2>2
<1>4. CASE \E h \in Requests : HelperStep(h)
  <2> PICK h \in Requests : HelperStep(h)
    BY <1>4
  <2>0. UNCHANGED <<pc, key, expired>>
    BY DEF HelperStep, HelperFinish, HelperLook, HelperWake, HelperTimeout, HelperDisk, HelperLocal
  <2>1. CASE HelperLocal(h)
    <3> SUFFICES ASSUME NEW r \in Requests, pc'[r] = "create"
                 PROVE  ~Fresh(local[key[r]])' \/ local'[key[r]].src = "helper"
      BY <2>0 DEF Unserved
    <3>1. key[r] \in Keys
      BY <2>0 DEF TypeOK, Begun
    <3>2. local'[key[r]] \in {local[key[r]], None, HelperPost(h)}
      BY <2>1, <3>1 DEF HelperLocal, StoreLocal, TypeOK
    <3> QED BY <2>0, <3>2 DEF Unserved, Fresh, HelperPost
  <2>2. CASE ~HelperLocal(h)
    <3>1. UNCHANGED local
      BY <2>2 DEF HelperStep, HelperFinish, HelperLook, HelperWake, HelperTimeout, HelperDisk
    <3> QED BY <2>0, <3>1 DEF Unserved, Fresh
  <2> QED BY <2>1, <2>2
<1>5. CASE \E v \in Verdict : Expire(v)
  BY <1>5 DEF Expire, Unserved, Fresh
<1>6. CASE Restart
  BY <1>6 DEF Restart, Unserved, TypeOK
<1> QED BY <1>1, <1>2, <1>3, <1>4, <1>5, <1>6 DEF Next

\* ModelCache!NoDuplicateFetch: get never starts a flight over a live verdict of
\* an earlier flight.
THEOREM NeverFetchesTwice == Spec => NoDuplicateFetch
<1>1. Init => Unserved
  BY DEF Init, Unserved
<1>2. ASSUME Core, Unserved, [Next]_vars
      PROVE  [\A r \in Requests :
                 phase[r] = "none" /\ phase'[r] = "probe"
                 => ~Fresh(local[key[r]]) \/ local[key[r]].src = "helper"]_vars
  <2> SUFFICES ASSUME NEW r \in Requests, phase[r] = "none", phase'[r] = "probe"
               PROVE  pc[r] = "create"
    BY <1>2 DEF Unserved
  <2>1. CASE UNCHANGED vars
    BY <2>1 DEF vars, flightVars
  <2>2. CASE \E q \in Requests : GetStep(q)
    BY <1>2, <2>2 DEF GetStep, AskDone, AskMiss, Join, RecheckHit, RecheckMiss, Create,
                      Receive, GiveUp, flightVars, Core, TypeOK
  <2>3. CASE \E q \in Requests : FlightStep(q)
    BY <1>2, <2>3 DEF FlightStep, ProbeHit, ProbeMiss, AcquireSlot, SlotTimeout, FetchReturn,
                      Store, Release, PersistLate, Core, TypeOK
  <2>4. CASE \E q \in Requests : HelperStep(q)
    BY <2>4 DEF HelperStep, HelperFinish, HelperLook, HelperWake, HelperTimeout, HelperDisk,
                HelperLocal, flightVars
  <2>5. CASE (\E v \in Verdict : Expire(v)) \/ Restart
    BY <2>5 DEF Expire, Restart, flightVars
  <2> QED BY <1>2, <2>1, <2>2, <2>3, <2>4, <2>5 DEF Next
<1> QED BY <1>1, <1>2, UnservedStep, CoreInvariant, PTL DEF Spec, NoDuplicateFetch

-----------------------------------------------------------------------------
(* Every entry and answer carries the key it is found under *)

Provenance ==
    /\ \A r \in Requests : pc[r] = "new" => key[r] = None /\ reply[r] = None /\ out[r] = None
    /\ \A k \in Keys :
          /\ local[k] # None => key[local[k].by] = k
          /\ disk[k] # None => key[disk[k].by] = k
    /\ \A f \in Requests :
          /\ out[f] # None => key[out[f].by] = key[f]
          /\ reply[f] # None => key[reply[f].by] = key[f]
          /\ pc[f] = "wait" => key[joined[f]] = key[f]

\* A request asks for one key once, so nothing already made changes its key.
LEMMA KeyStable ==
    ASSUME Core, Provenance, [Next]_vars
    PROVE  \A r \in Requests : key[r] # None => key'[r] = key[r]
<1> USE DEF Core, TypeOK, requestVars, flightVars, helperVars, storeVars
<1>1. CASE UNCHANGED vars
  BY <1>1 DEF vars
<1>2. CASE \E r \in Requests : GetStep(r)
  BY <1>2 DEF GetStep, AskDone, AskMiss, Join, RecheckHit, RecheckMiss, Create, Receive,
              GiveUp, Provenance
<1>3. CASE \E f \in Requests : FlightStep(f)
  BY <1>3 DEF FlightStep, ProbeHit, ProbeMiss, AcquireSlot, SlotTimeout, FetchReturn, Store,
              Release, PersistLate
<1>4. CASE \E h \in Requests : HelperStep(h)
  BY <1>4 DEF HelperStep, HelperFinish, HelperLook, HelperWake, HelperTimeout, HelperDisk,
              HelperLocal
<1>5. CASE (\E v \in Verdict : Expire(v)) \/ Restart
  BY <1>5 DEF Expire, Restart
<1> QED BY <1>1, <1>2, <1>3, <1>4, <1>5 DEF Next

\* Entries that stay, or come with their key's own verdict, keep the invariant.
LEMMA StoresKeepKeys ==
    ASSUME Core, Provenance, [Next]_vars,
           \A k \in Keys : local'[k] # None =>
               \/ local'[k] = local[k]
               \/ local'[k].by \in Requests /\ key[local'[k].by] = k,
           \A k \in Keys : disk'[k] # None =>
               \/ disk'[k] = disk[k]
               \/ disk'[k].by \in Requests /\ key[disk'[k].by] = k
    PROVE  \A k \in Keys :
              /\ local'[k] # None => key'[local'[k].by] = k
              /\ disk'[k] # None => key'[disk'[k].by] = k
BY KeyStable, NoneAssumption DEF Core, TypeOK, Provenance, Verdict

\* A step of get: a reply comes from an entry or a flight of the key it asked for.
LEMMA ProvenanceGet ==
    ASSUME Core, Provenance, NEW r \in Requests, GetStep(r)
    PROVE  Provenance'
<1> USE NoneAssumption DEF Core, requestVars, flightVars, helperVars, storeVars
<1>0. [Next]_vars
  BY DEF Next
<1>1. \A q \in Requests : key[q] # None => key'[q] = key[q]
  BY <1>0, KeyStable
<1>2. /\ UNCHANGED <<disk, out>>
      /\ \A k \in Keys : local'[k] \in {local[k], None}
  BY DEF GetStep, AskDone, AskMiss, Join, RecheckHit, RecheckMiss, Create, Receive, GiveUp,
         LocalMiss, TypeOK
<1>3. \A k \in Keys :
          /\ local'[k] # None => key'[local'[k].by] = k
          /\ disk'[k] # None => key'[disk'[k].by] = k
  BY <1>0, <1>2, StoresKeepKeys
<1>4. \A f \in Requests : out'[f] # None => key'[out'[f].by] = key'[f]
  BY <1>1, <1>2 DEF TypeOK, Reply, Provenance, Begun
<1>5. \A q \in Requests : q # r =>
          /\ pc'[q] = pc[q] /\ key'[q] = key[q] /\ reply'[q] = reply[q] /\ joined'[q] = joined[q]
  BY DEF GetStep, AskDone, AskMiss, Join, RecheckHit, RecheckMiss, Create, Receive, GiveUp, TypeOK
<1>6. pc'[r] # "new"
  BY DEF GetStep, AskDone, AskMiss, Join, RecheckHit, RecheckMiss, Create, Receive, GiveUp, TypeOK
<1>7. reply'[r] # None => key'[reply'[r].by] = key'[r]
  <2>1. CASE \E k \in Keys : AskDone(r, k)
    BY <2>1, <1>1 DEF AskDone, ContextError, Fresh, TypeOK, Verdict, Provenance
  <2>2. CASE \E k \in Keys : AskMiss(r, k)
    BY <2>2 DEF AskMiss, Provenance
  <2>3. CASE RecheckHit(r)
    BY <2>3 DEF RecheckHit, Fresh, TypeOK, Verdict, Provenance, Begun
  <2>4. CASE Receive(r)
    <3>1. joined[r] \in Requests /\ out[joined[r]] \in Reply /\ key[joined[r]] = key[r]
      BY <2>4 DEF Receive, Begun, OutSet, Provenance
    <3> QED BY <2>4, <3>1 DEF Receive, TypeOK, Provenance
  <2>5. CASE GiveUp(r)
    BY <2>5 DEF GiveUp, ContextError, TypeOK
  <2>6. CASE Join(r) \/ RecheckMiss(r) \/ Create(r)
    BY <2>6 DEF Join, RecheckMiss, Create, Provenance
  <2> QED BY <2>1, <2>2, <2>3, <2>4, <2>5, <2>6 DEF GetStep
<1>8. pc'[r] = "wait" => key'[joined'[r]] = key'[r]
  BY DEF GetStep, AskDone, AskMiss, Join, RecheckHit, RecheckMiss, Create, Receive, GiveUp,
         TypeOK, FlightIndex, Begun
<1>9. \A q \in Requests : q # r =>
          /\ pc'[q] = "new" => key'[q] = None /\ reply'[q] = None /\ out'[q] = None
          /\ reply'[q] # None => key'[reply'[q].by] = key'[q]
          /\ pc'[q] = "wait" => key'[joined'[q]] = key'[q]
  BY <1>1, <1>2, <1>5 DEF Provenance, TypeOK, Reply, Begun
<1> QED BY <1>3, <1>4, <1>6, <1>7, <1>8, <1>9 DEF Provenance

\* A step of runFlight: what it stores it fetched, or found, under its own key.
LEMMA ProvenanceFlight ==
    ASSUME Core, Provenance, NEW f \in Requests, FlightStep(f)
    PROVE  Provenance'
<1> USE NoneAssumption DEF Core, requestVars, flightVars, helperVars, storeVars
<1>0. [Next]_vars
  BY DEF Next
<1>1. UNCHANGED <<pc, key, joined, reply>>
  BY DEF FlightStep, ProbeHit, ProbeMiss, AcquireSlot, SlotTimeout, FetchReturn, Store,
         Release, PersistLate
<1>2. pc[f] # "new" /\ key[f] \in Keys
  BY DEF FlightStep, ProbeHit, ProbeMiss, AcquireSlot, SlotTimeout, FetchReturn, Store,
         Release, PersistLate, Begun, TypeOK
<1>3. \A k \in Keys :
          /\ local'[k] # None => key'[local'[k].by] = k
          /\ disk'[k] # None => key'[disk'[k].by] = k
  <2>1. CASE Store(f)
    <3>1. out[f] # None => key[out[f].by] = key[f] /\ out[f].by \in Requests
      BY <2>1 DEF Store, OutSet, Provenance, Verdict
    <3>2. \A k \in Keys : local'[k] \in {local[k], None} \/ (k = key[f] /\ local'[k] = out[f])
      BY <2>1, <1>2 DEF Store, StoreLocal, TypeOK
    <3> QED BY <2>1, <3>1, <3>2, <1>0, StoresKeepKeys DEF Store
  <2>2. CASE PersistLate(f)
    <3>1. out[f] # None => key[out[f].by] = key[f] /\ out[f].by \in Requests
      BY <2>2 DEF PersistLate, OutSet, Provenance, Verdict
    <3>2. \A k \in Keys : disk'[k] = disk[k] \/ (k = key[f] /\ disk'[k] = out[f])
      BY <2>2, <1>2 DEF PersistLate, PersistentPut, TypeOK
    <3> QED BY <2>2, <3>1, <3>2, <1>0, StoresKeepKeys DEF PersistLate
  <2>3. CASE ~Store(f) /\ ~PersistLate(f)
    <3>1. UNCHANGED <<local, disk>>
      BY <2>3 DEF FlightStep, ProbeHit, ProbeMiss, AcquireSlot, SlotTimeout, FetchReturn, Release
    <3> QED BY <3>1, <1>0, StoresKeepKeys
  <2> QED BY <2>1, <2>2, <2>3
<1>4. \A g \in Requests : out'[g] # None => key'[out'[g].by] = key'[g]
  <2>1. \A g \in Requests : g # f => out'[g] = out[g]
    BY DEF FlightStep, ProbeHit, ProbeMiss, AcquireSlot, SlotTimeout, FetchReturn, Store,
           Release, PersistLate, TypeOK
  <2>2. \/ out'[f] = out[f]
        \/ out'[f] = disk[key[f]] /\ disk[key[f]] # None
        \/ out'[f].by = f
    BY DEF FlightStep, ProbeHit, ProbeMiss, AcquireSlot, SlotTimeout, FetchReturn, Store,
           Release, PersistLate, TypeOK, Fresh, Uncached
  <2> QED BY <1>1, <1>2, <2>1, <2>2 DEF Provenance
<1>5. \A g \in Requests : pc[g] = "new" => out'[g] = out[g]
  BY <1>2 DEF FlightStep, ProbeHit, ProbeMiss, AcquireSlot, SlotTimeout, FetchReturn, Store,
              Release, PersistLate, TypeOK
<1> QED BY <1>1, <1>3, <1>4, <1>5 DEF Provenance

\* Helpers put posts under their own key; time and restarts make nothing new.
LEMMA ProvenanceOther ==
    ASSUME Core, Provenance,
           (\E h \in Requests : HelperStep(h)) \/ (\E v \in Verdict : Expire(v)) \/ Restart
    PROVE  Provenance'
<1> USE NoneAssumption DEF Core, requestVars, flightVars, helperVars, storeVars
<1>0. [Next]_vars
  BY DEF Next
<1>1. UNCHANGED <<key, joined, reply, out>>
  BY DEF HelperStep, HelperFinish, HelperLook, HelperWake, HelperTimeout, HelperDisk,
         HelperLocal, Expire, Restart
<1>2. \A r \in Requests : pc'[r] = "new" => pc[r] = "new"
  BY DEF HelperStep, HelperFinish, HelperLook, HelperWake, HelperTimeout, HelperDisk,
         HelperLocal, Expire, Restart, TypeOK
<1>3. \A r \in Requests : pc'[r] = "wait" => pc[r] = "wait"
  BY DEF HelperStep, HelperFinish, HelperLook, HelperWake, HelperTimeout, HelperDisk,
         HelperLocal, Expire, Restart, TypeOK
<1>4. \A k \in Keys :
          /\ local'[k] # None => key'[local'[k].by] = k
          /\ disk'[k] # None => key'[disk'[k].by] = k
  <2>1. CASE \E h \in Requests : HelperStep(h)
    <3> PICK h \in Requests : HelperStep(h)
      BY <2>1
    <3>1. HelperPost(h).by = h
      BY DEF HelperPost
    <3>2. \A k \in Keys :
              /\ local'[k] \in {local[k], None} \/ (k = key[h] /\ local'[k] = HelperPost(h))
              /\ disk'[k] = disk[k] \/ (k = key[h] /\ disk'[k] = HelperPost(h))
      BY DEF HelperStep, HelperFinish, HelperLook, HelperWake, HelperTimeout, HelperDisk,
             HelperLocal, StoreLocal, PersistentPut, TypeOK
    <3> QED BY <1>0, <3>1, <3>2, StoresKeepKeys
  <2>2. CASE (\E v \in Verdict : Expire(v)) \/ Restart
    <3>1. disk' = disk /\ \A k \in Keys : local'[k] \in {local[k], None}
      BY <2>2 DEF Expire, Restart
    <3> QED BY <1>0, <3>1, StoresKeepKeys
  <2> QED BY <2>1, <2>2
<1> QED BY <1>1, <1>2, <1>3, <1>4 DEF Provenance

\* In every reachable state entries, outcomes and replies carry their own key.
THEOREM ProvenanceInvariant == Spec => []Provenance
<1>1. Init => Provenance
  BY DEF Init, Provenance
<1>2. Core /\ Provenance /\ [Next]_vars => Provenance'
  <2>1. ASSUME Provenance, UNCHANGED vars PROVE Provenance'
    BY <2>1 DEF vars, requestVars, flightVars, helperVars, storeVars, Provenance
  <2> QED BY <2>1, ProvenanceGet, ProvenanceFlight, ProvenanceOther DEF Next
<1> QED BY <1>1, <1>2, CoreInvariant, PTL DEF Spec

\* ModelCache!AnswersOwnKey: no entry and no reply crosses keys.
THEOREM OwnKeyAnswered == Spec => []AnswersOwnKey
<1>1. Provenance => AnswersOwnKey
  BY DEF Provenance, AnswersOwnKey
<1> QED BY <1>1, ProvenanceInvariant, PTL

-----------------------------------------------------------------------------
(* What reaches the disk *)

\* A flight still writing after its release holds a full model.
FullOnDisk ==
    /\ DiskHoldsFullModels
    /\ \A f \in Requests : phase[f] = "late" => out[f].kind = "full"

\* Only runFlight's late write and a helper's put write rows, both full models.
LEMMA FullOnDiskStep ==
    ASSUME Core, FullOnDisk, [Next]_vars
    PROVE  FullOnDisk'
<1> USE DEF Core, TypeOK, requestVars, flightVars, helperVars, storeVars
<1>1. CASE UNCHANGED vars
  BY <1>1 DEF vars, FullOnDisk, DiskHoldsFullModels
<1>2. CASE \E r \in Requests : GetStep(r)
  BY <1>2 DEF GetStep, AskDone, AskMiss, Join, RecheckHit, RecheckMiss, Create, Receive,
              GiveUp, FullOnDisk, DiskHoldsFullModels
<1>3. CASE \E f \in Requests : FlightStep(f)
  BY <1>3 DEF FlightStep, ProbeHit, ProbeMiss, AcquireSlot, SlotTimeout, FetchReturn, Store,
              Release, PersistLate, Persists, PersistentPut, FullOnDisk, DiskHoldsFullModels
<1>4. CASE \E h \in Requests : HelperStep(h)
  BY <1>4 DEF HelperStep, HelperFinish, HelperLook, HelperWake, HelperTimeout, HelperDisk,
              HelperLocal, HelperPost, PersistentPut, FullOnDisk, DiskHoldsFullModels
<1>5. CASE (\E v \in Verdict : Expire(v)) \/ Restart
  BY <1>5 DEF Expire, Restart, FullOnDisk, DiskHoldsFullModels
<1> QED BY <1>1, <1>2, <1>3, <1>4, <1>5 DEF Next

\* ModelCache!DiskHoldsFullModels: errors, partial posts and uncached outcomes
\* never become rows.
THEOREM DiskFull == Spec => []DiskHoldsFullModels
<1>1. Init => FullOnDisk
  BY DEF Init, FullOnDisk, DiskHoldsFullModels
<1>2. FullOnDisk => DiskHoldsFullModels
  BY DEF FullOnDisk
<1> QED BY <1>1, <1>2, FullOnDiskStep, CoreInvariant, PTL DEF Spec

-----------------------------------------------------------------------------
(* putAfterFlight *)

\* A helper's post is in a store or in the hands of a flight that read it there.
Shown(h) ==
    \/ \E k \in Keys : local[k] = HelperPost(h) \/ disk[k] = HelperPost(h)
    \/ \E f \in Requests : out[f] = HelperPost(h)

\* The lookups of its key that were running when the helper looked are over.
PutSettled(h) ==
    \A f \in before[h] : key[f] = key[h] => phase[f] \notin Registered

\* At most one of them was running, the one the helper waits for; once it puts
\* its post none is, and before it puts it nobody can have seen the post.
PutOrder ==
    \A h \in Requests :
        /\ \A f \in before[h] : phase[f] # "none"
        /\ helper[h] = "wait" =>
              \A f \in before[h] : key[f] = key[h] /\ phase[f] \in Registered => f = follow[h]
        /\ helper[h] \in {"disk", "local"} \/ Shown(h) => PutSettled(h)
        /\ helper[h] \in {"none", "running", "look", "wait"} => ~Shown(h)
        /\ phase[h] \in {"probe", "slot", "fetch"} => helper[h] = "none"

\* A helper's post is an entry of its own, made by that helper.
LEMMA HelperPosts ==
    ASSUME NEW h \in Requests
    PROVE  HelperPost(h) # None /\ HelperPost(h).by = h /\ HelperPost(h).src = "helper"
<1>1. HelperPost(h) \in Reply
  BY DEF HelperPost, Reply, Cacheable
<1>2. HelperPost(h).by = h /\ HelperPost(h).src = "helper"
  BY DEF HelperPost
<1> QED BY <1>1, <1>2, NoEntryAssumption

\* Steps of get and of flights show no post that was not shown before, and end
\* lookups without reviving any.
LEMMA PutOrderFlight ==
    ASSUME Core, Provenance, PutOrder,
           \E r \in Requests : GetStep(r) \/ FlightStep(r)
    PROVE  PutOrder'
<1> USE DEF Core, requestVars, flightVars, helperVars, storeVars
<1> PICK r \in Requests : GetStep(r) \/ FlightStep(r)
  OBVIOUS
<1>0. [Next]_vars
  BY DEF Next
<1>1. UNCHANGED <<follow, before>>
  BY DEF GetStep, AskDone, AskMiss, Join, RecheckHit, RecheckMiss, Create, Receive, GiveUp,
         FlightStep, ProbeHit, ProbeMiss, AcquireSlot, SlotTimeout, FetchReturn, Store,
         Release, PersistLate
<1>2. \A h \in Requests : helper'[h] = helper[h] \/ (helper[h] = "none" /\ helper'[h] = "running")
  BY DEF GetStep, AskDone, AskMiss, Join, RecheckHit, RecheckMiss, Create, Receive, GiveUp,
         FlightStep, ProbeHit, ProbeMiss, AcquireSlot, SlotTimeout, FetchReturn, Store,
         Release, PersistLate, TypeOK, PutOrder
<1>3. \A h \in Requests : phase'[h] \in {"probe", "slot", "fetch"} => helper'[h] = "none"
  BY DEF GetStep, AskDone, AskMiss, Join, RecheckHit, RecheckMiss, Create, Receive, GiveUp,
         FlightStep, ProbeHit, ProbeMiss, AcquireSlot, SlotTimeout, FetchReturn, Store,
         Release, PersistLate, TypeOK, PutOrder, Begun
<1>4. \A f \in Requests : phase[f] # "none" =>
          phase'[f] # "none" /\ (phase'[f] \in Registered => phase[f] \in Registered)
  BY DEF GetStep, AskDone, AskMiss, Join, RecheckHit, RecheckMiss, Create, Receive, GiveUp,
         FlightStep, ProbeHit, ProbeMiss, AcquireSlot, SlotTimeout, FetchReturn, Store,
         Release, PersistLate, TypeOK, Begun, Registered
<1>5. \A f \in Requests : phase[f] # "none" \/ helper[f] # "none" => key'[f] = key[f]
  BY <1>0, KeyStable, NoneAssumption DEF Begun
<1>6. \A h \in Requests : Shown(h)' => Shown(h)
  <2>1. \A k \in Keys :
            /\ local'[k] \in {local[k], None, out[r]}
            /\ disk'[k] \in {disk[k], out[r]}
    BY DEF GetStep, AskDone, AskMiss, Join, RecheckHit, RecheckMiss, Create, Receive, GiveUp,
           FlightStep, ProbeHit, ProbeMiss, AcquireSlot, SlotTimeout, FetchReturn, Store,
           Release, PersistLate, LocalMiss, StoreLocal, PersistentPut, TypeOK
  <2>2. \A f \in Requests :
            \/ out'[f] = out[f]
            \/ \E k \in Keys : out'[f] = disk[k]
            \/ out'[f].src = "flight"
    BY DEF GetStep, AskDone, AskMiss, Join, RecheckHit, RecheckMiss, Create, Receive, GiveUp,
           FlightStep, ProbeHit, ProbeMiss, AcquireSlot, SlotTimeout, FetchReturn, Store,
           Release, PersistLate, TypeOK, Begun, Uncached
  <2> QED BY <2>1, <2>2, HelperPosts DEF Shown
<1> SUFFICES ASSUME NEW h \in Requests
             PROVE  /\ \A f \in before'[h] : phase'[f] # "none"
                    /\ helper'[h] = "wait" =>
                          \A f \in before'[h] :
                              key'[f] = key'[h] /\ phase'[f] \in Registered => f = follow'[h]
                    /\ helper'[h] \in {"disk", "local"} \/ Shown(h)' => PutSettled(h)'
                    /\ helper'[h] \in {"none", "running", "look", "wait"} => ~Shown(h)'
  BY <1>3 DEF PutOrder, Registered
<1>7. before[h] \subseteq Requests
  BY DEF TypeOK
<1>8. \A f \in before[h] : phase[f] # "none" /\ phase'[f] # "none" /\ key'[f] = key[f]
  BY <1>4, <1>5, <1>7 DEF PutOrder
<1>9. CASE helper[h] = "none"
  BY <1>1, <1>2, <1>6, <1>8, <1>9 DEF PutOrder
<1>10. CASE helper[h] # "none"
  BY <1>1, <1>2, <1>4, <1>5, <1>6, <1>7, <1>8, <1>10 DEF PutOrder, PutSettled
<1> QED BY <1>9, <1>10

\* A helper's own steps: it looks, waits for what it found, puts.
LEMMA PutOrderHelper ==
    ASSUME Core, Provenance, PutOrder, NEW g \in Requests, HelperStep(g)
    PROVE  PutOrder'
<1> USE DEF Core, requestVars, flightVars, helperVars, storeVars
<1>1. UNCHANGED <<key, phase, out>>
  BY DEF HelperStep, HelperFinish, HelperLook, HelperWake, HelperTimeout, HelperDisk, HelperLocal
<1>2. \A h \in Requests : h # g =>
          helper'[h] = helper[h] /\ follow'[h] = follow[h] /\ before'[h] = before[h]
  BY DEF HelperStep, HelperFinish, HelperLook, HelperWake, HelperTimeout, HelperDisk,
         HelperLocal, TypeOK
<1>3. \A k \in Keys :
          /\ local'[k] \in {local[k], None, HelperPost(g)}
          /\ disk'[k] \in {disk[k], HelperPost(g)}
  BY DEF HelperStep, HelperFinish, HelperLook, HelperWake, HelperTimeout, HelperDisk,
         HelperLocal, StoreLocal, PersistentPut, TypeOK
<1>4. \A h \in Requests : h # g => (Shown(h)' => Shown(h))
  BY <1>1, <1>3, HelperPosts DEF Shown
<1>5. \A h \in Requests : phase'[h] \in {"probe", "slot", "fetch"} => helper'[h] = "none"
  BY <1>1 DEF HelperStep, HelperFinish, HelperLook, HelperWake, HelperTimeout, HelperDisk,
              HelperLocal, TypeOK, PutOrder
<1>6. ASSUME NEW h \in Requests, h # g
      PROVE  /\ \A f \in before'[h] : phase'[f] # "none"
             /\ helper'[h] = "wait" =>
                   \A f \in before'[h] :
                       key'[f] = key'[h] /\ phase'[f] \in Registered => f = follow'[h]
             /\ helper'[h] \in {"disk", "local"} \/ Shown(h)' => PutSettled(h)'
             /\ helper'[h] \in {"none", "running", "look", "wait"} => ~Shown(h)'
  BY <1>1, <1>2, <1>4, <1>6 DEF PutOrder, PutSettled
<1>7. /\ \A f \in before'[g] : phase'[f] # "none"
      /\ helper'[g] = "wait" =>
            \A f \in before'[g] :
                key'[f] = key'[g] /\ phase'[f] \in Registered => f = follow'[g]
      /\ helper'[g] \in {"disk", "local"} \/ Shown(g)' => PutSettled(g)'
      /\ helper'[g] \in {"none", "running", "look", "wait"} => ~Shown(g)'
  <2>1. CASE (\E ok \in BOOLEAN : HelperFinish(g, ok)) \/ HelperTimeout(g)
    <3>1. UNCHANGED <<local, disk, before>> /\ helper[g] \in {"running", "wait"}
          /\ helper'[g] \in {"look", "end"}
      BY <2>1 DEF HelperFinish, HelperTimeout, TypeOK
    <3>2. ~Shown(g) /\ ~Shown(g)'
      BY <1>1, <3>1 DEF PutOrder, Shown
    <3> QED BY <1>1, <3>1, <3>2 DEF PutOrder
  <2>2. CASE HelperLook(g)
    <3>1. ~Shown(g)'
      BY <1>1, <2>2 DEF HelperLook, PutOrder, Shown
    <3>2. before'[g] = {f \in Requests : phase[f] # "none"} /\ follow'[g] = flight[key[g]]
      BY <2>2 DEF HelperLook, TypeOK
    <3>3. \A f \in Requests : key[f] = key[g] /\ phase[f] \in Registered => f = flight[key[g]]
      BY DEF FlightIndex
    <3>4. helper'[g] = IF flight[key[g]] = None THEN "disk" ELSE "wait"
      BY <2>2 DEF HelperLook, TypeOK
    <3> QED BY <1>1, <3>1, <3>2, <3>3, <3>4, NoneAssumption DEF PutSettled
  <2>3. CASE HelperWake(g)
    <3>1. UNCHANGED <<local, disk, follow, before>> /\ helper[g] = "wait" /\ helper'[g] = "disk"
      BY <2>3 DEF HelperWake, TypeOK
    <3>2. phase[follow[g]] \in Released
      BY <2>3 DEF HelperWake
    <3>3. PutSettled(g)
      BY <3>1, <3>2 DEF PutOrder, PutSettled, Released, Registered
    <3>4. PutSettled(g)'
      BY <1>1, <3>1, <3>3 DEF PutSettled
    <3> QED BY <1>1, <3>1, <3>4 DEF PutOrder
  <2>4. CASE HelperDisk(g) \/ HelperLocal(g)
    <3>1. UNCHANGED before /\ helper[g] \in {"disk", "local"} /\ helper'[g] \in {"local", "end"}
      BY <2>4 DEF HelperDisk, HelperLocal, TypeOK
    <3>2. PutSettled(g)'
      BY <1>1, <3>1 DEF PutOrder, PutSettled
    <3> QED BY <1>1, <3>1, <3>2 DEF PutOrder
  <2> QED BY <2>1, <2>2, <2>3, <2>4 DEF HelperStep
<1> QED BY <1>5, <1>6, <1>7 DEF PutOrder

\* Time changes no lookup; a restart ends them all.
LEMMA PutOrderEnvironment ==
    ASSUME Core, PutOrder, (\E v \in Verdict : Expire(v)) \/ Restart
    PROVE  PutOrder'
<1> USE DEF Core, requestVars, flightVars, helperVars, storeVars
<1>1. CASE \E v \in Verdict : Expire(v)
  BY <1>1 DEF Expire, PutOrder, PutSettled, Shown
<1>2. CASE Restart
  <2>1. UNCHANGED <<key, out, disk, before>> /\ \A k \in Keys : local'[k] = None
    BY <1>2 DEF Restart
  <2>2. \A f \in Requests : /\ phase'[f] = IF phase[f] = "none" THEN "none" ELSE "dead"
                            /\ helper'[f] = IF helper[f] = "none" THEN "none" ELSE "dead"
    BY <1>2 DEF Restart
  <2>3. \A h \in Requests : PutSettled(h)'
    BY <2>1, <2>2 DEF PutSettled, Registered, TypeOK
  <2>4. \A h \in Requests : helper[h] = "none" => ~Shown(h)'
    BY <2>1, HelperPosts DEF PutOrder, Shown
  <2>5. \A h \in Requests : \A f \in before'[h] : phase'[f] # "none"
    BY <2>1, <2>2 DEF PutOrder, TypeOK
  <2> QED BY <2>2, <2>3, <2>4, <2>5 DEF PutOrder
<1> QED BY <1>1, <1>2

\* A helper's post is put only once the lookups it met are over.
THEOREM PutOrderInvariant == Spec => []PutOrder
<1>1. Init => PutOrder
  BY HelperPosts DEF Init, PutOrder, PutSettled, Shown
<1>2. Core /\ Provenance /\ PutOrder /\ [Next]_vars => PutOrder'
  <2>1. ASSUME PutOrder, UNCHANGED vars PROVE PutOrder'
    BY <2>1 DEF vars, requestVars, flightVars, helperVars, storeVars, PutOrder, PutSettled, Shown
  <2> QED BY <2>1, PutOrderFlight, PutOrderHelper, PutOrderEnvironment DEF Next
<1> QED BY <1>1, <1>2, CoreInvariant, ProvenanceInvariant, PTL DEF Spec

\* ModelCache!VerdictNeverReplacesPut: putAfterFlight's wait is enough to keep the
\* verdict of every lookup it met from replacing the helper's post in memory.
THEOREM LateVerdictYields == Spec => VerdictNeverReplacesPut
<1>1. ASSUME Core, Provenance, PutOrder, [Next]_vars
      PROVE  [\A f, h \in Requests :
                 /\ phase[f] = "store" /\ phase'[f] = "release"
                 /\ local[key[f]] = HelperPost(h)
                 /\ local' # local
                 => f \notin before[h]]_vars
  <2> SUFFICES ASSUME NEW f \in Requests, NEW h \in Requests, phase[f] = "store",
                      local[key[f]] = HelperPost(h), f \in before[h]
               PROVE  FALSE
    OBVIOUS
  <2>1. key[f] \in Keys
    BY <1>1 DEF Core, TypeOK, Begun
  <2>2. PutSettled(h)
    BY <1>1, <2>1 DEF PutOrder, Shown
  <2>3. key[h] = key[f]
    BY <1>1, <2>1, HelperPosts DEF Provenance
  <2> QED BY <2>2, <2>3 DEF PutSettled, Registered
<1> QED BY <1>1, CoreInvariant, ProvenanceInvariant, PutOrderInvariant, PTL
    DEF Spec, VerdictNeverReplacesPut

-----------------------------------------------------------------------------
(* The cache is a shared fetch *)

\* A flight has no outcome and no helper before its fetch returns.
Unmade ==
    \A f \in Requests :
        phase[f] \in {"none", "probe", "slot", "fetch"} => out[f] = None /\ helper[f] = "none"

\* A reply is the end of a request.
Untold == \A r \in Requests : pc[r] # "done" => reply[r] = None

\* Nothing is in memory, on disk or in a flight's hands that no fetch of its key gave.
Sourced ==
    /\ \A k \in Keys :
          /\ local[k] # None => local[k] \in Given(k)
          /\ disk[k] # None => disk[k] \in Given(k)
    /\ \A f \in Requests : out[f] \in Verdict => out[f] \in Given(key[f])

\* What flight f made, it keeps; what it had not made, this step does not make.
SameMade(f) ==
    /\ out'[f] = out[f] \/ (out[f] = None /\ (out'[f] \notin Verdict \/ out'[f].by # f))
    /\ helper'[f] = "none" <=> helper[f] = "none"
    /\ key'[f] = key[f] \/ (out'[f] = None /\ helper'[f] = "none")

\* Keys with nothing newly made have been given what they had been given before.
LEMMA GivenSame ==
    ASSUME \A f \in Requests : SameMade(f)
    PROVE  \A k \in Keys : Given(k)' = Given(k)
<1> SUFFICES ASSUME NEW k \in Keys PROVE Given(k)' = Given(k)
  OBVIOUS
<1>1. \A f \in Requests : Made(f)' = Made(f)
  BY NoEntryAssumption DEF Made, SameMade, Verdict, Reply, HelperPost
<1>2. \A f \in Requests : key'[f] = key[f] \/ Made(f) = {}
  BY NoEntryAssumption DEF Made, SameMade, Verdict, Reply
<1> QED BY <1>1, <1>2 DEF Given

\* f's fetch returns, one way or another.
Returns(f) ==
    \E kind \in Cacheable \cup {"uncached"}, keep \in BOOLEAN : FetchReturn(f, kind, keep)

\* Only a fetch that returns gives a flight an outcome of its own, or a helper.
LEMMA UnmadeStep ==
    ASSUME Core, Unmade, [Next]_vars
    PROVE  Unmade'
<1> USE DEF Core, TypeOK, requestVars, flightVars, helperVars, storeVars
<1>1. CASE UNCHANGED vars
  BY <1>1 DEF vars, Unmade
<1>2. CASE \E r \in Requests : GetStep(r)
  BY <1>2 DEF GetStep, AskDone, AskMiss, Join, RecheckHit, RecheckMiss, Create, Receive,
              GiveUp, Unmade, Begun
<1>3. CASE \E f \in Requests : FlightStep(f)
  BY <1>3 DEF FlightStep, ProbeHit, ProbeMiss, AcquireSlot, SlotTimeout, FetchReturn, Store,
              Release, PersistLate, Unmade
<1>4. CASE \E h \in Requests : HelperStep(h)
  BY <1>4 DEF HelperStep, HelperFinish, HelperLook, HelperWake, HelperTimeout, HelperDisk,
              HelperLocal, Unmade
<1>5. CASE (\E v \in Verdict : Expire(v)) \/ Restart
  BY <1>5 DEF Expire, Restart, Unmade
<1> QED BY <1>1, <1>2, <1>3, <1>4, <1>5 DEF Next

\* get returns when it has its reply.
LEMMA UntoldStep ==
    ASSUME Core, Untold, [Next]_vars
    PROVE  Untold'
<1> USE DEF Core, TypeOK, requestVars, flightVars, helperVars, storeVars
<1>1. CASE UNCHANGED vars
  BY <1>1 DEF vars, Untold
<1>2. CASE \E r \in Requests : GetStep(r)
  BY <1>2 DEF GetStep, AskDone, AskMiss, Join, RecheckHit, RecheckMiss, Create, Receive,
              GiveUp, Untold
<1>3. CASE \E f \in Requests : FlightStep(f)
  BY <1>3 DEF FlightStep, ProbeHit, ProbeMiss, AcquireSlot, SlotTimeout, FetchReturn, Store,
              Release, PersistLate, Untold
<1>4. CASE \E h \in Requests : HelperStep(h)
  BY <1>4 DEF HelperStep, HelperFinish, HelperLook, HelperWake, HelperTimeout, HelperDisk,
              HelperLocal, Untold
<1>5. CASE (\E v \in Verdict : Expire(v)) \/ Restart
  BY <1>5 DEF Expire, Restart, Untold
<1> QED BY <1>1, <1>2, <1>3, <1>4, <1>5 DEF Next

\* The members of Given(k) were made by a request that asked for k.
LEMMA GivenMaker ==
    ASSUME NEW k \in Keys, NEW v \in Given(k)
    PROVE  v \in Verdict /\ v \in Made(v.by) /\ key[v.by] = k
<1>1. PICK f \in Requests : key[f] = k /\ v \in Made(f)
  BY DEF Given
<1>2. v \in Verdict /\ v.by = f
  BY <1>1 DEF Made, HelperPost, Verdict, Cacheable
<1> QED BY <1>1, <1>2

\* get makes nothing and fetches nothing.
LEMMA GetMakesNothing ==
    ASSUME Core, Provenance, Unmade, NEW r \in Requests, GetStep(r)
    PROVE  /\ \A f \in Requests : SameMade(f)
           /\ Fetching' = Fetching
           /\ \A f \in Fetching : key'[f] = key[f]
<1> USE DEF Core, TypeOK, requestVars, flightVars, helperVars, storeVars
<1>1. UNCHANGED <<out, helper>>
  BY DEF GetStep, AskDone, AskMiss, Join, RecheckHit, RecheckMiss, Create, Receive, GiveUp
<1>2. \A f \in Requests :
          key'[f] = key[f] \/ (out[f] = None /\ helper[f] = "none" /\ phase[f] = "none")
  BY DEF GetStep, AskDone, AskMiss, Join, RecheckHit, RecheckMiss, Create, Receive, GiveUp,
         Unmade, Begun
<1>3. phase' = phase \/ (phase[r] = "none" /\ phase' = [phase EXCEPT ![r] = "probe"])
  BY DEF GetStep, AskDone, AskMiss, Join, RecheckHit, RecheckMiss, Create, Receive, GiveUp, Begun
<1>4. Fetching' = Fetching
  BY <1>3 DEF Fetching
<1> QED BY <1>1, <1>2, <1>4 DEF SameMade, Fetching

\* Nor does any step of a flight other than the return of its fetch; a probe's
\* hit was made by somebody else.
LEMMA FlightMakesNothing ==
    ASSUME Core, Unmade, Sourced, NEW f \in Requests, FlightStep(f), ~Returns(f)
    PROVE  \A g \in Requests : SameMade(g)
<1> USE DEF Core, TypeOK, requestVars, flightVars, helperVars, storeVars
<1>1. UNCHANGED <<key, helper>>
  BY DEF FlightStep, Returns, ProbeHit, ProbeMiss, AcquireSlot, SlotTimeout, Store, Release,
         PersistLate
<1>2. CASE ProbeHit(f)
  <2>1. key[f] \in Keys
    BY <1>2 DEF ProbeHit, Begun
  <2>2. out[f] = None /\ helper[f] = "none"
    BY <1>2 DEF ProbeHit, Unmade
  <2>3. Made(f) = {}
    BY <2>2, NoEntryAssumption DEF Made, Verdict, Reply
  <2>4. disk[key[f]] \in Given(key[f])
    BY <1>2, <2>1 DEF ProbeHit, Fresh, Sourced
  <2>5. disk[key[f]].by # f
    BY <2>1, <2>3, <2>4, GivenMaker
  <2> QED BY <1>1, <1>2, <2>2, <2>5 DEF ProbeHit, SameMade
<1>3. CASE SlotTimeout(f)
  BY <1>1, <1>3 DEF SlotTimeout, Unmade, SameMade, Uncached, Verdict, Cacheable
<1>4. CASE ~ProbeHit(f) /\ ~SlotTimeout(f)
  <2>1. out' = out
    BY <1>4 DEF FlightStep, Returns, ProbeMiss, AcquireSlot, Store, Release, PersistLate
  <2> QED BY <1>1, <2>1 DEF SameMade
<1> QED BY <1>2, <1>3, <1>4

\* Nor do a helper's own steps, time and restarts.
LEMMA OthersMakeNothing ==
    ASSUME Core, (\E h \in Requests : HelperStep(h)) \/ (\E v \in Verdict : Expire(v)) \/ Restart
    PROVE  \A f \in Requests : SameMade(f)
<1> USE DEF Core, TypeOK, requestVars, flightVars, helperVars, storeVars
<1>1. UNCHANGED <<key, out>>
  BY DEF HelperStep, HelperFinish, HelperLook, HelperWake, HelperTimeout, HelperDisk,
         HelperLocal, Expire, Restart
<1>2. \A f \in Requests : helper'[f] = "none" <=> helper[f] = "none"
  BY DEF HelperStep, HelperFinish, HelperLook, HelperWake, HelperTimeout, HelperDisk,
         HelperLocal, Expire, Restart
<1> QED BY <1>1, <1>2 DEF SameMade

\* What f made now, and only that, is added to what its key was given.
FetchGave(f) ==
    /\ Made(f)' \in Shared!Yields
    /\ out'[f] \in Verdict => out'[f] \in Made(f)'
    /\ \A k \in Keys :
          Given(k)' = IF k = key[f] THEN Given(k) \cup Made(f)' ELSE Given(k)

\* A fetch that returns gives its key nothing, its verdict, a helper's post to
\* come, or both.
LEMMA FetchMakes ==
    ASSUME Core, Unmade, NEW f \in Requests, NEW kind \in Cacheable \cup {"uncached"},
           NEW keep \in BOOLEAN, FetchReturn(f, kind, keep)
    PROVE  FetchGave(f)
<1> USE DEF Core, TypeOK, requestVars, flightVars, helperVars, storeVars
<1>1. /\ key' = key
      /\ \A g \in Requests : g # f => out'[g] = out[g] /\ helper'[g] = helper[g]
  BY DEF FetchReturn
<1>2. out[f] = None /\ helper[f] = "none"
  BY DEF FetchReturn, Unmade
<1>3. Made(f) = {}
  BY <1>2, NoEntryAssumption DEF Made, Verdict, Reply
<1>4. \A g \in Requests : g # f => Made(g)' = Made(g)
  BY <1>1 DEF Made, HelperPost
<1>5. HelperPost(f) \in Verdict
  BY DEF HelperPost, Verdict, Cacheable
<1>6. out'[f] \in Verdict => out'[f].by = f
  BY <1>2 DEF FetchReturn, Uncached, Verdict, Cacheable
<1>7. Made(f)' \in Shared!Yields
  <2> DEFINE own == {v \in {out'[f]} \cap Verdict : v.by = f}
             posted == {v \in {HelperPost(f)} : helper'[f] # "none"}
  <2>1. own = {} \/ (own = {out'[f]} /\ out'[f] \in Verdict)
    OBVIOUS
  <2>2. posted = {} \/ posted = {HelperPost(f)}
    OBVIOUS
  <2>3. Made(f)' = own \cup posted
    BY DEF Made, HelperPost
  <2> HIDE DEF own, posted
  <2>4. CASE own = {} /\ posted = {}
    BY <2>3, <2>4 DEF Shared!Yields
  <2>5. CASE own = {} /\ posted = {HelperPost(f)}
    <3>1. Made(f)' = {HelperPost(f), HelperPost(f)}
      BY <2>3, <2>5
    <3> QED BY <3>1, <1>5 DEF Shared!Yields
  <2>6. CASE own = {out'[f]} /\ out'[f] \in Verdict /\ posted = {}
    <3>1. Made(f)' = {out'[f], out'[f]}
      BY <2>3, <2>6
    <3> QED BY <3>1, <2>6 DEF Shared!Yields
  <2>7. CASE own = {out'[f]} /\ out'[f] \in Verdict /\ posted = {HelperPost(f)}
    <3>1. Made(f)' = {out'[f], HelperPost(f)}
      BY <2>3, <2>7
    <3> QED BY <3>1, <1>5, <2>7 DEF Shared!Yields
  <2> QED BY <2>1, <2>2, <2>4, <2>5, <2>6, <2>7
<1>8. out'[f] \in Verdict => out'[f] \in Made(f)'
  BY <1>6 DEF Made
<1>9. \A k \in Keys : Given(k)' = IF k = key[f] THEN Given(k) \cup Made(f)' ELSE Given(k)
  BY <1>1, <1>3, <1>4 DEF Given
<1> QED BY <1>7, <1>8, <1>9 DEF FetchGave

\* What a key was given is never taken back.
LEMMA GivenGrows ==
    ASSUME Core, Provenance, Unmade, Sourced, [Next]_vars
    PROVE  \A k \in Keys : Given(k) \subseteq Given(k)'
<1>1. CASE UNCHANGED vars
  BY <1>1 DEF vars, requestVars, flightVars, helperVars, Given, Made, HelperPost
<1>2. CASE \E r \in Requests : GetStep(r)
  BY <1>2, GetMakesNothing, GivenSame
<1>3. CASE \E f \in Requests : FlightStep(f)
  <2> PICK f \in Requests : FlightStep(f)
    BY <1>3
  <2>1. CASE Returns(f)
    BY <2>1, FetchMakes DEF Returns, FetchGave
  <2>2. CASE ~Returns(f)
    BY <2>2, FlightMakesNothing, GivenSame
  <2> QED BY <2>1, <2>2
<1>4. CASE (\E h \in Requests : HelperStep(h)) \/ (\E v \in Verdict : Expire(v)) \/ Restart
  BY <1>4, OthersMakeNothing, GivenSame
<1> QED BY <1>1, <1>2, <1>3, <1>4 DEF Next

\* Every store writes what it was handed, and every flight is handed what a fetch
\* or a row of its key gave.
LEMMA SourcedStep ==
    ASSUME Core, Provenance, Unmade, Sourced, [Next]_vars
    PROVE  Sourced'
<1> USE DEF Core, TypeOK, requestVars, flightVars, helperVars, storeVars
<1>1. \A k \in Keys : Given(k) \subseteq Given(k)'
  BY GivenGrows
<1>2. \A f \in Requests : key[f] # None => key'[f] = key[f]
  BY KeyStable
<1>3. \A f \in Requests : out[f] \in Verdict => key[f] \in Keys
  BY NoEntryAssumption DEF Provenance, Begun, Verdict, Reply
<1>4. \A f \in Requests : (out[f] \in Verdict /\ out'[f] = out[f]) => (out[f] \in Given(key[f]))'
  BY <1>1, <1>2, <1>3, NoneAssumption DEF Sourced
<1>5. ASSUME \A k \in Keys : /\ local'[k] = local[k] \/ local'[k] = None \/ local'[k] \in Given(k)'
                             /\ disk'[k] = disk[k] \/ disk'[k] \in Given(k)',
             \A f \in Requests :
                 out'[f] = out[f] \/ (out[f] \in Verdict => out[f] \in Given(key[f]))'
      PROVE  Sourced'
  BY <1>1, <1>4, <1>5 DEF Sourced
<1>6. CASE UNCHANGED vars
  BY <1>5, <1>6 DEF vars
<1>7. CASE \E r \in Requests : GetStep(r)
  <2>1. UNCHANGED <<disk, out>> /\ \A k \in Keys : local'[k] = local[k] \/ local'[k] = None
    BY <1>7 DEF GetStep, AskDone, AskMiss, Join, RecheckHit, RecheckMiss, Create, Receive,
                GiveUp, LocalMiss
  <2> QED BY <2>1, <1>5
<1>8. CASE \E f \in Requests : FlightStep(f)
  <2> PICK f \in Requests : FlightStep(f)
    BY <1>8
  <2>0. key[f] \in Keys /\ key' = key
    BY DEF FlightStep, ProbeHit, ProbeMiss, AcquireSlot, SlotTimeout, FetchReturn, Store,
           Release, PersistLate, Begun
  <2>1. CASE ProbeHit(f)
    <3>1. UNCHANGED <<local, disk>> /\ out'[f] \in Given(key[f])
          /\ \A g \in Requests : g # f => out'[g] = out[g]
      BY <2>0, <2>1 DEF ProbeHit, Fresh, Sourced
    <3> QED BY <3>1, <2>0, <1>1, <1>5
  <2>2. CASE SlotTimeout(f)
    <3>1. UNCHANGED <<local, disk>> /\ out'[f] \notin Verdict
          /\ \A g \in Requests : g # f => out'[g] = out[g]
      BY <2>2 DEF SlotTimeout, Uncached, Verdict, Cacheable
    <3> QED BY <3>1, <1>5
  <2>3. CASE Returns(f)
    <3>1. UNCHANGED <<local, disk>> /\ \A g \in Requests : g # f => out'[g] = out[g]
      BY <2>3 DEF Returns, FetchReturn
    <3>2. FetchGave(f)
      BY <2>3, FetchMakes DEF Returns
    <3>3. out'[f] \in Verdict => out'[f] \in Given(key[f])'
      BY <2>0, <3>2 DEF FetchGave
    <3> QED BY <3>1, <3>3, <2>0, <1>5
  <2>4. CASE Store(f)
    <3>1. out[f] \in Given(key[f])
      BY <2>4 DEF Store, OutSet, Sourced
    <3>2. UNCHANGED <<disk, out>> /\ \A k \in Keys :
              local'[k] = local[k] \/ local'[k] = None \/ (k = key[f] /\ local'[k] = out[f])
      BY <2>4, <2>0 DEF Store, StoreLocal
    <3> QED BY <3>1, <3>2, <2>0, <1>1, <1>5
  <2>5. CASE PersistLate(f)
    <3>1. out[f] \in Given(key[f])
      BY <2>5 DEF PersistLate, OutSet, Sourced
    <3>2. UNCHANGED <<local, out>> /\ \A k \in Keys :
              disk'[k] = disk[k] \/ (k = key[f] /\ disk'[k] = out[f])
      BY <2>5, <2>0 DEF PersistLate, PersistentPut
    <3> QED BY <3>1, <3>2, <2>0, <1>1, <1>5
  <2>6. CASE ProbeMiss(f) \/ AcquireSlot(f) \/ Release(f)
    BY <2>6, <1>5 DEF ProbeMiss, AcquireSlot, Release
  <2> QED BY <2>1, <2>2, <2>3, <2>4, <2>5, <2>6 DEF FlightStep, Returns
<1>9. CASE \E h \in Requests : HelperStep(h)
  <2> PICK h \in Requests : HelperStep(h)
    BY <1>9
  <2>1. helper[h] # "none" /\ key[h] \in Keys
    BY DEF HelperStep, HelperFinish, HelperLook, HelperWake, HelperTimeout, HelperDisk,
           HelperLocal, Begun
  <2>2. HelperPost(h) \in Given(key[h])
    BY <2>1 DEF Given, Made
  <2>3. out' = out /\ \A k \in Keys :
            /\ local'[k] = local[k] \/ local'[k] = None \/ (k = key[h] /\ local'[k] = HelperPost(h))
            /\ disk'[k] = disk[k] \/ (k = key[h] /\ disk'[k] = HelperPost(h))
    BY <2>1 DEF HelperStep, HelperFinish, HelperLook, HelperWake, HelperTimeout, HelperDisk,
                HelperLocal, StoreLocal, PersistentPut
  <2> QED BY <2>2, <2>3, <2>1, <1>1, <1>5
<1>10. CASE (\E v \in Verdict : Expire(v)) \/ Restart
  <2>1. UNCHANGED <<disk, out>> /\ \A k \in Keys : local'[k] = local[k] \/ local'[k] = None
    BY <1>10 DEF Expire, Restart
  <2> QED BY <2>1, <1>5
<1> QED BY <1>6, <1>7, <1>8, <1>9, <1>10 DEF Next

\* The keys being fetched are those of the fetching flights, and no more than them.
LEMMA FetchedCount ==
    ASSUME Core
    PROVE  /\ Fetched = {key[f] : f \in Fetching}
           /\ Cardinality(Fetched) \in Nat /\ Cardinality(Fetched) <= slots
<1>1. Fetched = {key[f] : f \in Fetching}
  BY DEF Fetched, Fetching
<1> DEFINE keyOf == [f \in Fetching |-> key[f]]
<1>2. keyOf \in Surjection(Fetching, Fetched)
  BY <1>1 DEF Surjection
<1>3. IsFiniteSet(Fetching) /\ slots = Cardinality(Fetching)
  BY DEF Core, SlotCount
<1> HIDE DEF keyOf
<1>4. IsFiniteSet(Fetched) /\ Cardinality(Fetched) <= Cardinality(Fetching)
  BY <1>2, <1>3, FS_Surjection
<1>5. Cardinality(Fetched) \in Nat
  BY <1>4, FS_CardinalityType
<1> QED BY <1>1, <1>3, <1>4, <1>5

\* With the same fetches under way and nothing made, only requests can have moved.
LEMMA SharedSame ==
    ASSUME \A f \in Requests : SameMade(f),
           Fetching' = Fetching, \A f \in Fetching : key'[f] = key[f]
    PROVE  Fetched' = Fetched /\ [k \in Keys |-> Given(k)]' = [k \in Keys |-> Given(k)]
<1>1. Fetched' = Fetched
  BY DEF Fetched, Fetching
<1>2. \A k \in Keys : Given(k)' = Given(k)
  BY GivenSame
<1> QED BY <1>1, <1>2

\* A step of get is a request asking, a request told, or nothing to the outside.
LEMMA GetImplements ==
    ASSUME Core, Provenance, Unmade, Untold, Sourced, NEW r \in Requests, GetStep(r)
    PROVE  [Shared!Next]_(Shared!sharedVars)
<1> USE DEF Core, TypeOK, requestVars, flightVars, helperVars, storeVars
<1> DEFINE given == [k \in Keys |-> Given(k)]
           failures == {a \in Reply : a.kind \notin Cacheable}
<1>1. Fetched' = Fetched /\ given' = given
  BY GetMakesNothing, SharedSame
<1>2. ContextError(r) \in failures
  BY DEF ContextError, Reply, Cacheable
<1>3. \A k \in Keys : Fresh(local[k]) => local[k] \in given[k]
  BY DEF Fresh, Sourced
<1> HIDE DEF given, failures
<1>4. CASE \E k \in Keys : AskDone(r, k)
  <2> PICK k \in Keys : AskDone(r, k)
    BY <1>4
  <2>1. key[r] = None /\ key' = [key EXCEPT ![r] = k]
    BY DEF AskDone, Provenance
  <2>2. \E a \in given[k] \cup failures : reply' = [reply EXCEPT ![r] = a]
    BY <1>2, <1>3 DEF AskDone
  <2>3. Shared!Ask(r, k)
    BY <1>1, <2>1, <2>2 DEF Shared!Ask, Shared!Told, given, failures
  <2> QED BY <2>3 DEF Shared!Next
<1>5. CASE \E k \in Keys : AskMiss(r, k)
  <2> PICK k \in Keys : AskMiss(r, k)
    BY <1>5
  <2>1. key[r] = None /\ key' = [key EXCEPT ![r] = k] /\ reply' = reply
    BY DEF AskMiss, Provenance
  <2>2. Shared!Ask(r, k)
    BY <1>1, <2>1 DEF Shared!Ask, given
  <2> QED BY <2>2 DEF Shared!Next
<1>6. CASE Join(r) \/ RecheckMiss(r) \/ Create(r)
  <2>1. UNCHANGED <<key, reply>>
    BY <1>6 DEF Join, RecheckMiss, Create
  <2> QED BY <1>1, <2>1 DEF Shared!sharedVars, given
<1>7. CASE RecheckHit(r) \/ Receive(r) \/ GiveUp(r)
  <2>1. key[r] \in Keys /\ reply[r] = None /\ key' = key
    BY <1>7 DEF RecheckHit, Receive, GiveUp, Begun, Untold
  <2>2. \E a \in given[key[r]] \cup failures : reply' = [reply EXCEPT ![r] = a]
    <3>1. CASE RecheckHit(r)
      BY <3>1, <2>1, <1>3 DEF RecheckHit
    <3>2. CASE Receive(r)
      <4>1. joined[r] \in Requests /\ key[joined[r]] = key[r] /\ out[joined[r]] \in Reply
        BY <3>2 DEF Receive, Begun, Provenance, OutSet
      <4>2. out[joined[r]] \in Verdict \/ out[joined[r]] \in failures
        BY <4>1 DEF Reply, Verdict, failures
      <4>3. out[joined[r]] \in Verdict => out[joined[r]] \in given[key[r]]
        BY <4>1, <2>1 DEF Sourced, given
      <4> QED BY <3>2, <4>2, <4>3 DEF Receive
    <3>3. CASE GiveUp(r)
      BY <3>3, <1>2 DEF GiveUp
    <3> QED BY <1>7, <3>1, <3>2, <3>3
  <2>3. Shared!Tell(r)
    BY <1>1, <2>1, <2>2 DEF Shared!Tell, Shared!Told, given, failures
  <2> QED BY <2>3 DEF Shared!Next
<1> QED BY <1>4, <1>5, <1>6, <1>7 DEF GetStep

\* SharedFetch counts keys as this module does.
LEMMA SharedCardinality == Shared!Cardinality(Fetched) = Cardinality(Fetched)
BY DEF Cardinality, Shared!Cardinality

\* What one key is given is added to what it had.
LEMMA GivenExtends ==
    ASSUME NEW j \in Keys, NEW new,
           \A k \in Keys : Given(k)' = IF k = j THEN Given(k) \cup new ELSE Given(k)
    PROVE  [k \in Keys |-> Given(k)]' = [[k \in Keys |-> Given(k)] EXCEPT ![j] = @ \cup new]
OBVIOUS

\* Of a flight the origin sees the beginning and the end of its fetch.
LEMMA FlightImplements ==
    ASSUME Core, Unmade, Sourced, NEW f \in Requests, FlightStep(f)
    PROVE  [Shared!Next]_(Shared!sharedVars)
<1> USE DEF Core, TypeOK, requestVars, flightVars, helperVars, storeVars
<1> DEFINE given == [k \in Keys |-> Given(k)]
<1>1. key' = key /\ reply' = reply /\ key[f] \in Keys
  BY DEF FlightStep, ProbeHit, ProbeMiss, AcquireSlot, SlotTimeout, FetchReturn, Store,
         Release, PersistLate, Begun
<1>2. \A g \in Fetching : phase[f] \in Registered /\ key[g] = key[f] => g = f
  BY DEF Fetching, FlightIndex, Registered
<1>3. CASE AcquireSlot(f)
  <2>1. phase[f] = "slot" /\ slots < FetchSlots /\ Fetching' = Fetching \cup {f}
    BY <1>3 DEF AcquireSlot, Fetching
  <2>2. \A g \in Requests : SameMade(g)
    BY <1>3, FlightMakesNothing DEF AcquireSlot, Returns, FetchReturn
  <2>3. given' = given
    BY <2>2, GivenSame
  <2>4. key[f] \notin Fetched
    BY <2>1, <1>2, FetchedCount DEF Fetching, Registered
  <2>5. Fetched' = Fetched \cup {key[f]}
    BY <2>1, <1>1 DEF Fetched, Fetching
  <2>6. Cardinality(Fetched) < FetchSlots
    <3>1. Cardinality(Fetched) \in Nat /\ Cardinality(Fetched) <= slots
      BY FetchedCount
    <3> QED BY <2>1, <3>1, FetchSlotsAssumption
  <2>7. Shared!Cardinality(Fetched) < FetchSlots
    BY <2>6, SharedCardinality
  <2>8. Shared!Begin(key[f])
    BY <1>1, <2>3, <2>4, <2>5, <2>7 DEF Shared!Begin
  <2> QED BY <2>8, <1>1 DEF Shared!Next
<1>4. CASE Returns(f)
  <2> PICK kind \in Cacheable \cup {"uncached"}, keep \in BOOLEAN : FetchReturn(f, kind, keep)
    BY <1>4 DEF Returns
  <2>1. phase[f] = "fetch" /\ f \in Fetching /\ Fetching' = Fetching \ {f}
    BY DEF FetchReturn, Fetching
  <2>2. key[f] \in Fetched /\ Fetched' = Fetched \ {key[f]}
    BY <2>1, <1>1, <1>2 DEF Fetched, Fetching, Registered
  <2>3. FetchGave(f)
    BY FetchMakes
  <2>4. \E new \in Shared!Yields : given' = [given EXCEPT ![key[f]] = @ \cup new]
    <3>1. given' = [given EXCEPT ![key[f]] = @ \cup Made(f)']
      BY <2>3, <1>1, GivenExtends DEF FetchGave
    <3> HIDE DEF given
    <3> QED BY <2>3, <3>1 DEF FetchGave
  <2>5. UNCHANGED <<key, reply>>
    BY <1>1
  <2>6. Shared!End(key[f])
    BY <2>2, <2>4, <2>5 DEF Shared!End
  <2> QED BY <2>6, <1>1 DEF Shared!Next
<1>5. CASE /\ ~AcquireSlot(f)
           /\ ~Returns(f)
  <2>1. Fetching' = Fetching
    BY <1>5 DEF FlightStep, Returns, ProbeHit, ProbeMiss, SlotTimeout, Store, Release,
                PersistLate, Fetching
  <2>2. Fetched' = Fetched /\ given' = given
    BY <1>1, <1>5, <2>1, FlightMakesNothing, SharedSame
  <2> QED BY <1>1, <2>2 DEF Shared!sharedVars
<1> QED BY <1>3, <1>4, <1>5

\* Helpers and time are not seen; a restart ends every fetch.
LEMMA OthersImplement ==
    ASSUME Core, (\E h \in Requests : HelperStep(h)) \/ (\E v \in Verdict : Expire(v)) \/ Restart
    PROVE  [Shared!Next]_(Shared!sharedVars)
<1> USE DEF Core, TypeOK, requestVars, flightVars, helperVars, storeVars
<1>1. UNCHANGED <<key, reply>>
  BY DEF HelperStep, HelperFinish, HelperLook, HelperWake, HelperTimeout, HelperDisk,
         HelperLocal, Expire, Restart
<1>2. \A f \in Requests : SameMade(f)
  BY OthersMakeNothing
<1>3. CASE (\E h \in Requests : HelperStep(h)) \/ (\E v \in Verdict : Expire(v))
  <2>1. Fetching' = Fetching
    BY <1>3 DEF HelperStep, HelperFinish, HelperLook, HelperWake, HelperTimeout, HelperDisk,
                HelperLocal, Expire, Fetching
  <2> QED BY <1>1, <1>2, <2>1, SharedSame DEF Shared!sharedVars
<1>4. CASE Restart
  <2>1. Fetched' = {}
    BY <1>4 DEF Restart, Fetched
  <2>2. [k \in Keys |-> Given(k)]' = [k \in Keys |-> Given(k)]
    BY <1>2, GivenSame
  <2>3. Shared!Stop
    BY <1>1, <2>1, <2>2 DEF Shared!Stop
  <2> QED BY <2>3 DEF Shared!Next
<1> QED BY <1>3, <1>4

\* Nobody has asked, nothing is fetched, nothing was given.
LEMMA InitImplements == Init => Shared!Init
<1> SUFFICES ASSUME Init PROVE Shared!Init
  OBVIOUS
<1>1. Fetched = {}
  BY DEF Init, Fetched
<1>2. \A k \in Keys : Given(k) = {}
  BY NoneAssumption DEF Init, Given
<1> QED BY <1>1, <1>2 DEF Init, Shared!Init

\* ModelCache!ImplementsSharedFetch: through two tiers, the flight map, the slots,
\* late helpers and restarts, a request is told only what a fetch of its own key
\* gave, and the origin sees one fetch of a key and FetchSlots in all.
THEOREM CacheImplements == Spec => ImplementsSharedFetch
<1>1. Init => Unmade /\ Untold /\ Sourced
  BY NoEntryAssumption DEF Init, Unmade, Untold, Sourced, Verdict, Reply
<1>2. Core /\ Provenance /\ Unmade /\ Untold /\ Sourced /\ [Next]_vars
      => [Shared!Next]_(Shared!sharedVars)
  <2> SUFFICES ASSUME Core, Provenance, Unmade, Untold, Sourced, [Next]_vars
               PROVE  [Shared!Next]_(Shared!sharedVars)
    OBVIOUS
  <2>1. CASE UNCHANGED vars
    BY <2>1 DEF vars, requestVars, flightVars, helperVars, Shared!sharedVars, Fetched, Given,
                Made, HelperPost
  <2>2. CASE Next
    BY <2>2, GetImplements, FlightImplements, OthersImplement DEF Next
  <2> QED BY <2>1, <2>2
<1> QED BY <1>1, <1>2, InitImplements, UnmadeStep, UntoldStep, SourcedStep, CoreInvariant,
           ProvenanceInvariant, PTL DEF Spec, ImplementsSharedFetch, Shared!Spec

=============================================================================
