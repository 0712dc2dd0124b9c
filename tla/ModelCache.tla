----------------------------- MODULE ModelCache -----------------------------
(***************************************************************************)
(* The two-tier model cache of src/server/cache.go: a process-local map in *)
(* front of the SQLite table of storage.go, and one detached "flight" per  *)
(* key in front of the origin.                                             *)
(*                                                                         *)
(* The processes are the requests.  A request calls get once; when it      *)
(* finds neither an entry nor a flight it leads a flight, and the flight's *)
(* fetch may leave a background helper running (app.go keepAfterFlight),   *)
(* whose post arrives through putAfterFlight.  Flight and helper are       *)
(* therefore named by the request that started them.                       *)
(*                                                                         *)
(* Abstracted: a stored model is its verdict (who made it and of which     *)
(* kind); time is the set of verdicts whose expiresAt has passed; byte     *)
(* accounting is module LocalStore (here storeLocal may evict any other    *)
(* entry of the same map); a cache without a store is one whose storage    *)
(* calls all fail.                                                         *)
(***************************************************************************)
EXTENDS Naturals, FiniteSets

CONSTANTS
    Requests,    \* the calls of get
    Keys,        \* cache keys
    FetchSlots,  \* capacity of the fetchSlots channel
    None         \* no entry, no flight, nobody

ASSUME FetchSlotsAssumption == FetchSlots \in Nat \ {0}
ASSUME NoneAssumption == None \notin Requests /\ None \notin Keys

VARIABLES
    pc,       \* where each request is in get
    key,      \* the key it asked for
    joined,   \* the flight it waits for
    reply,    \* what get returned to it
    phase,    \* where each flight is in runFlight
    out,      \* the flight's call.value / call.err
    helper,   \* where each background helper is
    follow,   \* the flight putAfterFlight waits for
    before,   \* history: flights begun when putAfterFlight looked
    flight,   \* c.flight
    lock,     \* holder of c.flightMu across steps
    slots,    \* length of the fetchSlots channel
    local,    \* c.entries and c.errEntries
    disk,     \* model_cache rows
    expired   \* verdicts past their expiresAt

requestVars == <<pc, key, joined, reply>>
flightVars == <<phase, out>>
helperVars == <<helper, follow, before>>
storeVars == <<local, disk, expired>>
vars == <<requestVars, flightVars, helperVars, flight, lock, slots, storeVars>>

Cacheable == {"full", "partial", "error"}
Verdict == [by : Requests, src : {"flight", "helper"}, kind : Cacheable]
Uncached(f) == [by |-> f, src |-> "flight", kind |-> "uncached"]
ContextError(r) == [by |-> r, src |-> "flight", kind |-> "ctx"]
Reply == [by : Requests, src : {"flight", "helper"},
          kind : Cacheable \cup {"uncached", "ctx"}]
ASSUME NoEntryAssumption == None \notin Reply
HelperPost(h) == [by |-> h, src |-> "helper", kind |-> "full"]

\* A flight is registered from its creation until release has run.
Registered == {"probe", "slot", "fetch", "store", "release"}
\* call.done is closed.
Released == {"late", "end"}

Fresh(entry) == entry # None /\ entry \notin expired

-----------------------------------------------------------------------------
(* Storage operations *)

\* storeLocal: an entry replaces whatever its key had in either map and may
\* push out others of its own map; a value over the byte limit is not stored
\* and leaves the old entry alone.
StoreLocal(k, v) ==
    \/ /\ v.kind # "error"
       /\ UNCHANGED local
    \/ \E evicted \in SUBSET (Keys \ {k}) :
          /\ \A o \in evicted :
                local[o] # None /\ ((local[o].kind = "error") <=> (v.kind = "error"))
          /\ local' = [o \in Keys |->
                          IF o = k THEN v
                          ELSE IF o \in evicted THEN None ELSE local[o]]

\* localGet drops an entry it finds expired.
LocalMiss(k) ==
    /\ ~Fresh(local[k])
    /\ local' = [local EXCEPT ![k] = None]

\* putModel: refused when already expired; the write may fail or time out.
PersistentPut(k, v) ==
    \/ UNCHANGED disk
    \/ /\ v \notin expired
       /\ disk' = [disk EXCEPT ![k] = v]

-----------------------------------------------------------------------------
(* Mutants: each is one action below with one slip, to show that the properties *)
(* notice it.                                                                  *)

\* get joins whatever flight runs, of any key.
JoinAnyFlight(r) ==
    /\ pc[r] = "lookup"
    /\ lock = None
    /\ \E k \in Keys : flight[k] # None /\ joined' = [joined EXCEPT ![r] = flight[k]]
    /\ pc' = [pc EXCEPT ![r] = "wait"]
    /\ UNCHANGED <<key, reply, flightVars, helperVars, flight, lock, slots, storeVars>>

\* get does not look again under flightMu.
CreateWithoutRecheck(r) ==
    /\ pc[r] = "lookup"
    /\ lock = None
    /\ flight[key[r]] = None
    /\ lock' = r
    /\ pc' = [pc EXCEPT ![r] = "create"]
    /\ UNCHANGED <<key, joined, reply, flightVars, helperVars, flight, slots, storeVars>>

\* get does not look for a running flight.
CreateWithoutLookup(r) ==
    /\ pc[r] = "lookup"
    /\ lock = None
    /\ LocalMiss(key[r])
    /\ lock' = r
    /\ pc' = [pc EXCEPT ![r] = "create"]
    /\ UNCHANGED <<key, joined, reply, flightVars, helperVars, flight, slots, disk, expired>>

\* get returns from the critical section without unlocking.
CreateWithoutUnlock(r) ==
    /\ pc[r] = "create"
    /\ flight' = [flight EXCEPT ![key[r]] = r]
    /\ phase' = [phase EXCEPT ![r] = "probe"]
    /\ joined' = [joined EXCEPT ![r] = r]
    /\ pc' = [pc EXCEPT ![r] = "wait"]
    /\ UNCHANGED <<key, reply, out, helperVars, lock, slots, storeVars>>

\* One fetch too many is admitted.
AcquireOverLimit(f) ==
    /\ phase[f] = "slot"
    /\ slots <= FetchSlots
    /\ slots' = slots + 1
    /\ phase' = [phase EXCEPT ![f] = "fetch"]
    /\ UNCHANGED <<requestVars, out, helperVars, flight, lock, storeVars>>

\* A panicking fetch keeps its slot.
PanicKeepsSlot(f, kind, keep) ==
    /\ phase[f] = "fetch"
    /\ slots' = IF kind = "uncached" THEN slots ELSE slots - 1
    /\ \/ /\ kind \in Cacheable
          /\ out' = [out EXCEPT ![f] = [by |-> f, src |-> "flight", kind |-> kind]]
          /\ phase' = [phase EXCEPT ![f] = "store"]
       \/ /\ kind = "uncached"
          /\ out' = [out EXCEPT ![f] = Uncached(f)]
          /\ phase' = [phase EXCEPT ![f] = "release"]
    /\ keep => kind # "full"
    /\ helper' = [helper EXCEPT ![f] = IF keep THEN "running" ELSE @]
    /\ UNCHANGED <<requestVars, follow, before, flight, lock, storeVars>>

\* persist is not consulted.
PersistsAnyVerdict(f) == out[f].kind \in Cacheable /\ out[f].by = f

\* putAfterFlight does not wait for the flight it found.
LookWithoutWait(h) ==
    /\ helper[h] = "look"
    /\ lock = None
    /\ follow' = [follow EXCEPT ![h] = flight[key[h]]]
    /\ helper' = [helper EXCEPT ![h] = "disk"]
    /\ before' = [before EXCEPT ![h] = {f \in Requests : phase[f] # "none"}]
    /\ UNCHANGED <<requestVars, flightVars, flight, lock, slots, storeVars>>

\* putAfterFlight keeps flightMu.
LookWithoutUnlock(h) ==
    /\ helper[h] = "look"
    /\ lock = None
    /\ lock' = h
    /\ follow' = [follow EXCEPT ![h] = flight[key[h]]]
    /\ helper' = [helper EXCEPT ![h] = IF flight[key[h]] = None THEN "disk" ELSE "wait"]
    /\ before' = [before EXCEPT ![h] = {f \in Requests : phase[f] # "none"}]
    /\ UNCHANGED <<requestVars, flightVars, flight, slots, storeVars>>

-----------------------------------------------------------------------------
(* get *)

AskDone(r, k) ==
    /\ pc[r] = "new"
    /\ key' = [key EXCEPT ![r] = k]
    /\ pc' = [pc EXCEPT ![r] = "done"]
    /\ \/ reply' = [reply EXCEPT ![r] = ContextError(r)]
       \/ Fresh(local[k]) /\ reply' = [reply EXCEPT ![r] = local[k]]
    /\ UNCHANGED <<joined, flightVars, helperVars, flight, lock, slots, storeVars>>

AskMiss(r, k) ==
    /\ pc[r] = "new"
    /\ LocalMiss(k)
    /\ key' = [key EXCEPT ![r] = k]
    /\ pc' = [pc EXCEPT ![r] = "lookup"]
    /\ UNCHANGED <<joined, reply, flightVars, helperVars, flight, lock, slots, disk, expired>>

\* Under flightMu: a running flight is joined.
Join(r) ==
    /\ pc[r] = "lookup"
    /\ lock = None
    /\ flight[key[r]] # None
    /\ joined' = [joined EXCEPT ![r] = flight[key[r]]]
    /\ pc' = [pc EXCEPT ![r] = "wait"]
    /\ UNCHANGED <<key, reply, flightVars, helperVars, flight, lock, slots, storeVars>>

\* Under flightMu, no flight: the entry of a flight that has just ended is
\* used; otherwise flightMu stays held until the new flight is registered.
RecheckHit(r) ==
    /\ pc[r] = "lookup"
    /\ lock = None
    /\ flight[key[r]] = None
    /\ Fresh(local[key[r]])
    /\ reply' = [reply EXCEPT ![r] = local[key[r]]]
    /\ pc' = [pc EXCEPT ![r] = "done"]
    /\ UNCHANGED <<key, joined, flightVars, helperVars, flight, lock, slots, storeVars>>

RecheckMiss(r) ==
    /\ pc[r] = "lookup"
    /\ lock = None
    /\ flight[key[r]] = None
    /\ LocalMiss(key[r])
    /\ lock' = r
    /\ pc' = [pc EXCEPT ![r] = "create"]
    /\ UNCHANGED <<key, joined, reply, flightVars, helperVars, flight, slots, disk, expired>>

Create(r) ==
    /\ pc[r] = "create"
    /\ flight' = [flight EXCEPT ![key[r]] = r]
    /\ phase' = [phase EXCEPT ![r] = "probe"]
    /\ joined' = [joined EXCEPT ![r] = r]
    /\ pc' = [pc EXCEPT ![r] = "wait"]
    /\ lock' = None
    /\ UNCHANGED <<key, reply, out, helperVars, slots, storeVars>>

Receive(r) ==
    /\ pc[r] = "wait"
    /\ phase[joined[r]] \in Released
    /\ reply' = [reply EXCEPT ![r] = out[joined[r]]]
    /\ pc' = [pc EXCEPT ![r] = "done"]
    /\ UNCHANGED <<key, joined, flightVars, helperVars, flight, lock, slots, storeVars>>

\* The caller is cancelled or hits its deadline; its flight goes on.
GiveUp(r) ==
    /\ pc[r] = "wait"
    /\ reply' = [reply EXCEPT ![r] = ContextError(r)]
    /\ pc' = [pc EXCEPT ![r] = "done"]
    /\ UNCHANGED <<key, joined, flightVars, helperVars, flight, lock, slots, storeVars>>

-----------------------------------------------------------------------------
(* runFlight *)

ProbeHit(f) ==
    /\ phase[f] = "probe"
    /\ Fresh(disk[key[f]])
    /\ out' = [out EXCEPT ![f] = disk[key[f]]]
    /\ phase' = [phase EXCEPT ![f] = "store"]
    /\ UNCHANGED <<requestVars, helperVars, flight, lock, slots, storeVars>>

\* No row, an expired one, or a storage error.
ProbeMiss(f) ==
    /\ phase[f] = "probe"
    /\ phase' = [phase EXCEPT ![f] = "slot"]
    /\ UNCHANGED <<requestVars, out, helperVars, flight, lock, slots, storeVars>>

AcquireSlot(f) ==
    /\ phase[f] = "slot"
    /\ slots < FetchSlots
    /\ slots' = slots + 1
    /\ phase' = [phase EXCEPT ![f] = "fetch"]
    /\ UNCHANGED <<requestVars, out, helperVars, flight, lock, storeVars>>

SlotTimeout(f) ==
    /\ phase[f] = "slot"
    /\ out' = [out EXCEPT ![f] = Uncached(f)]
    /\ phase' = [phase EXCEPT ![f] = "release"]
    /\ UNCHANGED <<requestVars, helperVars, flight, lock, slots, storeVars>>

\* fetch returned, panicked or ran out of the flight's time.  A fetch that
\* ends in an error or a partial post may leave its helper running.
FetchReturn(f, kind, keep) ==
    /\ phase[f] = "fetch"
    /\ slots' = slots - 1
    /\ \/ /\ kind \in Cacheable
          /\ out' = [out EXCEPT ![f] = [by |-> f, src |-> "flight", kind |-> kind]]
          /\ phase' = [phase EXCEPT ![f] = "store"]
       \/ /\ kind = "uncached"
          /\ out' = [out EXCEPT ![f] = Uncached(f)]
          /\ phase' = [phase EXCEPT ![f] = "release"]
    /\ keep => kind # "full"
    /\ helper' = [helper EXCEPT ![f] = IF keep THEN "running" ELSE @]
    /\ UNCHANGED <<requestVars, follow, before, flight, lock, storeVars>>

Store(f) ==
    /\ phase[f] = "store"
    /\ StoreLocal(key[f], out[f])
    /\ phase' = [phase EXCEPT ![f] = "release"]
    /\ UNCHANGED <<requestVars, out, helperVars, flight, lock, slots, disk, expired>>

\* Only a full model this flight fetched itself is still written to disk.
Persists(f) == out[f].kind = "full" /\ out[f].by = f /\ out[f].src = "flight"

Release(f) ==
    /\ phase[f] = "release"
    /\ lock = None
    /\ flight' = [flight EXCEPT ![key[f]] = None]
    /\ phase' = [phase EXCEPT ![f] = IF Persists(f) THEN "late" ELSE "end"]
    /\ UNCHANGED <<requestVars, out, helperVars, lock, slots, storeVars>>

PersistLate(f) ==
    /\ phase[f] = "late"
    /\ PersistentPut(key[f], out[f])
    /\ phase' = [phase EXCEPT ![f] = "end"]
    /\ UNCHANGED <<requestVars, out, helperVars, flight, lock, slots, local, expired>>

-----------------------------------------------------------------------------
(* The helper a flight left behind, and putAfterFlight *)

HelperFinish(h, ok) ==
    /\ helper[h] = "running"
    /\ helper' = [helper EXCEPT ![h] = IF ok THEN "look" ELSE "end"]
    /\ UNCHANGED <<requestVars, flightVars, follow, before, flight, lock, slots, storeVars>>

HelperLook(h) ==
    /\ helper[h] = "look"
    /\ lock = None
    /\ follow' = [follow EXCEPT ![h] = flight[key[h]]]
    /\ helper' = [helper EXCEPT ![h] = IF flight[key[h]] = None THEN "disk" ELSE "wait"]
    /\ before' = [before EXCEPT ![h] = {f \in Requests : phase[f] # "none"}]
    /\ UNCHANGED <<requestVars, flightVars, flight, lock, slots, storeVars>>

HelperWake(h) ==
    /\ helper[h] = "wait"
    /\ phase[follow[h]] \in Released
    /\ helper' = [helper EXCEPT ![h] = "disk"]
    /\ UNCHANGED <<requestVars, flightVars, follow, before, flight, lock, slots, storeVars>>

HelperTimeout(h) ==
    /\ helper[h] = "wait"
    /\ helper' = [helper EXCEPT ![h] = "end"]
    /\ UNCHANGED <<requestVars, flightVars, follow, before, flight, lock, slots, storeVars>>

\* put: disk first, then memory.
HelperDisk(h) ==
    /\ helper[h] = "disk"
    /\ PersistentPut(key[h], HelperPost(h))
    /\ helper' = [helper EXCEPT ![h] = "local"]
    /\ UNCHANGED <<requestVars, flightVars, follow, before, flight, lock, slots, local, expired>>

HelperLocal(h) ==
    /\ helper[h] = "local"
    /\ StoreLocal(key[h], HelperPost(h))
    /\ helper' = [helper EXCEPT ![h] = "end"]
    /\ UNCHANGED <<requestVars, flightVars, follow, before, flight, lock, slots, disk, expired>>

-----------------------------------------------------------------------------
(* Environment *)

\* Verdicts something still holds, in a store or on the way to one.
Held ==
    {v \in Verdict :
        \/ \E k \in Keys : v = local[k] \/ v = disk[k]
        \/ \E f \in Requests :
              \/ phase[f] \in {"store", "release", "late"} /\ v = out[f]
              \/ helper[f] \in {"disk", "local"} /\ v = HelperPost(f)}

Expire(v) ==
    /\ v \in Held \ expired
    /\ expired' = expired \cup {v}
    /\ UNCHANGED <<requestVars, flightVars, helperVars, flight, lock, slots, local, disk>>

\* The process stops and another starts on the same database.
Restart ==
    /\ \E r \in Requests : pc[r] # "new"
    /\ pc' = [r \in Requests |-> IF pc[r] \in {"lookup", "create", "wait"} THEN "lost" ELSE pc[r]]
    /\ phase' = [f \in Requests |-> IF phase[f] = "none" THEN "none" ELSE "dead"]
    /\ helper' = [h \in Requests |-> IF helper[h] = "none" THEN "none" ELSE "dead"]
    /\ flight' = [k \in Keys |-> None]
    /\ lock' = None
    /\ slots' = 0
    /\ local' = [k \in Keys |-> None]
    /\ UNCHANGED <<key, joined, reply, out, follow, before, disk, expired>>

-----------------------------------------------------------------------------
Init ==
    /\ pc = [r \in Requests |-> "new"]
    /\ key = [r \in Requests |-> None]
    /\ joined = [r \in Requests |-> None]
    /\ reply = [r \in Requests |-> None]
    /\ phase = [f \in Requests |-> "none"]
    /\ out = [f \in Requests |-> None]
    /\ helper = [h \in Requests |-> "none"]
    /\ follow = [h \in Requests |-> None]
    /\ before = [h \in Requests |-> {}]
    /\ flight = [k \in Keys |-> None]
    /\ lock = None
    /\ slots = 0
    /\ local = [k \in Keys |-> None]
    /\ disk = [k \in Keys |-> None]
    /\ expired = {}

GetStep(r) ==
    \/ \E k \in Keys : AskDone(r, k) \/ AskMiss(r, k)
    \/ Join(r) \/ RecheckHit(r) \/ RecheckMiss(r) \/ Create(r)
    \/ Receive(r) \/ GiveUp(r)

FlightStep(f) ==
    \/ ProbeHit(f) \/ ProbeMiss(f) \/ AcquireSlot(f) \/ SlotTimeout(f)
    \/ \E kind \in Cacheable \cup {"uncached"}, keep \in BOOLEAN : FetchReturn(f, kind, keep)
    \/ Store(f) \/ Release(f) \/ PersistLate(f)

HelperStep(h) ==
    \/ \E ok \in BOOLEAN : HelperFinish(h, ok)
    \/ HelperLook(h) \/ HelperWake(h) \/ HelperTimeout(h)
    \/ HelperDisk(h) \/ HelperLocal(h)

Next ==
    \/ \E r \in Requests : GetStep(r) \/ FlightStep(r) \/ HelperStep(r)
    \/ \E v \in Verdict : Expire(v)
    \/ Restart

Spec == Init /\ [][Next]_vars

(* Scheduled goroutines run, every context of a flight or a helper has a    *)
(* deadline, and fetch returns once its context ends: a flight or a helper *)
(* that can step does step.  A request that called get runs too, but no    *)
(* caller has to give up, nobody has to ask, expire or restart.            *)
FairSpec ==
    /\ Spec
    /\ \A r \in Requests :
          /\ WF_vars(Join(r) \/ RecheckHit(r) \/ RecheckMiss(r) \/ Create(r) \/ Receive(r))
          /\ WF_vars(FlightStep(r))
          /\ WF_vars(HelperStep(r))

-----------------------------------------------------------------------------
(* Properties *)

TypeOK ==
    /\ pc \in [Requests -> {"new", "lookup", "create", "wait", "done", "lost"}]
    /\ key \in [Requests -> Keys \cup {None}]
    /\ joined \in [Requests -> Requests \cup {None}]
    /\ reply \in [Requests -> Reply \cup {None}]
    /\ phase \in [Requests -> Registered \cup Released \cup {"none", "dead"}]
    /\ out \in [Requests -> Reply \cup {None}]
    /\ helper \in [Requests -> {"none", "running", "look", "wait", "disk", "local", "end", "dead"}]
    /\ follow \in [Requests -> Requests \cup {None}]
    /\ before \in [Requests -> SUBSET Requests]
    /\ flight \in [Keys -> Requests \cup {None}]
    /\ lock \in Requests \cup {None}
    /\ slots \in 0 .. FetchSlots
    /\ local \in [Keys -> Verdict \cup {None}]
    /\ disk \in [Keys -> Verdict \cup {None}]
    /\ expired \in SUBSET Verdict

\* Two flights of one key never both stand between the cache and the origin:
\* whoever interleaves in get, the flight map lets only one of them through.
OneFlightPerKey ==
    \A f, g \in Requests :
        /\ phase[f] \in Registered /\ phase[g] \in Registered
        /\ key[f] = key[g]
        => f = g

\* The fetchSlots channel holds one token per running fetch and never more than
\* its capacity: no error, panic or timeout path of runFlight leaks or
\* over-returns a slot.
SlotsExact ==
    /\ slots = Cardinality({f \in Requests : phase[f] = "fetch"})
    /\ slots <= FetchSlots

\* Whatever a reply or an entry passes through (flight, memory, disk, helper), it
\* was made for the key under which it is found, so no request is answered
\* with another key's post.
AnswersOwnKey ==
    /\ \A k \in Keys :
          /\ local[k] # None => key[local[k].by] = k
          /\ disk[k] # None => key[disk[k].by] = k
    /\ \A r \in Requests : reply[r] # None => key[reply[r].by] = key[r]

\* The table never holds an error, a partial post or an outcome that must not
\* be cached: what survives a restart is a full model.
DiskHoldsFullModels == \A k \in Keys : disk[k] # None => disk[k].kind = "full"

\* A flight is never created while its key still has the live verdict of an
\* earlier flight: that flight stored its entry before it left the flight map,
\* and get looks again under flightMu ("A flight that ended since the check
\* above stored its entry first").  Only a helper's put, which takes no
\* flightMu, may slip in.
NoDuplicateFetch ==
    [][\A r \in Requests :
          phase[r] = "none" /\ phase'[r] = "probe"
          => ~Fresh(local[key[r]]) \/ local[key[r]].src = "helper"]_vars

\* "putAfterFlight lets a running lookup of key store its verdict first, so that
\* verdict cannot replace value": in memory, no lookup that had begun when the
\* helper looked ever stores over the helper's post.
VerdictNeverReplacesPut ==
    [][\A f, h \in Requests :
          /\ phase[f] = "store" /\ phase'[f] = "release"
          /\ local[key[f]] = HelperPost(h)
          /\ local' # local
          => f \notin before[h]]_vars

\* runFlight's comment on its late disk write: "putAfterFlight only follows a
\* flight that ended in an error, and errors are never persisted".  Were that
\* so, no flight begun before the helper looked would write its model over the
\* helper's on disk.
LateWriteNeverReplacesPut ==
    [][\A k \in Keys, h \in Requests :
          disk[k] = HelperPost(h) /\ disk'[k] # disk[k]
          => ~(disk'[k].src = "flight" /\ disk'[k].by \in before[h])]_vars

\* What fetches have given for a key: the verdicts its flights fetched themselves
\* and the posts of the helpers they left behind.
Fetched == {key[f] : f \in {g \in Requests : phase[g] = "fetch"}}
Made(f) ==
    {v \in {out[f]} \cap Verdict : v.by = f} \cup {v \in {HelperPost(f)} : helper[f] # "none"}
Given(k) == UNION {Made(f) : f \in {g \in Requests : key[g] = k}}
Shared == INSTANCE SharedFetch WITH
    asked <- key, told <- reply, busy <- Fetched, given <- [k \in Keys |-> Given(k)],
    Outcomes <- Verdict, Failures <- {a \in Reply : a.kind \notin Cacheable},
    Slots <- FetchSlots
\* To its callers and to the origin the cache is one shared fetch of each key:
\* requests that meet in a flight, a map or a row are told what a fetch of their own
\* key gave, whatever was evicted, expired or lost with the process in between.
ImplementsSharedFetch == Shared!Spec

\* A request that entered the cache returns, although its leader, the origin,
\* the slots and the store may all fail or stay silent until a deadline.
EveryGetReturns ==
    \A r \in Requests : pc[r] \in {"lookup", "create", "wait"} ~> pc[r] \in {"done", "lost"}

\* A flight nobody waits for any more still ends and leaves the flight map, so
\* one abandoned request cannot block its key.
EveryFlightEnds ==
    \A r \in Requests : phase[r] = "probe" ~> phase[r] \in {"end", "dead"}

=============================================================================
