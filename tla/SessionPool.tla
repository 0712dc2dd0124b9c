----------------------------- MODULE SessionPool -----------------------------
(***************************************************************************)
(* The pool of proxy sessions (src/server/proxy.go) and the requests that  *)
(* run on it through fetchOn (src/server/fetch.go).  A session is a stable *)
(* slot; behind it is an HTTP client, that is an exit IP, which a failure  *)
(* replaces.                                                               *)
(*                                                                         *)
(* A client is named by the request whose failure brought it in (Original  *)
(* for the first one); a request runs once.  Round trips are small numbers *)
(* and time is the ticks left of a cooldown.                               *)
(***************************************************************************)
EXTENDS Integers, FiniteSets

CONSTANTS
    Fetches,
    SessionCount,  \* proxySessionCount
    WwwSessions,   \* wwwSessions
    Cooldown,      \* rotateCooldown, in ticks
    Rtts,          \* measured round trips
    Hour,          \* time.Hour: dearer than any measured session
    Original,
    None

ASSUME PoolAssumption ==
    /\ SessionCount \in Nat \ {0}
    /\ WwwSessions \in Nat \ {0}
    /\ Cooldown \in Nat \ {0}
    /\ Rtts \subseteq Nat \ {0}
    /\ Hour \in Nat
    /\ Original \notin Fetches
    /\ None \notin Fetches \cup Rtts \cup {Original}

VARIABLES
    client,    \* s.client
    rtt,       \* s.rttNs, None when s.rttAt is zero
    rttFrom,   \* history: the client the estimate was taken on
    pending,   \* s.pending
    cooling,   \* s.cooldownUntil - now
    pc,        \* where each request is in fetchOn
    ready,     \* the sessions pick has found ready for it
    sess,      \* the session it picked
    ran        \* the client it runs on

sessionVars == <<client, rtt, rttFrom, pending, cooling>>
requestVars == <<pc, ready, sess, ran>>
poolVars == <<sessionVars, requestVars>>

Sessions == 1 .. SessionCount
Ready(s) == cooling[s] = 0

\* The sessions pick considers: www traffic keeps to the first WwwSessions
\* unless none of them is ready.
ReadyFor(w) ==
    LET home == {s \in Sessions : Ready(s) /\ s <= WwwSessions}
    IN  IF w /\ home # {} THEN home ELSE {s \in Sessions : Ready(s)}

\* costLocked: an unmeasured session is free until a request is out on it.
Cost(s) == IF rtt[s] = None THEN Hour * pending[s] ELSE rtt[s] * (pending[s] + 1)

-----------------------------------------------------------------------------
(* Mutants *)

\* j is not moved past i: a session may be compared with itself.
TwoOfAny(S) == {<<i, j>> : i \in S, j \in S}

\* A request that never reached the exit is not taken off.
DoneUnlessObserved(r, s) ==
    pending' = IF ran[r] = client[s] THEN [pending EXCEPT ![s] = @ - 1] ELSE pending

\* done measures whatever client the slot has now.
ObservesAnyClient(r, s) == TRUE

\* fail does not compare clients.
RetiresAnyClient(r, s) == TRUE

-----------------------------------------------------------------------------
(* pick *)

\* Two distinct random indices.
TwoOf(S) == {p \in S \X S : p[1] # p[2]}

\* What pick can choose from the ready sessions.
Choices(S) ==
    IF Cardinality(S) = 1 THEN S
    ELSE {IF Cost(p[2]) < Cost(p[1]) THEN p[2] ELSE p[1] : p \in TwoOf(S)}

\* pick holds the pool's mutex throughout, but each session's only in turn: a
\* session may be rotated between being found ready, being compared and being
\* charged.  (The scan itself is one step.)
PickFree == \A q \in Fetches : pc[q] \notin {"scanned", "chosen"}

Scan(r, w) ==
    /\ pc[r] = "new"
    /\ PickFree
    /\ ReadyFor(w) # {}
    /\ ready' = [ready EXCEPT ![r] = ReadyFor(w)]
    /\ pc' = [pc EXCEPT ![r] = "scanned"]
    /\ UNCHANGED <<sessionVars, sess, ran>>

\* Every session is cooling down, or the caller is already gone.
ScanNone(r) ==
    /\ pc[r] = "new"
    /\ pc' = [pc EXCEPT ![r] = "end"]
    /\ UNCHANGED <<sessionVars, ready, sess, ran>>

\* The two sessions' mutexes are held together here.
Compare(r) ==
    /\ pc[r] = "scanned"
    /\ \E s \in Choices(ready[r]) : sess' = [sess EXCEPT ![r] = s]
    /\ pc' = [pc EXCEPT ![r] = "chosen"]
    /\ UNCHANGED <<sessionVars, ready, ran>>

Charge(r) ==
    /\ pc[r] = "chosen"
    /\ pending' = [pending EXCEPT ![sess[r]] = @ + 1]
    /\ ready' = [ready EXCEPT ![r] = {}]
    /\ pc' = [pc EXCEPT ![r] = "picked"]
    /\ UNCHANGED <<client, rtt, rttFrom, cooling, sess, ran>>

\* getClient: the client of the moment, not of the choice.
Run(r) ==
    /\ pc[r] = "picked"
    /\ ran' = [ran EXCEPT ![r] = client[sess[r]]]
    /\ pc' = [pc EXCEPT ![r] = "running"]
    /\ UNCHANGED <<sessionVars, ready, sess>>

-----------------------------------------------------------------------------
(* done and fail *)

SameClient(r, s) == ran[r] = client[s]
TakeOff(r, s) == pending' = [pending EXCEPT ![s] = IF @ > 0 THEN @ - 1 ELSE 0]

\* The peak-EWMA rule: a slower sample replaces the estimate, a faster one pulls
\* it down.
Estimates(old, sample) ==
    IF old = None \/ sample > old THEN {sample} ELSE {e \in Rtts : sample <= e /\ e <= old}

\* observe: the request succeeded or its exit hung; rotated: the exit is blamed.
Done(r, observe, rotated) ==
    LET s == sess[r] IN
    /\ pc[r] = "running"
    /\ TakeOff(r, s)
    /\ \/ /\ observe /\ SameClient(r, s)
          /\ \E sample \in Rtts, e \in Rtts :
                /\ e \in Estimates(rtt[s], sample)
                /\ rtt' = [rtt EXCEPT ![s] = e]
          /\ rttFrom' = [rttFrom EXCEPT ![s] = ran[r]]
       \/ /\ ~(observe /\ SameClient(r, s))
          /\ UNCHANGED <<rtt, rttFrom>>
    /\ pc' = [pc EXCEPT ![r] = IF rotated THEN "failing" ELSE "end"]
    /\ UNCHANGED <<client, cooling, ready, sess, ran>>

BlamesClient(r, s) == ran[r] = client[s]

Fail(r) ==
    LET s == sess[r] IN
    /\ pc[r] = "failing"
    /\ pc' = [pc EXCEPT ![r] = "end"]
    /\ \/ /\ BlamesClient(r, s)
          /\ client' = [client EXCEPT ![s] = r]
          /\ rtt' = [rtt EXCEPT ![s] = None]
          /\ rttFrom' = [rttFrom EXCEPT ![s] = None]
          /\ cooling' = [cooling EXCEPT ![s] = Cooldown]
       \/ /\ ~BlamesClient(r, s)
          /\ UNCHANGED <<client, rtt, rttFrom, cooling>>
    /\ UNCHANGED <<pending, ready, sess, ran>>

\* Time: cooldowns run down; the estimate of an idle session decays.
PoolTick ==
    /\ \E s \in Sessions : cooling[s] > 0
    /\ cooling' = [s \in Sessions |-> IF cooling[s] > 0 THEN cooling[s] - 1 ELSE 0]
    /\ UNCHANGED <<client, rtt, rttFrom, pending, requestVars>>

Decay(s) ==
    /\ rtt[s] # None
    /\ \E e \in Rtts :
          /\ e < rtt[s]
          /\ rtt' = [rtt EXCEPT ![s] = e]
    /\ UNCHANGED <<client, rttFrom, pending, cooling, requestVars>>

-----------------------------------------------------------------------------
PoolInit ==
    /\ client = [s \in Sessions |-> Original]
    /\ rtt = [s \in Sessions |-> None]
    /\ rttFrom = [s \in Sessions |-> None]
    /\ pending = [s \in Sessions |-> 0]
    /\ cooling = [s \in Sessions |-> 0]
    /\ pc = [r \in Fetches |-> "new"]
    /\ ready = [r \in Fetches |-> {}]
    /\ sess = [r \in Fetches |-> None]
    /\ ran = [r \in Fetches |-> None]

PoolStep(r) ==
    \/ \E w \in BOOLEAN : Scan(r, w)
    \/ ScanNone(r) \/ Compare(r) \/ Charge(r) \/ Run(r)
    \/ \E observe, rotated \in BOOLEAN : Done(r, observe, rotated)
    \/ Fail(r)

PoolNext ==
    \/ \E r \in Fetches : PoolStep(r)
    \/ PoolTick
    \/ \E s \in Sessions : Decay(s)

PoolSpec == PoolInit /\ [][PoolNext]_poolVars

-----------------------------------------------------------------------------
(* Properties *)

PoolTypeOK ==
    /\ client \in [Sessions -> Fetches \cup {Original}]
    /\ rtt \in [Sessions -> Rtts \cup {None}]
    /\ rttFrom \in [Sessions -> Fetches \cup {Original, None}]
    /\ pending \in [Sessions -> Nat]
    /\ cooling \in [Sessions -> 0 .. Cooldown]
    /\ pc \in [Fetches -> {"new", "scanned", "chosen", "picked", "running", "failing", "end"}]
    /\ ready \in [Fetches -> SUBSET Sessions]
    /\ sess \in [Fetches -> Sessions \cup {None}]
    /\ ran \in [Fetches -> Fetches \cup {Original, None}]

\* A session's pending count is the number of requests out on it, through
\* rotations of the client under them: the floor at zero in done never hides an
\* unmatched decrement, and no slot looks busier or freer than it is.
PendingExact ==
    \A s \in Sessions :
        pending[s] = Cardinality({r \in Fetches : pc[r] \in {"picked", "running"} /\ sess[r] = s})

\* "A retired client's rtt says nothing about the current exit IP": an estimate
\* always comes from the client now in the slot.
MeasuredOnOwnClient == \A s \in Sessions : rtt[s] # None => rttFrom[s] = client[s]

\* "A late failure from an already retired client leaves its replacement alone":
\* a client goes only when a request that ran on it failed, so one bad exit
\* costs a slot one rotation however many requests it takes down.
RotatesOnlyItsOwnClient ==
    [][\A s \in Sessions :
          client'[s] # client[s]
          => \E r \in Fetches : pc[r] = "failing" /\ sess[r] = s /\ ran[r] = client[s]]_poolVars

\* Of two or more ready sessions the strictly dearest is never chosen: a hung
\* exit, which piles up pending requests, gets no further one.
DearestNeverChosen ==
    [][\A r \in Fetches :
          pc[r] = "scanned" /\ pc'[r] = "chosen"
          => Cardinality(ready[r]) = 1
             \/ \E t \in ready[r] \ {sess'[r]} : Cost(t) >= Cost(sess'[r])]_poolVars

=============================================================================
