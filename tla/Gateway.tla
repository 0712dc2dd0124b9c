------------------------------- MODULE Gateway -------------------------------
(***************************************************************************)
(* Admission at the gateway (src/server/gateway.go): the bounded slots,    *)
(* the hourly limit on unverified bots, the status page behind its lock,   *)
(* the preview's Turnstile check, and the metrics backlog every answer     *)
(* passes.  The home page, the assets and /readyz take no slot and keep no *)
(* state; a request that finds no slot is answered 503 at once and leaves  *)
(* none either.                                                            *)
(*                                                                         *)
(* The clock counts hours.  A minute is known only by what it does to the  *)
(* status report: it goes stale.                                           *)
(***************************************************************************)
EXTENDS Integers, FiniteSets

CONSTANTS
    Clients,      \* handler goroutines
    Slots,        \* maxGatewayInFlight
    Bots,         \* visitor addresses, an IPv6 /64 being one
    HourlyLimit,  \* botHourlyLimit
    MaxKeys,      \* maxBotLimiterKeys
    BacklogSize,  \* capacity of g.metrics
    LastHour,     \* bound on the clock
    NoOne

ASSUME GatewayAssumption ==
    /\ {Slots, HourlyLimit, MaxKeys, BacklogSize, LastHour} \subseteq Nat
    /\ IsFiniteSet(Bots)
    /\ NoOne \notin Clients \cup Bots

VARIABLES
    slots,        \* g.slots: the requests that hold one
    pc,           \* where each request is
    visitor,      \* the bot a request is yet to be counted for, or NoOne
    clock,        \* the clock hour
    read,         \* the hour time.Now gave the request
    limiterHour,  \* g.bots.hour
    counts,       \* g.bots.counts, 0 for an absent key
    statusLock,   \* who holds g.statusMu
    statusFresh,  \* time.Since(g.statusAt) < time.Minute
    backlog,      \* len(g.metrics)
    granted,      \* history: requests granted per hour read and per bot
    stragglers    \* history: allow calls that came with an hour already left

limiterVars == <<limiterHour, counts, granted, stragglers>>
statusVars == <<statusLock, statusFresh>>
gatewayVars == <<slots, pc, visitor, clock, read, limiterVars, statusVars, backlog>>

Places == {"away", "routed", "clocked", "limited", "embed", "verifying",
           "rendering", "recording", "status", "querying", "leaving"}
Hours == 0 .. LastHour
Keys == {b \in Bots : counts[b] > 0}

GatewayTypeOK ==
    /\ slots \subseteq Clients /\ Cardinality(slots) <= Slots
    /\ pc \in [Clients -> Places]
    /\ visitor \in [Clients -> Bots \cup {NoOne}]
    /\ clock \in Hours /\ limiterHour \in Hours /\ read \in [Clients -> Hours]
    /\ counts \in [Bots -> 0 .. HourlyLimit] /\ Cardinality(Keys) <= MaxKeys
    /\ statusLock \in Clients \cup {NoOne} /\ statusFresh \in BOOLEAN
    /\ backlog \in 0 .. BacklogSize
    /\ granted \in [Hours -> [Bots -> Nat]] /\ stragglers \in Nat

GatewayInit ==
    /\ slots = {} /\ pc = [r \in Clients |-> "away"]
    /\ visitor = [r \in Clients |-> NoOne]
    /\ clock = 0 /\ read = [r \in Clients |-> 0]
    /\ limiterHour = 0 /\ counts = [b \in Bots |-> 0]
    /\ statusLock = NoOne /\ statusFresh = FALSE
    /\ backlog = 0
    /\ granted = [h \in Hours |-> [b \in Bots |-> 0]] /\ stragglers = 0

Goes(r, from, to) == pc[r] = from /\ pc' = [pc EXCEPT ![r] = to]

-----------------------------------------------------------------------------
(* Mutants *)

\* A check of the report that does not wait for the query under way.
LockStatusAtOnce(r) ==
    /\ Goes(r, "status", IF statusFresh THEN "leaving" ELSE "querying")
    /\ statusLock' = IF statusFresh THEN statusLock ELSE r
    /\ UNCHANGED <<slots, visitor, clock, read, limiterVars, statusFresh, backlog>>

\* n > botHourlyLimit.
MayPassOneMore(b, c) ==
    c[b] <= HourlyLimit /\ (c[b] > 0 \/ Cardinality({k \in Bots : c[k] > 0}) < MaxKeys)

\* Visitors past the map's bound are let in.
MayPassAnyKey(b, c) == c[b] < HourlyLimit

\* The answer waits for room in the backlog.
SendWhenRoom == backlog < BacklogSize /\ backlog' = backlog + 1

-----------------------------------------------------------------------------
(* ServeHTTP *)

\* A slot, or 503; then the preview, the status page, or a page or link.
Arrive(r) ==
    /\ Cardinality(slots) < Slots
    /\ \E place \in {"routed", "embed", "status"} : Goes(r, "away", place)
    /\ slots' = slots \cup {r}
    /\ \E b \in Bots \cup {NoOne} :
          /\ b # NoOne => pc'[r] = "routed"
          /\ visitor' = [visitor EXCEPT ![r] = b]
    /\ UNCHANGED <<clock, read, limiterVars, statusVars, backlog>>

\* Wrong method, unknown route, a human's redirect; past the limit, a link
\* that does not verify.
Refuse(r) ==
    /\ pc[r] \in {"routed", "limited"}
    /\ pc' = [pc EXCEPT ![r] = "leaving"]
    /\ visitor' = [visitor EXCEPT ![r] = NoOne]
    /\ UNCHANGED <<slots, clock, read, limiterVars, statusVars, backlog>>

\* time.Now, before allow takes the limiter's lock.
ReadClock(r) ==
    /\ visitor[r] # NoOne
    /\ Goes(r, "routed", "clocked")
    /\ read' = [read EXCEPT ![r] = clock]
    /\ UNCHANGED <<slots, visitor, clock, limiterVars, statusVars, backlog>>

MayPass(b, c) ==
    c[b] < HourlyLimit /\ (c[b] > 0 \/ Cardinality({k \in Bots : c[k] > 0}) < MaxKeys)

\* botLimiter.allow: another hour than the limiter's starts the counts anew,
\* an earlier one too.
Allow(r) ==
    LET b == visitor[r]
        h == read[r]
        c == IF h = limiterHour THEN counts ELSE [k \in Bots |-> 0]
        ok == MayPass(b, c)
    IN  /\ Goes(r, "clocked", IF ok THEN "limited" ELSE "leaving")
        /\ limiterHour' = h
        /\ counts' = IF ok THEN [c EXCEPT ![b] = @ + 1] ELSE c
        /\ granted' = IF ok THEN [granted EXCEPT ![h][b] = @ + 1] ELSE granted
        /\ stragglers' = IF h < limiterHour THEN stragglers + 1 ELSE stragglers
        /\ visitor' = [visitor EXCEPT ![r] = NoOne] /\ read' = [read EXCEPT ![r] = 0]
        /\ UNCHANGED <<slots, clock, statusVars, backlog>>

\* Past the checks the route's handler runs.
Render(r) ==
    /\ (pc[r] = "routed" /\ visitor[r] = NoOne) \/ pc[r] = "limited"
    /\ pc' = [pc EXCEPT ![r] = "rendering"]
    /\ UNCHANGED <<slots, visitor, clock, read, limiterVars, statusVars, backlog>>

\* serveEmbed: a bad request, a path that is no preview or a visitor without
\* clearance is refused; without a token the preview is rendered at once.
CheckPreview(r) ==
    /\ \E place \in {"leaving", "verifying", "rendering"} : Goes(r, "embed", place)
    /\ UNCHANGED <<slots, visitor, clock, read, limiterVars, statusVars, backlog>>

\* verifyTurnstile: siteverify's answer, or the end of its ten seconds.
VerifyTurnstile(r) ==
    /\ \E place \in {"leaving", "rendering"} : Goes(r, "verifying", place)
    /\ UNCHANGED <<slots, visitor, clock, read, limiterVars, statusVars, backlog>>

\* The handler answers within requestTimeout.  Cache hits and routes without
\* a category leave no sample.
Answer(r) ==
    /\ \E place \in {"recording", "leaving"} : Goes(r, "rendering", place)
    /\ UNCHANGED <<slots, visitor, clock, read, limiterVars, statusVars, backlog>>

\* recordMetric: a full backlog drops the sample.
Send == backlog' = IF backlog < BacklogSize THEN backlog + 1 ELSE backlog

RecordMetric(r) ==
    /\ Goes(r, "recording", "leaving") /\ Send
    /\ UNCHANGED <<slots, visitor, clock, read, limiterVars, statusVars>>

\* The deferred release.
Leave(r) ==
    /\ Goes(r, "leaving", "away")
    /\ slots' = slots \ {r}
    /\ UNCHANGED <<visitor, clock, read, limiterVars, statusVars, backlog>>

-----------------------------------------------------------------------------
(* serveStatus *)

\* g.statusMu.Lock, and the age of the report under it.
LockStatus(r) ==
    /\ statusLock = NoOne
    /\ Goes(r, "status", IF statusFresh THEN "leaving" ELSE "querying")
    /\ statusLock' = IF statusFresh THEN NoOne ELSE r
    /\ UNCHANGED <<slots, visitor, clock, read, limiterVars, statusFresh, backlog>>

Report(r) ==
    /\ Goes(r, "querying", "leaving")
    /\ statusLock' = NoOne /\ statusFresh' = TRUE
    /\ UNCHANGED <<slots, visitor, clock, read, limiterVars, backlog>>

\* The query fails or meets its one-second timeout: 503, and nothing is kept.
StatusFail(r) ==
    /\ Goes(r, "querying", "leaving")
    /\ statusLock' = NoOne
    /\ UNCHANGED <<slots, visitor, clock, read, limiterVars, statusFresh, backlog>>

-----------------------------------------------------------------------------
\* writeMetrics, as fast or as slow as SQLite.
WriteMetric ==
    /\ backlog > 0 /\ backlog' = backlog - 1
    /\ UNCHANGED <<slots, pc, visitor, clock, read, limiterVars, statusVars>>

MinutePasses ==
    /\ statusFresh /\ statusFresh' = FALSE
    /\ UNCHANGED <<slots, pc, visitor, clock, read, limiterVars, statusLock, backlog>>

HourTurns ==
    /\ clock < LastHour /\ clock' = clock + 1
    /\ UNCHANGED <<slots, pc, visitor, read, limiterVars, statusVars, backlog>>

Proceeds(r) ==
    \/ ReadClock(r) \/ Allow(r) \/ CheckPreview(r) \/ VerifyTurnstile(r) \/ Render(r)
    \/ Answer(r) \/ RecordMetric(r) \/ Leave(r)
Queries(r) == Report(r) \/ StatusFail(r)

GatewayNext ==
    \/ \E r \in Clients : Arrive(r) \/ Refuse(r) \/ Proceeds(r) \/ LockStatus(r) \/ Queries(r)
    \/ WriteMetric \/ MinutePasses \/ HourTurns

GatewaySpec == GatewayInit /\ [][GatewayNext]_gatewayVars

-----------------------------------------------------------------------------
(* Properties *)

\* A visitor is granted the limit once per hour, and once more for every call
\* that came to the limiter with an hour it had already left: such a call
\* resets the counts twice, back to its hour and forth again (allow compares
\* hours with #, and the hour is read before the lock is taken).
BotCapKept ==
    \A h \in Hours, b \in Bots : granted[h][b] <= HourlyLimit * (1 + stragglers)

\* Concurrent misses of the status page share one query: whoever runs one
\* holds the lock alone, and no report has become fresh meanwhile (serveStatus,
\* "Holding the lock during the scan merges concurrent misses into one query").
QueriesMerged ==
    \A r \in Clients : pc[r] = "querying" => statusLock = r /\ ~ statusFresh

\* Every admitted request ends and gives its slot back, however slowly the
\* metrics are written and however the status queries of others end.
RequestsEnd == \A r \in Clients : (r \in slots) ~> (r \notin slots)
=============================================================================
