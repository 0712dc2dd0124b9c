# A TLA+ development of OGInstagram

OGInstagram is a Go gateway that turns Instagram links into Open Graph pages. A
crawler gives it a few seconds; Instagram answers slowly, differently by egress,
and refuses often. What is hard in this program is therefore not the parsing but
the coordination: one detached fetch per link shared by every caller, caches in
two tiers, a race between sources that may be gated, rate-limited or silent,
helpers that outlive the request that started them, and two processes on one
SQLite file during a deployment. These modules are about that coordination.

Paths below are relative to the repository (`src/`), line numbers are those of
the commit modelled. `PROJECT.json` maps every definition to its lines.

## 1. The system

| Component | State it keeps | Operations | Talks to | What makes it correct |
|---|---|---|---|---|
| Model cache, `server/cache.go` | flight map under `flightMu`; entries under `mu`; the `fetchSlots` channel | `get`, `runFlight`, `put`, `putAfterFlight` | storage (rows), `fetch` of the lookups, detached helpers | one flight per key; slots balance; an answer belongs to its key; only full models persist; a late verdict does not undo a newer post |
| In-memory store, `server/cache.go` | `entries`, `errEntries`, their FIFO orders, `usedBytes` | `storeLocal`, `localGet`, `removeLocalLocked` | the cache above it | exact bytes, orders in step with maps, oldest first, one verdict per key |
| IPv6 gate, `server/fetch.go` | per operation: outcome ring, failure count, `until`, `pause`, `probeAt` | `allow`, `release`, `ok`, `fail` | `fetchViaProxy` | exact window, one probe at a time, stragglers do not lengthen a pause, no pause for ever |
| Session pool, `server/proxy.go` | per session: client, RTT estimate, `pending`, `cooldownUntil` | `pick`, `getClient`, `done`, `fail` | `fetchOn` | exact load, measurements and blame stay with their client |
| Post lookup, `server/app.go`, `server/fetch.go` | per lookup: the race, the hidden flag, `hiddenPost`'s loop, the helper call; shared: `ogPosts`, `gateNotices`, `helperSlots` | `getPost`, `fetchPost`, `stagedFetch`, `hiddenPost`, `keepAfterFlight`, `publishGate` | cache, gate, pool, external helper | counts exactly, ends, returns its slot, keeps a gate notice or partial card for an hour only after the helper tried |
| Metrics store, `server/storage.go` | `pending` totals per bucket, `bucket`; the table `metric_buckets` | `RecordMetric`, `flushMetrics`, `Status`, `Close` | the other process through the table | nothing counted twice, nothing lost by a failed flush |
| Model table, `server/storage.go` | `model_cache` rows, a sweep, a page limit | `getModel`, `putModel`, `openLocalStore` | cache | a row is whole, current and of its key |
| Gateway, `server/gateway.go` | request slots, bot counters per clock hour, metric channel, `statusMu` | `ServeHTTP`, `botLimiter.allow`, `serveEmbed`, `verifyTurnstile`, `recordMetric`, `writeMetrics`, `serveStatus` | every handler, metrics | slots come back, a limit holds over the hour's turn, misses of the status page share one query, the edge keeps nothing that may be replaced or has expired |
| Handlers, `server/main.go`, `routes.go`, `query.go` | none of their own | route, parse, render; `handleOffload` | lookups, offload links | what is provisional is marked so, and a partial card is not preferred to the full post |
| Stories, `server/story.go` | the side door's ring and counters | `getStory`, the side door | `stagedFetch`, helper | the door judges by exactly the latest answers |
| Profiles, `server/profile.go` | none | one staged fetch | cache | that of the cache |
| Offload links, `server/offload_signer.go`, `media.go`, `helpers.go` | none | sign, verify, compute lifetimes | gateway | link, model and edge lifetimes are nested |
| Deployment, `tools/deploy.sh`, `nginx/nginx.conf` | the upstream file, two slots, the script's variables | start, switch, reload or recreate, restore, stop, drain | both processes | nginx sends requests only to a slot that serves, whichever step fails; work in hand ends before its process does |
| Web preview, `web/src/preview.tsx` | attempt, pending link, widget and abort state | submit, abort, challenge, verify | preview endpoint | one call's cleanup never touches another attempt's verification; the form is never locked for good |
| IPv6 egress process, `server/egress.go` | none | CONNECT relay | fetches | pure I/O |
| Parsers and pages, `server/igembed.go`, `parse.go`, `embed.go`, ... | none | text to model, model to HTML | lookups, handlers | functional, no coordination |

**How they interact.** A request is admitted by the gateway, routed, and calls
`get` of one of three caches. A miss joins the key's flight or starts one, which
probes the disk, takes one of the shared fetch slots and runs a lookup under its
own deadline (`cacheSharedWorkTimeout`), not the caller's. The lookup races its
sources in stages (`stagedFetch`); each request of a source goes through the
IPv6 gate and, on DC, through a session of the pool. A hidden post
(GraphQL's 1675030) continues in `hiddenPost`, whose helper call may be kept
running after the flight and then reports through `putAfterFlight`. Samples of
outcomes go through a channel to one goroutine per process, which counts them
into time buckets that both the blue and the green process upsert into SQLite.
Between the crawler and the gateway stand Cloudflare, which keeps what the edge
headers allow, and nginx, whose upstream file `deploy.sh` rewrites.

**Hard behaviours.** Two locks around one decision (`cache.go:81-107`); a
release in the middle of a function with a deferred second one (`cache.go:122`);
work that outlives its request, and work that outlives that work; select loops
whose channels become ready in any order; counters kept beside the data they
summarise; identities that change under a request (a session's client); a clock
read before a lock; totals rewritten after a commit of unknown outcome; an answer
kept at the edge after the thing it answers has changed; a deployment that fails
or is interrupted at any step and is run again; browser callbacks that outlive
the attempt they belong to; restarts between any two of these. `PROJECT.json` lists them as hazards, each with its
line and the properties aimed at it.

## 2. Modules

| Module | Models | State and actions |
|---|---|---|
| `ModelCache` | `get`, `runFlight`, `put`, `putAfterFlight` | a request's `pc`, a flight's `phase`, a helper's place; `flight`, `lock` (held across two steps by `get`), `slots`, `local`, `disk`. One action for each stretch between two points where another goroutine can be seen: `AskMiss` (first look), `Join`/`RecheckHit`/`RecheckMiss`/`Create` (under `flightMu`), `ProbeHit` .. `PersistLate` (flight), `HelperLook` .. `HelperLocal` (put). `Restart` empties memory and keeps the rows. Implements `SharedFetch` |
| `SharedFetch` | the promise of a cache in front of the origin | requests ask once and are told once, what a fetch of their key gave or that there was none; one fetch of a key at a time, `Slots` in all. It knows no map, row, lock or helper |
| `EntryMap` | the promise of an in-memory cache | a map that may forget but never returns anything except what was stored last |
| `LocalStore` | the in-memory store, byte by byte | one action per method, atomic under `c.mu`; implements `EntryMap` |
| `V6Gate` | `v6Gate` and the branches of `fetchViaProxy` that report to it | the gate's fields as durations; one action per method call with the request's move; `Tick` |
| `SessionPool` | `pick`, `getClient`, `done`, `fail` | `pick` in three steps, because the pool's mutex is held throughout but each session's only in turn; a client is named by the failure that brought it in |
| `Egress` | the two ways out of `fetchViaProxy` | `way`, the one that moves: they share no variable and are put together as the parts of `Serving` are (below) |
| `PostLookup` | `fetchPost`, `stagedFetch`, `hiddenPost`, `postHelper`, `keepAfterFlight`, the publication of its verdict | one action per select case; the answers of Instagram are classes |
| `MetricBuckets` | the metrics store of two processes | the clock read and the locked section are two actions; a transaction fails, commits, or commits and reports an error |
| `Gateway` | `ServeHTTP`'s slots and refusals, `botLimiter.allow`, `serveEmbed` and `verifyTurnstile`, `serveStatus`, `recordMetric`, `writeMetrics` | a request's `pc`; `slots`, the limiter's hour and counts, `statusLock` and the age of the report, the `backlog`. `ReadClock` and `Allow` are two actions, as the hour is read before the limiter's lock is taken; so are `LockStatus` and the query under it |
| `EdgeCopy` | the edge headers and lifetimes of `gateway.go` and `helpers.go`, the responses of the card, offload and direct routes, `authorize`, the two looks of `handleOffload` | one public URL, the caches behind it, the copy the edge holds and what it was made from. `Ask`, `LookAtCard`, `LookAtPosts`, `Get`, `Respond` are the request; a flight, a restart, another key and time interleave with them |
| `StoryDoor` | `storySideDoor.closed`, `parseGraphQLStory`'s and `getStory`'s verdicts | the ring with its three counters; one action per lookup |
| `Deployment` | `deploy.sh`, nginx's routes, the drain in `serveHTTP` | the upstream file, the slots nginx routes to, each slot's container and remaining work, the script's own variables. One action per step of the script, each with its failures; `Interrupt` kills it anywhere, `ProxyRestarts` and time go on |
| `PreviewPage` | `submitLink`, `runPreview`, `verify` and the widget's callbacks, `cancelPreviewWork`, `failVerification` | React's refs and state, the calls under way and the widget; one action per event |
| `Serving` | the five above, side by side | `part`, the one that moves (below) |
| `ModelCacheProofs`, `LocalStoreProofs`, `V6GateProofs`, `SessionPoolProofs`, `PostLookupProofs`, `MetricBucketsProofs`, `GatewayProofs` (`Gateway` and `EdgeCopy`), `ServingProofs` (`StoryDoor`, `Deployment`, `PreviewPage` and the composition) | | theorems, section 5 |
| `MC*` | | symmetry sets and constraints for TLC |

`PostLookup` is the detail of `ModelCache`'s `FetchReturn` and of its helper:
`ModelCache` shows that the flights of one key never overlap, `PostLookup`
assumes exactly that of the lookups of one shortcode (`Begin` requires that none
is active and memory holds nothing) and looks inside them. `LocalStore` is the
detail of `StoreLocal` and `LocalMiss` in `ModelCache`, which may evict any entry
of the same map. `V6Gate` and `SessionPool` are two layers of one source's
request, an answer class in `PostLookup`. The modules are joined by these
interfaces and not by one product: the product would have millions of states for
each question and no property that spans more than two neighbours.

`Serving` puts together the parts around the lookups. They share no variable: the
gateway's admission does not read what the edge keeps, the page not what the
script does. A behaviour of all of them is an interleaving of one of each, so an
invariant or a liveness property of one part holds of the whole exactly when it
holds while that part alone moves. `Serving` therefore chooses the `part` that
moves in its initial state and lets the others stand still: one run checks all
parts over the sum of their state spaces instead of the product. What crosses a
boundary enters as a choice: to `Gateway` a handler is a step that answers, to
`EdgeCopy` a flight is a step that ends in any of the models it may return, to
`Deployment` a flight is the time it has left, to `PreviewPage` the gateway is
an answer, a challenge or an error.

**What is abstracted.** A stored model is who made it and of which kind. An
expiry is a step that may come at any time to anything still held. A cache
without storage is one whose storage calls fail. An exit IP is a name. A
histogram is its number of samples. The bodies of requests and of models never
appear. Each module's head comment says so for that module.

## 3. Runs

| Run | What it asks | Bounds and why they suffice |
|---|---|---|
| `cache_safety` | all safety of the cache under helpers, expiry, restarts, and the refinement of `SharedFetch` | 2 requests, 2 keys, 1 slot: two leaders of one key, a leader and a joiner, a helper behind a later flight of its key, contention for the slot, and confusion between keys all need two of each; the proofs of section 5 remove the bound |
| `cache_live` | every `get` returns, every flight ends | 2 requests, 1 key, 1 slot. `NoExpiryNoRestart` leaves out two environment steps: a restart ends all obligations and an expiry only disables `ProbeHit` and hits, which are never the only way on |
| `late_disk_write` | the comment at `cache.go:185-186` | **violated**, section 6 |
| `local_store` | accounting, orders, eviction, refinement of `EntryMap` | 4 keys, value sizes 1, 2, 3 and 5 against 4 bytes, 3 values, 2 errors: each cap binds before the others in some state, one size exceeds the whole cache, and one store may evict several |
| `egress` | the gate: window, single probe, back-off, recovery; the pool: load count, measurement and blame by client | the gate: 3 requests; window 4, strikes 3, pause 2 to 5, attempt 1, probe window 2: the ring wraps, the pause reaches and hits its ceiling, stragglers, a probe and an idle request coexist. The source's 1.5 s < 3 s < 2 min is kept as an order (`TimingAssumption`). The pool: 3 requests, 3 sessions, 2 of them for www: three requests on one exit, two failing late, a pick between |
| `post_lookup` | the select loop, slots, hour-long gates and cards, notices | 2 lookups of one shortcode, 1 helper slot: the first one's helper meets the second's flight, and slots run out |
| `post_lookup_live` | a lookup ends, slots come back | 1 lookup, 1 slot, nothing ever has to answer |
| `gone_post` | the test at `request_pipeline_test.go:144` | **violated**, section 6 |
| `metrics` | counted once, lost never | 2 processes, 3 buckets, 2 samples each, retention 2: rows of both, a reopened bucket, a failed flush across a boundary, a sweep, a crash |
| `serving` | the parts around the lookups, below | the bounds of each part, below |
| `metric_totals` | the comment at `storage.go:229-230` | **violated**, section 6 |
| `failed_recreate` | the comment at `deploy.sh:29`, of a deployment that nobody interrupts | **violated**, section 6 |

The run `serving`, part by part:

* *Gateway*: 3 requests for 2 slots, 2 visitors for 1 key of the limiter, limit
  1, a backlog of 1, one turn of the hour. Two requests hold the slots while a
  third is refused; a visitor is refused by the limit or by the full map; a
  request reads the clock before the turn and comes to the limiter after another
  has moved it on, so that the counts are reset twice and the third request
  profits; two miss the status page together.
  `ServingTypeOK` carries the caps (slots, keys, backlog), `BotCapKept` the
  limit over the turn of the hour, `QueriesMerged` the shared query and
  `RequestsEnd` that every slot comes back.
* *EdgeCopy*: Minute 1, Partial 2, Margin 2, Hour 3, Day 4, Capability 5, in the
  order of the source's durations, CDN URLs that expire at 4 or never, time up to
  5. Links of every route are followed, genuine or not, minted at any hour, under
  a key the process has or not. `EdgeKeepsNothingProvisional`: what stays longer
  than the minute is a full answer, or a refusal nothing can make wrong.
  `EdgeOutlivesNothing`: it ends before the capability, the CDN URL and the links
  it carries.
* *StoryDoor*: a ring of 5 and a limit of 40 %, so that the share of hidden
  answers meets its limit exactly (2 of 5), half a ring is a rounded 2, and the
  ring wraps. `DoorJudgesWindow` compares counters and verdict with a history of
  the latest answers.
* *Deployment*: Settle 1, Preview 2, Flight 2, Sleep 3, Shutdown 3, any number of
  runs. `DrainSparesRequests` survives every failing step, a script killed
  anywhere and run again, and a proxy that restarts; so does
  `ServingSlotHealthy`, except where a run begins from a file that does not name
  the slot nginx is on. The history variable `apart` says how that came about
  ("left": an earlier run ended so; "misled": a run has begun from it), and no
  other state is excepted.
* *PreviewPage*: 4 submitted links, so that an aborted call, a verification, the
  call with its token and a further link exist together. `OldCleanupHarmless`
  and `VerificationUnlocks`.

In `ModelCache`, `SessionPool`, `PostLookup` and `MetricBuckets` a request, lookup
or sample happens once, in `Serving` the ends are the bounds on submitted links
and on time. When all of them are finished nothing is left to do, so
these configurations turn deadlock detection off. `local_store`
checks for deadlock: a store never stops serving.

Each module has one type invariant, a run's or a conjunct of one of its
properties (that of `LocalStore` is part of `OrderIsEntries`, its caps of
`BytesExact`); all of them are theorems (section 5).

**Bounds by name.** `Requests`, `Fetches`, `Keys`, `Lookups`, `Sessions`, `Instances` are
small sets; `LastBucket` and `MaxSamples` stop time and sampling in
`MetricBuckets`; `Cooldown`, `PauseMax`, `AttemptMax` and `ProbeWindow` are
ticks in the order of the source's durations; `Hour` is dearer than any
measured session with any load reached, as in the source. `LastHour`, `MaxTime`
and `MaxSubmits` stop the hour, the edge's clock and the forms in `Serving`;
`Never` stands for the expiry of a URL without one.

## 4. Fairness

* `ModelCache`: weak fairness of the steps of a request inside `get` except
  giving up, of each flight and of each helper. Goroutines that can run do run.
  A flight's fetch has the flight's deadline and a helper has
  `helperDetachedTimeout`, so "returns" is always enabled and eventually taken;
  a slot that never comes ends in `SlotTimeout`. No caller is assumed to be
  cancelled: waiters are released by the flight alone.
* `V6Gate` (in `Egress`): time passes and attempts end, as their context does
  (weak fairness). Requests keep coming: `EgressPercent` draws each for IPv6 with the same
  chance, so one is some day drawn while the gate would admit it, which is
  strong fairness of `Attempt`. Nothing is assumed about answers.
* `PostLookup`: the deadline comes, the loops notice it, `h.run` returns by its
  own deadline, detached goroutines run. No source, oEmbed request or follow-up
  is assumed to answer.
* `Gateway` (in `Serving`): every wait of an admitted request has a timeout
  (`requestTimeout`, siteverify's ten seconds, the status query's one), so its
  steps are weakly fair. `statusMu` is a `sync.Mutex`, which hands itself to
  whoever has waited for a millisecond: strong fairness of `LockStatus`. The
  metrics writer owes nothing, which is the point of the backlog that drops.
* `PreviewPage` (in `Serving`): the gateway answers within its write deadline, the
  script's load has a timeout of its own, and an executed widget calls back with
  a token, an error or its own timeout. That a solved token expires is not
  counted on, nor that anybody submits a link.
* The other parts have safety properties only and no fairness.

## 5. What is proved

Every safety property of the passing runs, invariant, action property or
refinement, is a theorem. The proofs hold for every number of requests, keys,
lookups, slots, sessions, processes and buckets, and every size, cap, duration
and gate geometry that satisfies the named assumptions. They are checked by the
TLA+ proof system.

**The cache** (`ModelCacheProofs`). `OneFlightPerKey` is
not inductive: that two flights of a key never coexist depends on the flight map
and on who holds `flightMu`. The inductive invariant `Core` adds what each
request has begun (`Begun`), that the map and the phases name the same flights
(`FlightIndex`: `flight[key[f]] = f` for every registered `f`), that the lock is
held across steps exactly by the request about to create a flight, whose key has
none (`LockHeld`), that a flight that stores has a verdict (`OutSet`), and that
the slots are the fetching flights, a finite set (`SlotCount`). From
`CoreInvariant`:

* `SingleFlight`, `SlotsNeverLeak`, `TypeCorrect`: the invariants of
  `cache_safety` of those names;
* `NeverFetchesTwice`: `NoDuplicateFetch` as an action property, with the
  invariant `Unserved` (a request at "create" has no live entry for its key,
  except one a helper put there meanwhile);
* `OwnKeyAnswered`, `DiskFull`: `Provenance` says that every verdict in an
  entry, a row, a flight's outcome or a reply was made by a request of the key
  under which it stands. A request's key never changes once set (`KeyStable`),
  and every step that moves a verdict moves it within one key. `FullOnDisk` adds
  that a flight about to write late holds a full model;
* `LateVerdictYields`: `VerdictNeverReplacesPut`. The strengthening says that
  once a helper's post is being put or is shown anywhere, the lookups of its key
  that had begun when it looked are no longer registered (`PutSettled`), and
  that before the put nobody has seen the post (`PutOrder`);
* `CacheImplements`: `ImplementsSharedFetch`. A fetch under way is a flight in
  phase "fetch"; what a key was given is what its flights fetched themselves,
  and the posts of the helpers they left (`Made`, `Given`). Neither is a history
  variable: `out` and the place of a helper outlive the flight and a restart, so
  what was given is never taken back (`GivenGrows`). The invariant added is
  `Sourced`, that no entry, row or outcome comes from anywhere else. With
  `Unmade` (a flight has made nothing before its fetch returns) a hit of `probe`
  makes nothing new, and with `Untold` a request is told once. Of the steps of
  `get` the outside sees `Ask` and `Tell`, of a flight's `Begin` and `End`, of a
  restart `Stop`; all others stutter (`GetImplements`, `FlightImplements`,
  `OthersImplement`). That `Begin` keeps within the slots is `SlotCount` and
  that keys are no more than the flights that fetch them (`FetchedCount`).

**The in-memory store** (`LocalStoreProofs`), from `BoundsAssumption` and
`NoneAssumption`. The invariant `StoreInv` is `BytesExact` and `OrderIsEntries`
together (`InvIsBoth`), in terms a step can be followed in: each order is a
sequence without repetition of the keys of its map (`Listed`), and `usedBytes` is
the `Weight` of the values. Three layers of lemmas carry it.

* *Sums.* `SumFunctionOnSet` is a choice among functions on the subsets of a set.
  `NaturalsCovered` and `SubsetsCovered` derive the two inductions it takes from
  the library's well-founded minimum, for a set in place of an operator; with
  them `IterationExists` shows that the sum is one, `SumTakes` that any element
  may be taken first, `SumSplits` that a part may.
* *Orders.* `WithoutKeeps`, `AppendKeeps` and `FirstAndRest` say what removal, a
  new key at the end and a cut at the front leave of a sequence without
  repetition, its length, its elements and what comes before what.
* *The bytes.* `WeightWithout` and `WeightPut` follow one entry; `DroppedIsSum`
  says that what the eviction loop discounts from the front is the weight of the
  first n keys.

`ValueStored` is `storeLocal`: the loop ends before it reaches the key just
stored, because a size of at most `MaxBytes` alone is within every limit, and what
it drops is a front of the order. From `StoreInvariant`: `BytesAreExact`,
`OrdersAgree`, `OldestIsFirst` (nothing but a stored value both stores and drops)
and `Implements`: `storeLocal` is a `Put` that forgets what was evicted, a lookup
that finds its entry expired a `Forget`, the rest stutters; that no key is in both
maps is what makes it immaterial which map is read first (`EitherFirst`).

**The gate** (`V6GateProofs`), from `GateAssumption` and `TimingAssumption`.
`OneProbe` needs time in the invariant: a probe in flight is no older than
`probeAge`, and an attempt ends within `AttemptMax < ProbeWindow`, so the place
is never given away while its probe runs (`OnlyTheProbe`); and no straggler is
left when a pause has run out, because `AttemptMax < PauseMin`
(`StragglersEnd`), so a straggler's `release` cannot free the place either.
`ProbesTestPauses` ties a probe to a pause. From `ProbeInvariant`:
`GateTypes`, `CountAgrees`, `ProbesAreSingle`, and `StragglersDoNotLengthen`
for the action property. `RecordCounts` and `RingStep` are the counting lemmas:
replacing one bit of a ring moves the cardinality of its set bits by what
`record` adds to `failures`.

**The pool** (`SessionPoolProofs`), from `PoolAssumption`. `PoolInv` adds to the
properties where a request past `pick` is (`Placed`) and that each session's
count is the cardinality of the finite set of requests out on it (`Charged`), so
that `done`'s floor at zero never acts. `PoolTypes`, `LoadIsExact` and
`EstimatesAreCurrent` are its parts; `LateFailureIsHarmless` and
`DearestIsAvoided` are the two action properties, the latter from
`ChoiceIsReady`, which is about `pick`'s comparison alone. `EgressComposes`: every
step of `Egress` is a step or a stutter of the gate and of the pool, so that what
is proved of either holds in the run `egress`.

**The post lookup** (`PostLookupProofs`). Each property depends on a part of its
own, and `PostInv` holds them all. `PendingExact` needs that `hiddenPost`'s
channels exist only while it runs and that nothing is followed up before oEmbed
has answered (`ChannelsLocal`); `ThreeChannels` counts them. `HelperSlotsExact`
needs that a helper is kept only as its lookup returns, and that the keepers are a
finite set (`KeptOnReturn`): the slots taken are its cardinality.
`LongAnswersAskHelper` needs that of what a lookup is about to answer
(`VerdictsAsked`), and `GateReachesCaller` that one lookup is active (`OneActive`)
and the notice on show is its own (`NoticeCurrent`), so that only the timers of
earlier notices are left to fire, and those compare before they delete. From
`LookupInvariant`: `LookupTypes`, `CountIsExact`, `SlotsAreExact`,
`LongMeansAsked`, `CallerFindsGate`.

**The metrics store** (`MetricBucketsProofs`), from `MetricAssumption`.
`NothingLost` is not inductive: a sample added to a bucket that was forgotten
would lose the rest. `InOrder` says that, as long as no flush ran on an
overtaken clock, nothing is counted beyond the bucket in use and that bucket was
never forgotten; `ClocksRead` that no clock reading is ahead of the clock, so
that a sweep reaches only what retention covers. `FlushEffect` and `FlushOrder`
say what one flush does, however it ends; `Status`, `Close` and `RecordMetric`
all go through them. From `MetricInvariant`: `CountedOnce`,
`FailedFlushLosesNothing` and `MetricTypes`.

**The gateway** (`GatewayProofs`), from `GatewayAssumption`. `BotCapKept` says
nothing of the counts the limiter still holds, so it is not inductive.
`WithinAllowance` bounds what each hour has granted by the limiter's state: for
its own hour by the counts it holds, for an earlier one by the limit, for a later
one by nothing, plus the limit for every straggler so far: a call with an hour
already left takes the limiter back, and only the stragglers' term pays for what
is granted again. `KeysFit` and `SlotStep` are the cardinality lemmas of the map
and of the slots. From `GatewayInvariant`: `AdmissionBounded`, `BotCap`,
`OneQuery`.

**The edge** (`GatewayProofs`), from `EdgeAssumption`: the order of the source's
durations (a minute, a partial answer's time and an hour within a day, a minute
within a partial answer's time, two hours within a capability) and that time
ends before a URL without an expiry does. The two invariants of the copy are
inductive once what the caches and a handler hold are answers (`AnswersHeld`): the
copy is made in one step, `Respond`, and kept or dropped by the others. The proof
is therefore about the lifetimes: `CacheTTLBounds`, `OffloadTTLBounds`,
`DirectTTLBounds` and `MintedLasts` bound what `helpers.go` and the signer
compute, truncated hours included, `HandlersMark` says how each handler marks
each answer, and `EdgeTTLBounds` what of that the gateway lets the edge keep.
From `EdgeInvariant`: `NothingProvisional`, `NothingOutlived`.

**The side door** (`ServingProofs`), from `DoorAssumption`. The invariant places
the k-th latest answer in the ring: before it is full at k - 1, afterwards at k - 1
places from `next`, round the end. `AppendCounts` and `TailDiscounts` say what
appending to and dropping from the window does to the number of hidden answers,
which `closed` tracks by adding and discounting. From `DoorInvariant`: `DoorIsJust`.

**The deployment** (`ServingProofs`), from `DeploymentAssumption`, of which
`Settle + Flight <= Sleep` and `Preview <= Shutdown` are the two inequalities the
script and the server rely on. `ServingSlotHealthy` depends on what the script knows:
that the file names a slot that is up (`FileNamesHealthy`), that until the mv the
live slot is left alone and between mv and reload both slots are up
(`ScriptKnows`), and that nginx routes to one slot that is up, the one the file
names except while a reload settles, between mv and reload, or where an earlier
run left it apart (`RoutesFollow`). The script may end at any of its steps:
`BetweenServed`, `EndsServed` and `EndsNamed` say that nginx is then on slots that
are up, and on which of them the file names. `RequestsFit` and
`FlightsFit` compare the time left of the work with the time left to it: the
pause covers what the old slot may still begin before the reload settles. From
`DeploymentInvariant`: `LiveSlotServes`, `DrainSpares`.

**The preview page** (`ServingProofs`), from `PageAssumption`. Which verification a
cleanup ends depends on the attempt its call was made for: at most one call is not
aborted, the one `previewAbort` holds (`OneCall`), a token's call is made for the
attempt that stands, and so is a pending verification (`OwnerStands`).
`AttemptsPaid` bounds the attempts by the links submitted, three to each: a call
without a token owes two more (the challenge it may meet and the end of what that
starts), a pending verification one (`Debt`). From `PageInvariant`:
`CleanupHarmless`.

**The whole** (`ServingProofs`). Every step of `Serving` is a step or a stutter of
each part, so `ServingComposes`: `Serving`'s behaviours are behaviours of
`GatewaySpec`, `EdgeSpec`, `DoorSpec`, `DeploymentSpec` and `PageSpec`.
`ServingTypes` and `ServingSafe` state the invariants of the run `serving` of the
composed specification.

**Only model-checked.** Liveness (`cache_live`, `egress`'s
`PausedGateIsProbed`, `post_lookup_live`, `serving`'s `RequestsEnd` and
`VerificationUnlocks`), because ENABLED and fairness are out of the prover's
reach. The runs that find a violation refute, they prove nothing.

## 6. Findings

1. **A late disk write replaces a newer row** (`late_disk_write`). `runFlight`
   releases its waiters, then writes its model to disk, relying on "putAfterFlight
   only follows a flight that ended in an error". That is true of the flight the
   helper came from, not of the next one of the same key: it may have succeeded
   and released just before `putAfterFlight` looks, which then finds no flight,
   writes the helper's post and memory, and has its row replaced by the late
   write. Memory keeps the helper's post; after a restart the older one returns.
2. **A gone post comes back** (`gone_post`). When the ruling says the media is
   gone, `hiddenPost` cancels the helper, whose copies can only be stale, but the
   deferred `keepAfterFlight` keeps it all the same. If it had its post already,
   `putAfterFlight` finds the flight gone and stores in memory without asking the
   cancelled context. The test of this case uses a helper that returns an error
   once cancelled.
3. **Running totals fall** (`metric_totals`). `RecordMetric` and `Status` read
   the clock before `s.mu`. At a bucket's end the one that waited longer sets
   `s.bucket` back; the open bucket is flushed and forgotten as if closed, later
   samples start it again from nothing, and the next upsert replaces the stored
   total by the smaller one. `NothingLost` therefore excludes processes in which
   this has happened (`behind`).
4. **A failed recreation leaves the wrong slot in the file** (`failed_recreate`).
   The script takes the slot the upstream file names for "the one nginx routes
   to". When the reload fails, it restores the file; a proxy with a changed
   configuration is recreated instead, by a command under `set -e` that may fail
   (an image that cannot be resolved or pulled, a container that cannot be
   created) before the old proxy is stopped. nginx then stays on the old slot
   with the new one in the file. The next run takes the old slot for the idle
   one, recreates it and, if it does not become healthy, stops it, while nginx
   sends it every request. The run leaves out interrupts and restarting proxies
   (`UndisturbedSpec`): of the script's own failures this is the only one that
   does so.

**Observations**, not counted as findings:

* `ok()` of an attempt that began before a pause cancels the pause, as it does
  not ask which attempt succeeded (`V6Gate`, `GateOk`).
* `release()` clears `probeAt` whoever calls it; the proof needs the attempt
  timeout to be shorter than the shortest pause for this to be harmless.
* The failure ring is not reset when a pause begins, only when one is lifted.
* Between `pick` and `getClient` the session may be rotated: the request then
  runs on a fresh client of a session that is cooling down. `DearestNeverChosen`
  speaks of the costs at the comparison.
* `keepAfterFlight` drops a helper that has just finished when `select` takes
  that case, although its result may be a post.
* A value larger than the whole of memory leaves the older entry of its key in
  place. With the sizes the server sets no model is that large.
* `botLimiter.allow` compares hours with `!=`. A call that read the clock before
  the hour turned and takes the lock after another has moved the limiter on
  resets the counts back and, with the next call, forth again: each such call may
  grant every visitor the limit once more. `BotCapKept` says exactly that.
* `cacheTTLFromURLs` grants any CDN URL the floor of a minute, so a copy of a
  signed link may outlive the URL it redirects to by that minute.
* A deployment interrupted between the mv of the upstream file and the reload
  also leaves nginx on a slot the file does not name; so does a proxy that
  restarts just there before a reload that fails. A run that begins from that
  file is misled as in finding 4. `ServingSlotHealthy` excepts exactly these
  three causes (`apart`), until nginx is on the file's slot again.
* The script's pause of 12 s covers the flights that pages begin on the old slot
  before the reload settles. A preview admitted just before that may begin its
  flight after siteverify's ten seconds, and the stop may cut it.
  `DrainSparesRequests` speaks of requests, and of flights begun by pages.
* The comment at `deploy.sh:74-75` counts background helpers among what
  `cacheSharedWorkTimeout`, 10 s, bounds. A helper's bound is
  `helperDetachedTimeout`, 25 s from its own start (`config.go:54`), and `Shutdown`
  waits for requests only: one that began late in a flight of the old slot is
  ended with its process. This one is read off the code: `Deployment` has no
  helpers, so that its drain property is about what the pause does cover.

## 7. What is not modelled, and why

* Parsers, pages, locales, configuration: functions of text without state.
  Which answers they accept is a nondeterministic outcome.
* The external helper is private code behind a hook; it is modelled from how
  `postHelper` uses it.
* Transport: timeouts, TLS, connection reuse. An attempt ends, one way or another.
* In the model table: the expiry sweep, the page limit, the replacement of a
  corrupt file. `ModelCache` lets every read miss and every write fail.
* In `MetricBuckets` the clock never goes back; a wall clock that is set back has
  the effect of finding 3 without a race.
* In `PostLookup` a notice's timer fires only after its lookup's callers and
  helper have ended (10 minutes against 5 and 35 seconds); other notices' timers
  and later lookups interleave freely. Cards may leave `ogPosts` at any time.
* `SessionPool.Scan` reads all sessions in one step; `pick` reads them in turn.
  The comparison and the charge re-read, so only which sessions count as ready
  is affected.
* In `Deployment` of each slot's traffic only the request and the flight with most
  time left; image cleanup and the host's egress setup, which touch neither slot
  nor proxy. An interrupted script does not leave a `docker stop` half done:
  Docker finishes it. A run begins once an earlier run's reload has settled
  (`Begin`): nothing waits for it, but the script pulls and checks for longer
  than nginx needs before it reads the file.
* In `PreviewPage` rendering, animation and the unmounted page. An abort's
  rejection comes before any other event, as its microtask does; while the text
  of an answer is being read it is a networking task's, which a newer
  verification comes after.
* In `EdgeCopy` a link is genuine or not: the MAC is cryptography. Cloudflare is a
  cache that keeps a copy for at most the time its header allows.
* Profiles: one staged fetch behind the same cache, whose coordination is that of
  `ModelCache` and of the race in `PostLookup`; the rest is parsing. Webfinger and
  ActivityPub documents are functions of text.
* The IPv6 egress process relays bytes and keeps nothing.

## 8. Plan

Done, in the order of their importance: `ModelCache` and its proofs, `LocalStore`
with `EntryMap`, `V6Gate`, `SessionPool` and `MetricBuckets` with theirs,
`PostLookup`, `Gateway`, `EdgeCopy`, `StoryDoor`, `Deployment` and `PreviewPage`
with theirs, `Egress` over the gate and the pool, and `Serving` over the last five.

Every safety property of these modules is proved, and `ModelCache` and
`LocalStore` are shown to implement their abstract specifications. What remains is,
of the interfaces between the modules, named in section 2, a statement of each
where both sides can be checked against it.
