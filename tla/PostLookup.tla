----------------------------- MODULE PostLookup -----------------------------
(***************************************************************************)
(* Looking one post up (src/server/app.go: getPost, fetchPost, hiddenPost, *)
(* postHelper) on the staged race of src/server/fetch.go.                  *)
(*                                                                         *)
(* A lookup is the fetch of one cache flight; ModelCache shows that those  *)
(* of one shortcode never overlap, but the helper of one may outlive it    *)
(* into the next.  All lookups here are of the same shortcode.             *)
(*                                                                         *)
(* Abstracted: an answer of Instagram is its class; a timer of the race is *)
(* a step that may come at any time; how a request travels is modules      *)
(* V6Gate and SessionPool.                                                 *)
(***************************************************************************)
EXTENDS Integers, FiniteSets

CONSTANTS
    Lookups,
    HelperSlots,  \* helperBackgroundSlots
    None

ASSUME HelperSlotsAssumption == HelperSlots \in Nat
ASSUME NoneAssumption == None \notin Lookups

VARIABLES
    build,      \* which optional parts exist: the private helper, the IPv6 egress
    phase,      \* where each lookup is
    cut,        \* its flight's deadline has passed
    src,        \* the sources of the race
    started,    \* how many of them have been started (next)
    lastErr,    \* the error the race would end in
    hidden,     \* GraphQL answered 1675030
    oe,         \* the oEmbed request of hiddenPost
    chase,      \* its follow-ups, by channel
    pending,    \* hiddenPost's count of both
    seen,       \* oEmbed's answer, once read
    gotOG,      \* the Open Graph card has been read
    helperErr,  \* the helper's failure has been read
    helper,     \* the helper call: none, running or its outcome
    cancelled,  \* h.cancel was called
    keep,       \* the goroutine of keepAfterFlight
    waitFor,    \* the flight putAfterFlight found
    verdict,    \* what fetchPost returned
    ruled,      \* history: the ruling said the media is gone
    slots,      \* length of the helperSlots channel
    mem,        \* the posts cache's entry for the shortcode
    og,         \* ogPosts holds a card for it
    notice,     \* gateNotices' entry: the lookup that published it
    timer,      \* the AfterFunc of each notice
    caller      \* the request that started each lookup

raceVars == <<src, started, lastErr>>
chaseVars == <<oe, chase, pending, seen, gotOG, helperErr>>
helperVars == <<helper, cancelled>>
keepVars == <<keep, waitFor, slots>>
fallbackVars == <<og, notice, timer>>
vars == <<build, phase, cut, raceVars, hidden, chaseVars, helperVars, keepVars,
          verdict, ruled, mem, fallbackVars, caller>>

Sources == {"graphql", "embed", "helper"}
Order == <<"graphql", "embed", "helper">>
Last == IF build.helper THEN 3 ELSE 2

\* Errors as the race ranks them: permanent, transient, not to be cached.
Errors == {"gone", "fail", "ephemeral"}
Results == Errors \cup {"post", "final"}

Gates == {"gate2", "gate3", "gateOther"}
\* bare: a gate without a title; titled: another refusal with one; missing: a
\* 404; page: a 404 that is an HTML page, which counts as no answer.
OembedAnswers == Gates \cup {"card", "bare", "titled", "missing", "page", "lost"}

Channels == {"og", "dc", "ruling"}

\* absent: reached Instagram, 404; denied: reached it, another refusal.
HelperFailures == {"absent", "denied", "lost"}
HelperDone(f) == helper[f] \in HelperFailures \cup {"post"}
HelperAsked(f) == helper[f] \in {"absent", "denied"}

Full == {"post"}
Partials == {"partialShort", "partialLong"}
GateVerdicts == {"gateShort", "gateLong"}
Verdicts == Full \cup Partials \cup GateVerdicts \cup Errors

Active(f) == phase[f] \in {"race", "hidden", "oembed", "returned"}

\* Whatever still runs is cancelled and no longer read; a GraphQL answer that
\* is just coming in may yet set the hidden flag.
RaceOver(f) ==
    /\ src' = [src EXCEPT ![f] =
                  [s \in Sources |-> IF s = "graphql" /\ @[s] = "running" THEN "running" ELSE "read"]]
    /\ started' = [started EXCEPT ![f] = 0]

\* hiddenPost's locals go out of scope.
Forget(f) ==
    /\ oe' = [oe EXCEPT ![f] = "none"]
    /\ chase' = [chase EXCEPT ![f] = [c \in Channels |-> "none"]]
    /\ pending' = [pending EXCEPT ![f] = 0]
    /\ seen' = [seen EXCEPT ![f] = "none"]
    /\ gotOG' = [gotOG EXCEPT ![f] = FALSE]
    /\ helperErr' = [helperErr EXCEPT ![f] = FALSE]

Rank(e) == CASE e = "none" -> 0 [] e = "ephemeral" -> 1 [] e = "fail" -> 2 [] e = "gone" -> 3
PreferredError(current, candidate) == IF Rank(candidate) > Rank(current) THEN candidate ELSE current

Cancel(f) == cancelled' = [cancelled EXCEPT ![f] = TRUE]

-----------------------------------------------------------------------------
(* Mutants *)

\* Any outcome of the helper counts as having asked.
GateUntilHelperDone(f) == IF build.helper /\ ~HelperDone(f) THEN "gateShort" ELSE "gateLong"

\* A card read from the og channel is not counted off.
ReadCardUncounted(f) ==
    /\ phase[f] = "hidden"
    /\ chase[f].og = "running"
    /\ chase' = [chase EXCEPT ![f].og = "read"]
    /\ gotOG' = [gotOG EXCEPT ![f] = TRUE]
    /\ og' \in {og, TRUE}
    /\ UNCHANGED <<build, phase, cut, raceVars, hidden, oe, pending, seen, helperErr, helperVars,
                   keepVars, verdict, ruled, mem, notice, timer, caller>>

\* A helper that gives up waiting for a flight keeps its slot.
KeepWaitKeepsSlot(f) ==
    /\ keep[f] = "wait"
    /\ keep' = [keep EXCEPT ![f] = IF phase[waitFor[f]] = "done" THEN "put" ELSE "end"]
    /\ UNCHANGED <<build, phase, cut, raceVars, hidden, chaseVars, helperVars, waitFor, slots,
                   verdict, ruled, mem, fallbackVars, caller>>

\* Only a helper that found a post is waited for to the end.
KeepLookPostOnly(f) ==
    /\ keep[f] = "kept"
    /\ helper[f] = "post"
    /\ keep' = [keep EXCEPT ![f] = "put"]
    /\ UNCHANGED <<build, phase, cut, raceVars, hidden, chaseVars, helperVars, waitFor, slots,
                   verdict, ruled, mem, fallbackVars, caller>>

\* The timer deletes whatever notice is there.
DeletesAny(f) == notice' = None

-----------------------------------------------------------------------------
(* Verdicts *)

\* gateOrRetry: a long verdict only when the helper, if there is one, has tried.
GateOrRetry(f) == IF build.helper /\ ~HelperAsked(f) THEN "gateShort" ELSE "gateLong"

-----------------------------------------------------------------------------
(* fetchPost's return and what it leaves behind *)

\* keepAfterFlight.  A helper that has just finished may be dropped or kept:
\* select takes either ready case.
KeepAfterFlight(f, gone) ==
    \/ /\ helper[f] = "none" \/ HelperDone(f) \/ slots = HelperSlots
       /\ Cancel(f)
       /\ UNCHANGED <<keep, slots>>
    \/ /\ helper[f] # "none"
       /\ slots < HelperSlots
       /\ slots' = slots + 1
       /\ keep' = [keep EXCEPT ![f] = "kept"]
       /\ cancelled' = [cancelled EXCEPT ![f] = @ \/ gone]

\* Only a gated post is worth the helper's late answer.
Deferred(f, v, gone) ==
    \/ hidden[f] /\ v \notin Full /\ KeepAfterFlight(f, gone)
    \/ ~(hidden[f] /\ v \notin Full) /\ Cancel(f) /\ UNCHANGED <<keep, slots>>

Return(f, v, gone) ==
    /\ phase' = [phase EXCEPT ![f] = "returned"]
    /\ verdict' = [verdict EXCEPT ![f] = v]
    /\ ruled' = [ruled EXCEPT ![f] = gone]
    /\ Deferred(f, v, gone)

-----------------------------------------------------------------------------
(* stagedFetch *)

\* The helper's single call begins where it is first needed.
HelperStarted(f) == [helper EXCEPT ![f] = IF @ = "none" THEN "running" ELSE @]

StartNext(f, sources) ==
    IF started[f] < Last /\ ~cut[f]
    THEN LET s == Order[started[f] + 1] IN
         /\ src' = [src EXCEPT ![f] = [sources EXCEPT ![s] = "running"]]
         /\ started' = [started EXCEPT ![f] = @ + 1]
         /\ helper' = IF s = "helper" THEN HelperStarted(f) ELSE helper
    ELSE /\ src' = [src EXCEPT ![f] = sources]
         /\ UNCHANGED <<started, helper>>

\* get starts a flight when it holds nothing for the shortcode.
Begin(f) ==
    /\ phase[f] = "new"
    /\ \A g \in Lookups : ~Active(g)
    /\ mem = None
    /\ phase' = [phase EXCEPT ![f] = "race"]
    /\ src' = [src EXCEPT ![f].graphql = "running"]
    /\ started' = [started EXCEPT ![f] = 1]
    /\ caller' = [caller EXCEPT ![f] = "waiting"]
    /\ UNCHANGED <<build, cut, lastErr, hidden, chaseVars, helperVars, keepVars,
                   verdict, ruled, mem, fallbackVars>>

\* The hedge timer.
Hedge(f) ==
    /\ phase[f] = "race"
    /\ started[f] < Last
    /\ StartNext(f, src[f])
    /\ UNCHANGED <<build, phase, cut, lastErr, hidden, chaseVars, cancelled, keepVars,
                   verdict, ruled, mem, fallbackVars, caller>>

\* GraphQL's 1675030: the flag is up before the result is read.
GraphqlHidden(f) ==
    /\ src[f].graphql = "running"
    /\ phase[f] \in {"race", "oembed"}
    /\ hidden' = [hidden EXCEPT ![f] = TRUE]
    /\ src' = [src EXCEPT ![f].graphql = IF phase[f] = "race" THEN "final" ELSE "read"]
    /\ UNCHANGED <<build, phase, cut, started, lastErr, chaseVars, helperVars, keepVars,
                   verdict, ruled, mem, fallbackVars, caller>>

\* What the race may read from a source.  A result is read as it comes, the
\* order of several that wait being select's choice.
Reports(f, s, r) ==
    \/ src[f][s] = "final" /\ r = "final"
    \/ /\ src[f][s] = "running"
       /\ \/ s # "helper" /\ r \in Errors \cup {"post"}
          \/ s = "helper" /\ helper[f] = "post" /\ r = "post"
          \/ s = "helper" /\ helper[f] \in HelperFailures /\ r = "fail"
          \/ s = "helper" /\ HelperAsked(f) /\ r = "gone"
          \/ s = "helper" /\ (helper[f] = "lost" \/ cut[f]) /\ r = "ephemeral"

\* The race is lost: hiddenPost after a 1675030, oEmbed otherwise.
NoWinner(f, err) ==
    /\ RaceOver(f)
    /\ lastErr' = [lastErr EXCEPT ![f] = err]
    /\ \/ /\ hidden[f]
          /\ phase' = [phase EXCEPT ![f] = "hidden"]
          /\ helper' = HelperStarted(f)
          /\ oe' = [oe EXCEPT ![f] = "running"]
          /\ pending' = [pending EXCEPT ![f] = 1]
       \/ /\ ~hidden[f]
          /\ phase' = [phase EXCEPT ![f] = "oembed"]
          /\ UNCHANGED <<helper, oe, pending>>
    /\ UNCHANGED <<chase, seen, gotOG, helperErr, cancelled, keepVars, verdict, ruled>>

StillRunning(sources) == {s \in Sources : sources[s] \notin {"idle", "read"}}

ReadResult(f, s, r) ==
    LET rest == [src[f] EXCEPT ![s] = "read"]
        err == PreferredError(lastErr[f], r)
    IN  /\ phase[f] = "race"
        /\ Reports(f, s, r)
        /\ \/ /\ r = "post"
              /\ Return(f, "post", FALSE)
              /\ RaceOver(f)
              /\ UNCHANGED <<lastErr, chaseVars, helper, waitFor>>
           \/ /\ r = "final"
              /\ NoWinner(f, "fail")
           \/ /\ r \in Errors
              /\ started[f] = Last \/ cut[f]
              /\ StillRunning(rest) = {}
              /\ NoWinner(f, err)
           \/ /\ r \in Errors
              /\ (started[f] < Last /\ ~cut[f]) \/ StillRunning(rest) # {}
              /\ StartNext(f, rest)
              /\ lastErr' = [lastErr EXCEPT ![f] = err]
              /\ UNCHANGED <<phase, chaseVars, cancelled, keepVars, verdict, ruled>>
        /\ UNCHANGED <<build, cut, hidden, mem, fallbackVars, caller>>

CutRace(f) ==
    /\ phase[f] = "race"
    /\ cut[f]
    /\ NoWinner(f, IF lastErr[f] = "gone" THEN "gone" ELSE "ephemeral")
    /\ UNCHANGED <<build, cut, hidden, mem, fallbackVars, caller>>

\* oEmbed, the last resort of a post that is not hidden.
LastResort(f, o) ==
    /\ phase[f] = "oembed"
    /\ cut[f] => o = "lost"
    /\ Return(f, CASE o = "card" -> "partialShort"
                   [] o \in Gates \cup {"bare"} -> GateOrRetry(f)
                   [] OTHER -> lastErr[f], FALSE)
    /\ RaceOver(f)
    /\ UNCHANGED <<build, cut, lastErr, hidden, chaseVars, helper, waitFor,
                   mem, fallbackVars, caller>>

-----------------------------------------------------------------------------
(* hiddenPost *)

\* The loop returns as soon as the helper has failed and nothing is pending.
Settled(f) == helperErr[f] /\ pending[f] = 0
Listening(f) == phase[f] = "hidden" /\ ~Settled(f)

\* answer, with what is known of the helper.
Answer(f, asked, absent) ==
    CASE seen[f] = "card" -> "partialShort"
      [] gotOG[f] -> IF asked THEN "partialLong" ELSE "partialShort"
      [] seen[f] \in Gates -> GateOrRetry(f)
      [] seen[f] \in {"missing", "page"} /\ absent -> "gone"
      [] OTHER -> "fail"

Leave(f, v, gone) ==
    /\ Return(f, v, gone)
    /\ Forget(f)
    /\ UNCHANGED <<build, cut, raceVars, hidden, helper, waitFor, mem, caller>>

ReadHelper(f) ==
    /\ Listening(f)
    /\ HelperDone(f) /\ ~helperErr[f]
    /\ \/ helper[f] = "post" /\ Leave(f, "post", FALSE)
       \/ /\ helper[f] # "post"
          /\ helperErr' = [helperErr EXCEPT ![f] = TRUE]
          /\ UNCHANGED <<build, phase, cut, raceVars, hidden, oe, chase, pending, seen, gotOG,
                         helperVars, keepVars, verdict, ruled, mem, caller>>
    /\ UNCHANGED fallbackVars

\* The follow-ups oEmbed's verdict picks; without IPv6 GraphQL has been to DC.
FollowUps(o) ==
    LET asked == CASE o = "card" -> {{"dc"}}
                   [] o = "gate2" -> {{"og", "dc"}}
                   [] o = "gate3" -> {{"og"}}
                   [] o = "titled" -> {{}, {"og"}, {"og", "dc"}}
                   [] o = "missing" -> {{"ruling"}}
                   [] OTHER -> {{}}
    IN  {IF build.v6 THEN F ELSE F \ {"dc"} : F \in asked}

\* publishGate: the notice is replaced, and its own timer started.
PublishGate(f) ==
    /\ notice' = f
    /\ timer' = [timer EXCEPT ![f] = "armed"]

\* ogPosts.put may refuse the card.
PublishCard == og' \in {og, TRUE} /\ UNCHANGED <<notice, timer>>

ReadOembed(f, o) ==
    /\ Listening(f)
    /\ oe[f] = "running"
    /\ oe' = [oe EXCEPT ![f] = "read"]
    /\ seen' = [seen EXCEPT ![f] = o]
    /\ \E F \in FollowUps(o) :
          /\ chase' = [chase EXCEPT ![f] = [c \in Channels |-> IF c \in F THEN "running" ELSE @[c]]]
          /\ pending' = [pending EXCEPT ![f] = @ - 1 + Cardinality(F)]
    /\ \/ o \in Gates \cup {"titled"} /\ PublishGate(f) /\ UNCHANGED og
       \/ o = "card" /\ PublishCard
       \/ o \in {"bare", "missing", "page", "lost"} /\ UNCHANGED fallbackVars
    /\ UNCHANGED <<build, phase, cut, raceVars, hidden, gotOG, helperErr, helperVars, keepVars,
                   verdict, ruled, mem, caller>>

\* A follow-up that found nothing.
ReadNothing(f, c) ==
    /\ Listening(f)
    /\ chase[f][c] = "running"
    /\ chase' = [chase EXCEPT ![f][c] = "read"]
    /\ pending' = [pending EXCEPT ![f] = @ - 1]
    /\ UNCHANGED <<build, phase, cut, raceVars, hidden, oe, seen, gotOG, helperErr, helperVars,
                   keepVars, verdict, ruled, mem, fallbackVars, caller>>

ReadCard(f) ==
    /\ Listening(f)
    /\ chase[f].og = "running"
    /\ chase' = [chase EXCEPT ![f].og = "read"]
    /\ pending' = [pending EXCEPT ![f] = @ - 1]
    /\ gotOG' = [gotOG EXCEPT ![f] = TRUE]
    /\ PublishCard
    /\ UNCHANGED <<build, phase, cut, raceVars, hidden, oe, seen, helperErr, helperVars,
                   keepVars, verdict, ruled, mem, caller>>

ReadPost(f) ==
    /\ Listening(f)
    /\ chase[f].dc = "running"
    /\ Leave(f, "post", FALSE)
    /\ UNCHANGED fallbackVars

\* The ruling: the media cannot be found, so the helper is cancelled too.
ReadMissing(f) ==
    /\ Listening(f)
    /\ chase[f].ruling = "running"
    /\ Leave(f, "gone", TRUE)
    /\ UNCHANGED fallbackVars

Settle(f) ==
    /\ phase[f] = "hidden" /\ Settled(f)
    /\ Leave(f, Answer(f, HelperAsked(f), helper[f] = "absent"), FALSE)
    /\ UNCHANGED fallbackVars

\* A mutant: the deadline is noticed only when nothing is pending.
CutHiddenWhenQuiet(f) ==
    /\ Listening(f) /\ cut[f] /\ pending[f] = 0
    /\ Leave(f, Answer(f, FALSE, FALSE), FALSE)
    /\ UNCHANGED fallbackVars

CutHidden(f) ==
    /\ Listening(f) /\ cut[f]
    /\ Leave(f, Answer(f, FALSE, FALSE), FALSE)
    /\ UNCHANGED fallbackVars

-----------------------------------------------------------------------------
(* The helper call and what keepAfterFlight makes of it *)

\* h.run returns, panics or runs out of helperDetachedTimeout.  A cancelled
\* call may still return what it had already read.
HelperFinish(f, o) ==
    /\ helper[f] = "running"
    /\ build.helper \/ o = "lost"
    /\ helper' = [helper EXCEPT ![f] = o]
    /\ UNCHANGED <<build, phase, cut, raceVars, hidden, chaseVars, cancelled, keepVars,
                   verdict, ruled, mem, fallbackVars, caller>>

KeepEnds(f) ==
    /\ keep' = [keep EXCEPT ![f] = "end"]
    /\ slots' = slots - 1

\* A post goes to putAfterFlight, which looks for a running flight.
KeepLook(f) ==
    /\ keep[f] = "kept"
    /\ HelperDone(f)
    /\ \/ /\ helper[f] # "post"
          /\ KeepEnds(f)
          /\ UNCHANGED waitFor
       \/ /\ helper[f] = "post"
          /\ \E g \in Lookups :
                /\ Active(g)
                /\ waitFor' = [waitFor EXCEPT ![f] = g]
          /\ keep' = [keep EXCEPT ![f] = "wait"]
          /\ UNCHANGED slots
       \/ /\ helper[f] = "post"
          /\ \A g \in Lookups : ~Active(g)
          /\ keep' = [keep EXCEPT ![f] = "put"]
          /\ UNCHANGED <<slots, waitFor>>
    /\ UNCHANGED <<build, phase, cut, raceVars, hidden, chaseVars, helperVars,
                   verdict, ruled, mem, fallbackVars, caller>>

\* The flight it waits for ends, or the helper's context does.
KeepWait(f) ==
    /\ keep[f] = "wait"
    /\ \/ /\ phase[waitFor[f]] = "done"
          /\ keep' = [keep EXCEPT ![f] = "put"]
          /\ UNCHANGED slots
       \/ KeepEnds(f)
    /\ UNCHANGED <<build, phase, cut, raceVars, hidden, chaseVars, helperVars, waitFor,
                   verdict, ruled, mem, fallbackVars, caller>>

\* put: memory takes the post whatever the context says; it may be too big or
\* its links about to expire.
KeepPut(f) ==
    /\ keep[f] = "put"
    /\ KeepEnds(f)
    /\ mem' \in {mem, [by |-> f, what |-> "helper"]}
    /\ UNCHANGED <<build, phase, cut, raceVars, hidden, chaseVars, helperVars, waitFor,
                   verdict, ruled, fallbackVars, caller>>

-----------------------------------------------------------------------------
(* The flight around the lookup, its caller, and time *)

\* runFlight: an error after the flight's deadline is not stored, an ephemeral
\* one never is, and a post may be refused.  The lookup's locals are gone.
Publish(f) ==
    /\ phase[f] = "returned"
    /\ phase' = [phase EXCEPT ![f] = "done"]
    /\ cut' = [cut EXCEPT ![f] = FALSE]
    /\ hidden' = [hidden EXCEPT ![f] = FALSE]
    /\ lastErr' = [lastErr EXCEPT ![f] = "none"]
    /\ src' = [src EXCEPT ![f] = [s \in Sources |-> "read"]]
    /\ verdict' = [verdict EXCEPT ![f] = "none"]
    /\ LET v == verdict[f]
           entry == [by |-> f, what |-> v]
       IN  \/ mem' = entry /\ (v \in Full \cup Partials \/ (v # "ephemeral" /\ ~cut[f]))
           \/ mem' = mem /\ (v \in Full \cup Partials \/ v = "ephemeral" \/ cut[f])
    /\ UNCHANGED <<build, started, chaseVars, helperVars, keepVars,
                   ruled, fallbackVars, caller>>

\* cacheSharedWorkTimeout runs out, at the latest before runFlight looks.
Deadline(f) ==
    /\ Active(f)
    /\ ~cut[f]
    /\ cut' = [cut EXCEPT ![f] = TRUE]
    /\ UNCHANGED <<build, phase, raceVars, hidden, chaseVars, helperVars, keepVars,
                   verdict, ruled, mem, fallbackVars, caller>>

\* The request leaves getPost: with the flight's verdict, cancelled, or at its
\* deadline with a partial card or gate notice of an unfinished lookup, if any.
CallerEnds(f) ==
    /\ caller[f] = "waiting"
    /\ caller' = [caller EXCEPT ![f] = "ended"]
    /\ UNCHANGED <<build, phase, cut, raceVars, hidden, chaseVars, helperVars, keepVars,
                   verdict, ruled, mem, fallbackVars>>

\* The entry expires or is evicted.
DropEntry ==
    /\ mem # None
    /\ mem' = None
    /\ UNCHANGED <<build, phase, cut, raceVars, hidden, chaseVars, helperVars, keepVars,
                   verdict, ruled, fallbackVars, caller>>

DropCard ==
    /\ og /\ og' = FALSE
    /\ UNCHANGED <<build, phase, cut, raceVars, hidden, chaseVars, helperVars, keepVars,
                   verdict, ruled, mem, notice, timer, caller>>

\* partialPostTTL after its publication, when the lookup, its callers (5 s) and
\* its helper (35 s) are long gone: CompareAndDelete.
DeletesOwn(f) == notice' = IF notice = f THEN None ELSE notice
NoticeTimer(f) ==
    /\ timer[f] = "armed"
    /\ phase[f] = "done" /\ keep[f] \in {"none", "end"}
    /\ \A g \in Lookups : caller[g] = "waiting" => Active(g)
    /\ timer' = [timer EXCEPT ![f] = "fired"]
    /\ DeletesOwn(f)
    /\ UNCHANGED <<build, phase, cut, raceVars, hidden, chaseVars, helperVars, keepVars,
                   verdict, ruled, mem, og, caller>>

-----------------------------------------------------------------------------
Init ==
    /\ build \in [helper : BOOLEAN, v6 : BOOLEAN]
    /\ phase = [f \in Lookups |-> "new"]
    /\ cut = [f \in Lookups |-> FALSE]
    /\ src = [f \in Lookups |-> [s \in Sources |-> "idle"]]
    /\ started = [f \in Lookups |-> 0]
    /\ lastErr = [f \in Lookups |-> "none"]
    /\ hidden = [f \in Lookups |-> FALSE]
    /\ oe = [f \in Lookups |-> "none"]
    /\ chase = [f \in Lookups |-> [c \in Channels |-> "none"]]
    /\ pending = [f \in Lookups |-> 0]
    /\ seen = [f \in Lookups |-> "none"]
    /\ gotOG = [f \in Lookups |-> FALSE]
    /\ helperErr = [f \in Lookups |-> FALSE]
    /\ helper = [f \in Lookups |-> "none"]
    /\ cancelled = [f \in Lookups |-> FALSE]
    /\ keep = [f \in Lookups |-> "none"]
    /\ waitFor = [f \in Lookups |-> None]
    /\ verdict = [f \in Lookups |-> "none"]
    /\ ruled = [f \in Lookups |-> FALSE]
    /\ slots = 0
    /\ mem = None
    /\ og = FALSE
    /\ notice = None
    /\ timer = [f \in Lookups |-> "none"]
    /\ caller = [f \in Lookups |-> "none"]

RaceStep(f) ==
    \/ \E s \in Sources, r \in Results : ReadResult(f, s, r)
    \/ CutRace(f)
    \/ \E o \in OembedAnswers : LastResort(f, o)

HiddenStep(f) ==
    \/ ReadHelper(f)
    \/ \E o \in OembedAnswers : ReadOembed(f, o)
    \/ \E c \in Channels : ReadNothing(f, c)
    \/ ReadCard(f) \/ ReadPost(f) \/ ReadMissing(f)
    \/ Settle(f) \/ CutHidden(f)

HelperReturns(f) == \E o \in HelperFailures \cup {"post"} : HelperFinish(f, o)
KeepStep(f) == KeepLook(f) \/ KeepWait(f) \/ KeepPut(f)

Next ==
    \/ \E f \in Lookups :
          \/ Begin(f) \/ Hedge(f) \/ GraphqlHidden(f) \/ RaceStep(f) \/ HiddenStep(f)
          \/ HelperReturns(f) \/ KeepStep(f)
          \/ Publish(f) \/ Deadline(f) \/ NoticeTimer(f)
          \/ CallerEnds(f)
    \/ DropEntry \/ DropCard

Spec == Init /\ [][Next]_vars

(* A flight's deadline comes and the select loops notice it; h.run returns   *)
(* by its own deadline (helperDetachedTimeout); the detached goroutines run. *)
(* That any source or follow-up ever answers is not assumed.                 *)
FairSpec ==
    /\ Spec
    /\ \A f \in Lookups :
          /\ WF_vars(Deadline(f))
          /\ WF_vars(CutRace(f) \/ CutHidden(f) \/ Settle(f))
          /\ WF_vars(cut[f] /\ LastResort(f, "lost"))
          /\ WF_vars(Publish(f))
          /\ WF_vars(HelperReturns(f))
          /\ WF_vars(KeepStep(f))

-----------------------------------------------------------------------------
(* Properties *)

TypeOK ==
    /\ build \in [helper : BOOLEAN, v6 : BOOLEAN]
    /\ phase \in [Lookups -> {"new", "race", "hidden", "oembed", "returned", "done"}]
    /\ cut \in [Lookups -> BOOLEAN]
    /\ src \in [Lookups -> [Sources -> {"idle", "running", "final", "read"}]]
    /\ started \in [Lookups -> 0 .. 3]
    /\ lastErr \in [Lookups -> Errors \cup {"none"}]
    /\ hidden \in [Lookups -> BOOLEAN]
    /\ oe \in [Lookups -> {"none", "running", "read"}]
    /\ chase \in [Lookups -> [Channels -> {"none", "running", "read"}]]
    /\ pending \in [Lookups -> 0 .. 1 + Cardinality(Channels)]
    /\ seen \in [Lookups -> OembedAnswers \cup {"none"}]
    /\ gotOG \in [Lookups -> BOOLEAN]
    /\ helperErr \in [Lookups -> BOOLEAN]
    /\ helper \in [Lookups -> HelperFailures \cup {"none", "running", "post"}]
    /\ cancelled \in [Lookups -> BOOLEAN]
    /\ keep \in [Lookups -> {"none", "kept", "wait", "put", "end"}]
    /\ waitFor \in [Lookups -> Lookups \cup {None}]
    /\ verdict \in [Lookups -> Verdicts \cup {"none"}]
    /\ ruled \in [Lookups -> BOOLEAN]
    /\ slots \in 0 .. HelperSlots
    /\ mem \in [by : Lookups, what : Verdicts \cup {"helper"}] \cup {None}
    /\ og \in BOOLEAN
    /\ notice \in Lookups \cup {None}
    /\ timer \in [Lookups -> {"none", "armed", "fired"}]
    /\ caller \in [Lookups -> {"none", "waiting", "ended"}]

\* hiddenPost's count is exactly what is still out: it neither answers over the
\* head of a follow-up nor waits for one that was never sent.
PendingExact ==
    \A f \in Lookups :
        phase[f] = "hidden" =>
            pending[f] = (IF oe[f] = "running" THEN 1 ELSE 0)
                         + Cardinality({c \in Channels : chase[f][c] = "running"})

\* A helper slot is held by exactly the helpers that outlive their flight, and a
\* helper that finds no slot free is cancelled with its flight.
HelperSlotsExact ==
    /\ slots = Cardinality({f \in Lookups : keep[f] \in {"kept", "wait", "put"}})
    /\ slots <= HelperSlots

\* An hour-long gate verdict, or hour-long partial card, is in the cache only
\* once the helper, which can fetch gated posts, has reached Instagram and come
\* back without one ("keeps a gate notice short-lived until the helper ... has
\* tried").
LongAnswersAskHelper ==
    mem # None /\ mem.what \in {"gateLong", "partialLong"}
        => ~build.helper \/ HelperAsked(mem.by)

\* "The flight outlives this request; a partial card or gate notice beats
\* temporarily unavailable": once its lookup has published a gate, a waiting
\* caller finds a notice, whatever the timers of earlier notices do meanwhile.
GateReachesCaller ==
    \A f \in Lookups : caller[f] = "waiting" /\ timer[f] = "armed" => notice # None

\* Every lookup ends, also when oEmbed, the follow-ups and the helper all hang.
LookupEnds == \A f \in Lookups : phase[f] = "race" ~> phase[f] = "done"

\* Every helper slot is given back.
HelperSlotFreed == \A f \in Lookups : keep[f] = "kept" ~> keep[f] = "end"

\* "only stale copies left" (app.go), "the helper, cancelled for a gone post,
\* replaced the verdict" (request_pipeline_test.go): a post the ruling declared
\* gone is never brought back by that lookup's cancelled helper.
GonePostStaysGone == mem # None /\ mem.what = "helper" => ~ruled[mem.by]

=============================================================================
