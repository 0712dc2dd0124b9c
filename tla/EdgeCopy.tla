------------------------------ MODULE EdgeCopy ------------------------------
(***************************************************************************)
(* What Cloudflare may keep of an answer, and for how long: the lifetimes  *)
(* gateway.go computes, the handlers that mark provisional answers with an *)
(* originStatus (main.go, media.go, story.go), the signed links            *)
(* (offload_signer.go) and the look handleOffload takes at the partial     *)
(* card and at the posts cache while a flight may fill both.               *)
(*                                                                         *)
(* One public URL is followed, chosen at the start; the edge keys on the   *)
(* whole URL.  A request reaches the origin at any time, copy or not, as   *)
(* another edge location asks for itself.  Time is counted in steps of a   *)
(* minute or more and a request meets at most one of them.                 *)
(***************************************************************************)
EXTENDS Integers, FiniteSetsExt

CONSTANTS
    Minute,      \* the floor and the short lifetimes, 60 s
    Partial,     \* partialPostTTL
    Margin,      \* cdnTTLMargin
    Hour,        \* cardEdgeTTL and permanentErrorCacheSeconds, both an hour
    Day,         \* cdnFallbackTTL, and how long a refusal may be kept
    Capability,  \* offloadCapabilityTTL
    CDNExpiries, \* when CDN URLs expire, before or after they are fetched
    MaxTime,     \* bound on the clock
    Never        \* the expiry of a URL without one

ASSUME EdgeAssumption ==
    /\ {Minute, Partial, Margin, Hour, Day, Capability, MaxTime, Never} \subseteq Nat \ {0}
    /\ CDNExpiries \subseteq Nat
    /\ Minute < Day /\ Hour <= Day /\ Minute <= Partial /\ 2 * Hour <= Capability + 1
    /\ Never > MaxTime + Day + Margin

VARIABLES
    now,
    link,    \* the URL: its route, what it asks of which cache, its capability
    known,   \* whether the process has the key the link's kid names
    card,    \* expiry of the ogPosts entry, 0 without one
    entry,   \* the entry of posts, profiles or stories
    flying,  \* whether a flight is fetching it
    place,   \* where the request is
    late,    \* whether the clock has moved since the request came
    ans,     \* what its handler works from
    copy     \* the edge's copy

edgeVars == <<now, link, known, card, entry, flying, place, late, ans, copy>>

Times == 0 .. MaxTime
Nothing == [kind |-> "none", cdn |-> Never, until |-> 0]
NoCopy == [what |-> "none", cdn |-> Never, since |-> 0, until |-> 0, minted |-> 0]
Expiries == {Never} \cup CDNExpiries
Fresh == entry.until > now

\* Truncate(time.Hour): every render of an hour gives one URL.
Truncated(t) == t - (t % Hour)
\* The expiry of a link minted at t.
Minted(t) == Truncated(t + Capability)

\* What a link that does not verify asks for does not matter.
Links ==
    [route : {"offload"}, source : {"post", "other"}, want : {"first", "later", "avatar"},
     genuine : {TRUE}, exp : {h \in 1 .. Capability : h % Hour = 0}]
    \cup [route : {"offload"}, source : {"post"}, want : {"first"},
          genuine : {FALSE}, exp : {Capability}]
    \cup [route : {"direct"}, source : {"post", "other"}, want : {"first", "later"},
          genuine : {TRUE}, exp : {Never}]
    \cup [route : {"card"}, source : {"post", "other"}, want : {"html", "activity"},
          genuine : {TRUE}, exp : {Never}]

\* Only a signed link asks for a key.
KeyChoices == IF link.route = "offload" THEN BOOLEAN ELSE {TRUE}

EdgeTypeOK ==
    /\ now \in Times /\ link \in Links /\ known \in BOOLEAN
    /\ card \in 0 .. MaxTime + Partial
    /\ entry.kind \in {"none", "full", "partial", "transient", "final"}
    /\ flying \in BOOLEAN /\ late \in BOOLEAN
    /\ place \in {"idle", "looking", "carded", "looked", "waiting", "answering"}
    /\ ans.kind \in {"none", "full", "partial", "transient", "final"}
    /\ copy.until \in 0 .. MaxTime + Day /\ copy.since \in Times

EdgeInit ==
    /\ now = 0 /\ link \in Links /\ known \in KeyChoices
    /\ card = 0 /\ entry = Nothing /\ flying = FALSE
    /\ place = "idle" /\ late = FALSE /\ ans = Nothing
    /\ copy = NoCopy

-----------------------------------------------------------------------------
(* Mutants *)

\* A partial post's answer is not marked.
Unmarked(r, a) == r

\* The refusal is kept a day whatever key was asked for.
RefusedForADay(k) == Day

\* offloadEdgeTTL forgets the link's own expiry.
OffloadToCDNExpiry(cdn, exp) ==
    LET rest == IF cdn = Never THEN Day ELSE Min({Day, Max({cdn - now - Margin, Minute})})
    IN  Max({rest, 0})

-----------------------------------------------------------------------------
(* Lifetimes (helpers.go, gateway.go) *)

CacheTTLFromURL(cdn) ==
    IF cdn = Never THEN Day ELSE Min({Day, Max({cdn - now - Margin, Minute})})

OffloadEdgeTTL(cdn, exp) == Max({Min({CacheTTLFromURL(cdn), exp - now}), 0})

DirectEdgeTTL(cdn) == IF cdn = Never THEN 0 ELSE Max({Min({Day, cdn - now - Margin}), 0})

\* A capability the signer made, under a key this process has.
Authorized == known /\ link.genuine /\ link.exp > now /\ link.exp <= now + Capability

RefusalTTL(k) == IF k THEN Day ELSE Minute

\* The edge headers ServeHTTP sets on a handler's response; a header the
\* handler set itself stands otherwise.
EdgeTTL(r) ==
    CASE link.route = "offload" /\ r.status \in {200, 302} /\ ~ r.origin ->
            OffloadEdgeTTL(r.cdn, link.exp)
      [] link.route = "direct" /\ r.status = 302 /\ ~ r.origin -> DirectEdgeTTL(r.cdn)
      [] link.route = "card" /\ r.status = 200 /\ ~ r.origin /\ r.html -> Hour
      [] OTHER -> r.preset

-----------------------------------------------------------------------------
(* Responses (main.go, media.go, story.go) *)

Response(status, origin, html, cdn, preset) ==
    [status |-> status, origin |-> origin, html |-> html, cdn |-> cdn, preset |-> preset]

PartialResp(r, a) == IF a.kind = "partial" THEN [r EXCEPT !.origin = TRUE] ELSE r

\* avatarResp: the copied bytes, the redirect of an untrusted target, or the
\* redirect that stands in for a copy that failed.
AvatarResps(cdn) ==
    {Response(200, FALSE, FALSE, cdn, 0), Response(302, FALSE, FALSE, Never, 0),
     Response(302, TRUE, FALSE, cdn, Minute)}

MediaResps(cdn) ==
    IF link.want = "avatar" THEN AvatarResps(cdn) ELSE {Response(302, FALSE, FALSE, cdn, 0)}

\* offloadErrorResp: a transient error redirects to Instagram.
OffloadErrorResp(a) ==
    Response(IF a.kind = "transient" THEN 302 ELSE 404, TRUE, FALSE, Never, 0)

\* What the handler of the link's route may respond to a.
Responses(a) ==
    IF link.route = "card"
    THEN LET page == Response(200, FALSE, link.want = "html", Never, 0)
         IN  IF a.kind \in {"transient", "final"} THEN {[page EXCEPT !.origin = TRUE]}
             ELSE IF link.want = "html" THEN {PartialResp(page, a)} ELSE {page}
    ELSE IF a.kind \in {"transient", "final"} THEN {OffloadErrorResp(a)}
    ELSE IF a.kind = "partial" /\ link.want = "later"
    THEN {PartialResp(Response(302, FALSE, FALSE, Never, 0), a)}
    ELSE {PartialResp(r, a) : r \in MediaResps(a.cdn)}
         \cup IF link.source = "other" /\ link.want = "later"
              THEN {Response(404, FALSE, FALSE, Never, 0)} ELSE {}

\* What a reader would call the response.
Called(a, r) ==
    IF a.kind # "full" THEN a.kind
    ELSE IF r.origin THEN "uncopied"
    ELSE IF link.want = "activity" THEN "activity" ELSE "full"

-----------------------------------------------------------------------------
(* The request *)

Keep(what, cdn, ttl) ==
    copy' = IF ttl > 0 THEN [what |-> what, cdn |-> cdn, since |-> now, until |-> now + ttl,
                             minted |-> IF link.route = "card" THEN Minted(now) ELSE 0]
            ELSE copy

Ask ==
    /\ place = "idle" /\ link.route = "offload" => Authorized
    /\ place' = IF link.source = "post" /\ link.route # "card" THEN "looking" ELSE "looked"
    /\ late' = FALSE
    /\ UNCHANGED <<now, link, known, card, entry, flying, ans, copy>>

\* The 404 of a link that does not verify.
Refuse404 ==
    /\ place = "idle" /\ link.route = "offload" /\ ~ Authorized
    /\ Keep("refused", Never, RefusalTTL(known))
    /\ UNCHANGED <<now, link, known, card, entry, flying, place, late, ans>>

\* handleOffload: first the partial card ...
LookAtCard ==
    /\ place = "looking"
    /\ place' = IF card > now THEN "carded" ELSE "looked"
    /\ UNCHANGED <<now, link, known, card, entry, flying, late, ans, copy>>

\* ... then the posts cache; the card is used when it has nothing.
LookAtPosts ==
    /\ place = "carded"
    /\ place' = IF Fresh THEN "looked" ELSE "answering"
    /\ ans' = IF Fresh THEN ans ELSE [kind |-> "partial", cdn |-> Never, until |-> 0]
    /\ UNCHANGED <<now, link, known, card, entry, flying, late, copy>>

\* get: a hit answers, a miss waits on the flight or starts one.
Get ==
    /\ place = "looked"
    /\ IF Fresh
       THEN place' = "answering" /\ ans' = [entry EXCEPT !.until = 0] /\ UNCHANGED flying
       ELSE place' = "waiting" /\ flying' = TRUE /\ UNCHANGED ans
    /\ UNCHANGED <<now, link, known, card, entry, late, copy>>

\* requestTimeout: a partial card, if there is one, beats an error.
Deadline ==
    /\ place = "waiting" /\ place' = "answering"
    /\ ans' = [Nothing EXCEPT !.kind =
                  IF link.source = "post" /\ card > now THEN "partial" ELSE "transient"]
    /\ UNCHANGED <<now, link, known, card, entry, flying, late, copy>>

Respond ==
    /\ place = "answering" /\ place' = "idle" /\ late' = FALSE /\ ans' = Nothing
    /\ \E r \in Responses(ans) : Keep(Called(ans, r), r.cdn, EdgeTTL(r))
    /\ UNCHANGED <<now, link, known, card, entry, flying>>

-----------------------------------------------------------------------------
(* The flight, the clock, a restart *)

\* The og page or oEmbed answers first; its own CDN URL may shorten its stay.
FlightFindsCard ==
    /\ flying /\ link.source = "post"
    /\ \E ttl \in {Minute, Partial} : card' = now + ttl
    /\ UNCHANGED <<now, link, known, entry, flying, place, late, ans, copy>>

\* What a flight may end with: a full answer until its CDN URL nears expiry, a
\* partial post for an hour or a minute, an error for as long or not at all.
Ends ==
    {[kind |-> "full", cdn |-> e, until |-> now + CacheTTLFromURL(e)] : e \in Expiries}
    \cup [kind : IF link.source = "post" THEN {"partial"} ELSE {}, cdn : {Never},
          until : {now + Minute, now + Hour}]
    \cup [kind : {"transient", "final"}, cdn : {Never}, until : {0, now + Minute, now + Hour}]

FlightEnds ==
    /\ flying /\ flying' = FALSE
    /\ \E e \in Ends :
          /\ entry' = e
          /\ IF place = "waiting"
             THEN place' = "answering" /\ ans' = [e EXCEPT !.until = 0]
             ELSE UNCHANGED <<place, ans>>
    /\ UNCHANGED <<now, link, known, card, late, copy>>

Passes ==
    /\ now < MaxTime /\ ~ late
    /\ now' = now + 1
    /\ late' = (place # "idle")
    /\ card' = IF card > now' THEN card ELSE 0
    /\ entry' = IF entry.until > now' THEN entry ELSE Nothing
    /\ copy' = IF copy.until > now' THEN copy ELSE NoCopy
    /\ UNCHANGED <<link, known, flying, place, ans>>

\* A deployment may bring other keys; SQLite may bring the entry back.
Restart ==
    /\ known' \in KeyChoices
    /\ card' = 0 /\ flying' = FALSE
    /\ entry' \in {entry, Nothing}
    /\ place' = "idle" /\ late' = FALSE /\ ans' = Nothing
    /\ UNCHANGED <<now, link, copy>>

EdgeNext ==
    \/ Ask \/ Refuse404 \/ LookAtCard \/ LookAtPosts \/ Get \/ Deadline \/ Respond
    \/ FlightFindsCard \/ FlightEnds \/ Passes \/ Restart

EdgeSpec == EdgeInit /\ [][EdgeNext]_edgeVars

-----------------------------------------------------------------------------
(* Properties *)

KeptLong == copy.until - copy.since > Minute

\* The edge keeps for more than a minute only a full answer, which nothing will
\* replace before it goes stale, or the refusal of a link that no key, known or
\* restored, can make valid while the copy stands (gateway.go, "A link that
\* fails verification under a known key never becomes valid", "Error and
\* partial cards are 200s too, hence originStatus").
EdgeKeepsNothingProvisional ==
    KeptLong =>
        \/ copy.what = "full"
        \/ copy.what = "refused" /\ ~ (link.genuine /\ link.exp > now)

\* A copy outlives neither the capability of the link it answers, nor the
\* expiry of the CDN URL it redirects to or copies (but for the minute that
\* cacheTTLFromURLs grants any URL on a signed link), nor, for a card, the
\* links it carries (config.go, "Cards link only to signed offload URLs, which
\* outlive this by days").
EdgeOutlivesNothing ==
    copy.what = "full" =>
        CASE link.route = "offload" ->
                copy.until <= link.exp /\ copy.until <= Max({copy.cdn, copy.since + Minute})
          [] link.route = "direct" -> copy.until <= copy.cdn
          [] link.route = "card" -> copy.until <= copy.minted
=============================================================================
