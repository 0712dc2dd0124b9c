------------------------------ MODULE StoryDoor ------------------------------
(***************************************************************************)
(* Story lookups (getStory, parseGraphQLStory and storySideDoor in         *)
(* src/server/story.go).  A story is asked of Instagram's post query, with *)
(* the external helper behind it.  The query answers 1675030 both for a    *)
(* story that is gone and, should Instagram close it to stories, for every *)
(* story; a ring of the latest answers about live stories tells the two    *)
(* apart.                                                                  *)
(***************************************************************************)
EXTENDS Integers, FiniteSets, Sequences

CONSTANTS
    RingSize,       \* len(storySideDoor.ring)
    ClosedPercent   \* storySideDoorClosedPercent

ASSUME DoorAssumption == RingSize \in Nat \ {0} /\ ClosedPercent \in 0 .. 100

VARIABLES
    ring,     \* ring[i] is TRUE for a 1675030
    filled,   \* n
    next,     \* i
    hidden,   \* hidden, the 1675030s counted
    latest,   \* history: the last RingSize answers about live stories
    verdict   \* what came of the lookup

doorVars == <<ring, filled, next, hidden, latest, verdict>>

RingPlaces == 0 .. RingSize - 1

\* What the query may say: the story, a story that is not this one, 1675030,
\* another GraphQL error (as far as the ring goes the same), no story that could
\* be used (an empty list, a missing user or image, or one valid refuses; to the
\* ring not hidden), or no answer.
Replies == {"story", "mismatch", "1675030", "graphql", "unusable", "failed"}
Verdicts == {"none", "found", "askHelper", "final404"}

DoorTypeOK ==
    /\ ring \in [RingPlaces -> BOOLEAN]
    /\ filled \in 0 .. RingSize /\ next \in RingPlaces /\ hidden \in 0 .. RingSize
    /\ latest \in Seq(BOOLEAN) /\ Len(latest) <= RingSize
    /\ verdict \in [says : Verdicts, reply : Replies \cup {"none"}, live : BOOLEAN]

DoorInit ==
    /\ ring = [s \in RingPlaces |-> FALSE]
    /\ filled = 0 /\ next = 0 /\ hidden = 0
    /\ latest = <<>>
    /\ verdict = [says |-> "none", reply |-> "none", live |-> FALSE]

-----------------------------------------------------------------------------
(* Mutants *)

\* The answer that leaves the ring is never discounted.
KeepsCounting(h) == hidden + (IF h THEN 1 ELSE 0)

-----------------------------------------------------------------------------
HiddenReply(reply) == reply \in {"1675030", "graphql"}

\* hidden after an answer: the one that leaves the full ring is discounted.
Counted(h) ==
    hidden - (IF filled = RingSize /\ ring[next] THEN 1 ELSE 0) + (IF h THEN 1 ELSE 0)

LooksClosed(n, k) == n >= RingSize \div 2 /\ k * 100 > n * ClosedPercent

\* storySideDoor.closed records one answer about a live story.
Record(h) ==
    /\ filled' = IF filled = RingSize THEN filled ELSE filled + 1
    /\ ring' = [ring EXCEPT ![next] = h]
    /\ hidden' = Counted(h)
    /\ next' = (next + 1) % RingSize
    /\ latest' = LET l == Append(latest, h) IN IF Len(l) > RingSize THEN Tail(l) ELSE l

\* The query's error is final unless the door is closed on it; a story that
\* is not the one asked for is final whatever the door.
Verdict(reply, shut) ==
    CASE reply = "story" -> "found"
      [] reply = "mismatch" \/ (reply = "1675030" /\ ~ shut) -> "final404"
      [] OTHER -> "askHelper"

\* One lookup of a story.  A failed fetch returns before the door, and a story
\* a day old is not shown to it.
Lookup ==
    \E reply \in Replies, live \in BOOLEAN :
        LET told == live /\ reply # "failed"
            h == HiddenReply(reply)
        IN  /\ IF told THEN Record(h) ELSE UNCHANGED <<ring, filled, next, hidden, latest>>
            /\ verdict' = [says |-> Verdict(reply, told /\ h /\ LooksClosed(filled', hidden')),
                           reply |-> reply, live |-> live]

DoorNext == Lookup

DoorSpec == DoorInit /\ [][DoorNext]_doorVars

-----------------------------------------------------------------------------
(* Properties *)

Share == Cardinality({k \in DOMAIN latest : latest[k]})

\* The door judges by exactly the latest answers, as many as the ring holds:
\* its counters follow them while the ring fills and after it wraps, and a live
\* story's 1675030 is taken for a closed door exactly when at least half a ring
\* of answers is in and more than ClosedPercent of them are hidden (story.go,
\* "far more means the post query no longer serves stories, and the helper
\* takes over").
DoorJudgesWindow ==
    /\ filled = Len(latest) /\ hidden = Share
    /\ verdict.reply = "1675030" =>
          (verdict.says = "askHelper" <=>
              /\ verdict.live
              /\ Len(latest) >= RingSize \div 2
              /\ Share * 100 > Len(latest) * ClosedPercent)
=============================================================================
