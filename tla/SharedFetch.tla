----------------------------- MODULE SharedFetch -----------------------------
(***************************************************************************)
(* What a cache in front of the origin promises, whatever maps, tiers and  *)
(* locks lie between: the origin sees one fetch of a key at a time and at  *)
(* most Slots in all, each for a key somebody asked for; and a request is  *)
(* told once, an outcome that a fetch gave for the very key it asked for,  *)
(* or that there was none for it.  ModelCache is shown to implement it.    *)
(***************************************************************************)
EXTENDS Naturals, FiniteSets

CONSTANTS Requests, Keys, Outcomes, Failures, Slots, None

VARIABLES
    asked,  \* per request, the key it asked for, or None
    told,   \* per request, what it was told, or None
    busy,   \* keys whose fetch is under way
    given   \* per key, the outcomes its fetches have given

sharedVars == <<asked, told, busy, given>>

Init ==
    /\ asked = [r \in Requests |-> None]
    /\ told = [r \in Requests |-> None]
    /\ busy = {}
    /\ given = [k \in Keys |-> {}]

Told(r, k) == \E a \in given[k] \cup Failures : told' = [told EXCEPT ![r] = a]

\* What was given before may be told at once.
Ask(r, k) ==
    /\ asked[r] = None
    /\ asked' = [asked EXCEPT ![r] = k]
    /\ UNCHANGED <<busy, given>>
    /\ UNCHANGED told \/ Told(r, k)

Tell(r) ==
    /\ asked[r] \in Keys
    /\ told[r] = None
    /\ UNCHANGED <<asked, busy, given>>
    /\ Told(r, asked[r])

Begin(k) ==
    /\ \E r \in Requests : asked[r] = k
    /\ k \notin busy
    /\ Cardinality(busy) < Slots
    /\ busy' = busy \cup {k}
    /\ UNCHANGED <<asked, told, given>>

\* A fetch gives nothing, an outcome, or a second one that it leaves to a helper.
Yields == {{}} \cup {{a, b} : a, b \in Outcomes}
End(k) ==
    /\ k \in busy
    /\ busy' = busy \ {k}
    /\ \E new \in Yields : given' = [given EXCEPT ![k] = @ \cup new]
    /\ UNCHANGED <<asked, told>>

\* The process stops, and its fetches with it.
Stop ==
    /\ busy' = {}
    /\ UNCHANGED <<asked, told, given>>

Next ==
    \/ \E r \in Requests : Tell(r) \/ \E k \in Keys : Ask(r, k)
    \/ \E k \in Keys : Begin(k) \/ End(k)
    \/ Stop

Spec == Init /\ [][Next]_sharedVars
=============================================================================
