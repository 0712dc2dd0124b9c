------------------------------- MODULE V6Gate -------------------------------
(***************************************************************************)
(* The gate in front of the IPv6 egress of one operation (v6Gate in        *)
(* src/server/fetch.go) with the requests that pass it in fetchViaProxy.   *)
(*                                                                         *)
(* Time is counted in ticks and kept as durations: what is left of a       *)
(* pause, how long ago a probe was admitted, how long an attempt has run.  *)
(* v6ctx ends an attempt within AttemptMax.                                *)
(***************************************************************************)
EXTENDS Integers, FiniteSets

CONSTANTS
    Requests,
    Window,       \* ipv6Window: outcomes remembered
    Strikes,      \* ipv6Strikes: failures among them that pause the gate
    PauseMin,     \* ipv6PauseMin
    PauseMax,     \* ipv6PauseMax
    AttemptMax,   \* longest attempt, ipv6PageAttemptTimeout
    ProbeWindow   \* ipv6PageAttemptTimeout*2

ASSUME GateAssumption ==
    /\ Window \in Nat \ {0}
    /\ Strikes \in 1 .. Window
    /\ PauseMin \in Nat \ {0}
    /\ PauseMax \in Nat /\ PauseMin <= PauseMax
    /\ AttemptMax \in Nat \ {0}
    /\ ProbeWindow \in Nat

\* The source's figures: 1.5 s, 3 s and 2 min.
ASSUME TimingAssumption == AttemptMax < ProbeWindow /\ AttemptMax < PauseMin

VARIABLES
    recent,    \* g.recent
    next,      \* g.next
    failures,  \* g.failures
    paused,    \* g.until is set
    left,      \* until - now, 0 once passed
    pause,     \* g.pause
    probeAge,  \* now - g.probeAt, ProbeWindow when that long ago or zero
    attempt,   \* where each request is: idle, on IPv6, or on DC
    age,       \* how long its IPv6 attempt has run
    probe      \* history: the attempt was admitted while the gate was paused

gateVars == <<recent, next, failures, paused, left, pause, probeAge>>
vars == <<gateVars, attempt, age, probe>>

Slots == 0 .. Window - 1
\* g.probeAt is zero, or its probe is given up for lost.
NoProbe == ProbeWindow

-----------------------------------------------------------------------------
(* Mutants *)

\* A failure leaving the window stays counted.
RecordForgetsOld(failed) ==
    /\ recent' = [recent EXCEPT ![next] = failed]
    /\ failures' = failures + (IF failed THEN 1 ELSE 0)
    /\ next' = (next + 1) % Window

\* A pause that has run out admits everybody.
AllowAllAfterPause(r) ==
    /\ ~paused \/ left = 0
    /\ probeAge' = IF paused THEN 0 ELSE probeAge
    /\ UNCHANGED <<recent, next, failures, paused, left, pause>>

\* A probe that never reports keeps its place for ever.
AllowUnlessProbed(r) ==
    /\ ~paused \/ (left = 0 /\ probeAge = NoProbe)
    /\ probeAge' = IF paused THEN -1 ELSE probeAge
    /\ UNCHANGED <<recent, next, failures, paused, left, pause>>

\* fail does not tell stragglers from probes.
CountsEveryFailure == TRUE

-----------------------------------------------------------------------------
(* The gate's methods, each atomic under g.mu *)

Record(failed) ==
    /\ recent' = [recent EXCEPT ![next] = failed]
    /\ failures' = failures - (IF recent[next] THEN 1 ELSE 0) + (IF failed THEN 1 ELSE 0)
    /\ next' = (next + 1) % Window

Allow(r) ==
    /\ ~paused \/ (left = 0 /\ probeAge >= ProbeWindow)
    /\ probeAge' = IF paused THEN 0 ELSE probeAge
    /\ UNCHANGED <<recent, next, failures, paused, left, pause>>

GateRelease ==
    /\ probeAge' = NoProbe
    /\ UNCHANGED <<recent, next, failures, paused, left, pause>>

GateOk ==
    \/ /\ paused
       /\ recent' = [i \in Slots |-> FALSE]
       /\ next' = 0 /\ failures' = 0
       /\ paused' = FALSE /\ left' = 0 /\ pause' = 0
       /\ probeAge' = NoProbe
    \/ /\ ~paused
       /\ Record(FALSE)
       /\ UNCHANGED <<paused, left, pause, probeAge>>

TooFew(n) == n < Strikes
NextPause ==
    LET doubled == IF pause * 2 > PauseMin THEN pause * 2 ELSE PauseMin
    IN  IF doubled < PauseMax THEN doubled ELSE PauseMax

\* now.Before(g.until): a failure from before the pause is not counted.
CountsFailure == left = 0

GateFail ==
    \/ /\ ~CountsFailure
       /\ UNCHANGED gateVars
    \/ /\ CountsFailure
       /\ Record(TRUE)
       /\ \/ /\ ~paused /\ TooFew(failures')
             /\ UNCHANGED <<paused, left, pause, probeAge>>
          \/ /\ paused \/ ~TooFew(failures')
             /\ paused' = TRUE
             /\ pause' = NextPause
             /\ left' = NextPause
             /\ probeAge' = NoProbe

-----------------------------------------------------------------------------
(* fetchViaProxy *)

\* The gate admits the request to IPv6.
Attempt(r) ==
    /\ attempt[r] = "idle"
    /\ Allow(r)
    /\ attempt' = [attempt EXCEPT ![r] = "v6"]
    /\ age' = [age EXCEPT ![r] = 0]
    /\ probe' = [probe EXCEPT ![r] = paused]

\* The gate refuses, or EgressPercent sends the request to DC outright.
GoDC(r) ==
    /\ attempt[r] = "idle"
    /\ attempt' = [attempt EXCEPT ![r] = "dc"]
    /\ UNCHANGED <<gateVars, age, probe>>

Finish(r, to) ==
    /\ attempt[r] = "v6"
    /\ attempt' = [attempt EXCEPT ![r] = to]
    /\ probe' = [probe EXCEPT ![r] = FALSE]
    /\ age' = [age EXCEPT ![r] = 0]

\* The caller's context ended first, whatever came back.
CallerGone(r) == GateRelease /\ Finish(r, "idle")

\* An answer, or an error about the content; dcRecheck may ask DC again.
Answered(r) == GateOk /\ \E to \in {"idle", "dc"} : Finish(r, to)

\* The source is to blame: DC is next.
Failed(r) == GateFail /\ Finish(r, "dc")

\* The attempt panics; stagedFetch recovers, the gate is told nothing.
Panicked(r) == Finish(r, "idle") /\ UNCHANGED gateVars

ReturnDC(r) ==
    /\ attempt[r] = "dc"
    /\ attempt' = [attempt EXCEPT ![r] = "idle"]
    /\ UNCHANGED <<gateVars, age, probe>>

\* One tick; an attempt at its time limit ends before it.
Tick ==
    /\ \A r \in Requests : attempt[r] = "v6" => age[r] < AttemptMax
    /\ left' = IF left > 0 THEN left - 1 ELSE 0
    /\ probeAge' = IF 0 <= probeAge /\ probeAge < ProbeWindow THEN probeAge + 1 ELSE probeAge
    /\ age' = [r \in Requests |-> IF attempt[r] = "v6" THEN age[r] + 1 ELSE age[r]]
    /\ UNCHANGED <<recent, next, failures, paused, pause, attempt, probe>>

-----------------------------------------------------------------------------
Init ==
    /\ recent = [i \in Slots |-> FALSE]
    /\ next = 0
    /\ failures = 0
    /\ paused = FALSE
    /\ left = 0
    /\ pause = 0
    /\ probeAge = NoProbe
    /\ attempt = [r \in Requests |-> "idle"]
    /\ age = [r \in Requests |-> 0]
    /\ probe = [r \in Requests |-> FALSE]

Step(r) ==
    \/ Attempt(r) \/ GoDC(r)
    \/ CallerGone(r) \/ Answered(r) \/ Failed(r) \/ Panicked(r)
    \/ ReturnDC(r)

Next == Tick \/ \E r \in Requests : Step(r)

Spec == Init /\ [][Next]_vars

-----------------------------------------------------------------------------
(* Properties *)

TypeOK ==
    /\ recent \in [Slots -> BOOLEAN]
    /\ next \in Slots
    /\ failures \in 0 .. Window
    /\ paused \in BOOLEAN
    /\ left \in 0 .. PauseMax
    /\ pause \in 0 .. PauseMax
    /\ probeAge \in 0 .. ProbeWindow
    /\ attempt \in [Requests -> {"idle", "v6", "dc"}]
    /\ age \in [Requests -> 0 .. AttemptMax]
    /\ probe \in [Requests -> BOOLEAN]

\* The running count agrees with the window it summarises, whatever order
\* concurrent attempts report in, and a gate that is open has seen fewer
\* failures in its window than it takes to pause it.
FailuresCounted ==
    /\ failures = Cardinality({i \in Slots : recent[i]})
    /\ ~paused => failures < Strikes

\* While the gate is paused, one request at a time tests the egress: neither a
\* straggler's release nor a lost probe lets a second one in beside it.
Probing(r) == attempt[r] = "v6" /\ probe[r]
OneProbe == \A r, s \in Requests : Probing(r) /\ Probing(s) => r = s

\* Only the failure of a probe lengthens a pause: attempts begun before it, all
\* failing together, do not push the back-off up.
OnlyProbesLengthenPause ==
    [][paused /\ pause' > pause
       => \E r \in Requests : Probing(r) /\ attempt'[r] = "dc"]_vars

\* No pause is for ever: while requests keep coming, a paused gate is tried
\* again, even when a probe is lost without a report.
PausedGateIsProbed == paused ~> (~paused \/ \E r \in Requests : Probing(r))

=============================================================================
