-------------------------- MODULE PostLookupProofs --------------------------
(***************************************************************************)
(* What PostLookup's runs check of its safety, for any number of lookups    *)
(* and of helper slots: the types, hiddenPost's count, the helper slots,    *)
(* the long verdicts and the gate notices.                                  *)
(*                                                                         *)
(* PostInv is the inductive invariant.  Each of its parts is kept by a      *)
(* lemma of its own, a section each: the phases, the helper slots, the      *)
(* race, hiddenPost's count, the verdicts and the notices.  Every section   *)
(* first states what a step may do to its variables, then that its part     *)
(* survives that.                                                           *)
(***************************************************************************)
EXTENDS PostLookup, FiniteSetTheorems, TLAPS

\* One lookup of the shortcode at a time.
OneActive == \A f, g \in Lookups : Active(f) /\ Active(g) => f = g

\* hiddenPost's channels exist while it runs; oEmbed answers before the rest.
ChannelsLocal ==
    \A f \in Lookups :
        /\ phase[f] # "hidden" =>
              oe[f] = "none" /\ pending[f] = 0 /\ \A c \in Channels : chase[f][c] = "none"
        /\ oe[f] = "running" => \A c \in Channels : chase[f][c] = "none"

\* A helper is kept only as its lookup returns.
Holders == {f \in Lookups : keep[f] \in {"kept", "wait", "put"}}
KeptOnReturn ==
    /\ \A f \in Lookups : phase[f] \in {"new", "race", "hidden", "oembed"} => keep[f] = "none"
    /\ IsFiniteSet(Holders)

\* What a lookup is about to answer is an answer, and a long one has asked.
VerdictsAsked ==
    \A f \in Lookups :
        /\ phase[f] = "oembed" => lastErr[f] \in Errors
        /\ phase[f] = "returned" => verdict[f] \in Verdicts
        /\ verdict[f] \in {"gateLong", "partialLong"} => ~ build.helper \/ HelperAsked(f)

\* The notice is that of the lookup under way, once it has published one.
NoticeCurrent ==
    \A f \in Lookups :
        /\ phase[f] = "new" => timer[f] = "none"
        /\ timer[f] = "armed" /\ Active(f) => notice = f

\* The inductive invariant.
PostInv ==
    /\ TypeOK /\ OneActive /\ ChannelsLocal /\ PendingExact
    /\ KeptOnReturn /\ HelperSlotsExact
    /\ VerdictsAsked /\ LongAnswersAskHelper
    /\ NoticeCurrent /\ GateReachesCaller

-----------------------------------------------------------------------------
(* The phases *)

\* The phases of a lookup; those of a running one.
Phases == {"new", "race", "hidden", "oembed", "returned", "done"}
Running == {"race", "hidden", "oembed"}

\* Where a step may take a lookup.
Advance(p, q) ==
    \/ q = p
    \/ p = "new" /\ q = "race"
    \/ p = "race" /\ q \in {"hidden", "oembed"}
    \/ p \in Running /\ q = "returned"
    \/ p = "returned" /\ q = "done"

\* A step moves a lookup along its phases only, and starts one only when none
\* is active.
LEMMA PhasesAdvance ==
    ASSUME TypeOK, OneActive, [Next]_vars
    PROVE  /\ phase' \in [Lookups -> Phases]
           /\ \A g \in Lookups : Advance(phase[g], phase'[g])
           /\ OneActive'
<1> USE DEF TypeOK, Phases, Running, Advance
<1>1. ASSUME phase' = phase
      PROVE  /\ phase' \in [Lookups -> Phases] /\ \A g \in Lookups : Advance(phase[g], phase'[g])
             /\ OneActive'
  BY <1>1 DEF OneActive, Active
<1>2. ASSUME NEW f \in Lookups, NEW q \in Phases, phase' = [phase EXCEPT ![f] = q],
             Advance(phase[f], q), phase[f] # "new"
      PROVE  /\ phase' \in [Lookups -> Phases] /\ \A g \in Lookups : Advance(phase[g], phase'[g])
             /\ OneActive'
  <2>1. \A g \in Lookups : phase'[g] = IF g = f THEN q ELSE phase[g]
    BY <1>2
  <2>2. \A g \in Lookups : Active(g)' => Active(g)
    BY <1>2, <2>1 DEF Active
  <2>3. OneActive'
    BY <2>2 DEF OneActive
  <2> QED BY <1>2, <2>1, <2>3
<1>3. ASSUME NEW f \in Lookups, Begin(f)
      PROVE  /\ phase' \in [Lookups -> Phases] /\ \A g \in Lookups : Advance(phase[g], phase'[g])
             /\ OneActive'
  <2>1. \A g \in Lookups : phase'[g] = (IF g = f THEN "race" ELSE phase[g]) /\ ~ Active(g)
    BY <1>3 DEF Begin
  <2> QED BY <1>3, <2>1 DEF OneActive, Active, Begin
<1>4. ASSUME NEW f \in Lookups, RaceStep(f) \/ HiddenStep(f) \/ Publish(f)
      PROVE  \/ phase' = phase
             \/ phase[f] # "new" /\ \E q \in Phases : /\ Advance(phase[f], q)
                                                      /\ phase' = [phase EXCEPT ![f] = q]
  <2>1. CASE RaceStep(f)
    BY <2>1 DEF RaceStep, ReadResult, CutRace, LastResort, NoWinner, Return
  <2>2. CASE HiddenStep(f)
    BY <2>2 DEF HiddenStep, ReadHelper, ReadOembed, ReadNothing, ReadCard, ReadPost, ReadMissing,
                Settle, CutHidden, Leave, Return, Listening
  <2>3. CASE Publish(f)
    BY <2>3 DEF Publish
  <2> QED BY <1>4, <2>1, <2>2, <2>3
<1>7. ASSUME NEW f \in Lookups,
             \/ Hedge(f) \/ GraphqlHidden(f) \/ HelperReturns(f) \/ KeepStep(f)
             \/ Deadline(f) \/ NoticeTimer(f) \/ CallerEnds(f)
      PROVE  phase' = phase
  BY <1>7 DEF Hedge, GraphqlHidden, HelperReturns, HelperFinish, KeepStep, KeepLook, KeepWait,
              KeepPut, Deadline, NoticeTimer, CallerEnds
<1>8. ASSUME DropEntry \/ DropCard \/ UNCHANGED vars
      PROVE  phase' = phase
  BY <1>8 DEF DropEntry, DropCard, vars
<1> HIDE DEF Advance, Phases
<1> QED BY <1>1, <1>2, <1>3, <1>4, <1>7, <1>8 DEF Next

-----------------------------------------------------------------------------
(* The helper slots *)

\* The states of keepAfterFlight's goroutine.
KeepStates == {"none", "kept", "wait", "put", "end"}

\* A goroutine takes its slot.
LEMMA HolderAdded ==
    ASSUME KeptOnReturn, keep \in [Lookups -> KeepStates],
           NEW f \in Lookups, keep[f] = "none", keep' = [keep EXCEPT ![f] = "kept"]
    PROVE  /\ IsFiniteSet(Holders') /\ Cardinality(Holders') = Cardinality(Holders) + 1
           /\ Cardinality(Holders) \in Nat
<1>1. Holders' = Holders \cup {f} /\ f \notin Holders
  BY DEF Holders, KeepStates
<1> QED BY <1>1, FS_AddElement, FS_CardinalityType DEF KeptOnReturn

\* It gives it back.
LEMMA HolderRemoved ==
    ASSUME KeptOnReturn, keep \in [Lookups -> KeepStates],
           NEW f \in Holders, keep' = [keep EXCEPT ![f] = "end"]
    PROVE  /\ IsFiniteSet(Holders') /\ Cardinality(Holders') = Cardinality(Holders) - 1
           /\ Cardinality(Holders) \in Nat /\ Cardinality(Holders') \in Nat
<1>1. Holders' = Holders \ {f}
  BY DEF Holders, KeepStates
<1> QED BY <1>1, FS_RemoveElement, FS_CardinalityType DEF KeptOnReturn

\* keepAfterFlight and the goroutine it starts.
LEMMA KeepChanges ==
    ASSUME TypeOK, [Next]_vars
    PROVE  \/ UNCHANGED <<keep, slots>>
           \/ \E f \in Lookups :
                 \/ KeepStep(f)
                 \/ /\ phase[f] \in Running /\ phase' = [phase EXCEPT ![f] = "returned"]
                    /\ \E gone \in BOOLEAN : KeepAfterFlight(f, gone)
<1> USE DEF Running
<1>1. ASSUME NEW f \in Lookups, RaceStep(f)
      PROVE  \/ UNCHANGED <<keep, slots>>
             \/ /\ phase[f] \in Running /\ phase' = [phase EXCEPT ![f] = "returned"]
                /\ KeepAfterFlight(f, FALSE)
  BY <1>1 DEF RaceStep, ReadResult, CutRace, LastResort, NoWinner, Return, Deferred, keepVars
<1>2. ASSUME NEW f \in Lookups, HiddenStep(f)
      PROVE  \/ UNCHANGED <<keep, slots>>
             \/ /\ phase[f] \in Running /\ phase' = [phase EXCEPT ![f] = "returned"]
                /\ \E gone \in BOOLEAN : KeepAfterFlight(f, gone)
  BY <1>2 DEF HiddenStep, ReadHelper, ReadOembed, ReadNothing, ReadCard, ReadPost, ReadMissing,
              Settle, CutHidden, Leave, Return, Listening, Deferred, keepVars
<1>3. ASSUME NEW f \in Lookups,
             \/ Begin(f) \/ Hedge(f) \/ GraphqlHidden(f) \/ HelperReturns(f)
             \/ Publish(f) \/ Deadline(f) \/ NoticeTimer(f) \/ CallerEnds(f)
      PROVE  UNCHANGED <<keep, slots>>
  BY <1>3 DEF Begin, Hedge, GraphqlHidden, HelperReturns, HelperFinish, Publish, Deadline,
              NoticeTimer, CallerEnds, keepVars
<1>4. ASSUME DropEntry \/ DropCard \/ UNCHANGED vars
      PROVE  UNCHANGED <<keep, slots>>
  BY <1>4 DEF DropEntry, DropCard, vars, keepVars
<1> QED BY <1>1, <1>2, <1>3, <1>4 DEF Next

\* The helper slots stay counted: keepAfterFlight takes one as the lookup
\* returns, the goroutine gives it back as it ends.
LEMMA SlotsKeep ==
    ASSUME PostInv, [Next]_vars
    PROVE  /\ keep' \in [Lookups -> KeepStates] /\ slots' \in 0 .. HelperSlots
           /\ KeptOnReturn' /\ HelperSlotsExact'
<1> DEFINE Goal == /\ keep' \in [Lookups -> KeepStates] /\ slots' \in 0 .. HelperSlots
                   /\ KeptOnReturn' /\ HelperSlotsExact'
<1>1. /\ keep \in [Lookups -> KeepStates] /\ slots \in 0 .. HelperSlots /\ HelperSlots \in Nat
      /\ KeptOnReturn /\ slots = Cardinality(Holders)
  BY HelperSlotsAssumption DEF PostInv, TypeOK, HelperSlotsExact, Holders, KeepStates
<1>2. /\ \A g \in Lookups : Advance(phase[g], phase'[g])
      /\ phase \in [Lookups -> Phases]
  BY PhasesAdvance DEF PostInv, TypeOK, Phases
<1>3. CASE UNCHANGED <<keep, slots>>
  BY <1>1, <1>2, <1>3 DEF KeptOnReturn, HelperSlotsExact, Holders, Advance, Running
<1>4. ASSUME NEW f \in Lookups, KeepStep(f)
      PROVE  Goal
  <2>1. phase' = phase
    BY <1>4 DEF KeepStep, KeepLook, KeepWait, KeepPut
  <2>2. f \in Holders
    BY <1>4 DEF KeepStep, KeepLook, KeepWait, KeepPut, Holders
  <2>3. CASE KeepEnds(f)
    <3>1. keep' = [keep EXCEPT ![f] = "end"] /\ slots' = slots - 1
      BY <2>3 DEF KeepEnds
    <3>2. /\ IsFiniteSet(Holders') /\ Cardinality(Holders') = Cardinality(Holders) - 1
          /\ Cardinality(Holders') \in Nat
      BY <1>1, <2>2, <3>1, HolderRemoved
    <3>3. slots' = Cardinality(Holders') /\ slots' \in 0 .. HelperSlots
      BY <1>1, <3>1, <3>2
    <3> QED BY <1>1, <2>1, <2>2, <3>1, <3>2, <3>3
               DEF KeptOnReturn, HelperSlotsExact, Holders, KeepStates
  <2>4. CASE slots' = slots /\ \E q \in {"wait", "put"} : keep' = [keep EXCEPT ![f] = q]
    <3>1. Holders' = Holders
      BY <1>1, <2>2, <2>4 DEF Holders, KeepStates
    <3> QED BY <1>1, <2>1, <2>2, <2>4, <3>1 DEF KeptOnReturn, HelperSlotsExact, Holders, KeepStates
  <2> QED BY <1>4, <2>3, <2>4 DEF KeepStep, KeepLook, KeepWait, KeepPut
<1>5. ASSUME NEW f \in Lookups, phase[f] \in Running, phase' = [phase EXCEPT ![f] = "returned"],
             NEW gone, KeepAfterFlight(f, gone)
      PROVE  Goal
  <2>1. keep[f] = "none"
    BY <1>1, <1>5 DEF KeptOnReturn, Running
  <2>2. CASE slots < HelperSlots /\ slots' = slots + 1 /\ keep' = [keep EXCEPT ![f] = "kept"]
    <3>1. IsFiniteSet(Holders') /\ Cardinality(Holders') = Cardinality(Holders) + 1
      BY <1>1, <2>1, <2>2, HolderAdded
    <3>2. slots' = Cardinality(Holders') /\ slots' \in 0 .. HelperSlots
      BY <1>1, <2>2, <3>1
    <3> QED BY <1>1, <1>2, <1>5, <2>2, <3>1, <3>2
               DEF KeptOnReturn, HelperSlotsExact, Holders, KeepStates
  <2> QED BY <1>3, <1>5, <2>2 DEF KeepAfterFlight
<1> QED BY <1>3, <1>4, <1>5, KeepChanges DEF PostInv

-----------------------------------------------------------------------------
(* The race *)

\* The states of a source, and of the helper's call.
SourceStates == {"idle", "running", "final", "read"}
HelperStates == HelperFailures \cup {"none", "running", "post"}

\* The helper's call, once it has begun, only ends.
HelperMoves ==
    /\ helper' \in [Lookups -> HelperStates]
    /\ \A g \in Lookups : helper'[g] = helper[g] \/ helper[g] \in {"none", "running"}

\* Starting the helper leaves a call already under way, or over, alone.
LEMMA HelperStarts ==
    ASSUME TypeOK, NEW f \in Lookups, helper' = helper \/ helper' = HelperStarted(f)
    PROVE  HelperMoves
<1>1. helper \in [Lookups -> HelperStates]
  BY DEF TypeOK, HelperStates
<1>2. CASE helper' = helper
  BY <1>1, <1>2 DEF HelperMoves
<1>3. CASE helper' = HelperStarted(f)
  <2>1. helper' = [helper EXCEPT ![f] = IF helper[f] = "none" THEN "running" ELSE helper[f]]
    BY <1>3 DEF HelperStarted
  <2> QED BY <1>1, <2>1 DEF HelperMoves, HelperStates
<1> QED BY <1>2, <1>3

\* The next source.
LEMMA StartNextMoves ==
    ASSUME TypeOK, NEW f \in Lookups, NEW sources \in [Sources -> SourceStates],
           StartNext(f, sources)
    PROVE  /\ src' \in [Lookups -> [Sources -> SourceStates]]
           /\ started' \in [Lookups -> 0 .. 3]
           /\ HelperMoves
<1>1. src \in [Lookups -> [Sources -> SourceStates]] /\ started \in [Lookups -> 0 .. 3]
  BY DEF TypeOK, SourceStates
<1>2. CASE started[f] < Last /\ ~ cut[f]
  <2>1. started[f] + 1 \in 1 .. 3
    BY <1>1, <1>2 DEF Last
  <2>2. PICK s \in Sources :
            /\ src' = [src EXCEPT ![f] = [sources EXCEPT ![s] = "running"]]
            /\ started' = [started EXCEPT ![f] = @ + 1]
            /\ helper' = IF s = "helper" THEN HelperStarted(f) ELSE helper
    <3>1. Order[started[f] + 1] \in Sources
      BY <2>1 DEF Order, Sources
    <3> QED BY <1>2, <3>1 DEF StartNext
  <2>3. [sources EXCEPT ![s] = "running"] \in [Sources -> SourceStates]
    BY DEF SourceStates
  <2> QED BY <1>1, <2>1, <2>2, <2>3, HelperStarts
<1>3. CASE ~ (started[f] < Last /\ ~ cut[f])
  BY <1>1, <1>3, HelperStarts DEF StartNext
<1> QED BY <1>2, <1>3

\* The end of the race leaves its sources typed.
LEMMA RaceOverMoves ==
    ASSUME TypeOK, NEW f \in Lookups, RaceOver(f)
    PROVE  /\ src' \in [Lookups -> [Sources -> SourceStates]]
           /\ started' \in [Lookups -> 0 .. 3]
<1> DEFINE over == [s \in Sources |->
                        IF s = "graphql" /\ src[f][s] = "running" THEN "running" ELSE "read"]
<1>1. over \in [Sources -> SourceStates]
  BY DEF SourceStates
<1>2. src' = [src EXCEPT ![f] = over] /\ started' = [started EXCEPT ![f] = 0]
  BY DEF RaceOver
<1> HIDE DEF over
<1> QED BY <1>1, <1>2 DEF TypeOK, SourceStates

\* The error the race would end in is one, once there is one.
LEMMA ErrorPreferred ==
    ASSUME NEW e \in Errors \cup {"none"}, NEW r \in Errors
    PROVE  PreferredError(e, r) \in Errors
BY DEF PreferredError, Rank, Errors

\* Of each lookup's race, helper and deadline.
RaceMoves ==
    /\ src' \in [Lookups -> [Sources -> SourceStates]] /\ started' \in [Lookups -> 0 .. 3]
    /\ cut' \in [Lookups -> BOOLEAN] /\ hidden' \in [Lookups -> BOOLEAN]
    /\ lastErr' \in [Lookups -> Errors \cup {"none"}]
    /\ \A g \in Lookups : phase'[g] = "oembed" => lastErr'[g] \in Errors
    /\ HelperMoves /\ cancelled' \in [Lookups -> BOOLEAN] /\ build' = build

\* fetchPost's return cancels the helper, or not.
LEMMA ReturnMoves ==
    ASSUME TypeOK, NEW f \in Lookups, NEW v, NEW gone \in BOOLEAN, Return(f, v, gone)
    PROVE  cancelled' \in [Lookups -> BOOLEAN]
<1>1. cancelled \in [Lookups -> BOOLEAN] /\ (cancelled[f] \/ gone) \in BOOLEAN
  BY DEF TypeOK
<1>2. \/ cancelled' = [cancelled EXCEPT ![f] = TRUE]
      \/ cancelled' = [cancelled EXCEPT ![f] = cancelled[f] \/ gone]
  BY DEF Return, Deferred, KeepAfterFlight, Cancel
<1> QED BY <1>1, <1>2

\* A race without a winner goes on to the hidden post, or to oEmbed with an
\* error.
LEMMA NoWinnerMoves ==
    ASSUME TypeOK, VerdictsAsked, NEW f \in Lookups, NEW err \in Errors, NoWinner(f, err),
           UNCHANGED <<build, cut, hidden>>
    PROVE  RaceMoves
<1>1. /\ RaceOver(f) /\ lastErr' = [lastErr EXCEPT ![f] = err] /\ cancelled' = cancelled
      /\ helper' = helper \/ helper' = HelperStarted(f)
      /\ \E q \in {"hidden", "oembed"} : phase' = [phase EXCEPT ![f] = q]
  BY DEF NoWinner
<1>2. HelperMoves
  BY <1>1, HelperStarts
<1>3. /\ lastErr' \in [Lookups -> Errors \cup {"none"}]
      /\ \A g \in Lookups : phase'[g] = "oembed" => lastErr'[g] \in Errors
  BY <1>1 DEF TypeOK, VerdictsAsked
<1> QED BY <1>1, <1>2, <1>3, RaceOverMoves DEF TypeOK, RaceMoves

\* Every step moves the race, the helper and the deadline as RaceMoves says.
LEMMA RaceKeeps ==
    ASSUME PostInv, [Next]_vars
    PROVE  RaceMoves
<1> USE DEF PostInv, raceVars, helperVars
<1>1. /\ src \in [Lookups -> [Sources -> SourceStates]] /\ started \in [Lookups -> 0 .. 3]
      /\ cut \in [Lookups -> BOOLEAN] /\ hidden \in [Lookups -> BOOLEAN]
      /\ lastErr \in [Lookups -> Errors \cup {"none"}]
      /\ cancelled \in [Lookups -> BOOLEAN] /\ helper \in [Lookups -> HelperStates]
      /\ phase \in [Lookups -> Phases]
  BY DEF TypeOK, SourceStates, HelperStates, Phases
<1>2. ASSUME UNCHANGED <<src, started, lastErr, helper, cancelled, build, hidden>>,
             cut' \in [Lookups -> BOOLEAN],
             \/ phase' = phase
             \/ \E f \in Lookups, q \in {"race", "returned"} : phase' = [phase EXCEPT ![f] = q]
      PROVE  RaceMoves
  BY <1>1, <1>2 DEF RaceMoves, HelperMoves, VerdictsAsked
<1>3. ASSUME NEW f \in Lookups, Begin(f)
      PROVE  RaceMoves
  <2>1. /\ src' = [src EXCEPT ![f].graphql = "running"] /\ started' = [started EXCEPT ![f] = 1]
        /\ UNCHANGED <<lastErr, helper, cancelled, build, hidden, cut>>
        /\ phase' = [phase EXCEPT ![f] = "race"]
    BY <1>3 DEF Begin
  <2>2. [src[f] EXCEPT !.graphql = "running"] \in [Sources -> SourceStates]
    BY <1>1 DEF SourceStates
  <2>3. src' \in [Lookups -> [Sources -> SourceStates]] /\ started' \in [Lookups -> 0 .. 3]
    BY <1>1, <2>1, <2>2
  <2> QED BY <1>1, <2>1, <2>3 DEF RaceMoves, HelperMoves, VerdictsAsked
<1>4. ASSUME NEW f \in Lookups, Hedge(f)
      PROVE  RaceMoves
  <2>1. UNCHANGED <<lastErr, cancelled, build, hidden, cut, phase>> /\ StartNext(f, src[f])
    BY <1>4 DEF Hedge
  <2> QED BY <1>1, <2>1, StartNextMoves DEF RaceMoves, VerdictsAsked
<1>5. ASSUME NEW f \in Lookups, GraphqlHidden(f)
      PROVE  RaceMoves
  <2>1. /\ UNCHANGED <<started, lastErr, helper, cancelled, build, cut, phase>>
        /\ hidden' = [hidden EXCEPT ![f] = TRUE]
        /\ \E q \in {"final", "read"} : src' = [src EXCEPT ![f].graphql = q]
    BY <1>5 DEF GraphqlHidden
  <2>2. src' \in [Lookups -> [Sources -> SourceStates]]
    <3>1. PICK q \in {"final", "read"} : src' = [src EXCEPT ![f].graphql = q]
      BY <2>1
    <3>2. [src[f] EXCEPT !.graphql = q] \in [Sources -> SourceStates]
      BY <1>1 DEF SourceStates
    <3> QED BY <1>1, <3>1, <3>2
  <2> QED BY <1>1, <2>1, <2>2 DEF RaceMoves, HelperMoves, VerdictsAsked
<1>6. ASSUME NEW f \in Lookups, NEW s \in Sources, NEW r \in Results, ReadResult(f, s, r)
      PROVE  RaceMoves
  <2> DEFINE rest == [src[f] EXCEPT ![s] = "read"]
  <2>1. rest \in [Sources -> SourceStates]
    BY <1>1 DEF SourceStates
  <2>2. UNCHANGED <<build, cut, hidden>>
    BY <1>6 DEF ReadResult
  <2>3. CASE r = "post" /\ Return(f, "post", FALSE) /\ RaceOver(f) /\ UNCHANGED <<lastErr, helper>>
    <3>1. phase' = [phase EXCEPT ![f] = "returned"]
      BY <2>3 DEF Return
    <3> QED BY <1>1, <2>2, <2>3, <3>1, RaceOverMoves, ReturnMoves, HelperStarts
               DEF RaceMoves, VerdictsAsked
  <2>4. CASE \E err \in Errors : NoWinner(f, err)
    BY <2>2, <2>4, NoWinnerMoves
  <2>5. CASE /\ r \in Errors /\ StartNext(f, rest) /\ UNCHANGED <<phase, cancelled>>
             /\ lastErr' = [lastErr EXCEPT ![f] = PreferredError(lastErr[f], r)]
    <3>1. PreferredError(lastErr[f], r) \in Errors
      BY <1>1, <2>5, ErrorPreferred
    <3> HIDE DEF rest
    <3> QED BY <1>1, <2>1, <2>2, <2>5, <3>1, StartNextMoves DEF RaceMoves, VerdictsAsked
  <2>6. r \in Errors => PreferredError(lastErr[f], r) \in Errors
    BY <1>1, ErrorPreferred
  <2> QED BY <1>6, <2>3, <2>4, <2>5, <2>6 DEF ReadResult, Errors
<1>7. ASSUME NEW f \in Lookups, CutRace(f)
      PROVE  RaceMoves
  BY <1>7, NoWinnerMoves DEF CutRace, Errors
<1>8. ASSUME NEW f \in Lookups, NEW o \in OembedAnswers, LastResort(f, o)
      PROVE  RaceMoves
  <2>1. /\ RaceOver(f) /\ UNCHANGED <<build, cut, lastErr, hidden, helper>>
        /\ \E v : Return(f, v, FALSE)
    BY <1>8 DEF LastResort
  <2>2. phase' = [phase EXCEPT ![f] = "returned"]
    BY <2>1 DEF Return
  <2> QED BY <1>1, <2>1, <2>2, RaceOverMoves, ReturnMoves, HelperStarts
             DEF RaceMoves, VerdictsAsked
<1>9. ASSUME NEW f \in Lookups, HiddenStep(f)
      PROVE  RaceMoves
  <2>1. /\ UNCHANGED <<build, cut, src, started, lastErr, hidden, helper>>
        /\ \/ phase' = phase /\ cancelled' = cancelled
           \/ \E v : Return(f, v, FALSE)
           \/ \E v : Return(f, v, TRUE)
    BY <1>9 DEF HiddenStep, ReadHelper, ReadOembed, ReadNothing, ReadCard, ReadPost, ReadMissing,
                Settle, CutHidden, Leave
  <2>2. ASSUME NEW v, NEW gone \in BOOLEAN, Return(f, v, gone)
        PROVE  RaceMoves
    <3>1. phase' = [phase EXCEPT ![f] = "returned"]
      BY <2>2 DEF Return
    <3> QED BY <1>1, <2>1, <2>2, <3>1, ReturnMoves, HelperStarts DEF RaceMoves, VerdictsAsked
  <2> QED BY <1>1, <1>2, <2>1, <2>2
<1>10. ASSUME NEW f \in Lookups, HelperReturns(f)
       PROVE  RaceMoves
  <2>1. /\ UNCHANGED <<src, started, lastErr, cancelled, build, hidden, cut, phase>>
        /\ helper[f] = "running" /\ \E o \in HelperStates : helper' = [helper EXCEPT ![f] = o]
    BY <1>10 DEF HelperReturns, HelperFinish, HelperStates
  <2>2. HelperMoves
    BY <1>1, <2>1 DEF HelperMoves
  <2> QED BY <1>1, <2>1, <2>2 DEF RaceMoves, VerdictsAsked
<1>11. ASSUME NEW f \in Lookups, Publish(f)
       PROVE  RaceMoves
  <2>1. /\ UNCHANGED <<build, started, helper, cancelled>>
        /\ phase' = [phase EXCEPT ![f] = "done"] /\ cut' = [cut EXCEPT ![f] = FALSE]
        /\ hidden' = [hidden EXCEPT ![f] = FALSE] /\ lastErr' = [lastErr EXCEPT ![f] = "none"]
        /\ src' = [src EXCEPT ![f] = [s \in Sources |-> "read"]]
    BY <1>11 DEF Publish
  <2>2. [s \in Sources |-> "read"] \in [Sources -> SourceStates]
    BY DEF SourceStates
  <2>3. src' \in [Lookups -> [Sources -> SourceStates]]
    BY <1>1, <2>1, <2>2
  <2> QED BY <1>1, <2>1, <2>3 DEF RaceMoves, HelperMoves, VerdictsAsked
<1>12. ASSUME NEW f \in Lookups, KeepStep(f) \/ Deadline(f) \/ NoticeTimer(f) \/ CallerEnds(f)
       PROVE  RaceMoves
  <2>1. /\ UNCHANGED <<src, started, lastErr, helper, cancelled, build, hidden, phase>>
        /\ cut' = cut \/ cut' = [cut EXCEPT ![f] = TRUE]
    BY <1>12 DEF KeepStep, KeepLook, KeepWait, KeepPut, Deadline, NoticeTimer, CallerEnds
  <2> QED BY <1>1, <1>2, <2>1
<1>13. ASSUME DropEntry \/ DropCard \/ UNCHANGED vars
       PROVE  RaceMoves
  BY <1>1, <1>2, <1>13 DEF DropEntry, DropCard, vars
<1> QED BY <1>3, <1>4, <1>5, <1>6, <1>7, <1>8, <1>9, <1>10, <1>11, <1>12, <1>13
           DEF Next, RaceStep

-----------------------------------------------------------------------------
(* hiddenPost's count *)

\* The follow-ups still out.
Out(g) == {c \in Channels : chase[g][c] = "running"}

\* There are three follow-up channels, so at most three follow-ups.
LEMMA ThreeChannels ==
    /\ IsFiniteSet(Channels) /\ Cardinality(Channels) = 3
    /\ \A F \in SUBSET Channels : IsFiniteSet(F) /\ Cardinality(F) \in 0 .. 3
<1>1. IsFiniteSet({}) /\ Cardinality({}) = 0
  BY FS_EmptySet
<1>2. IsFiniteSet({"og"}) /\ Cardinality({"og"}) = 1
  <2>1. {"og"} = {} \cup {"og"} /\ "og" \notin {}
    OBVIOUS
  <2> QED BY <1>1, <2>1, FS_AddElement
<1>3. IsFiniteSet({"og", "dc"}) /\ Cardinality({"og", "dc"}) = 2
  <2>1. {"og", "dc"} = {"og"} \cup {"dc"} /\ "dc" \notin {"og"}
    OBVIOUS
  <2> QED BY <1>2, <2>1, FS_AddElement
<1>4. IsFiniteSet(Channels) /\ Cardinality(Channels) = 3
  <2>1. Channels = {"og", "dc"} \cup {"ruling"} /\ "ruling" \notin {"og", "dc"}
    BY DEF Channels
  <2> QED BY <1>3, <2>1, FS_AddElement
<1>5. ASSUME NEW F \in SUBSET Channels
      PROVE  IsFiniteSet(F) /\ Cardinality(F) \in 0 .. 3
  <2>1. IsFiniteSet(F) /\ Cardinality(F) <= 3
    BY <1>4, FS_Subset
  <2>2. Cardinality(F) \in Nat
    BY <2>1, FS_CardinalityType
  <2> QED BY <2>1, <2>2
<1> QED BY <1>4, <1>5

\* hiddenPost's channels and what it has read from them.
ChaseTypes ==
    /\ oe \in [Lookups -> {"none", "running", "read"}]
    /\ chase \in [Lookups -> [Channels -> {"none", "running", "read"}]]
    /\ pending \in [Lookups -> 0 .. 4]
    /\ seen \in [Lookups -> OembedAnswers \cup {"none"}]
    /\ gotOG \in [Lookups -> BOOLEAN] /\ helperErr \in [Lookups -> BOOLEAN]

\* PendingExact, of one lookup.
CountExact(g) ==
    phase[g] = "hidden" => pending[g] = (IF oe[g] = "running" THEN 1 ELSE 0) + Cardinality(Out(g))

\* The part of the invariant about hiddenPost.
ChaseKept == ChaseTypes /\ ChannelsLocal /\ \A g \in Lookups : CountExact(g)

\* The invariant has ChaseKept, and ChaseKept the count.
LEMMA ChaseHolds ==
    /\ PostInv => ChaseKept
    /\ TypeOK => (1 + Cardinality(Channels) = 4)
    /\ ChaseKept => PendingExact
<1>1. 1 + Cardinality(Channels) = 4
  BY ThreeChannels
<1> QED BY <1>1 DEF PostInv, TypeOK, PendingExact, ChaseKept, ChaseTypes, CountExact, Out

\* What a step leaves alone counts as before.
LEMMA CountStays ==
    ASSUME NEW g, CountExact(g), oe'[g] = oe[g], chase'[g] = chase[g], pending'[g] = pending[g],
           phase'[g] = "hidden" => phase[g] = "hidden"
    PROVE  CountExact(g)'
<1>1. Out(g)' = Out(g)
  BY DEF Out
<1> QED BY <1>1 DEF CountExact

\* A follow-up that has been read is counted off.
LEMMA CountedOff ==
    ASSUME ChaseKept, NEW f \in Lookups, NEW c \in Channels, Listening(f), chase[f][c] = "running",
           chase' = [chase EXCEPT ![f][c] = "read"], pending' = [pending EXCEPT ![f] = @ - 1],
           UNCHANGED <<phase, oe, seen, helperErr>>, gotOG' \in [Lookups -> BOOLEAN]
    PROVE  ChaseKept'
<1> USE DEF ChaseKept
<1>1. /\ chase' = [chase EXCEPT ![f] = [chase[f] EXCEPT ![c] = "read"]]
      /\ [chase[f] EXCEPT ![c] = "read"] \in [Channels -> {"none", "running", "read"}]
  BY DEF ChaseTypes
<1>2. \A g \in Lookups : g # f => chase'[g] = chase[g] /\ pending'[g] = pending[g]
  BY <1>1 DEF ChaseTypes
<1>3. phase[f] = "hidden" /\ oe[f] # "running"
  BY DEF Listening, ChannelsLocal
<1>4. Out(f)' = Out(f) \ {c} /\ c \in Out(f) /\ Out(f) \in SUBSET Channels
  BY <1>1 DEF Out, ChaseTypes
<1>5. Cardinality(Out(f)') = Cardinality(Out(f)) - 1 /\ Cardinality(Out(f)) \in 0 .. 3
      /\ Cardinality(Out(f)') \in 0 .. 3
  <2>1. IsFiniteSet(Out(f)) /\ Cardinality(Out(f)) \in 0 .. 3 /\ Out(f)' \in SUBSET Channels
    BY <1>4, ThreeChannels
  <2> QED BY <1>4, <2>1, ThreeChannels, FS_RemoveElement
<1>6. pending[f] = Cardinality(Out(f)) /\ pending'[f] = Cardinality(Out(f)')
  <2>1. pending[f] = 0 + Cardinality(Out(f))
    BY <1>3 DEF CountExact
  <2>2. pending'[f] = pending[f] - 1
    BY DEF ChaseTypes
  <2> QED BY <1>5, <2>1, <2>2
<1>7. ChaseTypes'
  <2>1. pending' \in [Lookups -> 0 .. 4]
    <3>1. pending[f] - 1 \in 0 .. 4
      BY <1>5, <1>6
    <3> QED BY <3>1 DEF ChaseTypes
  <2> QED BY <1>1, <2>1 DEF ChaseTypes
<1>8. ChannelsLocal'
  BY <1>2, <1>3 DEF ChannelsLocal
<1>9. CountExact(f)'
  BY <1>3, <1>5, <1>6 DEF CountExact
<1>10. \A g \in Lookups : CountExact(g)'
  BY <1>2, <1>9, CountStays
<1> QED BY <1>7, <1>8, <1>10

\* hiddenPost begins with oEmbed alone.
LEMMA HiddenBegins ==
    ASSUME ChaseKept, NEW f \in Lookups, phase[f] = "race", phase' = [phase EXCEPT ![f] = "hidden"],
           oe' = [oe EXCEPT ![f] = "running"], pending' = [pending EXCEPT ![f] = 1],
           UNCHANGED <<chase, seen, gotOG, helperErr>>, phase \in [Lookups -> Phases]
    PROVE  ChaseKept'
<1> USE DEF ChaseKept
<1>1. \A g \in Lookups : g # f => /\ oe'[g] = oe[g] /\ pending'[g] = pending[g]
                                  /\ (phase'[g] = "hidden" => phase[g] = "hidden")
                                  /\ (phase'[g] # "hidden" => phase[g] # "hidden")
  BY DEF ChaseTypes
<1>2. /\ phase'[f] = "hidden" /\ oe'[f] = "running" /\ pending'[f] = 1
      /\ \A c \in Channels : chase[f][c] = "none"
  BY DEF ChaseTypes, ChannelsLocal
<1>3. Cardinality(Out(f)') = 0
  <2>1. Out(f)' = {}
    BY <1>2 DEF Out
  <2> QED BY <2>1, FS_EmptySet
<1>4. ChaseTypes'
  BY DEF ChaseTypes
<1>5. ChannelsLocal'
  BY <1>1, <1>2 DEF ChannelsLocal
<1>6. CountExact(f)'
  BY <1>2, <1>3 DEF CountExact
<1> QED BY <1>1, <1>4, <1>5, <1>6, CountStays

\* Its channels go with it.
LEMMA HiddenEnds ==
    ASSUME ChaseKept, NEW f \in Lookups, Forget(f), phase' = [phase EXCEPT ![f] = "returned"],
           phase \in [Lookups -> Phases]
    PROVE  ChaseKept'
<1> USE DEF ChaseKept
<1>1. /\ oe' = [oe EXCEPT ![f] = "none"]
      /\ chase' = [chase EXCEPT ![f] = [c \in Channels |-> "none"]]
      /\ pending' = [pending EXCEPT ![f] = 0] /\ seen' = [seen EXCEPT ![f] = "none"]
      /\ gotOG' = [gotOG EXCEPT ![f] = FALSE] /\ helperErr' = [helperErr EXCEPT ![f] = FALSE]
  BY DEF Forget
<1>2. \A g \in Lookups : g # f => /\ oe'[g] = oe[g] /\ pending'[g] = pending[g]
                                  /\ chase'[g] = chase[g] /\ phase'[g] = phase[g]
  BY <1>1 DEF ChaseTypes
<1>3. /\ phase'[f] = "returned" /\ oe'[f] = "none" /\ pending'[f] = 0
      /\ \A c \in Channels : chase'[f][c] = "none"
  BY <1>1 DEF ChaseTypes
<1>4. ChaseTypes'
  BY <1>1 DEF ChaseTypes
<1>5. ChannelsLocal'
  BY <1>2, <1>3 DEF ChannelsLocal
<1>6. CountExact(f)'
  BY <1>3 DEF CountExact
<1> QED BY <1>2, <1>4, <1>5, <1>6, CountStays

\* oEmbed's answer sends its follow-ups out.
LEMMA FollowUpsCounted ==
    ASSUME ChaseKept, NEW f \in Lookups, NEW o \in OembedAnswers, ReadOembed(f, o)
    PROVE  ChaseKept'
<1> USE DEF ChaseKept
<1>1. PICK F \in FollowUps(o) :
          /\ chase' = [chase EXCEPT ![f] =
                          [c \in Channels |-> IF c \in F THEN "running" ELSE chase[f][c]]]
          /\ pending' = [pending EXCEPT ![f] = pending[f] - 1 + Cardinality(F)]
  BY DEF ReadOembed
<1>2. /\ phase[f] = "hidden" /\ oe[f] = "running" /\ UNCHANGED <<phase, gotOG, helperErr>>
      /\ oe' = [oe EXCEPT ![f] = "read"] /\ seen' = [seen EXCEPT ![f] = o]
  BY DEF ReadOembed, Listening
<1>3. F \in SUBSET Channels
  BY DEF FollowUps, Channels
<1>4. IsFiniteSet(F) /\ Cardinality(F) \in 0 .. 3
  BY <1>3, ThreeChannels
<1>5. \A c \in Channels : chase[f][c] = "none"
  BY <1>2 DEF ChannelsLocal
<1>6. pending[f] = 1
  <2>1. Out(f) = {}
    BY <1>5 DEF Out
  <2> QED BY <1>2, <2>1, FS_EmptySet DEF CountExact
<1>7. pending'[f] = Cardinality(F) /\ pending' \in [Lookups -> 0 .. 4]
  BY <1>1, <1>4, <1>6 DEF ChaseTypes
<1>8. \A g \in Lookups : g # f => oe'[g] = oe[g] /\ pending'[g] = pending[g] /\ chase'[g] = chase[g]
  BY <1>1, <1>2 DEF ChaseTypes
<1>9. /\ oe'[f] = "read" /\ chase' \in [Lookups -> [Channels -> {"none", "running", "read"}]]
      /\ \A c \in Channels : chase'[f][c] = IF c \in F THEN "running" ELSE "none"
  <2>1. [c \in Channels |-> IF c \in F THEN "running" ELSE chase[f][c]]
            \in [Channels -> {"none", "running", "read"}]
    BY <1>5
  <2> QED BY <1>1, <1>2, <1>5, <2>1 DEF ChaseTypes
<1>10. Out(f)' = F
  BY <1>3, <1>9 DEF Out
<1>11. ChaseTypes'
  BY <1>2, <1>7, <1>9 DEF ChaseTypes
<1>12. ChannelsLocal'
  BY <1>2, <1>8, <1>9 DEF ChannelsLocal
<1>13. CountExact(f)'
  BY <1>4, <1>7, <1>9, <1>10 DEF CountExact
<1> QED BY <1>2, <1>8, <1>11, <1>12, <1>13, CountStays

\* hiddenPost's count survives every step.
LEMMA ChaseKeeps ==
    ASSUME PostInv, [Next]_vars
    PROVE  ChaseKept'
<1> USE DEF chaseVars
<1>1. ChaseKept /\ phase \in [Lookups -> Phases]
  BY ChaseHolds DEF PostInv, TypeOK, Phases
<1>2. ASSUME UNCHANGED chaseVars,
             \A g \in Lookups : phase'[g] = "hidden" <=> phase[g] = "hidden"
      PROVE  ChaseKept'
  BY <1>1, <1>2, CountStays DEF ChaseKept, ChaseTypes, ChannelsLocal
<1>3. ASSUME NEW f \in Lookups, phase[f] # "hidden", UNCHANGED chaseVars,
             NEW q \in Phases \ {"hidden"}, phase' = [phase EXCEPT ![f] = q]
      PROVE  ChaseKept'
  BY <1>1, <1>2, <1>3
<1>4. ASSUME NEW f \in Lookups, NEW err, NoWinner(f, err), phase[f] = "race"
      PROVE  ChaseKept'
  BY <1>1, <1>3, <1>4, HiddenBegins DEF NoWinner, Phases
<1>5. ASSUME NEW f \in Lookups, NEW v, NEW gone, Leave(f, v, gone)
      PROVE  ChaseKept'
  BY <1>1, <1>5, HiddenEnds DEF Leave, Return
<1>6. ASSUME NEW f \in Lookups, RaceStep(f)
      PROVE  ChaseKept'
  <2>1. \/ phase' = phase /\ UNCHANGED chaseVars
        \/ /\ phase[f] # "hidden" /\ phase' = [phase EXCEPT ![f] = "returned"]
           /\ UNCHANGED chaseVars
        \/ phase[f] = "race" /\ \E err : NoWinner(f, err)
    BY <1>6 DEF RaceStep, ReadResult, CutRace, LastResort, Return
  <2> QED BY <1>2, <1>3, <1>4, <2>1 DEF Phases
<1>7. ASSUME NEW f \in Lookups, ReadHelper(f)
      PROVE  ChaseKept'
  <2>1. CASE /\ UNCHANGED <<oe, chase, pending, seen, gotOG, phase>>
             /\ helperErr' = [helperErr EXCEPT ![f] = TRUE]
    BY <1>1, <2>1, CountStays DEF ChaseKept, ChaseTypes, ChannelsLocal
  <2> QED BY <1>5, <1>7, <2>1 DEF ReadHelper
<1>8. ASSUME NEW f \in Lookups, NEW c \in Channels, ReadNothing(f, c)
      PROVE  ChaseKept'
  BY <1>1, <1>8, CountedOff DEF ReadNothing, ChaseKept, ChaseTypes
<1>9. ASSUME NEW f \in Lookups, ReadCard(f)
      PROVE  ChaseKept'
  <2>1. /\ Listening(f) /\ chase[f]["og"] = "running" /\ chase' = [chase EXCEPT ![f]["og"] = "read"]
        /\ pending' = [pending EXCEPT ![f] = @ - 1] /\ gotOG' = [gotOG EXCEPT ![f] = TRUE]
        /\ UNCHANGED <<phase, oe, seen, helperErr>>
    BY <1>9 DEF ReadCard
  <2>2. gotOG' \in [Lookups -> BOOLEAN] /\ "og" \in Channels
    BY <1>1, <2>1 DEF ChaseKept, ChaseTypes, Channels
  <2> QED BY <1>1, <2>1, <2>2, CountedOff
<1>10. ASSUME NEW f \in Lookups, HiddenStep(f)
       PROVE  ChaseKept'
  BY <1>1, <1>5, <1>7, <1>8, <1>9, <1>10, FollowUpsCounted
     DEF HiddenStep, ReadPost, ReadMissing, Settle, CutHidden
<1>11. ASSUME NEW f \in Lookups, Begin(f) \/ Publish(f)
       PROVE  ChaseKept'
  BY <1>3, <1>11 DEF Begin, Publish, Phases
<1>12. ASSUME NEW f \in Lookups,
              \/ Hedge(f) \/ GraphqlHidden(f) \/ HelperReturns(f) \/ KeepStep(f)
              \/ Deadline(f) \/ NoticeTimer(f) \/ CallerEnds(f)
       PROVE  ChaseKept'
  <2>1. UNCHANGED <<phase, chaseVars>>
    BY <1>12 DEF Hedge, GraphqlHidden, HelperReturns, HelperFinish, KeepStep, KeepLook, KeepWait,
                 KeepPut, Deadline, NoticeTimer, CallerEnds
  <2> QED BY <1>2, <2>1
<1>13. ASSUME DropEntry \/ DropCard \/ UNCHANGED vars
       PROVE  ChaseKept'
  <2>1. UNCHANGED <<phase, chaseVars>>
    BY <1>13 DEF DropEntry, DropCard, vars
  <2> QED BY <1>2, <2>1
<1> QED BY <1>6, <1>10, <1>11, <1>12, <1>13 DEF Next

-----------------------------------------------------------------------------
(* What a lookup answers *)

\* What the memory store holds of the shortcode.
Entries == [by : Lookups, what : Verdicts \cup {"helper"}] \cup {None}

\* An hour-long answer of a lookup is one its helper, if any, was asked for.
Asked(f, v) == v \in {"gateLong", "partialLong"} => ~ build.helper \/ HelperAsked(f)

\* The part of the invariant about verdicts.
AnswersKept ==
    /\ verdict \in [Lookups -> Verdicts \cup {"none"}] /\ ruled \in [Lookups -> BOOLEAN]
    /\ mem \in Entries
    /\ \A f \in Lookups : Asked(f, verdict[f]) /\ (phase[f] = "returned" => verdict[f] \in Verdicts)
    /\ LongAnswersAskHelper

\* A helper that has been asked stays asked.
LEMMA AskedStays ==
    ASSUME HelperMoves, build' = build, NEW f \in Lookups, NEW v, Asked(f, v)
    PROVE  Asked(f, v)'
BY DEF HelperMoves, Asked, HelperAsked

\* gateOrRetry and answer give a long verdict only to a helper that has tried.
LEMMA GateAsks ==
    ASSUME NEW f \in Lookups
    PROVE  GateOrRetry(f) \in Verdicts /\ Asked(f, GateOrRetry(f))
BY DEF GateOrRetry, Verdicts, GateVerdicts, Asked

\* answer gives an hour-long partial only to a lookup whose helper was asked.
LEMMA AnswerAsks ==
    ASSUME NEW f \in Lookups, NEW asked, NEW absent, asked => HelperAsked(f)
    PROVE  Answer(f, asked, absent) \in Verdicts /\ Asked(f, Answer(f, asked, absent))
<1>1. \/ Answer(f, asked, absent) \in {"partialShort", "gone", "fail"}
      \/ Answer(f, asked, absent) = "partialLong" /\ HelperAsked(f)
      \/ Answer(f, asked, absent) = GateOrRetry(f)
  BY DEF Answer
<1> QED BY <1>1, GateAsks DEF Verdicts, Partials, Errors, Asked

\* A step that decides nothing.
LEMMA AnswersStay ==
    ASSUME AnswersKept, HelperMoves, build' = build, UNCHANGED <<verdict, ruled>>,
           mem' = mem \/ mem' = None \/ \E f \in Lookups : mem' = [by |-> f, what |-> "helper"],
           \A g \in Lookups : phase'[g] = "returned" => phase[g] = "returned"
    PROVE  AnswersKept'
<1> USE DEF AnswersKept
<1>1. mem' \in Entries
  BY DEF Entries
<1>2. \A f \in Lookups : Asked(f, verdict[f])'
  BY AskedStays
<1>3. LongAnswersAskHelper'
  <2>1. CASE mem' = mem /\ mem # None
    <3>1. mem.by \in Lookups /\ Asked(mem.by, mem.what)
      BY <2>1 DEF LongAnswersAskHelper, Asked, Entries
    <3> QED BY <2>1, <3>1, AskedStays DEF LongAnswersAskHelper, Asked
  <2>2. CASE mem' = None
    BY <2>2 DEF LongAnswersAskHelper
  <2>3. CASE \E f \in Lookups : mem' = [by |-> f, what |-> "helper"]
    BY <2>3 DEF LongAnswersAskHelper
  <2> QED BY <2>1, <2>2, <2>3
<1> QED BY <1>1, <1>2, <1>3

\* fetchPost returns.
LEMMA AnswerGiven ==
    ASSUME AnswersKept, HelperMoves, build' = build, phase \in [Lookups -> Phases],
           NEW f \in Lookups, NEW v \in Verdicts, NEW gone \in BOOLEAN,
           Asked(f, v), Return(f, v, gone), mem' = mem
    PROVE  AnswersKept'
<1> USE DEF AnswersKept
<1>1. /\ verdict' = [verdict EXCEPT ![f] = v] /\ ruled' = [ruled EXCEPT ![f] = gone]
      /\ phase' = [phase EXCEPT ![f] = "returned"]
  BY DEF Return
<1>2. \A g \in Lookups : /\ Asked(g, verdict'[g])
                         /\ phase'[g] = "returned" => verdict'[g] \in Verdicts
  BY <1>1
<1>3. \A g \in Lookups : Asked(g, verdict[g])'
  BY <1>2, AskedStays DEF HelperMoves, Asked, HelperAsked
<1>4. LongAnswersAskHelper'
  BY AskedStays DEF LongAnswersAskHelper, Entries, Asked, HelperMoves, HelperAsked
<1> QED BY <1>1, <1>2, <1>3, <1>4

\* runFlight stores what was returned.
LEMMA AnswerStored ==
    ASSUME AnswersKept, HelperMoves, build' = build, phase \in [Lookups -> Phases],
           NEW f \in Lookups, Publish(f)
    PROVE  AnswersKept'
<1> USE DEF AnswersKept
<1>1. /\ phase[f] = "returned" /\ phase' = [phase EXCEPT ![f] = "done"]
      /\ verdict' = [verdict EXCEPT ![f] = "none"] /\ ruled' = ruled
      /\ mem' = mem \/ mem' = [by |-> f, what |-> verdict[f]]
  BY DEF Publish
<1>2. verdict[f] \in Verdicts /\ Asked(f, verdict[f])
  BY <1>1
<1>3. mem' \in Entries
  BY <1>1, <1>2 DEF Entries
<1>4. \A g \in Lookups : Asked(g, verdict[g])'
  BY <1>1, AskedStays DEF HelperMoves, Asked, HelperAsked
<1>5. LongAnswersAskHelper'
  <2>1. CASE mem' = mem
    BY <2>1, AskedStays DEF LongAnswersAskHelper, Entries, Asked, HelperMoves, HelperAsked
  <2>2. CASE mem' = [by |-> f, what |-> verdict[f]]
    <3>1. mem'.by = f /\ mem'.what = verdict[f]
      BY <2>2
    <3>2. verdict[f] \in {"gateLong", "partialLong"} => ~ build'.helper \/ HelperAsked(f)'
      BY <1>2 DEF Asked, HelperMoves, HelperAsked
    <3> QED BY <3>1, <3>2 DEF LongAnswersAskHelper, HelperAsked
  <2> QED BY <1>1, <2>1, <2>2
<1> QED BY <1>1, <1>3, <1>4, <1>5

\* What a lookup answers, and what runFlight stores, stays an answer that
\* asked before it was long.
LEMMA AnswersKeep ==
    ASSUME PostInv, [Next]_vars
    PROVE  AnswersKept'
<1>1. /\ AnswersKept /\ HelperMoves /\ build' = build /\ phase \in [Lookups -> Phases]
      /\ \A g \in Lookups : phase[g] = "oembed" => lastErr[g] \in Errors
  BY RaceKeeps DEF PostInv, TypeOK, VerdictsAsked, AnswersKept, Entries, Asked, RaceMoves, Phases
<1>2. ASSUME UNCHANGED <<verdict, ruled, mem, phase>>
      PROVE  AnswersKept'
  BY <1>1, <1>2, AnswersStay
<1>3. ASSUME NEW f \in Lookups, NEW err, NoWinner(f, err), mem' = mem
      PROVE  AnswersKept'
  <2>1. /\ UNCHANGED <<verdict, ruled>>
        /\ \E q \in {"hidden", "oembed"} : phase' = [phase EXCEPT ![f] = q]
    BY <1>3 DEF NoWinner
  <2> QED BY <1>1, <1>3, <2>1, AnswersStay
<1>4. ASSUME NEW f \in Lookups, NEW v \in {"post", "gone"}, NEW gone \in BOOLEAN,
             Return(f, v, gone), mem' = mem
      PROVE  AnswersKept'
  <2>1. v \in Verdicts /\ Asked(f, v)
    BY DEF Verdicts, Full, Errors, Asked
  <2> QED BY <1>1, <1>4, <2>1, AnswerGiven
<1>5. ASSUME NEW f \in Lookups, NEW s \in Sources, NEW r \in Results, ReadResult(f, s, r)
      PROVE  AnswersKept'
  BY <1>2, <1>3, <1>4, <1>5 DEF ReadResult
<1>6. ASSUME NEW f \in Lookups, CutRace(f)
      PROVE  AnswersKept'
  BY <1>3, <1>6 DEF CutRace
<1>7. ASSUME NEW f \in Lookups, NEW o \in OembedAnswers, LastResort(f, o)
      PROVE  AnswersKept'
  <2>1. PICK v : /\ Return(f, v, FALSE) /\ mem' = mem
                 /\ v = "partialShort" \/ v = GateOrRetry(f) \/ v = lastErr[f]
    BY <1>7 DEF LastResort
  <2>2. v \in Verdicts /\ Asked(f, v)
    BY <1>1, <1>7, <2>1, GateAsks DEF LastResort, Verdicts, Partials, Errors, Asked
  <2> QED BY <1>1, <2>1, <2>2, AnswerGiven
<1>8. ASSUME NEW f \in Lookups, Settle(f) \/ CutHidden(f)
      PROVE  AnswersKept'
  <2>1. PICK v : /\ Return(f, v, FALSE) /\ mem' = mem /\ v \in Verdicts /\ Asked(f, v)
    BY <1>8, AnswerAsks DEF Settle, CutHidden, Leave
  <2> QED BY <1>1, <2>1, AnswerGiven
<1>9. ASSUME NEW f \in Lookups, HiddenStep(f)
      PROVE  AnswersKept'
  BY <1>2, <1>4, <1>8, <1>9 DEF HiddenStep, ReadHelper, ReadOembed, ReadNothing, ReadCard, ReadPost,
              ReadMissing, Leave
<1>10. ASSUME NEW f \in Lookups, Begin(f)
       PROVE  AnswersKept'
  <2>1. UNCHANGED <<verdict, ruled, mem>> /\ phase' = [phase EXCEPT ![f] = "race"]
    BY <1>10 DEF Begin
  <2> QED BY <1>1, <2>1, AnswersStay
<1>11. ASSUME NEW f \in Lookups, KeepStep(f)
       PROVE  AnswersKept'
  <2>1. /\ UNCHANGED <<verdict, ruled, phase>>
        /\ mem' = mem \/ mem' = [by |-> f, what |-> "helper"]
    BY <1>11 DEF KeepStep, KeepLook, KeepWait, KeepPut
  <2> QED BY <1>1, <2>1, AnswersStay
<1>12. ASSUME NEW f \in Lookups,
              \/ Hedge(f) \/ GraphqlHidden(f) \/ HelperReturns(f)
              \/ Deadline(f) \/ NoticeTimer(f) \/ CallerEnds(f)
       PROVE  AnswersKept'
  BY <1>2, <1>12 DEF Hedge, GraphqlHidden, HelperReturns, HelperFinish, Deadline, NoticeTimer,
                     CallerEnds
<1>13. ASSUME DropEntry \/ DropCard \/ UNCHANGED vars
       PROVE  AnswersKept'
  <2>1. UNCHANGED <<verdict, ruled, phase>> /\ (mem' = mem \/ mem' = None)
    BY <1>13 DEF DropEntry, DropCard, vars
  <2> QED BY <1>1, <2>1, AnswersStay
<1> QED BY <1>1, <1>5, <1>6, <1>7, <1>9, <1>10, <1>11, <1>12, <1>13, AnswerStored
           DEF Next, RaceStep

-----------------------------------------------------------------------------
(* Notices *)

\* The part of the invariant about notices.
NoticesKept ==
    /\ og \in BOOLEAN /\ notice \in Lookups \cup {None}
    /\ timer \in [Lookups -> {"none", "armed", "fired"}]
    /\ caller \in [Lookups -> {"none", "waiting", "ended"}]
    /\ waitFor \in [Lookups -> Lookups \cup {None}]
    /\ NoticeCurrent /\ GateReachesCaller

\* Who touches them.
LEMMA NoticeChanges ==
    ASSUME [Next]_vars
    PROVE  /\ og' \in {og, TRUE, FALSE}
           /\ \/ waitFor' = waitFor
              \/ \E f, g \in Lookups : waitFor' = [waitFor EXCEPT ![f] = g]
           /\ \/ UNCHANGED <<notice, timer, caller>>
              \/ \E f \in Lookups :
                    \/ Begin(f) \/ CallerEnds(f) \/ NoticeTimer(f)
                    \/ phase[f] = "hidden" /\ PublishGate(f) /\ UNCHANGED <<phase, caller>>
<1> DEFINE Quiet == og' = og /\ waitFor' = waitFor /\ UNCHANGED <<notice, timer, caller>>
<1> USE DEF fallbackVars, keepVars
<1>1. ASSUME NEW f \in Lookups, RaceStep(f) \/ Hedge(f) \/ GraphqlHidden(f) \/ HelperReturns(f)
                                \/ Publish(f) \/ Deadline(f)
      PROVE  Quiet
  BY <1>1 DEF RaceStep, ReadResult, CutRace, LastResort, NoWinner, Hedge, GraphqlHidden,
              HelperReturns, HelperFinish, Publish, Deadline
<1>2. ASSUME NEW f \in Lookups, ReadHelper(f) \/ ReadPost(f) \/ ReadMissing(f) \/ Settle(f)
                                \/ CutHidden(f) \/ \E c \in Channels : ReadNothing(f, c)
      PROVE  Quiet
  BY <1>2 DEF ReadHelper, ReadPost, ReadMissing, Settle, CutHidden, ReadNothing, Leave
<1>3. ASSUME NEW f \in Lookups, ReadCard(f)
      PROVE  og' \in {og, TRUE} /\ waitFor' = waitFor /\ UNCHANGED <<notice, timer, caller>>
  BY <1>3 DEF ReadCard, PublishCard
<1>4. ASSUME NEW f \in Lookups, NEW o \in OembedAnswers, ReadOembed(f, o)
      PROVE  /\ og' \in {og, TRUE} /\ waitFor' = waitFor
             /\ \/ UNCHANGED <<notice, timer, caller>>
                \/ phase[f] = "hidden" /\ PublishGate(f) /\ UNCHANGED <<phase, caller>>
  BY <1>4 DEF ReadOembed, PublishCard, Listening
<1>5. ASSUME NEW f \in Lookups, KeepStep(f)
      PROVE  /\ og' = og /\ UNCHANGED <<notice, timer, caller>>
             /\ waitFor' = waitFor \/ \E g \in Lookups : waitFor' = [waitFor EXCEPT ![f] = g]
  BY <1>5 DEF KeepStep, KeepLook, KeepWait, KeepPut
<1>6. ASSUME NEW f \in Lookups, Begin(f) \/ CallerEnds(f) \/ NoticeTimer(f)
      PROVE  og' = og /\ waitFor' = waitFor
  BY <1>6 DEF Begin, CallerEnds, NoticeTimer
<1>7. ASSUME DropEntry \/ DropCard \/ UNCHANGED vars
      PROVE  og' \in {og, FALSE} /\ waitFor' = waitFor /\ UNCHANGED <<notice, timer, caller>>
  BY <1>7 DEF DropEntry, DropCard, vars
<1> QED BY <1>1, <1>2, <1>3, <1>4, <1>5, <1>6, <1>7 DEF Next, HiddenStep

\* The notice survives every step: only the lookup under way publishes one,
\* and a timer removes its own lookup's notice alone.
LEMMA NoticesKeep ==
    ASSUME PostInv, [Next]_vars
    PROVE  NoticesKept'
<1> DEFINE Shown == /\ notice' \in Lookups \cup {None}
                    /\ timer' \in [Lookups -> {"none", "armed", "fired"}]
                    /\ caller' \in [Lookups -> {"none", "waiting", "ended"}]
                    /\ NoticeCurrent' /\ GateReachesCaller'
<1>1. NoticesKept /\ phase \in [Lookups -> Phases] /\ OneActive
  BY DEF PostInv, TypeOK, NoticesKept, Phases
<1>2. \A g \in Lookups : /\ Advance(phase[g], phase'[g])
                         /\ phase'[g] = "new" => phase[g] = "new"
                         /\ Active(g)' => Active(g) \/ phase[g] = "new"
  BY PhasesAdvance DEF PostInv, Advance, Running, Active
<1>3. ASSUME UNCHANGED <<notice, timer, caller>>
      PROVE  Shown
  BY <1>1, <1>2, <1>3 DEF NoticesKept, NoticeCurrent, GateReachesCaller
<1>4. ASSUME NEW f \in Lookups, Begin(f)
      PROVE  Shown
  <2>1. /\ UNCHANGED <<notice, timer>> /\ caller' = [caller EXCEPT ![f] = "waiting"]
        /\ phase[f] = "new"
    BY <1>4 DEF Begin, fallbackVars
  <2> QED BY <1>1, <1>2, <2>1 DEF NoticesKept, NoticeCurrent, GateReachesCaller
<1>5. ASSUME NEW f \in Lookups, CallerEnds(f)
      PROVE  Shown
  <2>1. UNCHANGED <<notice, timer>> /\ caller' = [caller EXCEPT ![f] = "ended"]
    BY <1>5 DEF CallerEnds, fallbackVars
  <2> QED BY <1>1, <1>2, <2>1 DEF NoticesKept, NoticeCurrent, GateReachesCaller
<1>6. ASSUME NEW f \in Lookups, NoticeTimer(f)
      PROVE  Shown
  <2>1. /\ timer' = [timer EXCEPT ![f] = "fired"] /\ UNCHANGED <<phase, caller>>
        /\ notice' = IF notice = f THEN None ELSE notice
        /\ phase[f] = "done" /\ \A g \in Lookups : caller[g] = "waiting" => Active(g)
    BY <1>6 DEF NoticeTimer, DeletesOwn
  <2>2. ~ Active(f) /\ \A g \in Lookups : Active(g)' = Active(g)
    BY <2>1 DEF Active
  <2>3. NoticeCurrent'
    BY <1>1, <2>1, <2>2 DEF NoticesKept, NoticeCurrent
  <2>4. GateReachesCaller'
    <3> SUFFICES ASSUME NEW g \in Lookups, caller'[g] = "waiting", timer'[g] = "armed"
                 PROVE  notice' # None
      BY DEF GateReachesCaller
    <3>1. Active(g) /\ g # f /\ notice = g
      BY <1>1, <2>1, <2>2 DEF NoticesKept, NoticeCurrent
    <3> QED BY <2>1, <3>1, NoneAssumption
  <2> QED BY <1>1, <2>1, <2>3, <2>4 DEF NoticesKept
<1>7. ASSUME NEW f \in Lookups, phase[f] = "hidden", PublishGate(f), UNCHANGED <<phase, caller>>
      PROVE  Shown
  <2>1. notice' = f /\ timer' = [timer EXCEPT ![f] = "armed"]
    BY <1>7 DEF PublishGate
  <2>2. \A g \in Lookups : Active(g)' => g = f
    BY <1>1, <1>7 DEF OneActive, Active
  <2> QED BY <1>1, <1>7, <2>1, <2>2, NoneAssumption
             DEF NoticesKept, NoticeCurrent, GateReachesCaller
<1>8. Shown
  BY <1>3, <1>4, <1>5, <1>6, <1>7, NoticeChanges, <1>1 DEF NoticesKept
<1>9. og' \in BOOLEAN /\ waitFor' \in [Lookups -> Lookups \cup {None}]
  BY <1>1, NoticeChanges DEF NoticesKept
<1> QED BY <1>8, <1>9 DEF NoticesKept

-----------------------------------------------------------------------------
(* The inductive invariant *)

\* The inductive step.
LEMMA PostStep == PostInv /\ [Next]_vars => PostInv'
<1> SUFFICES ASSUME PostInv, [Next]_vars PROVE PostInv'
  OBVIOUS
<1>1. phase' \in [Lookups -> Phases] /\ OneActive'
  BY PhasesAdvance DEF PostInv
<1>2. RaceMoves /\ ChaseKept' /\ AnswersKept' /\ NoticesKept'
  BY RaceKeeps, ChaseKeeps, AnswersKeep, NoticesKeep
<1>3. /\ keep' \in [Lookups -> KeepStates] /\ slots' \in 0 .. HelperSlots
      /\ KeptOnReturn' /\ HelperSlotsExact'
  BY SlotsKeep
<1>4. PendingExact' /\ ChannelsLocal' /\ ChaseTypes'
  <2>1. ChaseKept' => PendingExact'
    BY ChaseHolds DEF ChaseKept, PendingExact, CountExact, Out
  <2> QED BY <1>2, <2>1 DEF ChaseKept
<1>5. TypeOK'
  BY <1>1, <1>2, <1>3, <1>4, ThreeChannels
     DEF PostInv, TypeOK, Phases, RaceMoves, HelperMoves, SourceStates, HelperStates, ChaseTypes,
         KeepStates, AnswersKept, Entries, NoticesKept
<1>6. VerdictsAsked'
  BY <1>2 DEF VerdictsAsked, RaceMoves, AnswersKept, Asked
<1> QED BY <1>1, <1>2, <1>3, <1>4, <1>5, <1>6 DEF PostInv, AnswersKept, NoticesKept

\* The invariant holds at the start.
LEMMA PostStart == Init => PostInv
<1> SUFFICES ASSUME Init PROVE PostInv
  OBVIOUS
<1>1. \A f \in Lookups : /\ phase[f] = "new" /\ oe[f] = "none" /\ pending[f] = 0 /\ keep[f] = "none"
                         /\ verdict[f] = "none" /\ timer[f] = "none" /\ caller[f] = "none"
                         /\ \A c \in Channels : chase[f][c] = "none"
  BY DEF Init
<1>2. TypeOK
  <2>1. /\ build \in [helper : BOOLEAN, v6 : BOOLEAN] /\ og \in BOOLEAN
        /\ mem \in [by : Lookups, what : Verdicts \cup {"helper"}] \cup {None}
        /\ notice \in Lookups \cup {None}
    BY DEF Init
  <2>7. slots \in 0 .. HelperSlots
    BY HelperSlotsAssumption DEF Init
  <2>2. /\ phase \in [Lookups -> {"new", "race", "hidden", "oembed", "returned", "done"}]
        /\ cut \in [Lookups -> BOOLEAN] /\ started \in [Lookups -> 0 .. 3]
        /\ lastErr \in [Lookups -> Errors \cup {"none"}] /\ hidden \in [Lookups -> BOOLEAN]
    BY DEF Init
  <2>3. /\ src \in [Lookups -> [Sources -> {"idle", "running", "final", "read"}]]
        /\ chase \in [Lookups -> [Channels -> {"none", "running", "read"}]]
    <3>1. [s \in Sources |-> "idle"] \in [Sources -> {"idle", "running", "final", "read"}]
      OBVIOUS
    <3>2. [c \in Channels |-> "none"] \in [Channels -> {"none", "running", "read"}]
      OBVIOUS
    <3> QED BY <3>1, <3>2 DEF Init
  <2>4. /\ oe \in [Lookups -> {"none", "running", "read"}]
        /\ pending \in [Lookups -> 0 .. 1 + Cardinality(Channels)]
        /\ seen \in [Lookups -> OembedAnswers \cup {"none"}]
        /\ gotOG \in [Lookups -> BOOLEAN] /\ helperErr \in [Lookups -> BOOLEAN]
    BY ThreeChannels DEF Init
  <2>5. /\ helper \in [Lookups -> HelperFailures \cup {"none", "running", "post"}]
        /\ cancelled \in [Lookups -> BOOLEAN]
        /\ keep \in [Lookups -> {"none", "kept", "wait", "put", "end"}]
        /\ waitFor \in [Lookups -> Lookups \cup {None}]
    BY DEF Init
  <2>6. /\ verdict \in [Lookups -> Verdicts \cup {"none"}] /\ ruled \in [Lookups -> BOOLEAN]
        /\ timer \in [Lookups -> {"none", "armed", "fired"}]
        /\ caller \in [Lookups -> {"none", "waiting", "ended"}]
    BY DEF Init
  <2> QED BY <2>1, <2>2, <2>3, <2>4, <2>5, <2>6, <2>7 DEF TypeOK
<1>3. /\ OneActive /\ ChannelsLocal /\ PendingExact /\ VerdictsAsked
      /\ NoticeCurrent /\ GateReachesCaller
  BY <1>1 DEF OneActive, Active, ChannelsLocal, PendingExact, VerdictsAsked, NoticeCurrent,
              GateReachesCaller
<1>4. KeptOnReturn /\ HelperSlotsExact
  <2>1. Holders = {} /\ slots = 0
    BY <1>1 DEF Holders, Init
  <2>2. KeptOnReturn
    BY <1>1, <2>1, FS_EmptySet DEF KeptOnReturn
  <2>3. slots = Cardinality(Holders) /\ slots <= HelperSlots
    BY <2>1, FS_EmptySet, HelperSlotsAssumption
  <2> QED BY <2>2, <2>3 DEF HelperSlotsExact, Holders
<1>5. LongAnswersAskHelper
  BY DEF Init, LongAnswersAskHelper
<1> QED BY <1>2, <1>3, <1>4, <1>5 DEF PostInv

\* The inductive invariant, at all times: one lookup of the shortcode is active,
\* a helper slot is held from a lookup's return to its goroutine's end, and a
\* notice on show is the active lookup's.
THEOREM LookupInvariant == Spec => []PostInv
BY PostStart, PostStep, PTL DEF Spec

\* Type correctness of the lookup.
THEOREM LookupTypes == Spec => []TypeOK
<1>1. PostInv => TypeOK
  BY DEF PostInv
<1> QED BY <1>1, LookupInvariant, PTL

\* hiddenPost's count is what is still out: it neither answers over the head of
\* a follow-up nor waits for one that was never sent.
THEOREM CountIsExact == Spec => []PendingExact
<1>1. PostInv => PendingExact
  BY DEF PostInv
<1> QED BY <1>1, LookupInvariant, PTL

\* helperSlots holds one token for each helper kept past its lookup, within its
\* capacity.
THEOREM SlotsAreExact == Spec => []HelperSlotsExact
<1>1. PostInv => HelperSlotsExact
  BY DEF PostInv
<1> QED BY <1>1, LookupInvariant, PTL

\* An hour-long verdict in the memory store is one whose lookup asked the
\* helper, when there is one.
THEOREM LongMeansAsked == Spec => []LongAnswersAskHelper
<1>1. PostInv => LongAnswersAskHelper
  BY DEF PostInv
<1> QED BY <1>1, LookupInvariant, PTL

\* A caller still waiting on a lookup that has published a notice finds one.
THEOREM CallerFindsGate == Spec => []GateReachesCaller
<1>1. PostInv => GateReachesCaller
  BY DEF PostInv
<1> QED BY <1>1, LookupInvariant, PTL
=============================================================================
