---------------------------- MODULE ServingProofs ----------------------------
(***************************************************************************)
(* Proofs about Deployment, for all durations that satisfy                 *)
(* DeploymentAssumption; about StoryDoor, for every size of the ring and   *)
(* every share; about PreviewPage, for any number of submitted links; and  *)
(* that Serving behaves as each of its parts, so what is proved of a part, *)
(* here and in GatewayProofs, holds of the whole.                          *)
(***************************************************************************)
EXTENDS Serving, GatewayProofs

-----------------------------------------------------------------------------
(* The deployment *)

Healthy(s) == container[s] = "healthy"

\* The file names a slot that is up, once it names one.
FileNamesHealthy ==
    /\ upstream # NoSlot => Healthy(upstream)
    /\ routes # {} => upstream # NoSlot

\* Before the mv the script leaves the live slot alone; between the mv and the
\* reload both are up, if there is a proxy at all; afterwards only the old one
\* may go.
ScriptKnows ==
    /\ step \in {"begun", "recreating", "up"} =>
          upstream = live /\ settling = 0 /\ (proxyRuns <=> routes # {})
    /\ step = "up" => Healthy(Idle)
    /\ step = "written" =>
          /\ upstream = Idle /\ old = live /\ settling = 0 /\ (proxyRuns <=> routes # {})
          /\ live # NoSlot => Healthy(live)
          /\ routes # {} => live # NoSlot
    /\ step \in {"switched", "sleeping", "stopping"} => upstream = Idle
    /\ step = "switched" /\ live = NoSlot => settling = 0
    /\ step = "stopping" => settling = 0

\* nginx routes to both slots only while a reload settles, and then both are up.
\* Otherwise it routes to the slot the file names once the script has switched,
\* to the live one before the mv unless the run is misled, and between runs to
\* one that is up, which the file names unless the two were left apart.
RoutesFollow ==
    /\ settling > 0 =>
          /\ upstream \in routes /\ \A s \in Colours : Healthy(s)
          /\ step \in {"none", "switched", "sleeping"}
    /\ settling = 0 =>
          /\ routes # Colours
          /\ step \in {"switched", "sleeping", "stopping"} => routes \subseteq {upstream}
    /\ apart # "misled" =>
          /\ step \in {"begun", "recreating", "up"} => routes \subseteq {live}
          /\ step = "none" => \A s \in routes : Healthy(s)
    /\ apart = "no" /\ step = "none" /\ routes # {} => upstream \in routes

\* A stopping slot has time for its requests.
RequestsFit ==
    /\ \A s \in Colours : container[s] = "stopping" => request[s] <= drainLeft[s]
    /\ cut = {}

\* The pause covers the flights of the old slot, those it may still begin
\* included; before the first deployment is up there are none.
FlightsFit ==
    /\ upstream = NoSlot => \A s \in Colours : flight[s] = 0
    /\ step \in {"written", "switched"} /\ live = NoSlot =>
          routes = {} /\ \A s \in Colours : flight[s] = 0
    /\ step = "sleeping" =>
          IF Other \in routes THEN settling > 0 /\ settling + Flight <= sleepLeft
          ELSE flight[Other] <= sleepLeft /\ settling <= sleepLeft
    /\ step = "stopping" => flight[Other] = 0

DeploymentInv ==
    /\ DeploymentTypeOK
    /\ FileNamesHealthy /\ ScriptKnows /\ RoutesFollow /\ RequestsFit /\ FlightsFit
-----------------------------------------------------------------------------
\* $next and $other are the two slots, and the live one, if any, is $other.
LEMMA TwoSlots ==
    /\ Colours = {Idle, Other} /\ Idle # Other
    /\ live \in Colours => live = Other
BY DEF Colours, Idle, Other

\* What the durations are assumed to satisfy, in the form the steps use.
LEMMA Durations ==
    /\ {Settle, Preview, Flight, Sleep, Shutdown} \subseteq Nat
    /\ Settle \in Nat /\ Preview \in Nat /\ Flight \in Nat /\ Sleep \in Nat /\ Shutdown \in Nat
    /\ Settle > 0 /\ Settle + Flight <= Sleep /\ Preview <= Shutdown
    /\ NoSlot \notin Colours
BY DeploymentAssumption DEF Colours

\* Of the two slots nginx routes to one when no reload is settling.
LEMMA OneRouted ==
    ASSUME DeploymentInv, settling = 0, upstream \in routes
    PROVE  routes \subseteq {upstream}
BY TwoSlots DEF DeploymentInv, DeploymentTypeOK, RoutesFollow

\* Between the mv and the reload nginx routes to slots that are up.
LEMMA BetweenServed ==
    ASSUME DeploymentInv, step = "written"
    PROVE  \A s \in routes : Healthy(s)
<1>1. routes # {} => Healthy(Idle) /\ live = Other /\ Healthy(live)
  BY TwoSlots, Durations DEF DeploymentInv, DeploymentTypeOK, FileNamesHealthy, ScriptKnows
<1>2. routes \subseteq {Idle, Other}
  BY TwoSlots DEF DeploymentInv, DeploymentTypeOK
<1> QED BY <1>1, <1>2

\* Whatever step a run ends after, unless it was misled nginx routes to slots
\* that are up.
LEMMA EndsServed ==
    ASSUME DeploymentInv, apart # "misled"
    PROVE  \A s \in routes : Healthy(s)
<1>1. settling \in 0 .. Settle /\ routes \subseteq Colours
  BY DEF DeploymentInv, DeploymentTypeOK
<1>2. CASE settling > 0
  BY <1>1, <1>2 DEF DeploymentInv, RoutesFollow
<1>3. CASE settling = 0 /\ step \in {"switched", "sleeping", "stopping"}
  BY <1>3 DEF DeploymentInv, RoutesFollow, FileNamesHealthy
<1>4. CASE step \in {"begun", "recreating", "up"}
  BY <1>4 DEF DeploymentInv, RoutesFollow, ScriptKnows, FileNamesHealthy
<1>5. CASE step = "none"
  BY <1>5 DEF DeploymentInv, RoutesFollow
<1>6. CASE step = "written"
  BY <1>6, BetweenServed
<1> QED BY <1>1, <1>2, <1>3, <1>4, <1>5, <1>6, Durations DEF DeploymentInv, DeploymentTypeOK

\* And except between the mv and the reload it routes to the one the file names,
\* unless the two were left apart.
LEMMA EndsNamed ==
    ASSUME DeploymentInv, apart = "no", step # "written", routes # {}
    PROVE  upstream \in routes
<1>1. settling \in 0 .. Settle
  BY DEF DeploymentInv, DeploymentTypeOK
<1>2. CASE settling > 0
  BY <1>2 DEF DeploymentInv, RoutesFollow
<1>3. CASE settling = 0 /\ step \in {"switched", "sleeping", "stopping"}
  BY <1>3 DEF DeploymentInv, RoutesFollow
<1>4. CASE step \in {"begun", "recreating", "up"}
  BY <1>4 DEF DeploymentInv, RoutesFollow, ScriptKnows
<1>5. CASE step = "none"
  BY <1>5 DEF DeploymentInv, RoutesFollow
<1> QED BY <1>1, <1>2, <1>3, <1>4, <1>5, Durations DEF DeploymentInv, DeploymentTypeOK

\* The script reads the file and finds its slot live.
LEMMA BeginKeeps ==
    ASSUME DeploymentInv, Begin
    PROVE  DeploymentInv'
<1>1. DeploymentTypeOK'
  BY DEF DeploymentInv, DeploymentTypeOK, Begin, Goto, slotVars, trafficVars
<1>2. FileNamesHealthy'
  BY DEF DeploymentInv, FileNamesHealthy, Healthy, Begin, Goto, slotVars
<1>3. ScriptKnows'
  BY DEF DeploymentInv, ScriptKnows, Begin, Goto
<1>4. RoutesFollow'
  <2>1. routes # {} /\ upstream \in routes => routes \subseteq {upstream}
    BY OneRouted DEF Begin
  <2>2. apart' # "misled" => routes = {} \/ upstream \in routes \/ apart = "no"
    BY DEF Begin
  <2>3. apart = "no" /\ routes # {} => upstream \in routes
    BY EndsNamed DEF Begin, Goto
  <2> QED BY <2>1, <2>2, <2>3 DEF DeploymentInv, RoutesFollow, Begin, Goto, slotVars
<1>5. RequestsFit'
  BY DEF DeploymentInv, RequestsFit, Begin, Goto, slotVars, trafficVars
<1>6. FlightsFit'
  BY DEF DeploymentInv, FlightsFit, Begin, Goto, trafficVars
<1> QED BY <1>1, <1>2, <1>3, <1>4, <1>5, <1>6 DEF DeploymentInv

\* Only the slot that is not live is stopped for another image.
LEMMA RecreateNextKeeps ==
    ASSUME DeploymentInv, RecreateNext
    PROVE  DeploymentInv'
<1>1. DeploymentTypeOK'
  BY Durations DEF DeploymentInv, DeploymentTypeOK, RecreateNext, Goto, nginxVars, runVars,
     trafficVars, Idle, Colours
<1>2. FileNamesHealthy'
  BY DEF DeploymentInv, FileNamesHealthy, ScriptKnows, Healthy, RecreateNext, Goto, nginxVars,
     runVars, Idle
<1>3. ScriptKnows'
  BY DEF DeploymentInv, ScriptKnows, RecreateNext, Goto, nginxVars, runVars
<1>4. RoutesFollow'
  BY DEF DeploymentInv, RoutesFollow, RecreateNext, Goto, nginxVars, runVars
<1>5. RequestsFit'
  BY Durations DEF DeploymentInv, DeploymentTypeOK, RequestsFit, RecreateNext, Goto,
     trafficVars
<1>6. FlightsFit'
  BY DEF DeploymentInv, FlightsFit, RecreateNext, Goto, nginxVars, runVars, trafficVars
<1> QED BY <1>1, <1>2, <1>3, <1>4, <1>5, <1>6 DEF DeploymentInv

\* The new slot comes up, or the script ends with the live one untouched.
LEMMA StartNextKeeps ==
    ASSUME DeploymentInv, StartNext
    PROVE  DeploymentInv'
<1>1. DeploymentTypeOK'
  BY DEF DeploymentInv, DeploymentTypeOK, StartNext, nginxVars, runVars, trafficVars
<1>2. FileNamesHealthy'
  BY DEF DeploymentInv, DeploymentTypeOK, FileNamesHealthy, Healthy, StartNext, nginxVars,
     runVars
<1>3. ScriptKnows'
  BY DEF DeploymentInv, DeploymentTypeOK, ScriptKnows, Healthy, StartNext, nginxVars, runVars,
     Idle, Colours
<1>4. RoutesFollow'
  <2>1. /\ step \in {"begun", "recreating"} /\ step' \in {"up", "none"}
        /\ container[Idle] = "stopped" /\ UNCHANGED <<upstream, routes, settling, apart, live>>
        /\ container' = [container EXCEPT ![Idle] = "healthy"] \/ UNCHANGED container
    BY DEF StartNext, nginxVars, runVars
  <2>2. settling = 0 /\ routes # Colours
    BY <2>1 DEF DeploymentInv, ScriptKnows, RoutesFollow
  <2>3. apart # "misled" => routes \subseteq {live} /\ \A s \in routes : Healthy(s)
    BY <2>1, EndsServed DEF DeploymentInv, RoutesFollow
  <2>4. \A s \in routes : Healthy(s) => Healthy(s)'
    BY <2>1 DEF DeploymentInv, DeploymentTypeOK, Healthy
  <2>5. apart = "no" /\ routes # {} => upstream \in routes
    BY <2>1, EndsNamed
  <2> QED BY <2>1, <2>2, <2>3, <2>4, <2>5 DEF RoutesFollow
<1>5. RequestsFit'
  BY DEF DeploymentInv, DeploymentTypeOK, RequestsFit, StartNext, trafficVars
<1>6. FlightsFit'
  BY DEF DeploymentInv, FlightsFit, StartNext, nginxVars, runVars, trafficVars
<1> QED BY <1>1, <1>2, <1>3, <1>4, <1>5, <1>6 DEF DeploymentInv

\* A slot already up with the image is left alone.
LEMMA KeepNextKeeps ==
    ASSUME DeploymentInv, KeepNext
    PROVE  DeploymentInv'
<1>1. DeploymentTypeOK'
  BY DEF DeploymentInv, DeploymentTypeOK, KeepNext, Goto, nginxVars, runVars, slotVars,
     trafficVars
<1>2. FileNamesHealthy'
  BY DEF DeploymentInv, FileNamesHealthy, Healthy, KeepNext, Goto, nginxVars, runVars,
     slotVars
<1>3. ScriptKnows'
  BY DEF DeploymentInv, ScriptKnows, Healthy, KeepNext, Goto, nginxVars, runVars, slotVars,
     Idle
<1>4. RoutesFollow'
  BY DEF DeploymentInv, RoutesFollow, KeepNext, Goto, nginxVars, runVars
<1>5. RequestsFit'
  BY DEF DeploymentInv, RequestsFit, KeepNext, Goto, slotVars, trafficVars
<1>6. FlightsFit'
  BY DEF DeploymentInv, FlightsFit, KeepNext, Goto, nginxVars, runVars, trafficVars
<1> QED BY <1>1, <1>2, <1>3, <1>4, <1>5, <1>6 DEF DeploymentInv

\* The file names a slot that is up; the live one stays up behind it.
LEMMA WriteUpstreamKeeps ==
    ASSUME DeploymentInv, WriteUpstream
    PROVE  DeploymentInv'
<1>1. DeploymentTypeOK'
  BY DEF DeploymentInv, DeploymentTypeOK, WriteUpstream, Goto, slotVars, trafficVars, Idle,
     Colours
<1>2. FileNamesHealthy'
  BY Durations DEF DeploymentInv, FileNamesHealthy, ScriptKnows, Healthy, WriteUpstream, Goto,
     slotVars, Idle, Colours
<1>3. ScriptKnows'
  BY DEF DeploymentInv, FileNamesHealthy, ScriptKnows, Healthy, WriteUpstream, Goto, slotVars,
     Idle
<1>4. RoutesFollow'
  BY DEF DeploymentInv, RoutesFollow, WriteUpstream, Goto
<1>5. RequestsFit'
  BY DEF DeploymentInv, RequestsFit, WriteUpstream, Goto, slotVars, trafficVars
<1>6. FlightsFit'
  BY Durations DEF DeploymentInv, FileNamesHealthy, ScriptKnows, FlightsFit, WriteUpstream,
     Goto, trafficVars, Idle, Colours
<1> QED BY <1>1, <1>2, <1>3, <1>4, <1>5, <1>6 DEF DeploymentInv

\* A reload routes to both slots until it settles; a failed one restores the file.
LEMMA ReloadKeeps ==
    ASSUME DeploymentInv, Reload
    PROVE  DeploymentInv'
<1>1. DeploymentTypeOK'
  <2>1. /\ upstream' \in Colours \cup {NoSlot} /\ routes' \subseteq Colours /\ settling' \in 0 .. Settle
        /\ step' \in {"switched", "none"}
    BY Durations, TwoSlots DEF DeploymentInv, DeploymentTypeOK, Reload, runVars, RestoreFile,
       Goto
  <2>2. apart' \in {"no", "left", "misled"}
    BY DEF DeploymentInv, DeploymentTypeOK, Reload, runVars, LeftApart
  <2> QED BY <2>1, <2>2 DEF DeploymentInv, DeploymentTypeOK, Reload, runVars, slotVars,
     trafficVars
<1>2. FileNamesHealthy'
  BY DEF DeploymentInv, FileNamesHealthy, ScriptKnows, Healthy, Reload, Goto, runVars,
     RestoreFile, LeftApart, slotVars
<1>3. ScriptKnows'
  BY DEF DeploymentInv, ScriptKnows, Reload, Goto, runVars, RestoreFile, LeftApart, Idle
<1>4. RoutesFollow'
  <2>1. /\ step = "written" /\ upstream = Idle /\ old = live /\ settling = 0 /\ routes # Colours
        /\ routes # {} /\ live # NoSlot /\ Healthy(live) /\ Healthy(Idle) /\ UNCHANGED container
        /\ routes \subseteq Colours /\ live = Other /\ upstream' \in Colours
    BY Durations, TwoSlots DEF DeploymentInv, DeploymentTypeOK, FileNamesHealthy, ScriptKnows,
       RoutesFollow, Healthy, Reload, runVars, RestoreFile, Goto, slotVars
  <2>2. CASE step' = "switched" /\ routes' = routes \cup {Idle} /\ settling' = Settle
             /\ UNCHANGED <<upstream, apart>>
    BY <2>1, <2>2, Durations, TwoSlots DEF RoutesFollow, Healthy
  <2>3. CASE step' = "none" /\ RestoreFile /\ apart' = LeftApart(old) /\ UNCHANGED <<routes, settling>>
    <3>1. upstream' = live /\ settling' = 0 /\ routes' = routes
      BY <2>1, <2>3 DEF RestoreFile
    <3>2. apart' = "no" => live \in routes
      BY <2>1, <2>3 DEF LeftApart
    <3>3. \A s \in routes : Healthy(s)
      BY <2>1, TwoSlots
    <3> QED BY <2>1, <2>3, <3>1, <3>2, <3>3 DEF RoutesFollow, Healthy
  <2> QED BY <2>2, <2>3 DEF Reload, RestoreFile, Goto, runVars
<1>5. RequestsFit'
  BY DEF DeploymentInv, RequestsFit, Reload, Goto, runVars, RestoreFile, LeftApart, slotVars,
     trafficVars
<1>6. FlightsFit'
  BY DEF DeploymentInv, ScriptKnows, FlightsFit, Reload, Goto, runVars, RestoreFile,
     LeftApart, trafficVars
<1> QED BY <1>1, <1>2, <1>3, <1>4, <1>5, <1>6 DEF DeploymentInv

\* A recreated proxy routes to what the file names, or to nothing; a failure may
\* also leave the old one, on a slot that is still up.
LEMMA RecreateProxyKeeps ==
    ASSUME DeploymentInv, RecreateProxy
    PROVE  DeploymentInv'
<1>1. DeploymentTypeOK'
  BY DEF DeploymentInv, DeploymentTypeOK, RecreateProxy, LeftApart, Goto, runVars, slotVars,
     trafficVars, Idle, Colours
<1>2. FileNamesHealthy'
  BY DEF DeploymentInv, FileNamesHealthy, ScriptKnows, Healthy, RecreateProxy, Goto, runVars,
     slotVars
<1>3. ScriptKnows'
  BY DEF DeploymentInv, ScriptKnows, RecreateProxy, Goto, runVars, Idle
<1>4. RoutesFollow'
  <2>1. /\ step = "written" /\ upstream = Idle /\ settling = 0 /\ routes # Colours
        /\ routes # {} /\ \A s \in routes : Healthy(s)
        /\ UNCHANGED <<upstream, settling, container>>
    BY BetweenServed DEF DeploymentInv, ScriptKnows, RoutesFollow, RecreateProxy, Goto,
       slotVars, runVars
  <2>2. Healthy(Idle) /\ {Idle} # Colours /\ Colours # {}
    BY <2>1, TwoSlots, Durations DEF DeploymentInv, FileNamesHealthy
  <2>3. CASE routes' \in {{}, {Idle}} /\ step' \in {"switched", "none"}
    BY <2>1, <2>2, <2>3 DEF RoutesFollow, Healthy
  <2>4. CASE step' = "none" /\ apart' = LeftApart(upstream) /\ UNCHANGED routes
    BY <2>1, <2>4 DEF RoutesFollow, Healthy, LeftApart
  <2> QED BY <2>3, <2>4 DEF RecreateProxy, Goto, runVars
<1>5. RequestsFit'
  BY DEF DeploymentInv, RequestsFit, RecreateProxy, Goto, runVars, slotVars, trafficVars
<1>6. FlightsFit'
  BY DEF DeploymentInv, ScriptKnows, FlightsFit, RecreateProxy, Goto, runVars, trafficVars
<1> QED BY <1>1, <1>2, <1>3, <1>4, <1>5, <1>6 DEF DeploymentInv

\* Without a proxy the file alone changes.
LEMMA NoProxyYetKeeps ==
    ASSUME DeploymentInv, NoProxyYet
    PROVE  DeploymentInv'
<1>1. DeploymentTypeOK'
  BY DEF DeploymentInv, DeploymentTypeOK, NoProxyYet, Goto, nginxVars, runVars, slotVars,
     trafficVars
<1>2. FileNamesHealthy'
  BY DEF DeploymentInv, FileNamesHealthy, Healthy, NoProxyYet, Goto, nginxVars, runVars,
     slotVars
<1>3. ScriptKnows'
  BY DEF DeploymentInv, ScriptKnows, NoProxyYet, Goto, nginxVars, runVars, Idle
<1>4. RoutesFollow'
  BY DEF DeploymentInv, ScriptKnows, RoutesFollow, NoProxyYet, Goto, nginxVars, runVars
<1>5. RequestsFit'
  BY DEF DeploymentInv, RequestsFit, NoProxyYet, Goto, slotVars, trafficVars
<1>6. FlightsFit'
  BY DEF DeploymentInv, FlightsFit, NoProxyYet, Goto, nginxVars, runVars, trafficVars
<1> QED BY <1>1, <1>2, <1>3, <1>4, <1>5, <1>6 DEF DeploymentInv

\* The pause begins after the switch, whether or not the reload has settled.
LEMMA EnsureProxyKeeps ==
    ASSUME DeploymentInv, EnsureProxy
    PROVE  DeploymentInv'
<1>1. DeploymentTypeOK'
  <2>1. upstream \in Colours /\ routes' \subseteq Colours /\ settling' \in 0 .. Settle
    BY Durations, TwoSlots DEF DeploymentInv, DeploymentTypeOK, ScriptKnows, EnsureProxy, Goto
  <2>2. step' \in {"sleeping", "none"}
    BY DEF EnsureProxy, Goto
  <2>3. sleepLeft' \in 0 .. Sleep
    BY Durations DEF EnsureProxy, Pause
  <2> QED BY <2>1, <2>2, <2>3
      DEF DeploymentInv, DeploymentTypeOK, EnsureProxy, slotVars, trafficVars
<1>2. FileNamesHealthy'
  BY Durations DEF DeploymentInv, FileNamesHealthy, ScriptKnows, Healthy, EnsureProxy, Goto,
     Pause, slotVars, Idle, Colours
<1>3. ScriptKnows'
  BY DEF DeploymentInv, ScriptKnows, EnsureProxy, Goto, Pause, Idle
<1>4. RoutesFollow'
  <2>1. /\ step = "switched" /\ step' \in {"sleeping", "none"} /\ upstream \in Colours
        /\ Healthy(upstream) /\ settling \in 0 .. Settle /\ UNCHANGED <<upstream, apart, container>>
    BY TwoSlots, Durations DEF DeploymentInv, DeploymentTypeOK, FileNamesHealthy, ScriptKnows,
       EnsureProxy, Goto, slotVars
  <2>2. CASE routes' \in {{}, {upstream}} /\ settling' = 0
    <3>1. {upstream} # Colours /\ Colours # {}
      BY TwoSlots
    <3> QED BY <2>1, <2>2, <3>1 DEF RoutesFollow, Healthy
  <2>3. CASE UNCHANGED <<routes, settling>>
    <3>1. \A s \in routes : Healthy(s)
      BY <2>1, <2>3, Durations DEF DeploymentInv, DeploymentTypeOK, RoutesFollow
    <3>2. routes # {} => upstream \in routes
      BY <2>1, <2>3, Durations DEF DeploymentInv, RoutesFollow
    <3> QED BY <2>1, <2>3, <3>1, <3>2 DEF DeploymentInv, RoutesFollow, Healthy
  <2> QED BY <2>2, <2>3 DEF EnsureProxy
<1>5. RequestsFit'
  BY DEF DeploymentInv, RequestsFit, EnsureProxy, Goto, Pause, slotVars, trafficVars
<1>6. FlightsFit'
  BY Durations DEF DeploymentInv, DeploymentTypeOK, ScriptKnows, RoutesFollow, FlightsFit,
     EnsureProxy, Goto, Pause, trafficVars, Idle, Other, Colours
<1> QED BY <1>1, <1>2, <1>3, <1>4, <1>5, <1>6 DEF DeploymentInv

\* The old slot is stopped when no route and no flight of it is left.
LEMMA StopOtherKeeps ==
    ASSUME DeploymentInv, StopOther
    PROVE  DeploymentInv'
<1>1. DeploymentTypeOK'
  BY Durations DEF DeploymentInv, DeploymentTypeOK, StopOther, Goto, nginxVars, runVars,
     slotVars, trafficVars
<1>2. FileNamesHealthy'
  BY DEF DeploymentInv, DeploymentTypeOK, FileNamesHealthy, ScriptKnows, Healthy, StopOther,
     Goto, nginxVars, runVars, slotVars, Idle, Other
<1>3. ScriptKnows'
  BY Durations DEF DeploymentInv, DeploymentTypeOK, ScriptKnows, FlightsFit, StopOther, Goto,
     nginxVars, runVars, Idle
<1>4. RoutesFollow'
  BY Durations DEF DeploymentInv, DeploymentTypeOK, RoutesFollow, FlightsFit, StopOther, Goto,
     nginxVars, runVars
<1>5. RequestsFit'
  BY Durations DEF DeploymentInv, DeploymentTypeOK, RequestsFit, StopOther, Goto, slotVars,
     trafficVars
<1>6. FlightsFit'
  BY Durations DEF DeploymentInv, DeploymentTypeOK, FlightsFit, StopOther, Goto, nginxVars,
     runVars, trafficVars, Other, Colours
<1> QED BY <1>1, <1>2, <1>3, <1>4, <1>5, <1>6 DEF DeploymentInv

\* The script ends with the old slot stopped.
LEMMA DeployedKeeps ==
    ASSUME DeploymentInv, Deployed
    PROVE  DeploymentInv'
<1>1. DeploymentTypeOK'
  BY DEF DeploymentInv, DeploymentTypeOK, Deployed, Goto, nginxVars, runVars, slotVars,
     trafficVars
<1>2. FileNamesHealthy'
  BY DEF DeploymentInv, FileNamesHealthy, Healthy, Deployed, Goto, nginxVars, runVars,
     slotVars
<1>3. ScriptKnows'
  BY DEF DeploymentInv, ScriptKnows, Deployed, Goto
<1>4. RoutesFollow'
  BY EndsServed, EndsNamed DEF DeploymentInv, RoutesFollow, ScriptKnows, Healthy, Deployed,
     nginxVars, slotVars, Goto
<1>5. RequestsFit'
  BY DEF DeploymentInv, RequestsFit, Deployed, Goto, slotVars, trafficVars
<1>6. FlightsFit'
  BY DEF DeploymentInv, FlightsFit, Deployed, Goto, nginxVars, runVars, trafficVars
<1> QED BY <1>1, <1>2, <1>3, <1>4, <1>5, <1>6 DEF DeploymentInv

\* A killed script leaves what it did; between the mv and the reload that is a
\* file nginx does not follow, but nginx is on a slot that is up.
LEMMA InterruptKeeps ==
    ASSUME DeploymentInv, Interrupt
    PROVE  DeploymentInv'
<1>1. DeploymentTypeOK'
  BY DEF DeploymentInv, DeploymentTypeOK, Interrupt, runVars, LeftApart, slotVars, trafficVars
<1>2. FileNamesHealthy'
  BY DEF DeploymentInv, FileNamesHealthy, Healthy, Interrupt, runVars, LeftApart, slotVars
<1>3. ScriptKnows'
  BY DEF DeploymentInv, ScriptKnows, Interrupt, runVars, LeftApart
<1>4. RoutesFollow'
  <2>1. /\ step # "none" /\ step' = "none" /\ UNCHANGED <<upstream, routes, settling, container>>
        /\ apart' = IF step = "written" THEN LeftApart(upstream) ELSE apart
        /\ settling \in 0 .. Settle
    BY DEF DeploymentInv, DeploymentTypeOK, Interrupt, slotVars, runVars
  <2>2. (settling > 0 => upstream \in routes /\ \A s \in Colours : Healthy(s))
        /\ (settling = 0 => routes # Colours)
    BY DEF DeploymentInv, RoutesFollow
  <2>3. apart' # "misled" => \A s \in routes : Healthy(s)
    BY <2>1, EndsServed DEF LeftApart
  <2>4. apart' = "no" /\ routes # {} => upstream \in routes
    BY <2>1, EndsNamed DEF LeftApart
  <2> QED BY <2>1, <2>2, <2>3, <2>4 DEF RoutesFollow, Healthy
<1>5. RequestsFit'
  BY DEF DeploymentInv, RequestsFit, Interrupt, runVars, LeftApart, slotVars, trafficVars
<1>6. FlightsFit'
  BY DEF DeploymentInv, FlightsFit, Interrupt, runVars, LeftApart, trafficVars
<1> QED BY <1>1, <1>2, <1>3, <1>4, <1>5, <1>6 DEF DeploymentInv

\* A slot that exits had no request left, and on the script's stop no flight.
LEMMA ExitKeeps ==
    ASSUME DeploymentInv, NEW s \in Colours, Exit(s)
    PROVE  DeploymentInv'
<1>1. DeploymentTypeOK'
  BY Durations DEF DeploymentInv, DeploymentTypeOK, Exit, nginxVars, runVars, scriptVars
<1>2. FileNamesHealthy'
  BY DEF DeploymentInv, FileNamesHealthy, Healthy, Exit, nginxVars, runVars
<1>3. ScriptKnows'
  BY DEF DeploymentInv, ScriptKnows, Healthy, Exit, nginxVars, runVars, scriptVars, Idle
<1>4. RoutesFollow'
  BY DEF DeploymentInv, RoutesFollow, Healthy, Exit, nginxVars, runVars, scriptVars
<1>5. RequestsFit'
  BY DEF DeploymentInv, DeploymentTypeOK, FileNamesHealthy, ScriptKnows, RequestsFit,
     FlightsFit, Healthy, Exit, Idle, Other, Colours
<1>6. FlightsFit'
  BY DEF DeploymentInv, DeploymentTypeOK, FlightsFit, Exit, nginxVars, runVars, scriptVars,
     Other
<1> QED BY <1>1, <1>2, <1>3, <1>4, <1>5, <1>6 DEF DeploymentInv

\* A new request or flight fits the time its slot still has.
LEMMA RequestKeeps ==
    ASSUME DeploymentInv, NEW s \in Colours, Request(s)
    PROVE  DeploymentInv'
<1>1. DeploymentTypeOK'
  BY Durations DEF DeploymentInv, DeploymentTypeOK, Request, nginxVars, runVars, slotVars,
     scriptVars
<1>2. FileNamesHealthy'
  BY DEF DeploymentInv, FileNamesHealthy, Healthy, Request, nginxVars, runVars, slotVars
<1>3. ScriptKnows'
  BY DEF DeploymentInv, ScriptKnows, Healthy, Request, nginxVars, runVars, slotVars,
     scriptVars, Idle
<1>4. RoutesFollow'
  BY DEF DeploymentInv, RoutesFollow, Healthy, Request, nginxVars, runVars, slotVars,
     scriptVars
<1>5. RequestsFit'
  BY DEF DeploymentInv, DeploymentTypeOK, RequestsFit, Request, slotVars
<1>6. FlightsFit'
  BY DEF DeploymentInv, DeploymentTypeOK, FileNamesHealthy, ScriptKnows, RoutesFollow,
     FlightsFit, Request, nginxVars, runVars, scriptVars, Idle, Other, Colours
<1> QED BY <1>1, <1>2, <1>3, <1>4, <1>5, <1>6 DEF DeploymentInv

\* A proxy that restarts routes to what the file names.
LEMMA ProxyRestartsKeeps ==
    ASSUME DeploymentInv, ProxyRestarts
    PROVE  DeploymentInv'
<1>1. DeploymentTypeOK'
  <2>1. routes' = {upstream} /\ upstream \in Colours /\ settling' = 0
    BY DEF DeploymentInv, DeploymentTypeOK, FileNamesHealthy, ProxyRestarts
  <2>2. settling' \in 0 .. Settle /\ routes' \subseteq Colours
    BY <2>1, Durations
  <2> QED BY <2>1, <2>2 DEF DeploymentInv, DeploymentTypeOK, ProxyRestarts, slotVars,
     scriptVars, runVars, trafficVars
<1>2. FileNamesHealthy'
  BY DEF DeploymentInv, FileNamesHealthy, Healthy, ProxyRestarts, slotVars
<1>3. ScriptKnows'
  BY DEF DeploymentInv, ScriptKnows, Healthy, ProxyRestarts, slotVars, scriptVars, runVars,
     Idle
<1>4. RoutesFollow'
  <2>1. /\ routes' = {upstream} /\ settling' = 0 /\ Healthy(upstream)
        /\ UNCHANGED <<upstream, apart, container, step, live>>
    BY DEF DeploymentInv, FileNamesHealthy, ProxyRestarts, slotVars, scriptVars, runVars
  <2>2. {upstream} # Colours
    BY TwoSlots
  <2>3. step \in {"begun", "recreating", "up"} => upstream = live
    BY DEF DeploymentInv, ScriptKnows
  <2> QED BY <2>1, <2>2, <2>3 DEF RoutesFollow, Healthy
<1>5. RequestsFit'
  BY DEF DeploymentInv, RequestsFit, ProxyRestarts, slotVars, trafficVars
<1>6. FlightsFit'
  <2>1. /\ routes # {} /\ routes' = {upstream} /\ settling' = 0 /\ upstream \in Colours
        /\ UNCHANGED <<upstream, step, live, sleepLeft, flight>>
    BY DEF DeploymentInv, DeploymentTypeOK, FileNamesHealthy, ProxyRestarts, scriptVars,
       runVars, trafficVars
  <2>2. step = "sleeping" => Other \notin routes' /\ Other' = Other
    BY <2>1, TwoSlots DEF DeploymentInv, ScriptKnows, Other
  <2>3. step = "sleeping" => flight[Other] <= sleepLeft /\ 0 <= sleepLeft
    <3>1. flight[Other] \in 0 .. Flight /\ sleepLeft \in 0 .. Sleep /\ settling \in 0 .. Settle
      BY TwoSlots DEF DeploymentInv, DeploymentTypeOK
    <3> QED BY <3>1, Durations DEF DeploymentInv, FlightsFit
  <2>4. step = "stopping" => flight'[Other'] = 0
    BY <2>1 DEF DeploymentInv, FlightsFit, Other
  <2>5. ~ (step \in {"written", "switched"} /\ live = NoSlot) /\ upstream # NoSlot
    BY <2>1, Durations DEF DeploymentInv, FlightsFit
  <2> QED BY <2>1, <2>2, <2>3, <2>4, <2>5 DEF FlightsFit
<1> QED BY <1>1, <1>2, <1>3, <1>4, <1>5, <1>6 DEF DeploymentInv

\* Time takes as much from the work as from the time left to it.
LEMMA TimePassesKeeps ==
    ASSUME DeploymentInv, TimePasses
    PROVE  DeploymentInv'
<1>1. DeploymentTypeOK'
  <2>1. \A n \in Nat, m \in Nat : n <= m => Less(n) \in 0 .. m
    BY DEF Less
  <2>2. settling' \in 0 .. Settle /\ sleepLeft' \in 0 .. Sleep
    BY <2>1, Durations DEF DeploymentInv, DeploymentTypeOK, TimePasses
  <2>3. /\ drainLeft' \in [Colours -> 0 .. Shutdown] /\ request' \in [Colours -> 0 .. Preview]
        /\ flight' \in [Colours -> 0 .. Flight]
    BY <2>1, Durations DEF DeploymentInv, DeploymentTypeOK, TimePasses
  <2>4. routes' \subseteq Colours
    BY DEF DeploymentInv, DeploymentTypeOK, RoutesFollow, TimePasses
  <2> QED BY <2>2, <2>3, <2>4 DEF DeploymentInv, DeploymentTypeOK, TimePasses
<1>2. FileNamesHealthy'
  BY DEF DeploymentInv, FileNamesHealthy, RoutesFollow, Healthy, TimePasses, Less
<1>3. ScriptKnows'
  BY DEF DeploymentInv, ScriptKnows, Healthy, TimePasses, Less, Idle
<1>4. RoutesFollow'
  <2>1. settling \in 0 .. Settle /\ UNCHANGED <<upstream, apart, container, step, live>>
    BY DEF DeploymentInv, DeploymentTypeOK, TimePasses
  <2>2. CASE settling = 1
    <3>1. routes' = {upstream} /\ settling' = 0
      BY <2>2 DEF TimePasses, Less
    <3>2. {upstream} # Colours
      BY TwoSlots
    <3>3. Healthy(upstream) /\ step \in {"none", "switched", "sleeping"}
      BY <2>2, Durations DEF DeploymentInv, RoutesFollow, FileNamesHealthy
    <3> QED BY <2>1, <3>1, <3>2, <3>3 DEF RoutesFollow, Healthy
  <2>3. CASE settling # 1
    <3>1. routes' = routes /\ (settling' > 0 <=> settling > 0) /\ (settling' = 0 <=> settling = 0)
      BY <2>1, <2>3, Durations DEF TimePasses, Less
    <3> QED BY <2>1, <3>1 DEF DeploymentInv, RoutesFollow, Healthy
  <2> QED BY <2>2, <2>3
<1>5. RequestsFit'
  BY DEF DeploymentInv, DeploymentTypeOK, RequestsFit, TimePasses, Less
<1>6. FlightsFit'
  <2>1. /\ settling \in 0 .. Settle /\ sleepLeft \in 0 .. Sleep /\ Other' = Other
        /\ \A s \in Colours : flight[s] \in 0 .. Flight /\ flight'[s] = Less(flight[s])
        /\ settling' = Less(settling) /\ sleepLeft' = Less(sleepLeft)
        /\ UNCHANGED <<upstream, step, live>>
    BY DEF DeploymentInv, DeploymentTypeOK, TimePasses, Other
  <2>2. \A s \in Colours : flight[s] = 0 => flight'[s] = 0
    BY <2>1 DEF Less
  <2>3. step \in {"written", "switched"} /\ live = NoSlot => routes' = {}
    BY DEF DeploymentInv, ScriptKnows, FlightsFit, TimePasses
  <2>4. CASE step = "sleeping"
    <3>1. upstream = Idle /\ (settling = 1 => routes' = {Idle}) /\ (settling # 1 => routes' = routes)
      BY <2>4 DEF DeploymentInv, ScriptKnows, TimePasses
    <3>2. CASE Other \in routes
      <4>1. settling > 0 /\ settling + Flight <= sleepLeft /\ flight'[Other] <= Flight
        BY <2>1, <2>4, <3>2, TwoSlots, Durations DEF DeploymentInv, FlightsFit, Less
      <4>2. CASE settling = 1
        BY <2>1, <2>2, <2>4, <3>1, <4>1, <4>2, TwoSlots, Durations DEF FlightsFit, Less
      <4>3. CASE settling # 1
        BY <2>1, <2>2, <2>4, <3>1, <3>2, <4>1, <4>3, TwoSlots, Durations DEF DeploymentInv,
           FlightsFit, Less
      <4> QED BY <4>2, <4>3
    <3>3. CASE Other \notin routes
      <4>1. Other \notin routes'
        BY <3>1, <3>3, TwoSlots
      <4> QED BY <2>1, <2>2, <2>4, <3>3, <4>1, TwoSlots, Durations
          DEF DeploymentInv, FlightsFit, Less
    <3> QED BY <3>2, <3>3
  <2>5. CASE step # "sleeping"
    BY <2>1, <2>2, <2>3, <2>5, TwoSlots DEF DeploymentInv, FlightsFit
  <2> QED BY <2>4, <2>5
<1> QED BY <1>1, <1>2, <1>3, <1>4, <1>5, <1>6 DEF DeploymentInv

-----------------------------------------------------------------------------
\* The inductive invariant of a deployment, whatever step of whatever run fails
\* or is interrupted.
THEOREM DeploymentInvariant == DeploymentSpec => []DeploymentInv
<1>1. DeploymentInit => DeploymentInv
  <2> SUFFICES ASSUME DeploymentInit PROVE DeploymentInv
    OBVIOUS
  <2>1. DeploymentTypeOK
    <3>1. /\ container \in [Colours -> {"stopped", "healthy", "stopping"}]
          /\ drainLeft \in [Colours -> 0 .. Shutdown] /\ request \in [Colours -> 0 .. Preview]
          /\ flight \in [Colours -> 0 .. Flight]
      BY Durations DEF DeploymentInit
    <3>2. settling \in 0 .. Settle /\ sleepLeft \in 0 .. Sleep
      BY Durations DEF DeploymentInit
    <3> QED BY <3>1, <3>2 DEF DeploymentInit, DeploymentTypeOK
  <2>2. FileNamesHealthy /\ ScriptKnows /\ RoutesFollow
    BY TwoSlots DEF DeploymentInit, FileNamesHealthy, ScriptKnows, RoutesFollow
  <2>3. RequestsFit /\ FlightsFit
    BY DEF DeploymentInit, RequestsFit, FlightsFit
  <2> QED BY <2>1, <2>2, <2>3 DEF DeploymentInv
<1>2. ASSUME DeploymentInv, [DeploymentNext]_deploymentVars PROVE DeploymentInv'
  <2>1. CASE UNCHANGED deploymentVars
    BY <1>2, <2>1 DEF DeploymentInv, DeploymentTypeOK, FileNamesHealthy, ScriptKnows, RoutesFollow,
       RequestsFit, FlightsFit, Healthy, Idle, Other, deploymentVars, nginxVars, slotVars,
       scriptVars, runVars, trafficVars
  <2>2. CASE Begin \/ RecreateNext \/ StartNext \/ KeepNext \/ WriteUpstream
    BY <1>2, <2>2, BeginKeeps, RecreateNextKeeps, StartNextKeeps, KeepNextKeeps, WriteUpstreamKeeps
  <2>3. CASE Reload \/ RecreateProxy \/ NoProxyYet \/ EnsureProxy
    BY <1>2, <2>3, ReloadKeeps, RecreateProxyKeeps, NoProxyYetKeeps, EnsureProxyKeeps
  <2>4. CASE StopOther \/ Deployed \/ Interrupt
    BY <1>2, <2>4, StopOtherKeeps, DeployedKeeps, InterruptKeeps
  <2>5. CASE \E s \in Colours : Exit(s) \/ Request(s)
    BY <1>2, <2>5, ExitKeeps, RequestKeeps
  <2>6. CASE ProxyRestarts \/ TimePasses
    BY <1>2, <2>6, ProxyRestartsKeeps, TimePassesKeeps
  <2> QED BY <1>2, <2>1, <2>2, <2>3, <2>4, <2>5, <2>6
      DEF DeploymentNext, ScriptStep, ProcessStep, Disturbance
<1> QED BY <1>1, <1>2, PTL DEF DeploymentSpec

\* Deployment!ServingSlotHealthy: nginx routes to slots that are up, whichever
\* steps of whichever runs failed, unless a run was misled by a file that an
\* interrupt or a proxy's restart between the mv and the reload, or a failed
\* recreation of the proxy, had left naming another slot than nginx's.
THEOREM LiveSlotServes == DeploymentSpec => []ServingSlotHealthy
<1>1. ASSUME DeploymentInv, upstream \in routes PROVE \A s \in routes : Healthy(s)
  <2>1. settling \in 0 .. Settle /\ routes \subseteq Colours /\ upstream \in Colours
    BY <1>1 DEF DeploymentInv, DeploymentTypeOK
  <2>2. CASE settling > 0
    BY <1>1, <2>1, <2>2 DEF DeploymentInv, RoutesFollow
  <2>3. CASE settling = 0
    BY <1>1, <2>1, <2>3, OneRouted, Durations DEF DeploymentInv, FileNamesHealthy
  <2> QED BY <2>1, <2>2, <2>3, Durations
<1>2. DeploymentInv => ServingSlotHealthy
  BY <1>1, EndsServed DEF ServingSlotHealthy, Healthy
<1> QED BY <1>2, DeploymentInvariant, PTL

\* Deployment!DrainSparesRequests: no stop cuts a request, and the script's stop
\* of the old slot no flight.
THEOREM DrainSpares == DeploymentSpec => []DrainSparesRequests
<1>1. DeploymentInv => DrainSparesRequests
  BY DEF DeploymentInv, RequestsFit, DrainSparesRequests
<1> QED BY <1>1, DeploymentInvariant, PTL

-----------------------------------------------------------------------------
(* The story side door *)

\* Where the ring keeps the k-th of the latest answers: from its start while it
\* fills, from the place of the next answer on once it is full.
Place(k) ==
    IF filled < RingSize THEN k - 1
    ELSE IF next + k - 1 < RingSize THEN next + k - 1 ELSE next + k - 1 - RingSize

RingFollows ==
    /\ filled = Len(latest)
    /\ filled < RingSize => next = filled
    /\ \A k \in 1 .. filled : latest[k] = ring[Place(k)]

\* The hidden ones among the answers of a sequence.
HiddenIn(s) == {k \in 1 .. Len(s) : s[k]}

DoorInv == DoorTypeOK /\ RingFollows /\ DoorJudgesWindow

-----------------------------------------------------------------------------
LEMMA HiddenFinite ==
    ASSUME NEW s \in Seq(BOOLEAN)
    PROVE  IsFiniteSet(HiddenIn(s)) /\ Cardinality(HiddenIn(s)) \in 0 .. Len(s)
<1>1. Len(s) \in Nat /\ IsFiniteSet(1 .. Len(s)) /\ Cardinality(1 .. Len(s)) = Len(s)
  <2>1. Len(s) \in Nat
    OBVIOUS
  <2>2. Len(s) \in Int /\ 1 \in Int
    BY <2>1
  <2>3. /\ IsFiniteSet(1 .. Len(s))
        /\ Cardinality(1 .. Len(s)) = IF 1 > Len(s) THEN 0 ELSE Len(s) - 1 + 1
    BY <2>2, FS_Interval
  <2> QED BY <2>1, <2>3
<1>2. IsFiniteSet(HiddenIn(s)) /\ Cardinality(HiddenIn(s)) <= Cardinality(1 .. Len(s))
  BY <1>1, FS_Subset DEF HiddenIn
<1> QED BY <1>1, <1>2, FS_CardinalityType

\* One answer more counts itself.
LEMMA AppendCounts ==
    ASSUME NEW s \in Seq(BOOLEAN), NEW h \in BOOLEAN
    PROVE  Cardinality(HiddenIn(Append(s, h))) = Cardinality(HiddenIn(s)) + (IF h THEN 1 ELSE 0)
<1>1. Len(s) \in Nat /\ Len(s) + 1 \notin HiddenIn(s)
  BY DEF HiddenIn
<1>2. HiddenIn(Append(s, h)) = IF h THEN HiddenIn(s) \cup {Len(s) + 1} ELSE HiddenIn(s)
  BY <1>1 DEF HiddenIn
<1>3. IsFiniteSet(HiddenIn(s)) /\ Cardinality(HiddenIn(s)) \in Nat
  BY HiddenFinite
<1>4. CASE h
  BY <1>1, <1>2, <1>3, <1>4, FS_AddElement
<1>5. CASE ~ h
  BY <1>2, <1>3, <1>5
<1> QED BY <1>4, <1>5

\* The oldest answer takes its own count with it.
LEMMA TailDiscounts ==
    ASSUME NEW s \in Seq(BOOLEAN), Len(s) > 0
    PROVE  Cardinality(HiddenIn(Tail(s))) = Cardinality(HiddenIn(s)) - (IF s[1] THEN 1 ELSE 0)
<1> DEFINE A == HiddenIn(s) \ {1}
           B == HiddenIn(Tail(s))
           f == [k \in A |-> k - 1]
<1>1. /\ Len(s) \in Nat /\ Len(Tail(s)) = Len(s) - 1
      /\ \A k \in 1 .. Len(s) - 1 : Tail(s)[k] = s[k + 1]
  OBVIOUS
<1>2. \A k \in A : k \in 2 .. Len(s) /\ s[k] /\ k - 1 \in B
  BY <1>1 DEF HiddenIn
<1>3. \A j \in B : j \in 1 .. Len(s) - 1 /\ j + 1 \in A /\ j = (j + 1) - 1
  BY <1>1 DEF HiddenIn
<1>4. f \in [A -> B]
  BY <1>2
<1>5. \A x, y \in A : f[x] = f[y] => x = y
  BY <1>2
<1>6. \A j \in B : \E x \in A : f[x] = j
  BY <1>3
<1>7. f \in Bijection(A, B)
  BY <1>4, <1>5, <1>6 DEF Bijection, Injection, Surjection, IsInjective
<1>8. IsFiniteSet(HiddenIn(s)) /\ Cardinality(HiddenIn(s)) \in Nat
  BY HiddenFinite
<1>9. IsFiniteSet(A) /\ Cardinality(A) = Cardinality(HiddenIn(s)) - (IF s[1] THEN 1 ELSE 0)
  <2>1. 1 \in HiddenIn(s) <=> s[1]
    BY <1>1 DEF HiddenIn
  <2>2. CASE s[1]
    BY <1>8, <2>1, <2>2, FS_RemoveElement
  <2>3. CASE ~ s[1]
    <3>1. A = HiddenIn(s)
      BY <2>1, <2>3
    <3>2. Cardinality(HiddenIn(s)) - 0 = Cardinality(HiddenIn(s))
      BY <1>8
    <3> QED BY <1>8, <2>3, <3>1, <3>2
  <2> QED BY <2>2, <2>3
<1>10. Cardinality(B) = Cardinality(A)
  BY <1>7, <1>9, FS_Bijection DEF ExistsBijection
<1> QED BY <1>9, <1>10

LEMMA ShareCounts ==
    ASSUME latest \in Seq(BOOLEAN)
    PROVE  Share = Cardinality(HiddenIn(latest))
<1>1. DOMAIN latest = 1 .. Len(latest)
  OBVIOUS
<1> QED BY <1>1 DEF Share, HiddenIn

LEMMA NextTurns ==
    ASSUME NEW i \in RingPlaces
    PROVE  (i + 1) % RingSize = IF i + 1 = RingSize THEN 0 ELSE i + 1
BY DoorAssumption DEF RingPlaces


\* storySideDoor.closed leaves ring, count and answers in step.
LEMMA RecordFollows ==
    ASSUME DoorTypeOK, RingFollows, hidden = Share, NEW h \in BOOLEAN, Record(h)
    PROVE  /\ RingFollows' /\ hidden' = Share'
           /\ ring' \in [RingPlaces -> BOOLEAN] /\ filled' \in 0 .. RingSize
           /\ next' \in RingPlaces /\ hidden' \in 0 .. RingSize
           /\ latest' \in Seq(BOOLEAN) /\ Len(latest') <= RingSize
<1>1. /\ RingSize \in Nat \ {0} /\ next \in RingPlaces /\ filled \in 0 .. RingSize
      /\ latest \in Seq(BOOLEAN) /\ Len(latest) = filled /\ ring \in [RingPlaces -> BOOLEAN]
  BY DoorAssumption DEF DoorTypeOK, RingFollows
<1>2. next' = (IF next + 1 = RingSize THEN 0 ELSE next + 1) /\ next' \in RingPlaces
  BY <1>1, NextTurns DEF Record, RingPlaces
<1>3. ring' = [ring EXCEPT ![next] = h] /\ ring' \in [RingPlaces -> BOOLEAN]
  BY <1>1 DEF Record
<1>4. Append(latest, h) \in Seq(BOOLEAN) /\ Len(Append(latest, h)) = filled + 1
  BY <1>1
<1>5. latest' = IF filled + 1 > RingSize THEN Tail(Append(latest, h)) ELSE Append(latest, h)
  BY <1>4 DEF Record
<1>6. Cardinality(HiddenIn(Append(latest, h))) = hidden + (IF h THEN 1 ELSE 0)
  BY <1>1, AppendCounts, ShareCounts
<1>7. hidden \in Nat
  BY DEF DoorTypeOK
<1>8. CASE filled < RingSize
  <2>1. latest' = Append(latest, h) /\ filled' = filled + 1 /\ next = filled
    BY <1>1, <1>5, <1>8 DEF Record, RingFollows
  <2>2. latest' \in Seq(BOOLEAN) /\ Len(latest') = filled'
    BY <1>4, <2>1
  <2>3. hidden' = Share'
    <3>1. hidden' = hidden + (IF h THEN 1 ELSE 0)
      BY <1>1, <1>7, <1>8 DEF Record, Counted
    <3>2. Share' = Cardinality(HiddenIn(latest'))
      BY <2>2 DEF Share, HiddenIn
    <3> QED BY <1>6, <2>1, <3>1, <3>2
  <2>4. ASSUME NEW k \in 1 .. filled' PROVE latest'[k] = ring'[Place(k)']
    <3>1. Place(k)' = k - 1
      BY <1>1, <1>2, <1>8, <2>1 DEF Place
    <3>2. CASE k = filled + 1
      BY <1>1, <1>3, <2>1, <3>1, <3>2
    <3>3. CASE k \in 1 .. filled
      <4>1. latest'[k] = latest[k] /\ latest[k] = ring[k - 1]
        BY <1>1, <1>8, <2>1, <3>3 DEF RingFollows, Place
      <4>2. k - 1 \in RingPlaces /\ k - 1 # next
        BY <1>1, <1>8, <2>1, <3>3 DEF RingPlaces
      <4> QED BY <1>1, <1>3, <3>1, <4>1, <4>2
    <3> QED BY <1>1, <2>1, <3>2, <3>3
  <2>5. filled' < RingSize => next' = filled'
    BY <1>1, <1>2, <2>1
  <2>6. RingFollows'
    BY <2>2, <2>4, <2>5 DEF RingFollows
  <2>7. hidden' \in 0 .. RingSize
    <3>1. Share' = Cardinality(HiddenIn(latest'))
      BY <2>2 DEF Share, HiddenIn
    <3>2. Cardinality(HiddenIn(latest')) \in 0 .. Len(latest')
      BY <2>2, HiddenFinite
    <3> QED BY <1>1, <1>8, <2>1, <2>2, <2>3, <3>1, <3>2
  <2> QED BY <1>1, <1>2, <1>3, <1>8, <2>1, <2>2, <2>3, <2>6, <2>7
<1>9. CASE filled = RingSize
  <2>1. latest' = Tail(Append(latest, h)) /\ filled' = RingSize
    BY <1>1, <1>5, <1>9 DEF Record
  <2>2. /\ latest' \in Seq(BOOLEAN) /\ Len(latest') = RingSize
        /\ \A k \in 1 .. RingSize : latest'[k] = Append(latest, h)[k + 1]
    BY <1>1, <1>4, <1>9, <2>1
  <2>3. Append(latest, h)[1] = latest[1] /\ latest[1] = ring[next]
    <3>1. Place(1) = next
      BY <1>1, <1>9 DEF Place, RingPlaces
    <3>2. 1 \in 1 .. Len(latest) /\ 1 \in 1 .. filled
      BY <1>1, <1>9
    <3>3. Append(latest, h)[1] = latest[1]
      BY <1>1, <3>2
    <3> QED BY <3>1, <3>2, <3>3 DEF RingFollows
  <2>4. hidden' = Share'
    <3>1. hidden' = hidden - (IF ring[next] THEN 1 ELSE 0) + (IF h THEN 1 ELSE 0)
      BY <1>1, <1>9 DEF Record, Counted
    <3>2. Share' = Cardinality(HiddenIn(latest'))
      BY <2>2 DEF Share, HiddenIn
    <3>3. Cardinality(HiddenIn(latest'))
          = Cardinality(HiddenIn(Append(latest, h))) - (IF ring[next] THEN 1 ELSE 0)
      <4> DEFINE l == Append(latest, h)
      <4>1. l \in Seq(BOOLEAN) /\ Len(l) > 0 /\ l[1] = ring[next]
        BY <1>1, <1>4, <2>3
      <4> HIDE DEF l
      <4>2. Cardinality(HiddenIn(Tail(l))) = Cardinality(HiddenIn(l)) - (IF l[1] THEN 1 ELSE 0)
        BY <4>1, TailDiscounts
      <4> QED BY <2>1, <4>1, <4>2 DEF l
    <3> QED BY <1>6, <1>7, <3>1, <3>2, <3>3
  <2>5. ASSUME NEW k \in 1 .. RingSize PROVE latest'[k] = ring'[Place(k)']
    <3>1. Place(k)' = IF next' + k - 1 < RingSize THEN next' + k - 1 ELSE next' + k - 1 - RingSize
      BY <1>1, <2>1 DEF Place
    <3>2. CASE k = RingSize
      <4>1. Place(k)' = next
        BY <1>1, <1>2, <3>1, <3>2 DEF RingPlaces
      <4>2. latest'[k] = h
        BY <1>1, <1>4, <1>9, <2>2, <3>2
      <4> QED BY <1>1, <1>3, <4>1, <4>2
    <3>3. CASE k < RingSize
      <4>1. Place(k)' = Place(k + 1) /\ Place(k + 1) # next /\ Place(k + 1) \in RingPlaces
        BY <1>1, <1>2, <1>9, <3>1, <3>3 DEF Place, RingPlaces
      <4>2. latest'[k] = latest[k + 1] /\ latest[k + 1] = ring[Place(k + 1)]
        BY <1>1, <1>4, <1>9, <2>2, <3>3 DEF RingFollows
      <4> QED BY <1>1, <1>3, <4>1, <4>2
    <3> QED BY <1>1, <3>2, <3>3
  <2>6. RingFollows'
    BY <2>1, <2>2, <2>5 DEF RingFollows
  <2>7. hidden' \in 0 .. RingSize
    <3>1. Share' = Cardinality(HiddenIn(latest'))
      BY <2>2 DEF Share, HiddenIn
    <3>2. Cardinality(HiddenIn(latest')) \in 0 .. Len(latest')
      BY <2>2, HiddenFinite
    <3> QED BY <1>1, <2>2, <2>4, <3>1, <3>2
  <2> QED BY <1>1, <1>2, <1>3, <2>1, <2>2, <2>4, <2>6, <2>7
<1> QED BY <1>1, <1>8, <1>9

\* What a lookup is told is what the counters say.
LEMMA VerdictFollows ==
    ASSUME DoorInv, DoorNext
    PROVE  DoorInv'
<1>1. PICK reply \in Replies, lived \in BOOLEAN :
        LET told == lived /\ reply # "failed"
            h == HiddenReply(reply)
        IN  /\ IF told THEN Record(h) ELSE UNCHANGED <<ring, filled, next, hidden, latest>>
            /\ verdict' = [says |-> Verdict(reply, told /\ h /\ LooksClosed(filled', hidden')),
                           reply |-> reply, live |-> lived]
  BY DEF DoorNext, Lookup
<1> DEFINE told == lived /\ reply # "failed"
           h == HiddenReply(reply)
           shut == told /\ h /\ LooksClosed(filled', hidden')
<1>2. h \in BOOLEAN
  BY DEF HiddenReply
<1>3. /\ RingFollows' /\ hidden' = Share'
      /\ ring' \in [RingPlaces -> BOOLEAN] /\ filled' \in 0 .. RingSize
      /\ next' \in RingPlaces /\ hidden' \in 0 .. RingSize
      /\ latest' \in Seq(BOOLEAN) /\ Len(latest') <= RingSize
  <2>1. CASE told
    BY <1>1, <1>2, <2>1, RecordFollows DEF DoorInv, DoorJudgesWindow
  <2>2. CASE ~ told
    BY <1>1, <2>2 DEF DoorInv, DoorJudgesWindow, DoorTypeOK, RingFollows, Place, Share
  <2> QED BY <2>1, <2>2
<1>4. verdict' = [says |-> Verdict(reply, shut), reply |-> reply, live |-> lived]
  BY <1>1
<1>5. Verdict(reply, shut) \in Verdicts
  BY DEF Verdict, Verdicts
<1>6. DoorTypeOK'
  BY <1>3, <1>4, <1>5 DEF DoorTypeOK
<1>7. filled' = Len(latest')
  BY <1>3 DEF RingFollows
<1>8. reply = "1675030" => (Verdict(reply, shut) = "askHelper" <=> shut)
  BY DEF Verdict
<1>9. reply = "1675030" => (told <=> lived) /\ h
  BY DEF HiddenReply
<1>10. LooksClosed(filled', hidden')
       <=> Len(latest') >= RingSize \div 2 /\ Share' * 100 > Len(latest') * ClosedPercent
  BY <1>3, <1>7 DEF LooksClosed
<1>11. verdict'.says = Verdict(reply, shut) /\ verdict'.reply = reply /\ verdict'.live = lived
  BY <1>4
<1>12. DoorJudgesWindow'
  <2> HIDE DEF shut, told, h
  <2>1. shut <=> told /\ h /\ LooksClosed(filled', hidden')
    BY DEF shut
  <2>2. reply = "1675030" =>
          (Verdict(reply, shut) = "askHelper" <=>
              /\ lived
              /\ Len(latest') >= RingSize \div 2
              /\ Share' * 100 > Len(latest') * ClosedPercent)
    BY <1>8, <1>9, <1>10, <2>1, Zenon
  <2> QED BY <1>3, <1>7, <1>11, <2>2 DEF DoorJudgesWindow
<1> QED BY <1>3, <1>6, <1>12 DEF DoorInv

-----------------------------------------------------------------------------
\* The inductive invariant of the side door: the ring holds the latest answers
\* in order, whether it fills or wraps.
THEOREM DoorInvariant == DoorSpec => []DoorInv
<1>1. DoorInit => DoorInv
  <2> SUFFICES ASSUME DoorInit PROVE DoorInv
    OBVIOUS
  <2>1. latest = <<>> /\ latest \in Seq(BOOLEAN) /\ Len(latest) = 0
    BY DEF DoorInit
  <2>2. HiddenIn(latest) = {}
    BY <2>1 DEF HiddenIn
  <2>3. Share = 0
    BY <2>1, <2>2, ShareCounts, FS_EmptySet
  <2>4. DoorTypeOK
    BY <2>1, DoorAssumption DEF DoorInit, DoorTypeOK, RingPlaces, Verdicts
  <2>5. RingFollows
    BY <2>1 DEF DoorInit, RingFollows
  <2>6. DoorJudgesWindow
    BY <2>1, <2>3 DEF DoorInit, DoorJudgesWindow
  <2> QED BY <2>4, <2>5, <2>6 DEF DoorInv
<1>2. ASSUME DoorInv, [DoorNext]_doorVars PROVE DoorInv'
  <2>1. CASE DoorNext
    BY <1>2, <2>1, VerdictFollows
  <2>2. CASE UNCHANGED doorVars
    BY <1>2, <2>2 DEF DoorInv, DoorTypeOK, RingFollows, Place, DoorJudgesWindow, Share, doorVars
  <2> QED BY <1>2, <2>1, <2>2
<1> QED BY <1>1, <1>2, PTL DEF DoorSpec

\* StoryDoor!DoorJudgesWindow: the door judges by exactly the latest answers.
THEOREM DoorIsJust == DoorSpec => []DoorJudgesWindow
<1>1. DoorInv => DoorJudgesWindow
  BY DEF DoorInv
<1> QED BY <1>1, DoorInvariant, PTL

-----------------------------------------------------------------------------
(* The preview on the home page *)

\* What the call under way and the pending verification may still add to the
\* attempt: a first call its challenge and that one's end, a verification its end.
Debt ==
    (IF pending # 0 THEN 1 ELSE 0) + (IF current # NoCall /\ ~ current.token THEN 2 ELSE 0)

\* Every attempt is paid for by a submitted link, three to each.
AttemptsPaid == attempt + Debt <= 3 * submitted

\* A call that is not aborted is the one previewAbort holds.
OneCall ==
    /\ \A c \in calls : ~ c.aborted => c = current
    /\ ~ current.aborted

\* A pending verification is that of the attempt that stands.
OwnerStands == pending # 0 => attempt = owner /\ attempt > 0

PageInv == PageTypeOK /\ AttemptsPaid /\ OneCall /\ OwnerStands /\ OldCleanupHarmless

-----------------------------------------------------------------------------
\* The range of the attempts.
LEMMA AttemptRange ==
    MaxSubmits \in Nat /\ MaxAttempt \in Nat /\ MaxAttempt = 3 * MaxSubmits
BY PageAssumption DEF MaxAttempt

\* The fields of a call; NoCall is none.
LEMMA CallFields ==
    /\ \A c \in Calls :
          /\ c.path \in 1 .. MaxSubmits /\ c.by \in 1 .. MaxAttempt
          /\ c.token \in BOOLEAN /\ c.aborted \in BOOLEAN
    /\ NoCall \notin Calls /\ ~ NoCall.aborted /\ ~ NoCall.token
BY AttemptRange DEF Calls, NoCall

\* An aborted call is the call it was, but for that.
LEMMA AbortedCall ==
    ASSUME NEW c \in Calls
    PROVE  /\ [c EXCEPT !.aborted = TRUE] \in Calls
           /\ [c EXCEPT !.aborted = TRUE].token = c.token
           /\ [c EXCEPT !.aborted = TRUE].by = c.by
           /\ [c EXCEPT !.aborted = TRUE].aborted
BY DEF Calls

\* What an abort leaves: the same calls, by the same attempts, the held one aborted.
LEMMA AbortedCalls ==
    ASSUME PageTypeOK
    PROVE  /\ Aborted(calls) \subseteq Calls
           /\ \A c \in Aborted(calls) :
                 \E d \in calls : c.token = d.token /\ c.by = d.by
                                  /\ (~ c.aborted => c = d /\ d # current)
<1> DEFINE A(d) == IF d = current THEN [d EXCEPT !.aborted = TRUE] ELSE d
<1>1. ASSUME NEW d \in calls
      PROVE  A(d) \in Calls /\ A(d).token = d.token /\ A(d).by = d.by
             /\ (~ A(d).aborted => A(d) = d /\ d # current)
  <2>1. d \in Calls
    BY DEF PageTypeOK
  <2>2. CASE d = current
    <3>1. A(d) = [d EXCEPT !.aborted = TRUE]
      BY <2>2
    <3> HIDE DEF A
    <3> QED BY <2>1, <3>1, AbortedCall
  <2>3. CASE d # current
    BY <2>1, <2>3
  <2> QED BY <2>2, <2>3
<1>2. Aborted(calls) = {A(d) : d \in calls}
  BY DEF Aborted
<1> HIDE DEF A
<1> QED BY <1>1, <1>2

\* The debt is never negative, so the attempts alone are within the bound.
LEMMA DebtIsOwed ==
    ASSUME PageTypeOK, AttemptsPaid
    PROVE  /\ attempt \in Nat /\ submitted \in Nat /\ submitted <= MaxSubmits
           /\ attempt <= 3 * submitted
           /\ pending # 0 => attempt + 1 <= 3 * submitted
           /\ current # NoCall /\ ~ current.token => attempt + 2 <= 3 * submitted
<1> USE AttemptRange DEF PageTypeOK, AttemptsPaid, Debt
<1>1. attempt \in Nat /\ submitted \in Nat /\ submitted <= MaxSubmits
  OBVIOUS
<1>2. CASE current # NoCall /\ ~ current.token
  BY <1>1, <1>2
<1>3. CASE ~ (current # NoCall /\ ~ current.token)
  BY <1>1, <1>3
<1> QED BY <1>2, <1>3

\* cancelPreviewWork.
LEMMA CancelKeepsTypes ==
    ASSUME PageTypeOK, Cancel
    PROVE  /\ verifying' \in BOOLEAN /\ pending' = 0 /\ attempt' = attempt + 1
           /\ widget' \in {"none", "idle", "executing", "solved"}
BY DEF PageTypeOK, Cancel

\* The widget callback's finally.
LEMMA CleanupKeepsTypes ==
    ASSUME PageTypeOK, NEW c, Cleanup(c)
    PROVE  /\ verifying' \in BOOLEAN /\ (pending' = pending \/ pending' = 0)
           /\ widget' \in {"none", "idle", "executing", "solved"}
<1>1. CASE c.token
  BY <1>1 DEF PageTypeOK, Cleanup
<1>2. CASE ~ c.token
  BY <1>2 DEF PageTypeOK, Cleanup
<1> QED BY <1>1, <1>2

\* Between two events no aborted call is left: each is the one that is held.
LEMMA NoneAborted ==
    ASSUME OneCall, ~ Rejecting
    PROVE  \A c \in calls : c = current
BY DEF OneCall, Rejecting

\* The start.
LEMMA StartPage == PageInit => PageInv
<1> SUFFICES ASSUME PageInit PROVE PageInv
  OBVIOUS
<1>1. PageTypeOK
  <2>1. 0 \in 0 .. MaxAttempt /\ 0 \in 0 .. MaxSubmits
    BY AttemptRange
  <2> QED BY <2>1 DEF PageInit, PageTypeOK
<1>2. AttemptsPaid
  BY DEF PageInit, AttemptsPaid, Debt
<1>3. OneCall
  BY CallFields DEF PageInit, OneCall
<1> QED BY <1>1, <1>2, <1>3 DEF PageInit, PageInv, OwnerStands, OldCleanupHarmless

\* A submitted form replaces the call under way.
LEMMA SubmitKeeps ==
    ASSUME PageInv, Submit
    PROVE  PageInv'
<1> USE DEF PageInv
<1>1. /\ verifying' \in BOOLEAN /\ pending' = 0 /\ attempt' = attempt + 1
      /\ widget' \in {"none", "idle", "executing", "solved"}
  BY CancelKeepsTypes DEF Submit
<1>2. /\ submitted' = submitted + 1 /\ submitted' \in 1 .. MaxSubmits
      /\ attempt' + 2 <= 3 * submitted' /\ attempt' \in 1 .. MaxAttempt
  BY <1>1, DebtIsOwed, AttemptRange DEF Submit
<1>3. owner' = owner /\ loads' = loads
  BY DEF Submit
<1>4. \A c \in Aborted(calls) : c \in Calls /\ c.aborted
  BY AbortedCalls, NoneAborted, CallFields DEF Submit
<1> DEFINE call == [path |-> submitted', token |-> FALSE, by |-> attempt', aborted |-> FALSE]
<1>5. call \in Calls /\ ~ call.token /\ ~ call.aborted
  BY <1>2 DEF Calls
<1>6. \/ calls' = Aborted(calls) \cup {call} /\ current' = call
      \/ calls' = Aborted(calls) /\ current' = NoCall
  BY DEF Submit
<1> HIDE DEF call
<1>7. PageTypeOK'
  <2>1. calls' \subseteq Calls /\ current' \in Calls \cup {NoCall}
    BY <1>4, <1>5, <1>6
  <2>2. submitted' \in 0 .. MaxSubmits /\ pending' \in 0 .. MaxSubmits /\ attempt' \in 0 .. MaxAttempt
    BY <1>1, <1>2, AttemptRange
  <2> QED BY <1>1, <1>3, <2>1, <2>2 DEF PageTypeOK
<1>8. AttemptsPaid'
  BY <1>1, <1>2, AttemptRange DEF AttemptsPaid, Debt
<1>9. OneCall'
  BY <1>4, <1>5, <1>6, CallFields DEF OneCall
<1> QED BY <1>1, <1>7, <1>8, <1>9 DEF OwnerStands, OldCleanupHarmless

\* An answered call and a rejected one leave in the same way.
LEMMA LeavingKeeps ==
    ASSUME PageInv, NEW c \in calls,
           calls' = calls \ {c}, current' = Released(c), Cleanup(c),
           UNCHANGED <<submitted, attempt, owner, loads>>
    PROVE  PageInv'
<1> USE DEF PageInv
<1>1. /\ verifying' \in BOOLEAN /\ (pending' = pending \/ pending' = 0)
      /\ widget' \in {"none", "idle", "executing", "solved"}
  BY CleanupKeepsTypes
<1>2. current' = current \/ current' = NoCall
  BY DEF Released
<1>3. PageTypeOK'
  <2>1. pending' \in 0 .. MaxSubmits
    BY <1>1, AttemptRange DEF PageTypeOK
  <2> QED BY <1>1, <1>2, <2>1 DEF PageTypeOK
<1>4. AttemptsPaid'
  <2>1. CASE current' = NoCall
    BY <2>1, <1>1, DebtIsOwed DEF AttemptsPaid, Debt
  <2>2. CASE current' = current
    <3>1. CASE pending' = pending
      BY <2>2, <3>1 DEF AttemptsPaid, Debt
    <3>2. CASE pending' = 0
      BY <2>2, <3>2, DebtIsOwed DEF AttemptsPaid, Debt
    <3> QED BY <1>1, <3>1, <3>2
  <2> QED BY <1>2, <2>1, <2>2
<1>5. OneCall'
  BY CallFields DEF OneCall, Released
<1> QED BY <1>1, <1>3, <1>4, <1>5 DEF OwnerStands, OldCleanupHarmless

\* A challenge starts the verification of the one call there is.
LEMMA ChallengedKeeps ==
    ASSUME PageInv, NEW c \in calls, Challenged(c)
    PROVE  PageInv'
<1> USE DEF PageInv
<1>1. c = current /\ calls' = {} /\ current' = NoCall
  BY NoneAborted DEF Challenged, Released
<1>2. c \in Calls /\ c.path \in 1 .. MaxSubmits /\ c # NoCall /\ ~ c.token
  BY CallFields DEF PageTypeOK, Challenged
<1>3. /\ attempt' = attempt + 1 /\ owner' = attempt' /\ pending' = c.path /\ verifying' = TRUE
      /\ loads' = loads \cup {attempt'} /\ submitted' = submitted /\ widget' = widget
  BY DEF Challenged
<1>4. attempt' + 1 <= 3 * submitted' /\ attempt' \in 1 .. MaxAttempt
  BY <1>1, <1>2, <1>3, DebtIsOwed, AttemptRange
<1>5. PageTypeOK'
  <2>1. attempt' \in 0 .. MaxAttempt /\ pending' \in 0 .. MaxSubmits
    BY <1>2, <1>3, <1>4, AttemptRange
  <2> QED BY <1>1, <1>3, <1>4, <2>1 DEF PageTypeOK
<1>6. AttemptsPaid'
  BY <1>1, <1>3, <1>4, DebtIsOwed, AttemptRange DEF AttemptsPaid, Debt
<1>7. OneCall'
  BY <1>1, CallFields DEF OneCall
<1>8. OwnerStands'
  BY <1>3, <1>4 DEF OwnerStands
<1> QED BY <1>1, <1>5, <1>6, <1>7, <1>8 DEF OldCleanupHarmless

\* A failed verification aborts its call.
LEMMA FailureKeeps ==
    ASSUME PageInv, pending # 0, FailVerification, ~ Rejecting,
           UNCHANGED <<submitted, owner>>, loads' \subseteq loads
    PROVE  PageInv'
<1> USE DEF PageInv
<1>1. Cancel /\ calls' = Aborted(calls) /\ current' = NoCall
  BY DEF FailVerification
<1>2. /\ verifying' \in BOOLEAN /\ pending' = 0 /\ attempt' = attempt + 1
      /\ widget' \in {"none", "idle", "executing", "solved"}
  BY <1>1, CancelKeepsTypes
<1>3. attempt' <= 3 * submitted' /\ attempt' \in 0 .. MaxAttempt
  BY <1>2, DebtIsOwed, AttemptRange
<1>4. \A c \in Aborted(calls) : c \in Calls /\ c.aborted
  BY AbortedCalls, NoneAborted, CallFields
<1>5. PageTypeOK'
  <2>1. pending' \in 0 .. MaxSubmits
    BY <1>2, AttemptRange
  <2> QED BY <1>1, <1>2, <1>3, <1>4, <2>1 DEF PageTypeOK
<1>6. AttemptsPaid'
  BY <1>1, <1>2, <1>3 DEF AttemptsPaid, Debt
<1>7. OneCall'
  BY <1>1, <1>4, CallFields DEF OneCall
<1> QED BY <1>2, <1>5, <1>6, <1>7 DEF OwnerStands, OldCleanupHarmless

\* The script's load.
LEMMA LoadedKeeps ==
    ASSUME PageInv, NEW a \in loads, Loaded(a)
    PROVE  PageInv'
<1>1. ~ Rejecting /\ UNCHANGED <<submitted, owner>> /\ loads' \subseteq loads
  BY DEF Loaded
<1>2. CASE attempt = a /\ pending # 0 /\ FailVerification
  BY <1>1, <1>2, FailureKeeps
<1>3. ASSUME UNCHANGED <<attempt, pending, verifying, calls, current>>,
             widget' = widget \/ widget' = "executing"
      PROVE  PageInv'
  BY <1>1, <1>3
      DEF PageInv, PageTypeOK, AttemptsPaid, Debt, OneCall, OwnerStands, OldCleanupHarmless
<1> QED BY <1>2, <1>3 DEF Loaded

\* The token's call is made for the verification that is pending.
LEMMA TokenKeeps ==
    ASSUME PageInv, Token
    PROVE  PageInv'
<1> USE DEF PageInv
<1>1. /\ ~ Rejecting /\ widget' = "solved"
      /\ UNCHANGED <<submitted, pending, verifying, attempt, owner, loads>>
  BY DEF Token
<1>2. CASE pending = 0
  <2>1. UNCHANGED <<calls, current>>
    BY <1>2 DEF Token
  <2> QED BY <1>1, <2>1 DEF PageTypeOK, AttemptsPaid, Debt, OneCall, OwnerStands, OldCleanupHarmless
<1>3. CASE pending # 0
  <2> DEFINE call == [path |-> pending, token |-> TRUE, by |-> attempt, aborted |-> FALSE]
  <2>1. calls' = Aborted(calls) \cup {call} /\ current' = call
    BY <1>3 DEF Token
  <2>2. attempt = owner /\ attempt \in 1 .. MaxAttempt /\ pending \in 1 .. MaxSubmits
    BY <1>3, AttemptRange DEF OwnerStands, PageTypeOK
  <2>3. call \in Calls /\ call.token /\ ~ call.aborted /\ call.by = owner
    BY <2>2 DEF Calls
  <2> HIDE DEF call
  <2>4. \A c \in Aborted(calls) : /\ c \in Calls /\ c.aborted
                                  /\ \E d \in calls : c.token = d.token /\ c.by = d.by
    BY <1>1, AbortedCalls, NoneAborted, CallFields
  <2>5. PageTypeOK'
    BY <1>1, <2>1, <2>3, <2>4 DEF PageTypeOK
  <2>6. AttemptsPaid'
    BY <1>1, <1>3, <2>1, <2>3, DebtIsOwed DEF AttemptsPaid, Debt
  <2>7. OneCall'
    BY <2>1, <2>3, <2>4 DEF OneCall
  <2>8. OldCleanupHarmless'
    BY <1>1, <1>3, <2>1, <2>3, <2>4 DEF OldCleanupHarmless
  <2> QED BY <1>1, <2>5, <2>6, <2>7, <2>8 DEF OwnerStands
<1> QED BY <1>2, <1>3

\* Every step keeps the invariant.
LEMMA PageStep == PageInv /\ [PageNext]_pageVars => PageInv'
<1> SUFFICES ASSUME PageInv, [PageNext]_pageVars PROVE PageInv'
  OBVIOUS
<1>1. CASE Submit
  BY <1>1, SubmitKeeps
<1>2. ASSUME NEW c \in calls, Answered(c) PROVE PageInv'
  BY <1>2, LeavingKeeps DEF Answered
<1>3. ASSUME NEW c \in calls, Challenged(c) PROVE PageInv'
  BY <1>3, ChallengedKeeps
<1>4. ASSUME NEW c \in calls, Rejected(c) PROVE PageInv'
  BY <1>4, LeavingKeeps DEF Rejected
<1>5. ASSUME NEW a \in loads, Loaded(a) PROVE PageInv'
  BY <1>5, LoadedKeeps
<1>6. CASE Token
  BY <1>6, TokenKeeps
<1>7. CASE WidgetFails
  BY <1>7, FailureKeeps DEF WidgetFails
<1>8. CASE UNCHANGED pageVars
  BY <1>8
      DEF pageVars, PageInv, PageTypeOK, AttemptsPaid, Debt, OneCall, OwnerStands,
          OldCleanupHarmless
<1> QED BY <1>1, <1>2, <1>3, <1>4, <1>5, <1>6, <1>7, <1>8 DEF PageNext, Answers, Rejects, LoadEnds

\* The inductive invariant of PreviewPage.
THEOREM PageInvariant == PageSpec => []PageInv
<1> QED BY StartPage, PageStep, PTL DEF PageSpec

\* PreviewPage!OldCleanupHarmless: the cleanup of a token's call never takes
\* another verification down.
THEOREM CleanupHarmless == PageSpec => []OldCleanupHarmless
<1>1. PageInv => OldCleanupHarmless
  BY DEF PageInv
<1> QED BY <1>1, PageInvariant, PTL

-----------------------------------------------------------------------------
(* The whole *)

\* A step of Serving is a step of each part or leaves it alone.
LEMMA ServingSteps ==
    ASSUME [ServingNext]_servingVars
    PROVE  /\ [GatewayNext]_gatewayVars /\ [EdgeNext]_edgeVars /\ [DoorNext]_doorVars
           /\ [DeploymentNext]_deploymentVars /\ [PageNext]_pageVars
           /\ part' = part
BY DEF ServingNext, GatewayMoves, EdgeMoves, DoorMoves, DeploymentMoves, PageMoves, servingVars

\* Serving behaves as each of its parts: as admission, the edge, the side door,
\* the deployment and the page do.
THEOREM ServingComposes ==
    ServingSpec => GatewaySpec /\ EdgeSpec /\ DoorSpec /\ DeploymentSpec /\ PageSpec
<1>1. ServingInit => GatewayInit /\ EdgeInit /\ DoorInit /\ DeploymentInit /\ PageInit
  BY DEF ServingInit
<1> QED BY <1>1, ServingSteps, PTL
        DEF ServingSpec, GatewaySpec, EdgeSpec, DoorSpec, DeploymentSpec, PageSpec

\* Type correctness of the whole.
THEOREM ServingTypes == ServingSpec => []ServingTypeOK
<1>1. ServingInit => part \in Parts
  BY DEF ServingInit
<1>2. part \in Parts /\ [ServingNext]_servingVars => (part \in Parts)'
  BY ServingSteps
<1>3. ServingSpec => [](part \in Parts)
  BY <1>1, <1>2, PTL DEF ServingSpec
<1>4. GatewayInv /\ EdgeInv /\ DoorInv /\ DeploymentInv /\ PageInv /\ part \in Parts => ServingTypeOK
  BY DEF GatewayInv, EdgeInv, DoorInv, DeploymentInv, PageInv, ServingTypeOK
<1> QED BY <1>3, <1>4, ServingComposes, GatewayInvariant, EdgeInvariant, DoorInvariant,
           DeploymentInvariant, PageInvariant, PTL

\* Every safety property of the parts, of the whole.
THEOREM ServingSafe ==
    ServingSpec => [](/\ BotCapKept /\ QueriesMerged
                      /\ EdgeKeepsNothingProvisional /\ EdgeOutlivesNothing
                      /\ DoorJudgesWindow /\ ServingSlotHealthy /\ DrainSparesRequests
                      /\ OldCleanupHarmless)
BY ServingComposes, BotCap, OneQuery, NothingProvisional, NothingOutlived, DoorIsJust,
   LiveSlotServes, DrainSpares, CleanupHarmless, PTL

=============================================================================
