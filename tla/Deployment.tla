----------------------------- MODULE Deployment -----------------------------
(***************************************************************************)
(* The blue/green deployment: the steps of src/tools/deploy.sh, the slot   *)
(* nginx routes to, the drain of a slot that is told to stop               *)
(* (src/server/main.go, serveHTTP), and an operator who may interrupt the  *)
(* script at any step and run it again.  Of each slot's traffic the model  *)
(* keeps the request and the flight with most time left.                   *)
(*                                                                         *)
(* Durations are small numbers in the order of the real ones.              *)
(***************************************************************************)
EXTENDS Integers

CONSTANTS
    Settle,     \* a reload: until the old nginx workers stop accepting
    Preview,    \* the longest request, a preview: siteverify and render
    Flight,     \* cacheSharedWorkTimeout
    Sleep,      \* the script's sleep 12
    Shutdown,   \* shutdownTimeout, within compose's stop_grace_period
    NoSlot

ASSUME DeploymentAssumption ==
    /\ {Settle, Preview, Flight, Sleep, Shutdown} \subseteq Nat
    /\ Settle > 0 /\ Settle + Flight <= Sleep
    /\ Preview <= Shutdown
    /\ NoSlot \notin {"app_blue", "app_green"}

VARIABLES
    upstream,    \* the slot nginx/runtime/app-upstream.conf names
    routes,      \* the slots nginx sends new requests to; {} without a proxy
    settling,    \* time until a reload has settled
    container,   \* each slot's container
    drainLeft,   \* time a stopping slot still waits for its requests
    step,        \* where the script is
    live,        \* its $live
    old,         \* its $old
    proxyRuns,   \* its $proxy_running
    confChanged, \* its $conf_changed
    sleepLeft,   \* time left of its sleep
    request,     \* time left of each slot's longest request
    flight,      \* time left of each slot's longest flight
    cut,         \* history: what the stop of the old slot has cut short
    apart        \* history: nginx was left on a slot the file does not name, or a
                 \* run was then misled by the file

nginxVars == <<upstream, routes, settling, apart>>
slotVars == <<container, drainLeft>>
runVars == <<live, old, proxyRuns, confChanged, sleepLeft>>
scriptVars == <<step, runVars>>
trafficVars == <<request, flight, cut>>
deploymentVars == <<nginxVars, slotVars, scriptVars, trafficVars>>

Colours == {"app_blue", "app_green"}
\* $next and $other.
Idle == IF live = "app_green" THEN "app_blue" ELSE "app_green"
Other == IF live = "app_green" THEN "app_green" ELSE "app_blue"

DeploymentTypeOK ==
    /\ {upstream, live, old} \subseteq Colours \cup {NoSlot}
    /\ routes \subseteq Colours /\ settling \in 0 .. Settle /\ apart \in {"no", "left", "misled"}
    /\ container \in [Colours -> {"stopped", "healthy", "stopping"}]
    /\ drainLeft \in [Colours -> 0 .. Shutdown]
    /\ step \in {"none", "begun", "recreating", "up", "written", "switched", "sleeping", "stopping"}
    /\ {proxyRuns, confChanged} \subseteq BOOLEAN /\ sleepLeft \in 0 .. Sleep
    /\ request \in [Colours -> 0 .. Preview] /\ flight \in [Colours -> 0 .. Flight]
    /\ cut \subseteq {"request", "flight"}

\* A fresh host.
DeploymentInit ==
    /\ upstream = NoSlot /\ routes = {} /\ settling = 0 /\ apart = "no"
    /\ container = [s \in Colours |-> "stopped"] /\ drainLeft = [s \in Colours |-> 0]
    /\ step = "none" /\ live = NoSlot /\ old = NoSlot
    /\ proxyRuns = FALSE /\ confChanged = FALSE /\ sleepLeft = 0
    /\ request = [s \in Colours |-> 0] /\ flight = [s \in Colours |-> 0] /\ cut = {}

\* What a run that ends here, the file naming that slot, makes of apart.
LeftApart(named) == IF apart = "no" /\ routes # {} /\ named \notin routes THEN "left" ELSE apart

Goto(from, to) == step = from /\ step' = to

-----------------------------------------------------------------------------
(* Mutants *)

\* A failed reload leaves the new slot in the file.
KeepsFile == Goto("written", "none") /\ UNCHANGED upstream

\* The old slot is stopped right after the switch.
NoPause == 0

-----------------------------------------------------------------------------
(* deploy.sh *)

\* Reads what the file names, and whether there is a proxy and a new
\* configuration.  Checks that fail leave everything as it was.  Nothing here
\* waits for a reload of an earlier run: that settling is over is an assumption,
\* that the checks and the pull before line 30 take longer than it does.
Begin ==
    /\ Goto("none", "begun") /\ settling = 0
    /\ live' = upstream /\ proxyRuns' = (routes # {}) /\ confChanged' \in BOOLEAN
    /\ apart' = IF apart # "no" /\ routes # {} /\ upstream \notin routes THEN "misled" ELSE "no"
    /\ UNCHANGED <<upstream, routes, settling, slotVars, old, sleepLeft, trafficVars>>

\* up -d of a slot still running another image stops it first.
RecreateNext ==
    /\ Goto("begun", "recreating") /\ container[Idle] = "healthy"
    /\ container' = [container EXCEPT ![Idle] = "stopping"]
    /\ drainLeft' = [drainLeft EXCEPT ![Idle] = Shutdown]
    /\ UNCHANGED <<nginxVars, runVars, trafficVars>>

\* It becomes healthy, or is stopped again and the script ends.
StartNext ==
    /\ step \in {"begun", "recreating"} /\ container[Idle] = "stopped"
    /\ \/ step' = "up" /\ container' = [container EXCEPT ![Idle] = "healthy"]
       \/ step' = "none" /\ UNCHANGED container
    /\ UNCHANGED <<nginxVars, drainLeft, runVars, trafficVars>>

\* A slot an earlier run left up with the same image.
KeepNext ==
    /\ Goto("begun", "up") /\ container[Idle] = "healthy"
    /\ UNCHANGED <<nginxVars, slotVars, runVars, trafficVars>>

WriteUpstream ==
    /\ Goto("up", "written")
    /\ old' = upstream /\ upstream' = Idle
    /\ UNCHANGED <<routes, settling, apart, slotVars, trafficVars>>
    /\ UNCHANGED <<live, proxyRuns, confChanged, sleepLeft>>

\* nginx -t or -s reload fails: the file names the old slot again.
RestoreFile == Goto("written", "none") /\ upstream' = old

Reload ==
    /\ proxyRuns /\ ~ confChanged
    /\ \/ /\ Goto("written", "switched")
          /\ routes' = routes \cup {Idle} /\ settling' = Settle
          /\ UNCHANGED <<upstream, apart>>
       \/ RestoreFile /\ apart' = LeftApart(old) /\ UNCHANGED <<routes, settling>>
    /\ UNCHANGED <<slotVars, runVars, trafficVars>>

\* A proxy with a new configuration is recreated.  If that fails set -e ends
\* the script, before the old proxy was touched, without a proxy or with one that
\* is not healthy, and nothing restores the file.
RecreateProxy ==
    /\ proxyRuns /\ confChanged
    /\ \/ Goto("written", "switched") /\ routes' = {Idle} /\ UNCHANGED apart
       \/ Goto("written", "none") /\ routes' \in {{}, {Idle}} /\ UNCHANGED apart
       \/ Goto("written", "none") /\ apart' = LeftApart(upstream) /\ UNCHANGED routes
    /\ UNCHANGED <<upstream, settling, slotVars, runVars, trafficVars>>

NoProxyYet ==
    /\ ~ proxyRuns /\ Goto("written", "switched")
    /\ UNCHANGED <<nginxVars, slotVars, runVars, trafficVars>>

\* Only a slot that was live is given time.
Pause == IF live = NoSlot THEN 0 ELSE Sleep

\* up -d of proxy and cloudflared creates or recreates what it must, or fails.
EnsureProxy ==
    /\ Goto("switched", "sleeping") \/ Goto("switched", "none")
    /\ \/ routes' = {upstream} /\ settling' = 0
       \/ step' = "none" /\ routes' = {} /\ settling' = 0
       \/ (routes # {} \/ step' = "none") /\ UNCHANGED <<routes, settling>>
    /\ sleepLeft' = Pause
    /\ UNCHANGED <<upstream, slotVars, live, old, proxyRuns, confChanged, apart, trafficVars>>

StopOther ==
    /\ Goto("sleeping", "stopping") /\ sleepLeft = 0
    /\ IF container[Other] = "healthy"
       THEN /\ container' = [container EXCEPT ![Other] = "stopping"]
            /\ drainLeft' = [drainLeft EXCEPT ![Other] = Shutdown]
       ELSE UNCHANGED slotVars
    /\ UNCHANGED <<nginxVars, runVars, trafficVars>>

Deployed ==
    /\ Goto("stopping", "none") /\ container[Other] = "stopped"
    /\ UNCHANGED <<nginxVars, slotVars, runVars, trafficVars>>

\* The script is killed.  Between the mv and the reload that leaves nginx on a
\* slot the file no longer names.
Interrupt ==
    /\ step # "none" /\ step' = "none"
    /\ apart' = IF step = "written" THEN LeftApart(upstream) ELSE apart
    /\ UNCHANGED <<upstream, routes, settling, slotVars, runVars, trafficVars>>

-----------------------------------------------------------------------------
(* The slots, nginx and time *)

\* serveHTTP after SIGTERM: Shutdown waits for the requests, not for flights,
\* and closes what is left when its time is up.
Exit(s) ==
    /\ container[s] = "stopping" /\ (request[s] = 0 \/ drainLeft[s] = 0)
    /\ container' = [container EXCEPT ![s] = "stopped"]
    /\ cut' = cut \cup (IF request[s] > 0 THEN {"request"} ELSE {})
                  \cup (IF flight[s] > 0 /\ step = "stopping" THEN {"flight"} ELSE {})
    /\ request' = [request EXCEPT ![s] = 0] /\ flight' = [flight EXCEPT ![s] = 0]
    /\ drainLeft' = [drainLeft EXCEPT ![s] = 0]
    /\ UNCHANGED <<nginxVars, scriptVars>>

\* A request comes by nginx; a page starts a flight that outlives it.
Request(s) ==
    /\ s \in routes /\ container[s] = "healthy"
    /\ \/ request' = [request EXCEPT ![s] = Preview] /\ UNCHANGED flight
       \/ flight' = [flight EXCEPT ![s] = Flight] /\ UNCHANGED request
    /\ UNCHANGED <<nginxVars, slotVars, scriptVars, cut>>

\* Docker restarts a proxy that died; it reads the file.
ProxyRestarts ==
    /\ routes # {} /\ routes' = {upstream} /\ settling' = 0
    /\ UNCHANGED <<upstream, apart, slotVars, scriptVars, trafficVars>>

Less(n) == IF n > 0 THEN n - 1 ELSE 0

TimePasses ==
    /\ \A s \in Colours : container[s] = "stopping" => drainLeft[s] > 0
    /\ settling' = Less(settling) /\ sleepLeft' = Less(sleepLeft)
    /\ routes' = IF settling = 1 THEN {upstream} ELSE routes
    /\ drainLeft' = [s \in Colours |-> Less(drainLeft[s])]
    /\ request' = [s \in Colours |-> Less(request[s])]
    /\ flight' = [s \in Colours |-> Less(flight[s])]
    /\ UNCHANGED <<upstream, apart, container, step, live, old, proxyRuns, confChanged, cut>>

ScriptStep ==
    \/ Begin \/ RecreateNext \/ StartNext \/ KeepNext \/ WriteUpstream
    \/ Reload \/ RecreateProxy \/ NoProxyYet \/ EnsureProxy
    \/ StopOther \/ Deployed

ProcessStep == TimePasses \/ \E s \in Colours : Exit(s) \/ Request(s)

Disturbance == Interrupt \/ ProxyRestarts

DeploymentNext == ScriptStep \/ ProcessStep \/ Disturbance

DeploymentSpec == DeploymentInit /\ [][DeploymentNext]_deploymentVars

\* Nobody interrupts the script and no proxy dies by itself; commands still fail.
UndisturbedSpec == DeploymentInit /\ [][ScriptStep \/ ProcessStep]_deploymentVars

-----------------------------------------------------------------------------
(* Properties *)

\* A slot nginx sends requests to is up and not being stopped, whichever steps
\* of whichever runs failed.  Excepted is a slot nginx was left on while the file
\* names another, from when a further run begins and takes the file at its word.
\* Three things leave it so: an interrupt between the mv and the reload, a proxy
\* that restarts there before the reload fails, and a recreation of the proxy
\* (deploy.sh:60) that fails before the old one was stopped.
ServingSlotHealthy ==
    (apart = "misled" /\ upstream \notin routes) \/ \A s \in routes : container[s] = "healthy"

\* The slot the script takes for live is one nginx routes to (deploy.sh:29, "The
\* live slot is the one nginx routes to, whatever else is running").
LiveSlotIsRouted == step = "begun" /\ proxyRuns => live \in routes

\* No stop cuts a request, and the script's stop of the old slot no flight a
\* page began there before the reload settled (deploy.sh, "the old slot's
\* detached flights ... finish before it stops").
DrainSparesRequests == cut = {}
=============================================================================
