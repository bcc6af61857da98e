------------------------------- MODULE Router -------------------------------
(***************************************************************************)
(* The routing table, the ports behind it and the requests that go through *)
(* (router/router.go), with what changes them: the actors of several apps  *)
(* that pick a port, start an instance there, wait until something answers *)
(* and swap the route (supervisor/health.go, deploy.go, actor.go).         *)
(*                                                                         *)
(* A port belongs to nobody until something listens on it.  Docker binds   *)
(* it when the container starts; under the native runtime the app does, in *)
(* its own time.  The releases, the failures that are counted and the      *)
(* restarts of the daemon are in Supervisor.                               *)
(***************************************************************************)
EXTENDS Naturals, FiniteSets

CONSTANTS
  Apps, Instances, Ports, Requests,
  NoApp, NoInstance, NoPort,
  Native,    \* whether the app binds the host's port itself
  MaxExits   \* bound: instances that exit on their own

ASSUME NothingAssumption == NoApp \notin Apps /\ NoInstance \notin Instances /\ NoPort \notin Ports
ASSUME NativeAssumption  == Native \in BOOLEAN /\ MaxExits \in Nat

VARIABLES
  table,     \* the router's table: an app's host -> the port of its backend
  instance,  \* where each instance is in its life, whose it is and its port
  listener,  \* who listens on each port
  actor,     \* what each app's actor does, the port it picked, what it starts
  current,   \* each actor's current instance
  draining,  \* instances replaced, whose drain is not over
  request,   \* requests: the route they found, whose it was, who answers
  exits

routeVars == <<table, instance, listener, actor, current, draining, request, exits>>

Unused == [life |-> "unused", app |-> NoApp, port |-> NoPort]
Idle   == [pc |-> "idle", port |-> NoPort, new |-> NoInstance]
NoRequest == [pc |-> "none", app |-> NoApp, port |-> NoPort, to |-> NoInstance, by |-> NoInstance]

Runs(i) == instance[i].life \in {"starting", "up"}

\* The instance ends, in one of several ways, and its port is free.
Ended(i, how) ==
  /\ instance' = [instance EXCEPT ![i].life = how]
  /\ listener' = [p \in Ports |-> IF listener[p] = i THEN NoInstance ELSE listener[p]]

-----------------------------------------------------------------------------
(* An app's actor *)

At(a, pc)    == actor[a].pc = pc
Becomes(a, pc) == actor' = [actor EXCEPT ![a].pc = pc]
Rests(a)     == actor' = [actor EXCEPT ![a] = Idle]

\* A deploy or a restart begins; FreePort finds a port nobody listens on.
FreePort(a, p) ==
  /\ At(a, "idle") /\ listener[p] = NoInstance
  /\ actor' = [actor EXCEPT ![a] = [pc |-> "picked", port |-> p, new |-> NoInstance]]
  /\ UNCHANGED <<table, instance, listener, current, draining, request, exits>>

Started(a, i, taken) ==
  LET p == actor[a].port IN
    /\ instance[i] = Unused
    /\ instance' = [instance EXCEPT ![i] = [life |-> "starting", app |-> a, port |-> p]]
    /\ listener' = IF Native \/ taken THEN listener ELSE [listener EXCEPT ![p] = i]
    /\ actor' = [actor EXCEPT ![a] = [pc |-> "probing", port |-> p, new |-> i]]

\* Start.  Mutant: that the port is taken is not an error.
StartAnyway(a, i) ==
  /\ At(a, "picked") /\ Started(a, i, listener[actor[a].port] # NoInstance)
  /\ UNCHANGED <<table, current, draining, request, exits>>

Start(a, i) ==
  /\ At(a, "picked")
  /\ Native \/ listener[actor[a].port] = NoInstance
  /\ Started(a, i, FALSE)
  /\ UNCHANGED <<table, current, draining, request, exits>>

\* Start fails: always when Docker finds the port taken.
StartFails(a) ==
  /\ At(a, "picked") /\ Rests(a)
  /\ UNCHANGED <<table, instance, listener, current, draining, request, exits>>

\* The probe asks the address; whoever is there may answer.
Probe(a) ==
  /\ At(a, "probing")
  /\ \E i \in Instances : listener[actor[a].port] = i /\ instance[i].life = "up"
  /\ Becomes(a, "healthy")
  /\ UNCHANGED <<table, instance, listener, current, draining, request, exits>>

\* It exits, does not answer in time, or the pusher goes, before or after it
\* answered: Stop.
Abandon(a) ==
  /\ At(a, "probing") \/ At(a, "healthy")
  /\ Rests(a)
  /\ IF Runs(actor[a].new) THEN Ended(actor[a].new, "stopped") ELSE UNCHANGED <<instance, listener>>
  /\ UNCHANGED <<table, current, draining, request, exits>>

Replaces(a) ==
  /\ At(a, "healthy") /\ Rests(a)
  /\ table' = [table EXCEPT ![a] = actor[a].port]
  /\ current' = [current EXCEPT ![a] = actor[a].new]

\* The swap: the route, then what was current is left to drain.  Mutant: it is
\* stopped there and then.
SwapAndStop(a) ==
  /\ Replaces(a)
  /\ LET old == current[a] IN
       IF old # NoInstance /\ Runs(old) THEN Ended(old, "stopped") ELSE UNCHANGED <<instance, listener>>
  /\ UNCHANGED <<draining, request, exits>>

Swap(a) ==
  /\ Replaces(a)
  /\ draining' = draining \cup {i \in Instances : i = current[a] /\ Runs(i)}
  /\ UNCHANGED <<instance, listener, request, exits>>

\* retire: after DrainGrace, or at once in a shutdown, and so at any moment.  It
\* asks nobody what is still in flight.
Drained(i) ==
  /\ i \in draining /\ draining' = draining \ {i}
  /\ IF Runs(i) THEN Ended(i, "drained") ELSE UNCHANGED <<instance, listener>>
  /\ UNCHANGED <<table, actor, current, request, exits>>

\* destroy: the route, then the instance, without a drain.
DropRoute(a) ==
  /\ At(a, "idle") /\ Becomes(a, "destroying") /\ table' = [table EXCEPT ![a] = NoPort]
  /\ UNCHANGED <<instance, listener, current, draining, request, exits>>

Destroy(a) ==
  /\ At(a, "destroying") /\ Rests(a) /\ current' = [current EXCEPT ![a] = NoInstance]
  /\ LET i == current[a] IN
       IF i # NoInstance /\ Runs(i) THEN Ended(i, "destroyed") ELSE UNCHANGED <<instance, listener>>
  /\ UNCHANGED <<table, draining, request, exits>>

-----------------------------------------------------------------------------
(* Instances *)

\* The app listens.  Under Docker the port is the container's already; under the
\* native runtime an app that cannot have it exits.
Listen(i) ==
  /\ instance[i].life = "starting"
  /\ LET p == instance[i].port IN
       IF Native /\ listener[p] # NoInstance
       THEN Ended(i, "exited")
       ELSE /\ instance' = [instance EXCEPT ![i].life = "up"]
            /\ listener' = IF Native THEN [listener EXCEPT ![p] = i] ELSE listener
  /\ UNCHANGED <<table, actor, current, draining, request, exits>>

\* The route stays, whatever the actor makes of it.
Exit(i) ==
  /\ Runs(i) /\ exits < MaxExits /\ exits' = exits + 1 /\ Ended(i, "exited")
  /\ UNCHANGED <<table, actor, current, draining, request>>

-----------------------------------------------------------------------------
(* Requests *)

\* ServeHTTP reads the table once.  A host without a route gets a 404.
Arrive(r, a) ==
  /\ request[r].pc = "none"
  /\ request' = [request EXCEPT ![r] =
       [pc |-> IF table[a] = NoPort THEN "done" ELSE "routed", app |-> a, port |-> table[a],
        to |-> IF table[a] = NoPort THEN NoInstance ELSE current[a], by |-> NoInstance]]
  /\ UNCHANGED <<table, instance, listener, actor, current, draining, exits>>

\* The proxy dials the backend it found.  Where nobody serves, that is a 502.
Dial(r) ==
  /\ request[r].pc = "routed"
  /\ LET i == listener[request[r].port] IN
       request' = IF i # NoInstance /\ instance[i].life = "up"
                  THEN [request EXCEPT ![r] = [@ EXCEPT !.pc = "served", !.by = i]]
                  ELSE [request EXCEPT ![r].pc = "done"]
  /\ UNCHANGED <<table, instance, listener, actor, current, draining, exits>>

\* The response is complete, or is cut by the end of who answers.
Finish(r) ==
  /\ request[r].pc = "served"
  /\ LET by == request[r].by IN
       request' = [request EXCEPT ![r] = [@ EXCEPT !.pc = "done", !.by = IF Runs(by) THEN by ELSE NoInstance]]
  /\ UNCHANGED <<table, instance, listener, actor, current, draining, exits>>

-----------------------------------------------------------------------------

RouteInit ==
  /\ table = [a \in Apps |-> NoPort] /\ current = [a \in Apps |-> NoInstance] /\ actor = [a \in Apps |-> Idle]
  /\ instance = [i \in Instances |-> Unused] /\ listener = [p \in Ports |-> NoInstance]
  /\ draining = {} /\ request = [r \in Requests |-> NoRequest] /\ exits = 0

ActorStep(a) ==
  \/ \E p \in Ports : FreePort(a, p)
  \/ \E i \in Instances : Start(a, i)
  \/ StartFails(a) \/ Probe(a) \/ Abandon(a) \/ Swap(a) \/ DropRoute(a) \/ Destroy(a)

RouteNext ==
  \/ \E a \in Apps : ActorStep(a)
  \/ \E i \in Instances : Drained(i) \/ Listen(i) \/ Exit(i)
  \/ \E r \in Requests : Dial(r) \/ Finish(r) \/ \E a \in Apps : Arrive(r, a)

RouteSpec == RouteInit /\ [][RouteNext]_routeVars

-----------------------------------------------------------------------------
(* Properties *)

\* The type invariant.
RouteTypeOK ==
  /\ table \in [Apps -> Ports \cup {NoPort}]
  /\ instance \in [Instances ->
       [life: {"unused", "starting", "up", "exited", "stopped", "destroyed", "drained"},
        app: Apps \cup {NoApp}, port: Ports \cup {NoPort}]]
  /\ listener \in [Ports -> Instances \cup {NoInstance}]
  /\ actor \in [Apps -> [pc: {"idle", "picked", "probing", "healthy", "destroying"},
                         port: Ports \cup {NoPort}, new: Instances \cup {NoInstance}]]
  /\ current \in [Apps -> Instances \cup {NoInstance}] /\ draining \subseteq Instances
  /\ request \in [Requests ->
       [pc: {"none", "routed", "served", "done"}, app: Apps \cup {NoApp}, port: Ports \cup {NoPort},
        to: Instances \cup {NoInstance}, by: Instances \cup {NoInstance}]]
  /\ exits \in 0 .. MaxExits

\* A request that finds a route is answered in full by the instance that is live
\* then, through swaps, deploys that fail and restarts, of its app and of others,
\* unless that instance exits or is destroyed, or was replaced and its drain is
\* over before the answer is (deploy.go:192-222, 227-248).  A drain is over when
\* DrainGrace has passed or the daemon stops, whoever is still served: "a deploy
\* drops no requests" (README.md:23) holds for requests shorter than that.
DeploysDropNothing ==
  \A r \in Requests :
    LET to == request[r].to IN
      request[r].pc = "done" /\ to # NoInstance /\ request[r].by # to
        => instance[to].life \in {"exited", "destroyed", "drained"}

\* "A collision fails Start, which fails the deploy and leaves the old release
\* serving" (port.go:13-15): while an app's live instance has not ended, nothing
\* else listens where the app is routed.
CollisionsFail ==
  \A a \in Apps :
    table[a] # NoPort /\ current[a] # NoInstance /\ Runs(current[a]) => listener[table[a]] \in {current[a], NoInstance}
=============================================================================
