----------------------------- MODULE Supervisor -----------------------------
(***************************************************************************)
(* internal/supervisor for one app: the actor that owns its deploys, the   *)
(* callers that queue on it, the instances it starts, the watchers that    *)
(* report their exits, the goroutines that retire replaced instances, and  *)
(* Reconcile after a daemon start; with the store (ReleaseStore), the      *)
(* runtime and the route they act on.  The daemon may crash between any    *)
(* two steps, shut down, and start again.                                  *)
(*                                                                         *)
(* What survives the daemon: the store, the instances.  What does not:     *)
(* the actor, its goroutines, the route, the callers.                      *)
(*                                                                         *)
(* A deploy is cut into the steps between which something else can happen: *)
(* an instance dies, a watcher reports, a drain ends, a caller gives up,   *)
(* the daemon stops.  Time is left out: a timer that is set may fire.      *)
(***************************************************************************)
EXTENDS Naturals, FiniteSets

CONSTANTS
  App,             \* the app
  Callers,         \* requests made of the daemon; each is made at most once
  Kinds,           \* what a caller may ask for
  Faults,          \* the outside calls that may fail, or report wrongly
  Image, NoImage,  \* the image of a built release, and of one that is not
  NoRow,           \* a release id without a row
  Nobody,          \* the deploy in progress has no caller: there is none
  MaxRelease,      \* bound: release ids
  MaxInstance,     \* bound: instances that exist or are referred to at a time
  CrashThreshold,  \* crashThreshold: failures in the window to give up
  WindowExpires,   \* TRUE: failures grow older than crashWindow
  MaxStops         \* bound: shutdowns and crashes of the daemon

Insts    == 1 .. MaxInstance
Ids      == 1 .. MaxRelease
None     == 0
AllKinds == {"push", "redeploy", "rollback", "restart", "destroy"}
\* store: a statement fails; parse: a row's snapshots do not parse; stop: a Stop
\* fails; wait: a Wait returns an error for an instance that runs; list: List
\* fails, or has no address for an instance; panic: a deploy panics.
AllFaults == {"store", "parse", "stop", "wait", "list", "panic"}

ASSUME BoundsAssumption == MaxRelease \in Nat \ {0} /\ MaxInstance \in Nat \ {0} /\ MaxStops \in Nat
ASSUME ThresholdAssumption == CrashThreshold \in Nat \ {0}
ASSUME KindsAssumption == Kinds \subseteq AllKinds /\ Faults \subseteq AllFaults /\ WindowExpires \in BOOLEAN
ASSUME ImageAssumption == NoImage # Image
ASSUME NobodyAssumption == Nobody \notin Callers \cup {"boot", "retry"} /\ Callers \cap {"boot", "retry"} = {}

VARIABLES
  apps, rows, liveRelease,  \* the store
  state, release,           \* the runtime: an instance's process, and the release it runs
  route,                    \* the instance the router sends the app's host to, or None
  daemon,                   \* down, sweeping and marking (Reconcile), up, stopping
  interrupted,              \* the daemon's context ended while Reconcile ran on it
  stops,                    \* shutdowns and crashes so far
  found, keep,              \* Reconcile: what List showed and is not handled yet; what to adopt
  boot,                     \* a restart sent by Reconcile is waiting for the actor
  pc, job,                  \* the actor's place in its code, and the deploy it runs
  current, exited,          \* actor.current (None for nil) and its exited flag
  retry, failures, status,  \* the scheduled restart, the counted failures, snap.State
  watching, exits,          \* instances with a watcher; exit events posted and not taken
  draining,                 \* instances a retire goroutine is going to stop
  calls                     \* the callers

Store == INSTANCE ReleaseStore WITH Apps <- {App}, Images <- {Image}

ASSUME NoRowAssumption == NoRow \notin Store!Row

storeVars   == <<apps, rows, liveRelease>>
runtimeVars == <<state, release>>
daemonVars  == <<daemon, interrupted, stops, found, keep, boot>>
jobVars     == <<pc, job>>
failVars    == <<retry, failures, status>>
actorVars   == <<current, exited, retry, failures, status>>
watchVars   == <<watching, exits, draining>>
vars == <<storeVars, runtimeVars, route, daemonVars, jobVars, actorVars, watchVars, calls>>

NoJob  == [by |-> Nobody, kind |-> "none", image |-> NoImage, row |-> None, cand |-> None]
NoCall == [kind |-> "none", phase |-> "new", cancelled |-> FALSE, row |-> None]
live   == liveRelease[App]

Fault(f) == f \in Faults

\* The ctx of the deploy in progress.  A push has its hook connection's; the
\* supervisor's own restarts have s.ctx; what the API starts has no deadline.
JobCancelled ==
  IF job.by \in Callers THEN calls[job.by].cancelled ELSE daemon = "stopping"

\* Stop of an instance, wanted or not: its process ends and it is removed.
Stop(i) ==
  /\ \/ state' = [state EXCEPT ![i] = "none"]
     \/ Fault("stop") /\ UNCHANGED state
  /\ UNCHANGED release

\* A new instance has an id nothing refers to.  Which one does not matter; the
\* model takes the smallest.
Unused(i) ==
  /\ state[i] = "none"
  /\ found[i] = "handled"
  /\ i \notin {current, route, keep, job.cand} \cup watching \cup exits \cup draining

Fresh(i) == Unused(i) /\ \A j \in Insts : Unused(j) => i <= j

-----------------------------------------------------------------------------
(* The actor's failure counting and its answers *)

\* failed: failures older than the window are dropped, this one is added, and
\* a restart is scheduled unless the threshold is reached.
FailureCounts == IF WindowExpires THEN 1 .. failures + 1 ELSE {failures + 1}

\* Mutant: the early return at the threshold is missing.
CountForever ==
  \E n \in FailureCounts :
    /\ failures' = n
    /\ status' = IF n >= CrashThreshold THEN "crashed" ELSE "restarting"
    /\ retry' = TRUE

CountFailure ==
  \E n \in FailureCounts :
    /\ failures' = n
    /\ IF n >= CrashThreshold
       THEN status' = "crashed" /\ UNCHANGED retry
       ELSE status' = "restarting" /\ retry' = TRUE

\* failed leaves the route as it is, so that a request gets a 502 and not a
\* 404.  Mutant: the route of an instance that exited is dropped.
DropRoute == route' = None

LeaveRoute == UNCHANGED route

\* A call that is over has no context to end any more.
Over(call, verdict) == [call EXCEPT !.phase = verdict, !.cancelled = FALSE]

\* The actor replies and takes its next event.
Answer(verdict) ==
  /\ pc' = "idle"
  /\ job' = NoJob
  /\ calls' = [c \in Callers |->
       IF c = job.by THEN Over(calls[c], verdict) ELSE calls[c]]

Accept == Answer("accepted")

\* A deploy that returns an error.  A scheduled restart that fails is one more
\* failure; nobody counts the failure of the others.
Reject ==
  /\ Answer("rejected")
  /\ IF job.by = "retry" THEN CountFailure ELSE UNCHANGED failVars
  /\ UNCHANGED <<current, exited>>

\* A restart runs the live row and touches it neither when it fails nor when it
\* succeeds; the other kinds have a row of their own.  Mutant: a rollback is
\* taken for a restart of an earlier release.
KeepsRowToo(kind) == kind \in {"restart", "rollback"}

KeepsRow(kind) == kind = "restart"

\* launchAndSwap's fail.  Mutant: the error returns without it.
GiveUpBare == Reject

GiveUp ==
  \/ KeepsRow(job.kind) /\ Reject
  \/ /\ ~KeepsRow(job.kind)
     /\ pc' = "fail"
     /\ job' = [job EXCEPT !.cand = None]
     /\ UNCHANGED <<actorVars, calls>>

-----------------------------------------------------------------------------
(* Callers *)

\* A request reaches send, which starts the actor when there is none.  A push
\* that a daemon about to stop still takes has a context that has ended.
Request(c, k) ==
  /\ daemon = "up"
  /\ calls[c].phase = "new"
  /\ k # "destroy"
  /\ calls' = [calls EXCEPT ![c].kind = k, ![c].phase = "waiting",
                            ![c].cancelled = interrupted /\ k = "push"]
  /\ pc' = IF pc = "none" THEN "idle" ELSE pc
  /\ UNCHANGED <<storeVars, runtimeVars, route, daemonVars, job, actorVars, watchVars>>

\* destroyApp and Destroy up to the queue.  Without an actor the route is all
\* there is to remove.
RequestDestroy(c) ==
  /\ daemon = "up"
  /\ calls[c].phase = "new"
  /\ calls' = [calls EXCEPT ![c].kind = "destroy",
       ![c].phase = IF App \notin apps THEN "rejected"
                    ELSE IF pc = "none" THEN "unrouting" ELSE "waiting"]
  /\ UNCHANGED <<storeVars, runtimeVars, route, daemonVars, jobVars, actorVars, watchVars>>

\* Destroy when the actor is gone, as the caller saw it a moment ago.
RemoveRoute(c) ==
  /\ calls[c].phase = "unrouting"
  /\ calls' = [calls EXCEPT ![c].phase = "deleting"]
  /\ route' = None
  /\ UNCHANGED <<storeVars, runtimeVars, daemonVars, jobVars, actorVars, watchVars>>

\* The pusher hangs up, or the client of a destroy does.  The other API calls
\* run with a context that cannot be cancelled.
Cancel(c) ==
  /\ calls[c].kind \in {"push", "destroy"}
  /\ calls[c].phase \in {"waiting", "taken", "unrouting", "deleting"}
  /\ ~calls[c].cancelled
  /\ calls' = [calls EXCEPT ![c].cancelled = TRUE]
  /\ UNCHANGED <<storeVars, runtimeVars, route, daemonVars, jobVars, actorVars, watchVars>>

\* send: a cancelled caller still in the queue leaves it.
Withdraw(c) ==
  /\ calls[c].phase = "waiting"
  /\ calls[c].cancelled
  /\ calls' = [calls EXCEPT ![c].phase = "rejected", ![c].cancelled = FALSE]
  /\ UNCHANGED <<storeVars, runtimeVars, route, daemonVars, jobVars, actorVars, watchVars>>

\* destroyApp after Destroy returned: the rows go, unless the client is gone.
DeleteRows(c) ==
  /\ calls[c].phase = "deleting"
  /\ \/ /\ ~calls[c].cancelled
        /\ Store!DeleteApp(App)
        /\ calls' = [calls EXCEPT ![c].phase = "accepted", ![c].cancelled = FALSE]
     \/ /\ calls[c].cancelled \/ Fault("store") \/ App \notin apps
        /\ calls' = [calls EXCEPT ![c].phase = "rejected", ![c].cancelled = FALSE]
        /\ UNCHANGED storeVars
  /\ UNCHANGED <<runtimeVars, route, daemonVars, jobVars, actorVars, watchVars>>

-----------------------------------------------------------------------------
(* The actor takes a command *)

Take(by, kind) ==
  /\ pc = "idle"
  /\ pc' = "prepare"
  /\ job' = [NoJob EXCEPT !.by = by, !.kind = kind]

TakeCommand(c) ==
  /\ calls[c].phase = "waiting"
  /\ calls[c].kind # "destroy"
  /\ Take(c, calls[c].kind)
  /\ calls' = [calls EXCEPT ![c].phase = "taken"]
  /\ UNCHANGED <<storeVars, runtimeVars, route, daemonVars, actorVars, watchVars>>

\* The restart Reconcile sends from a goroutine of its own, after or before
\* any other caller; send starts the actor.
TakeBoot ==
  /\ boot
  /\ daemon \in {"marking", "up", "stopping"}
  /\ pc = "none" => daemon # "stopping"
  /\ pc \in {"none", "idle"}
  /\ pc' = "prepare"
  /\ job' = [NoJob EXCEPT !.by = "boot", !.kind = "restart"]
  /\ boot' = FALSE
  /\ UNCHANGED <<storeVars, runtimeVars, route, daemon, interrupted, stops, found, keep, actorVars, watchVars, calls>>

\* The retry timer fires.
FireRetry ==
  /\ retry
  /\ Take("retry", "restart")
  /\ retry' = FALSE
  /\ UNCHANGED <<storeVars, runtimeVars, route, daemonVars, current, exited, failures, status, watchVars, calls>>

\* What the callers queued on an actor that has returned do: a Destroy has only
\* the route left to remove and goes on to the rows, any other gets
\* errNotRunning.  Mutant: nobody listens on the actor's done channel.
StillQueued == calls

ActorGone ==
  [c \in Callers |->
    IF calls[c].phase # "waiting" THEN calls[c]
    ELSE IF calls[c].kind = "destroy" THEN [calls[c] EXCEPT !.phase = "unrouting"]
    ELSE Over(calls[c], "rejected")]

\* The actor returns; its watchers have no one to report to.
Retired ==
  /\ pc' = "none"
  /\ current' = None /\ exited' = FALSE
  /\ retry' = FALSE /\ failures' = 0 /\ status' = "none"
  /\ watching' = {} /\ exits' = {}

\* What Destroy stops.  Mutant: it leaves the instance to Reconcile.
LeaveCurrent == UNCHANGED state

StopCurrent ==
  state' = IF current # None /\ ~exited THEN [state EXCEPT ![current] = "none"] ELSE state

\* destroy, the actor's last act.  A Stop that fails ends the actor all the
\* same, and the caller then keeps the rows.
Destroy(c) ==
  /\ pc = "idle"
  /\ calls[c].phase = "waiting" /\ calls[c].kind = "destroy"
  /\ route' = None
  /\ \/ /\ StopCurrent
        /\ calls' = [ActorGone EXCEPT ![c].phase = "deleting"]
     \/ /\ Fault("stop") /\ current # None /\ ~exited
        /\ calls' = [ActorGone EXCEPT ![c].phase = "rejected", ![c].cancelled = FALSE]
        /\ UNCHANGED state
  /\ Retired
  /\ boot' \in {boot, FALSE}   \* Reconcile's restart may have queued here too
  /\ UNCHANGED <<storeVars, release, daemon, interrupted, stops, found, keep, job, draining>>

-----------------------------------------------------------------------------
(* One deploy: deploy, launchAndSwap, start *)

\* deploy up to the row: what the release is made of.  Any of the reads may
\* refuse: no such app, nothing live, a version that cannot be rolled back to,
\* a manifest that does not parse.
PrepareRefused ==
  /\ pc = "prepare"
  /\ \/ App \notin apps \/ JobCancelled \/ Fault("store")
     \/ job.kind \in {"restart", "redeploy"} /\ live = None
     \/ job.kind \in {"push", "rollback"}
  /\ Reject
  /\ UNCHANGED <<storeVars, runtimeVars, route, daemonVars, watchVars>>

PrepareRestart ==
  /\ pc = "prepare" /\ job.kind = "restart"
  /\ App \in apps /\ ~JobCancelled /\ live # None
  /\ IF job.by \in Callers THEN retry' = FALSE /\ failures' = 0
                           ELSE UNCHANGED <<retry, failures>>
  /\ job' = [job EXCEPT !.row = live, !.image = rows[live].image]
  /\ pc' = "launch"
  /\ UNCHANGED <<storeVars, runtimeVars, route, daemonVars, current, exited, status, watchVars, calls>>

\* Where the image of a new release comes from: a push has none yet, a redeploy
\* has the live release's, a rollback that of an earlier one that was built and
\* is not live.
PrepareRelease ==
  /\ pc = "prepare"
  /\ App \in apps /\ ~JobCancelled
  /\ \/ job.kind = "push" /\ job' = [job EXCEPT !.image = NoImage]
     \/ job.kind = "redeploy" /\ live # None /\ job' = [job EXCEPT !.image = rows[live].image]
     \/ /\ job.kind = "rollback"
        /\ \E v \in Ids :
             /\ Store!Exists(v) /\ rows[v].image # NoImage /\ v # live
             /\ job' = [job EXCEPT !.image = rows[v].image]
  /\ pc' = "create"
  /\ UNCHANGED <<storeVars, runtimeVars, route, daemonVars, actorVars, watchVars, calls>>

CreateRow ==
  /\ pc = "create"
  /\ \/ /\ ~JobCancelled
        /\ \E i \in Ids :
             /\ Store!CreateRelease(App, job.image, i)
             /\ job' = [job EXCEPT !.row = i]
             /\ calls' = [calls EXCEPT ![job.by].row = i]
        /\ pc' = IF job.image = NoImage THEN "build" ELSE "launch"
        /\ UNCHANGED actorVars
     \/ /\ JobCancelled \/ Fault("store") \/ App \notin apps
        /\ Reject
        /\ UNCHANGED storeVars
  /\ UNCHANGED <<runtimeVars, route, daemonVars, watchVars>>

\* acquireBuild and Build.
Build ==
  /\ pc = "build"
  /\ \/ ~JobCancelled /\ pc' = "built"
     \/ pc' = "fail"
  /\ UNCHANGED <<storeVars, runtimeVars, route, daemonVars, job, actorVars, watchVars, calls>>

RecordImage ==
  /\ pc = "built"
  /\ \/ /\ ~JobCancelled
        /\ Store!MarkBuilt(job.row, Image)
        /\ job' = [job EXCEPT !.image = Image]
        /\ pc' = "launch"
     \/ /\ JobCancelled \/ Fault("store") \/ ~Store!HasStatus(job.row, {"building"})
        /\ pc' = "fail"
        /\ UNCHANGED <<storeVars, job>>
  /\ UNCHANGED <<runtimeVars, route, daemonVars, actorVars, watchVars, calls>>

\* a.fail: the row of a release that will not go live ends.
FailRow ==
  /\ pc = "fail"
  /\ \/ Store!MarkFailed(job.row)
     \/ /\ Fault("store") \/ ~Store!HasStatus(job.row, {"building", "starting"})
        /\ UNCHANGED storeVars
  /\ Reject
  /\ UNCHANGED <<runtimeVars, route, daemonVars, watchVars>>

\* launchAndSwap up to the start.  What is run is the row's own snapshots.
Launch ==
  /\ pc = "launch"
  /\ status' = IF current = None \/ exited THEN "starting" ELSE status
  /\ pc' = "start"
  /\ UNCHANGED <<storeVars, runtimeVars, route, daemonVars, job, current, exited, retry, failures, watchVars, calls>>

\* A snapshot does not parse.
LaunchRefused ==
  /\ pc = "launch"
  /\ Fault("parse")
  /\ GiveUp
  /\ UNCHANGED <<storeVars, runtimeVars, route, daemonVars, watchVars>>

StartInstance ==
  /\ pc = "start"
  /\ \/ /\ \E i \in Insts :
             /\ Fresh(i)
             /\ state' = [state EXCEPT ![i] = "up"]
             /\ release' = [release EXCEPT ![i] = job.row]
             /\ job' = [job EXCEPT !.cand = i]
        /\ pc' = "health"
        /\ UNCHANGED <<actorVars, calls>>
     \/ GiveUp /\ UNCHANGED runtimeVars
  /\ UNCHANGED <<storeVars, route, daemonVars, watchVars>>

Healthy ==
  /\ pc = "health"
  /\ state[job.cand] = "up"
  /\ ~JobCancelled
  /\ pc' = "check"
  /\ UNCHANGED <<storeVars, runtimeVars, route, daemonVars, job, actorVars, watchVars, calls>>

\* It exited, it did not answer in time, or the context ended: by then or by
\* the check after start.
Abandon ==
  /\ pc = "health" \/ (pc = "check" /\ JobCancelled)
  /\ Stop(job.cand)
  /\ GiveUp
  /\ UNCHANGED <<storeVars, route, daemonVars, watchVars>>

PassCheck ==
  /\ pc = "check"
  /\ ~JobCancelled
  /\ pc' = "swap"
  /\ UNCHANGED <<storeVars, runtimeVars, route, daemonVars, job, actorVars, watchVars, calls>>

\* Mutants: the timer keeps running; no watcher; nothing is handed to retire.
KeepRetry == UNCHANGED retry

DropRetry == retry' = FALSE

NoWatcher(i) == UNCHANGED watching

StartWatcher(i) == watching' = watching \cup {i}

NothingRetired == draining

ToRetire == IF current # None /\ ~exited THEN draining \cup {current} ELSE draining

\* The swap: route, current instance, pending restart, failure history, status,
\* watcher, and the old instance handed to retire.
Swap ==
  /\ pc = "swap"
  /\ route' = job.cand
  /\ current' = job.cand /\ exited' = FALSE
  /\ DropRetry
  /\ failures' = IF KeepsRow(job.kind) THEN failures ELSE 0
  /\ status' = "running"
  /\ StartWatcher(job.cand)
  /\ draining' = ToRetire
  /\ IF KeepsRow(job.kind) THEN Accept
     ELSE pc' = "setlive" /\ UNCHANGED <<job, calls>>
  /\ UNCHANGED <<storeVars, runtimeVars, daemonVars, exits>>

\* The push succeeds whether or not the row can be marked.
RecordLive ==
  /\ pc = "setlive"
  /\ \/ Store!SetLive(App, job.row)
     \/ /\ Fault("store") \/ ~Store!HasStatus(job.row, {"starting"})
        /\ UNCHANGED storeVars
  /\ Accept
  /\ UNCHANGED <<runtimeVars, route, daemonVars, actorVars, watchVars>>

\* deploy's recover: an error, and nothing else.
Panic ==
  /\ Fault("panic")
  /\ pc \notin {"none", "idle"}
  /\ Reject
  /\ UNCHANGED <<storeVars, runtimeVars, route, daemonVars, watchVars>>

-----------------------------------------------------------------------------
(* Instances, watchers, drains *)

Die(i) ==
  /\ state[i] = "up"
  /\ state' = [state EXCEPT ![i] = "dead"]
  /\ UNCHANGED <<storeVars, release, route, daemonVars, jobVars, actorVars, watchVars, calls>>

\* The exits channel has room for a watcher that finds the actor in a deploy.
\* Mutant: a report made meanwhile is lost.
PostIfIdle(i) == exits' = IF pc = "idle" THEN exits \cup {i} ELSE exits

Post(i) == exits' = exits \cup {i}

\* watch: Wait returned.  Watchers end with the supervisor.
Report(i) ==
  /\ i \in watching
  /\ daemon # "stopping"
  /\ state[i] # "up" \/ Fault("wait")
  /\ watching' = watching \ {i}
  /\ Post(i)
  /\ UNCHANGED <<storeVars, runtimeVars, route, daemonVars, jobVars, actorVars, draining, calls>>

\* Whether an exit is the current instance's.  Mutant: the id is not compared.
IsAnyExit(i) == current # None /\ ~exited

IsCurrentExit(i) == i = current /\ ~exited

\* onExit, for an instance that was replaced or was reported before.
IgnoreExit(i) ==
  /\ pc = "idle" /\ i \in exits
  /\ ~IsCurrentExit(i)
  /\ exits' = exits \ {i}
  /\ UNCHANGED <<storeVars, runtimeVars, route, daemonVars, jobVars, actorVars, watching, draining, calls>>

\* onExit, for the current instance.
OnExit(i) ==
  /\ pc = "idle" /\ i \in exits
  /\ IsCurrentExit(i)
  /\ exits' = exits \ {i}
  /\ exited' = TRUE
  /\ Stop(current)
  /\ CountFailure
  /\ LeaveRoute
  /\ UNCHANGED <<storeVars, daemonVars, jobVars, current, watching, draining, calls>>

\* retire's goroutine: the drain has passed, or the daemon stops.
Retire(i) ==
  /\ i \in draining
  /\ draining' = draining \ {i}
  /\ Stop(i)
  /\ UNCHANGED <<storeVars, route, daemonVars, jobVars, actorVars, watching, exits, calls>>

-----------------------------------------------------------------------------
(* The daemon *)

AllHandled == [i \in Insts |-> "handled"]

\* Start: Reconcile lists the instances.
StartDaemon ==
  /\ daemon = "down"
  /\ daemon' = "sweeping"
  /\ found' = [i \in Insts |-> IF state[i] = "none" THEN "handled" ELSE state[i]]
  /\ UNCHANGED <<storeVars, runtimeVars, route, interrupted, stops, keep, boot, jobVars, actorVars, watchVars, calls>>

\* The daemon's context ends while Reconcile runs on it: from here on whatever
\* takes that context may fail.  Reconcile goes on as far as it can, and the
\* daemon opens its listeners before it sees to the signal.
Interrupt ==
  /\ daemon \in {"sweeping", "marking"} /\ ~interrupted
  /\ stops < MaxStops
  /\ stops' = stops + 1
  /\ interrupted' = TRUE
  /\ UNCHANGED <<storeVars, runtimeVars, route, daemon, found, keep, boot, jobVars, actorVars, watchVars, calls>>

\* List, ListApps or LiveRelease returns an error: the daemon only logs it and
\* goes on, with what is done done.
ReconcileFails ==
  /\ daemon = "sweeping" /\ keep = None
  /\ Fault("list") \/ Fault("store") \/ interrupted
  /\ daemon' = "up"
  /\ found' = AllHandled
  /\ UNCHANGED <<storeVars, runtimeVars, route, interrupted, stops, keep, boot, jobVars, actorVars, watchVars, calls>>

\* The instance to adopt: the first one listed that runs the live release.
\* Mutant: whatever its release.
AdoptableAny(i) == found[i] = "up" /\ live # None /\ keep = None

Adoptable(i) == found[i] = "up" /\ live # None /\ release[i] = live /\ keep = None

SweepKeep(i) ==
  /\ daemon = "sweeping"
  /\ Adoptable(i)
  /\ keep' = i
  /\ found' = [found EXCEPT ![i] = "handled"]
  /\ UNCHANGED <<storeVars, runtimeVars, route, daemon, interrupted, stops, boot, jobVars, actorVars, watchVars, calls>>

\* remove: a Stop that fails leaves the instance as it is, with a warning.
SweepRemove(i) ==
  /\ daemon = "sweeping"
  /\ found[i] # "handled"
  /\ ~Adoptable(i) \/ Fault("list")
  /\ Stop(i) \/ (interrupted /\ UNCHANGED runtimeVars)
  /\ found' = [found EXCEPT ![i] = "handled"]
  /\ UNCHANGED <<storeVars, route, daemon, interrupted, stops, keep, boot, jobVars, actorVars, watchVars, calls>>

\* adopt: an actor with the kept instance as its current one.
SweptAdopt ==
  /\ daemon = "sweeping" /\ found = AllHandled
  /\ keep # None
  /\ daemon' = "marking"
  /\ keep' = None
  /\ pc' = "idle"
  /\ current' = keep /\ exited' = FALSE
  /\ route' = keep
  /\ status' = "running"
  /\ watching' = {keep}
  /\ UNCHANGED <<storeVars, runtimeVars, interrupted, stops, found, boot, job, retry, failures, exits, draining, calls>>

\* adopt fails: the row's manifest does not parse, or the context ended before
\* the actor, which exists by then, took the command.  The instance runs on.
AdoptFails ==
  /\ daemon = "sweeping" /\ found = AllHandled
  /\ keep # None
  /\ \/ Fault("parse") /\ pc' = "none"
     \/ interrupted /\ pc' = "idle"
  /\ daemon' = "marking"
  /\ keep' = None
  /\ UNCHANGED <<storeVars, runtimeVars, route, interrupted, stops, found, boot, job, actorVars, watchVars, calls>>

\* Nothing to adopt; a live release with nothing running is restarted.
SweptRestart ==
  /\ daemon = "sweeping" /\ found = AllHandled
  /\ keep = None
  /\ daemon' = "marking"
  /\ boot' = (live # None)
  /\ UNCHANGED <<storeVars, runtimeVars, route, interrupted, stops, found, keep, jobVars, actorVars, watchVars, calls>>

MarkCutOff(i) ==
  /\ daemon = "marking"
  /\ Store!MarkFailed(i)
  /\ UNCHANGED <<runtimeVars, route, daemonVars, jobVars, actorVars, watchVars, calls>>

\* Reconcile has gone through the open releases, whether or not each could be
\* marked.  Mutant: it leaves them.
MarkedNone == TRUE

MarkedAll == Store!OpenReleases = {} \/ Fault("store") \/ interrupted

\* The listeners open.
Serve ==
  /\ daemon = "marking"
  /\ MarkedAll
  /\ daemon' = "up"
  /\ UNCHANGED <<storeVars, runtimeVars, route, interrupted, stops, found, keep, boot, jobVars, actorVars, watchVars, calls>>

\* Run sees that the daemon's context has ended, now or during Reconcile: the
\* hook connections' contexts end with it, and s.ctx.
Shutdown ==
  /\ daemon = "up"
  /\ \/ interrupted /\ UNCHANGED stops
     \/ ~interrupted /\ stops < MaxStops /\ stops' = stops + 1
  /\ daemon' = "stopping"
  /\ calls' = [c \in Callers |->
       IF calls[c].kind = "push" /\ calls[c].phase \in {"waiting", "taken"}
       THEN [calls[c] EXCEPT !.cancelled = TRUE] ELSE calls[c]]
  /\ UNCHANGED <<storeVars, runtimeVars, route, interrupted, found, keep, boot, jobVars, actorVars, watchVars>>

\* run: s.ctx is done.  Mutant: not while an instance is current.
MayQuitEmpty == pc = "idle" /\ current = None

MayQuit == pc = "idle"

ActorQuit ==
  /\ daemon = "stopping"
  /\ MayQuit
  /\ Retired
  /\ calls' = ActorGone
  /\ UNCHANGED <<storeVars, runtimeVars, route, daemonVars, job, draining>>

\* What the process takes with it.
ProcessGone ==
  /\ daemon' = "down" /\ interrupted' = FALSE
  /\ found' = AllHandled /\ keep' = None /\ boot' = FALSE
  /\ route' = None
  /\ job' = NoJob /\ draining' = {}
  /\ Retired
  /\ calls' = [c \in Callers |->
       IF calls[c].phase \in {"waiting", "taken", "unrouting", "deleting"}
       THEN Over(calls[c], "broken") ELSE calls[c]]
  /\ UNCHANGED <<storeVars, runtimeVars>>

\* Run returns when every actor and every goroutine of theirs has.  Mutant: the
\* goroutines of retire are not counted.
ActorsGone == pc = "none"

AllGone == pc = "none" /\ draining = {}

Exit ==
  /\ daemon = "stopping"
  /\ AllGone
  /\ ProcessGone
  /\ UNCHANGED stops

\* The process dies, or a listener does not open and it leaves without waiting
\* for the actors that Reconcile started.
Crash ==
  /\ daemon # "down"
  /\ stops < MaxStops
  /\ stops' = stops + 1
  /\ ProcessGone

-----------------------------------------------------------------------------
(* The specification *)

\* A daemon about to start: on a new data directory with the app created, or
\* after an earlier life that left v1 live and its instance in any state.
Init ==
  /\ apps = {App}
  /\ \/ /\ rows = [i \in Ids |-> NoRow] /\ liveRelease = [a \in {App} |-> None]
        /\ state = [i \in Insts |-> "none"] /\ release = [i \in Insts |-> None]
     \/ /\ rows = [i \in Ids |-> IF i = 1 THEN
             [app |-> App, version |-> 1, image |-> Image, status |-> "live"] ELSE NoRow]
        /\ liveRelease = [a \in {App} |-> 1]
        /\ \E s \in {"none", "up", "dead"} :
             state = [i \in Insts |-> IF i = 1 THEN s ELSE "none"]
        /\ release = [i \in Insts |-> IF i = 1 THEN 1 ELSE None]
  /\ route = None
  /\ daemon = "down" /\ interrupted = FALSE /\ stops = 0
  /\ found = AllHandled /\ keep = None /\ boot = FALSE
  /\ pc = "none" /\ job = NoJob
  /\ current = None /\ exited = FALSE
  /\ retry = FALSE /\ failures = 0 /\ status = "none"
  /\ watching = {} /\ exits = {} /\ draining = {}
  /\ calls = [c \in Callers |-> NoCall]

CallerStep(c) ==
  \/ \E k \in Kinds : Request(c, k)
  \/ "destroy" \in Kinds /\ RequestDestroy(c)
  \/ Cancel(c) \/ Withdraw(c) \/ RemoveRoute(c) \/ DeleteRows(c)

DeployStep ==
  \/ PrepareRefused \/ PrepareRestart \/ PrepareRelease
  \/ CreateRow \/ Build \/ RecordImage \/ FailRow
  \/ Launch \/ LaunchRefused \/ StartInstance \/ Healthy \/ Abandon \/ PassCheck
  \/ Swap \/ RecordLive

ExitStep == \E i \in Insts : IgnoreExit(i) \/ OnExit(i)

ReconcileStep ==
  \/ \E i \in Insts : SweepKeep(i) \/ SweepRemove(i)
  \/ SweptAdopt \/ AdoptFails \/ SweptRestart
  \/ \E i \in Ids : MarkCutOff(i)
  \/ Serve

Next ==
  \/ \E c \in Callers : CallerStep(c) \/ TakeCommand(c) \/ Destroy(c)
  \/ TakeBoot \/ FireRetry \/ ExitStep \/ ActorQuit
  \/ DeployStep \/ Panic
  \/ \E i \in Insts : Die(i) \/ Report(i) \/ Retire(i)
  \/ StartDaemon \/ ReconcileStep \/ ReconcileFails
  \/ Interrupt \/ Shutdown \/ Exit \/ Crash

Spec == Init /\ [][Next]_vars

\* What the Go scheduler and the timers give: a goroutine that can go on does,
\* and a select over events that keep being ready takes each of them some day.
\* Nobody is obliged to ask, to give up, to die, or to start or stop the daemon;
\* one told to stop does.
Fairness ==
  /\ WF_vars(DeployStep) /\ WF_vars(ReconcileStep) /\ WF_vars(interrupted /\ Shutdown) /\ WF_vars(Exit)
  /\ WF_vars(\E i \in Insts : Report(i)) /\ WF_vars(\E i \in Insts : Retire(i))
  /\ WF_vars(\E c \in Callers : Withdraw(c) \/ RemoveRoute(c) \/ DeleteRows(c))
  /\ SF_vars(ExitStep) /\ SF_vars(TakeBoot \/ FireRetry) /\ SF_vars(ActorQuit)
  /\ \A c \in Callers : SF_vars(TakeCommand(c) \/ Destroy(c))

FairSpec == Spec /\ Fairness

-----------------------------------------------------------------------------
(* Safety *)

Pcs == {"none", "idle", "prepare", "create", "build", "built", "fail", "launch",
        "start", "health", "check", "swap", "setlive"}

Phases == {"new", "waiting", "taken", "unrouting", "deleting", "accepted", "rejected", "broken"}

Job  == [by: Callers \cup {"boot", "retry", Nobody}, kind: AllKinds \cup {"none"},
         image: {Image, NoImage}, row: Ids \cup {None}, cand: Insts \cup {None}]
Call == [kind: AllKinds \cup {"none"}, phase: Phases, cancelled: BOOLEAN, row: Ids \cup {None}]

RuntimeTypeOK ==
  /\ state \in [Insts -> {"none", "up", "dead"}]
  /\ release \in [Insts -> Ids \cup {None}]

DaemonTypeOK ==
  /\ daemon \in {"down", "sweeping", "marking", "up", "stopping"} /\ interrupted \in BOOLEAN
  /\ stops \in 0 .. MaxStops
  /\ found \in [Insts -> {"handled", "up", "dead"}]
  /\ keep \in Insts \cup {None}
  /\ boot \in BOOLEAN

ActorTypeOK ==
  /\ current \in Insts \cup {None} /\ exited \in BOOLEAN
  /\ retry \in BOOLEAN /\ failures \in Nat
  /\ status \in {"none", "starting", "running", "restarting", "crashed"}

\* The type invariant.
TypeOK ==
  /\ Store!TypeOK /\ RuntimeTypeOK /\ DaemonTypeOK /\ ActorTypeOK
  /\ route \in Insts \cup {None}
  /\ pc \in Pcs /\ job \in Job
  /\ watching \subseteq Insts /\ exits \subseteq Insts /\ draining \subseteq Insts
  /\ calls \in [Callers -> Call]

\* After a destroy "nothing of the app runs or is reachable" (supervisor.go:
\* 201-203): once the app's rows are gone and no actor is left, what runs is
\* draining and nothing is routed; but for what a Reconcile that was cut off by a
\* shutdown did not get to.
DestroyedIsGone ==
  daemon = "up" /\ ~interrupted /\ App \notin apps /\ pc = "none" =>
    /\ route = None
    /\ \A i \in Insts : state[i] = "up" => i \in draining

\* Whenever the actor waits for its next event, what the route leads to is the
\* actor's current instance and runs the release the store calls live: after a
\* deploy that went through or failed at any step, a restart, an adoption after
\* a crash between the swap and SetLive (deploy.go:192-224, reconcile.go:51-91).
ServesLive ==
  pc = "idle" /\ current # None => route = current /\ release[current] = live

\* Nothing runs that nobody will stop: once Reconcile has swept, a running
\* instance is the current one, the one a deploy is trying, or one that drains
\* (health.go:35 "a rejected push leaves nothing running", reconcile.go:63-68).
\* A Reconcile cut off by a shutdown leaves the rest to the next one.
NoOrphan ==
  daemon \in {"marking", "up"} /\ ~interrupted =>
    \A i \in Insts : state[i] = "up" => i \in {current, job.cand} \cup draining

\* A release that is building or starting belongs to the deploy in progress:
\* every failure ends the row, also that of a deploy whose caller is gone
\* (deploy.go:108-111), and Reconcile ends those a crash or an interrupted
\* Reconcile before it left, before the listeners open, unless a shutdown cuts
\* it off in its turn.
OpenRowIsOwned ==
  daemon \in {"up", "stopping"} /\ ~interrupted =>
    \A i \in Store!OpenReleases :
      pc \notin {"none", "idle"} /\ job.kind # "restart" /\ job.row = i

\* The verdict a caller was given is what the store says of its release: live
\* (now, or until another replaced it) when accepted, failed when rejected.
VerdictMatchesRow ==
  \A c \in Callers :
    /\ calls[c].phase = "accepted" /\ calls[c].kind \in {"push", "redeploy", "rollback"} =>
         calls[c].row # None /\ Store!HasStatus(calls[c].row, {"live", "superseded"})
    /\ calls[c].phase = "rejected" /\ calls[c].row # None =>
         Store!HasStatus(calls[c].row, {"failed"})

\* A pending restart is for a current instance that has exited, so firing it
\* never replaces one that runs (deploy.go:192-200).
RetryOnlyForDead == retry => current # None /\ exited

\* An actor that thinks its instance runs will hear of its end: somebody still
\* waits on it, or has posted the exit.
CurrentIsWatched ==
  pc # "none" /\ current # None /\ ~exited => current \in watching \cup exits

\* Between events ps tells the truth (status.go:5-12): running is an instance
\* not known to have exited, restarting has a restart scheduled, crashed has
\* none and the failures to show for it.
StatusIsTrue ==
  pc = "idle" =>
    /\ status = "running" => current # None /\ ~exited
    /\ status = "restarting" => retry
    /\ status = "crashed" => ~retry /\ exited /\ failures >= CrashThreshold

\* supervisor.go:201-205 says of Destroy's order: it "leaves an app that exists
\* but serves nothing, never one that serves without existing".
ServedAppExists == route # None => App \in apps

\* No downtime by the supervisor's own hand: an instance that runs is stopped
\* only when the route no longer leads to it.
NeverStopsRouted ==
  [][\A i \in Insts : state[i] = "up" /\ state'[i] = "none" => route' # i]_vars

\* The route of an app that has one is moved, never dropped, while the daemon
\* lives and the app is not destroyed, whatever fails meanwhile.
RouteIsMoved ==
  [][route # None /\ route' = None => daemon' = "down" \/ \E c \in Callers : calls[c].kind = "destroy"]_vars

\* A daemon that shut down on request leaves no deploy half done: at most one
\* instance runs, it runs the live release, and no release is open.  One asked to
\* while it reconciled leaves orphans and open releases to the next daemon.
CleanExit ==
  [][Exit /\ ~interrupted =>
       /\ Store!OpenReleases = {}
       /\ \A i, j \in Insts : state[i] = "up" /\ state[j] = "up" => i = j /\ release[i] = live]_vars

-----------------------------------------------------------------------------
(* Liveness *)

\* Every request is answered, or its connection breaks with the daemon.
EveryCallEnds ==
  \A c \in Callers : calls[c].phase \in {"waiting", "taken", "unrouting", "deleting"} ~>
                     calls[c].phase \in {"accepted", "rejected", "broken"}

\* A shutdown comes to its end, one that is asked for during Reconcile too:
\* nothing the daemon waits for waits for it.
ShutdownEnds == daemon = "stopping" \/ interrupted ~> daemon = "down"

GivenUp == failures >= CrashThreshold

\* An app whose instance died is up again or given up on, or the daemon has
\* stopped: no death is lost and no scheduled restart is forgotten (README.md:
\* 25-27 "restarted with exponential backoff ... given up on after ten
\* failures").
DeathIsHandled ==
  (daemon = "up" /\ current # None /\ state[current] # "up") ~>
    (\/ current # None /\ state[current] = "up"
     \/ GivenUp
     \/ pc = "none")

=============================================================================
