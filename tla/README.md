# A TLA+ model of ashore

ashore is a small self-hosted platform: a `git push` is built into an image,
started as a container, checked, routed to by hostname, and the release it
replaces is drained and stopped. This directory models the part of it where
order matters: who moves the route, when an old instance may be stopped, what
the database says of a release, and what is left after a crash.

It also models what several apps share: names, ids, build slots, ports, the
host table, and the processes of the native runtime.

The source is `src/internal/...`; file names below are relative to it.

## Inventory

| component | state | operations | interacts with |
|---|---|---|---|
| store (`store/`) | apps, releases, live pointer, config, keys; SQLite, one connection | CreateApp, DeleteApp, CreateRelease, MarkBuilt, MarkFailed, SetLive | called by supervisor, api, gitserver, web |
| supervisor actor (`supervisor/actor.go`, `deploy.go`, `health.go`) | per app: current instance, pending retry, counted failures, status | push, redeploy, rollback, restart, destroy, adopt; exits, retry timer | store, runtime, router, logs, builder |
| supervisor (`supervisor/supervisor.go`) | map of actors, build slots, its context | send, actorFor, forget, Run | callers from api and hook |
| reconcile (`supervisor/reconcile.go`) | none of its own | adopt, sweep, restart, mark cut-off releases | runtime's List, store, actors |
| runtime (`runtime/`, `docker/`, `native/`) | instances: containers, or processes with a state directory | Start, Stop, Wait, Logs, List | survives the daemon |
| router (`router/`) | copy-on-write host table, in-flight requests, rate buckets | Set, Remove, ServeHTTP | set by the supervisor |
| hook and gitserver (`hook/`, `gitserver/`) | nonces, connections, repositories | Issue, redeem, handle; a push session | supervisor's Deploy; git moves the ref |
| api (`api/`) | no rows of its own; the repository directories | create, destroy, config, rollback, restart | store, supervisor, SSE streams |
| logs (`logs/`, `lines/`) | per app: ring, subscribers, file | Collect, Subscribe, Forget, rotation | runtime's Logs |
| daemon (`daemon/`, `serve/`) | listeners | start order, shutdown order | everything |
| builder, config, manifest, site, metrics, web, sse, cmd | little or none | | |

What is hard here: a deploy is a long sequence of calls into the store, the
runtime and the router, any of which may fail; while it runs, instances die,
watchers report, drains end, pushers hang up and the daemon is stopped or
crashes. Instances and rows outlive the daemon, actors and routes do not. The
list of what can go wrong, each at its line, is `hazards` in `PROJECT.json`.

What makes the components correct:

- store: one live release per app and the pointer on it; a status machine that
  only moves forward; versions without gaps though ids are reused.
- actor: what is routed is what runs the live release; nothing routed is
  stopped; the verdict a caller gets is what the row says; every exit of the
  current instance is heard and acted on; a scheduled restart replaces only a
  dead instance.
- supervisor: every caller is answered, also on an actor that retires; a
  shutdown ends.
- reconcile: after any crash, one instance per live release, no orphan and no
  open release, unless a shutdown interrupts it, which leaves them to the next.
- hook and gitserver: a deploy is started only for a session that is there;
  git records only what went live, and what is live but not recorded has a
  reason.
- logs: what a reader misses is marked; a destroyed app's log does not return.
- api: a row and its repository come and go together; a config that is saved
  is applied, unless its redeploy failed, was refused or was never asked for (see
  the findings); nothing of a deleted app reaches the app that gets its ids.
- router: a request that found a route is answered by the instance it led to, as
  long as that runs: a swap does not end it, the end of its drain does;
  a port serves one app; the sweep of the rate limiter gives nobody a token.
- native runtime: an image is mounted whole; what Start returned can be found by
  a later daemon for as long as it runs; an end is reported only of what ended, as
  far as `/proc` can be read.

## Modules

| module | models |
|---|---|
| `ReleaseStore` | the apps and releases tables: `store/apps.go`, `store/releases.go` |
| `ReleaseStoreProofs` | its theorems |
| `Supervisor` | one app: its actor, callers, instances, watchers, drains, reconcile, the daemon's life; uses `ReleaseStore` for the tables |
| `SupervisorProofs` | its theorems |
| `HookPush` | the pushes of one app: SSH session, nonce, git, hook process, connection, deploy verdict, ref: `hook/server.go`, `hook/client.go`, `gitserver/server.go`, `serve/serve.go` |
| `HookPushProofs` | its theorems |
| `LogHub` | one app's log: sinks, ring, readers behind bounded channels, the file and its rotation, Forget and Close: `logs/logs.go`, `logs/file.go` |
| `LogHubProofs` | its theorems |
| `ImageExport` | putting an image on disk once for all its instances: `runtime/native/rootfs.go` |
| `NativeRuntime` | Start, Stop, Wait and Logs of the processes runtime, on a host with pids and crashes: `runtime/native/`; extends `ImageExport` |
| `NativeRuntimeProofs` | its theorems |
| `AppLifecycle` | several apps: create, destroy, config changes and deploys over one id space and the shared build slots: `api/apps.go`, `api/config.go`, `supervisor/deploy.go`, `store/config.go`; extends `ReleaseStore` |
| `AppLifecycleProofs` | its theorems, among them that it implements `ReleaseStore` |
| `Router` | host table, ports, requests and drains of several apps: `router/router.go`, `supervisor/health.go`, `deploy.go`, `runtime/port.go` |
| `RouterProofs` | its theorems |
| `RateLimit` | token buckets and their sweep: `router/ratelimit.go` |
| `RateLimitProofs` | its theorems |
| `MCSupervisor`, `MCHookPush`, `MCLogHub`, `MCNativeRuntime`, `MCAppLifecycle`, `MCRouter` | small instances for TLC; `MCRouter` has those of `Router` and `RateLimit` |

`ReleaseStore` has one action per call that changes a row. The database has one
connection, each call is a statement or a transaction, so a call is atomic. Ids
are SQLite's: the next after the largest in use, so a deletion frees them;
versions are `MAX(version) + 1` over the app's own rows.

`Supervisor` composes it (`Store == INSTANCE ReleaseStore`, the same variables)
with everything one app's actor touches. `pc` is the actor's place in its code,
`job` the deploy it runs; a deploy is cut where the outside can interfere:

    prepare - create - build - built - launch - start - health - check - swap - setlive
                 \________\_______\______________________\_______\___ fail

`prepare` to `create` are the reads of `deploy`, `create` the row, `build` and
`built` the image, `launch` the announced status, `start` and `health` the
candidate, `check` the context check, `swap` everything from `router.Set` to
`retire` (no call in it can fail or wait, and what it touches is the actor's,
but for the route, which nobody else writes while the actor works), `setlive`
the row. A panic may strike at each of them. `state` and `release` are the
runtime's instances, `watching` and `exits` the watchers and their posted
events, `draining` what `retire` is going to stop. `daemon` is down, sweeping
and marking (reconcile), up or stopping; a crash is possible in each, and takes
actor, route, watchers and callers but not rows and instances.

Reconcile runs on the context that a SIGTERM ends (`daemon.go:99`). `Interrupt` is
that: from there on the statements, the Stops and the adoption that take the
context may fail, one by one (`ReconcileFails`, `SweepRemove`, `AdoptFails`,
`MarkedAll`), and the daemon nevertheless opens its listeners, serves until `Run`
looks at the context, and then shuts down in order. What it had not come to,
orphans, a live instance nobody adopted, open rows, it leaves to the next daemon.
`NoOrphan`, `OpenRowIsOwned`, `DestroyedIsGone` and `CleanExit` therefore speak of
a daemon that is not `interrupted`; the next one, which sweeps what was left, is
held to them again.

`HookPush` follows each push through five processes, each with its own state:
`session` (`run`), `git` (receive-pack), `hook` (the process git starts),
`conn` (`handle`) and the actor. Nobody tells the hook that git was killed, and
nobody tells git that the daemon crashed; each finds out by an exit code, a
broken connection or a read that completes, and the actions are those moments.
git is external: it shows the pusher a ref, runs the hook, and moves the ref
only from that value. The actor is abstracted to what a push sees of it: taken,
failed, past its last context check, live. A panic in it is `Supervisor`'s.

`LogHub` has one action per section of code under one lock: Append, getting a
sink, subscribing to it, and each of the three parts of Forget; only a rotation
is cut finer, into a step per rename, since a crash, or a second sink on the
same files, can come between them. A line is its number in its sink, a file its
number of lines. A reader keeps, beside its channel, how many lines it was told
of, and an entry of the channel the last line it stands for (`upto`), which the
code has only for lines: with both, `NothingIsMissed` balances what was told and
what is on its way against what was appended, entry by entry. A
sink that nothing refers to is used again for a new one.

`NativeRuntime` names a process by its instance, which is what the start time in
`/proc` is for; a pid goes to one process at a time and is free once the process
was reaped. `proc` is the host's view (init, app, zombie, gone), `start` the
place in Start and spawn, `st` and `listed` the state file, `procs` the
children of this daemon. Start is cut at every system call that leaves
something behind: directories, the cgroup, the child, its spec, its verdict,
the state file, the entry in the map. A child of an earlier daemon is seen only
through `/proc` and the state file, where the start time may be `Unknown`. Each
look at it may fail to read `/proc`, which the code takes for its end
(`state.go:77-82`): `Sees` has that outcome, and `misread` remembers the instances
it happened to, of which the properties say nothing further. A cgroup that cannot
be removed stays, after a Start that failed (`start` is then `leaked`) or a Stop.
`Restart` is a crash and the next daemon in one step: what was in progress is
cut off, the children live on. `Prepare` comes from `ImageExport`, with one lock
per image; an export that was cut off has no marker.

`AppLifecycle` has requests (`caller`, one place per call of a handler that
changes something) and actors (`job`, likewise). Rows are known by ids, which
come back; callers and actors know an app by name. What an image and a config
are made of is the name they were built for and the number of changes they
contain. A statement with a caller's context fails when the caller has left, and
every such failure is a branch of its action. Where a request meets another
one half-way, `crossed` records it, so that properties can say what holds
otherwise. A launch succeeds or fails; what happens in between is
`Supervisor`'s.

`Router` has apps' actors that pick a port, start, probe, swap and drain, and
requests that look up, dial and finish. `listener` says who has a port. With
`Native` FALSE Docker binds it at Start, with TRUE the app does so later. A
drain may end at any moment, with `DrainGrace` or at once in a shutdown, and
whoever is still served is cut off; the instance is then `drained`. In
`RateLimit` a request reads the clock in one step and takes the lock in another, so
a bucket may see times out of order, at most `Delay` apart.

What is abstracted in `Supervisor`: an image, a commit, config and manifest (what a release
runs is its row); time (a set timer may fire; a counted failure may or may not
have left the window, `WindowExpires`); addresses (a route leads to an
instance); logs and metrics. Instance ids are reused once nothing refers to
them, which bounds the state and not the length of a run.

`Faults` names the outside calls that may fail: `store` any statement, `parse`
the reading of a row's snapshots, `stop` a Stop, `wait` a Wait that returns for
an instance that runs, `list` List, or a listed instance without an address, and
`panic`. A start, a build and a health check may always fail. A caller may hang
up where the code gives it a context to do so (`api/deploys.go:58-69` gives the
API's none).

## Runs

| run | question | bounds |
|---|---|---|
| `supervisor_deploys` | does every mix of deploys, restarts, deaths and crashes keep serving the live release and leave nothing behind? | 2 callers with any kind of request, 3 releases, 3 instances (of live, candidate, draining, orphan and dead, three at a time), 2 crashes or shutdowns: the second one hits reconcile and what it started; failures stay in the window |
| `supervisor_faults` | what holds when everything may fail? is every death handled, does a shutdown end? | 1 caller that pushes, every fault outside the store, 1 crash or shutdown, fair |
| `supervisor_destroy` | does a destroy leave nothing, and is every caller answered, whoever restarts or destroys meanwhile? | 2 callers, 2 instances, 1 crash or shutdown, failures may leave the window, fair |
| `hook` | is every verdict true, is the ref what went live, does every push and every shutdown end? | 2 pushes, which may start from the same ref or the second from the first's, 1 shutdown or crash, fair |
| `logs` | does a reader know of every line, and what do Forget, Close, a crash and a disk that fails leave? | 1 reader, which asks for 1 line and may fall 1 behind, 4 lines: the ring of 2 and the 3 files overflow; 2 sinks: a forgotten and a new one; 1 end of app or daemon, at any step |
| `native` | is what runs listed, mounted whole and reported truly, and what failed undone? | 2 instances of one image, of which callers stop, wait for and read one (the other is the rival for image and pid), 1 pid, so that it is reused whenever it can be (two processes with pids of their own share only the image), 2 crashes, 1 line of output, fair |
| `apps` | do rows, repositories, ids, config and slots agree whoever crosses whom? | 2 names, 2 ids, 2 requests at once, 1 slot, 3 releases, 2 config changes, 5 calls, 1 panic: enough to destroy an app, create another with its id, and deploy to both |
| `router` | is a request dropped by a deploy, a port shared, a token won by the sweep? | 2 apps, 3 instances (live, candidate, another's), 2 ports, 2 requests, 1 exit; 2 clients, 1 bucket, 2 requests, 6 ticks, of which one passes at most between clock and lock: the bucket drains, is swept and refills |
| `late_destroy`, `failed_restart`, `logs_unlinked`, `create_undone` | the disagreements listed under findings | 1 or 2 callers; as `logs` with a disk that works; as `apps` |

The tables themselves (`LivePointerAgrees`, `VersionsInOrder`,
`HistoryIsNeverRewritten`) are asked about in `apps`, where deploys and deletions
cross, and proved for `ReleaseStore` alone as well. Type invariants are not part
of the runs where they are proved.

The crash threshold is 2 (3 in one run) where the code has 10: what matters is
that failures below it schedule a restart and the one that reaches it does not.
Callers make one request each; the supervisor's own restarts come on top and
are not bounded but by the threshold, which a request or a window that expires
resets. Deadlock is not checked: when every caller is answered and the app is
down for good, or every bounded call has been made, nothing has to happen.

Each property has a mutant in the module, right before the definition it
replaces: a change of the code's kind (a dropped guard, a missing watcher, a
lost early return) with which the property fails.

### Fairness

`FairSpec` assumes that a goroutine that can go on does (weak fairness of the
steps of a deploy, of reconcile, of watchers, drains and answered callers), and
that a `select` which finds one of its cases ready again and again takes it
some day (strong fairness of the actor's choice between its context, commands,
exits and timers; Go's select chooses at random). Nobody is obliged to call, to
hang up, to die or to start the daemon. That builds and health checks end is
their timeouts'. `HookPush` assumes the same of the session, the hook, handle
and the deploy; a pusher need not send what it announced, nor hang up.
`NativeRuntime` assumes that Start and Stop go on when they can, that a child
gets to its exec or its error, and that a zombie is reaped; no app need end or
heed a SIGTERM. The other modules state safety only.

### Findings

Four runs show a sentence of the documentation that the code does not keep.

- `late_destroy`: a call between `Destroy` and `DeleteApp` revives the app,
  which then serves without existing.
- `failed_restart`: a manual restart cancels the scheduled one, and its own
  failure schedules none: the app stays down, neither restarting nor crashed.
- `logs_unlinked`: a sink asked for while `Forget` is between the map and the
  directory stays in the map with a file that has no name; an app created again
  under that name is not on record until the daemon restarts.
- `create_undone`: the caller of a create leaves while git makes the repository;
  git fails for it, and the DELETE that should take the row back has the same
  context and fails too, so that the app stays without a repository.

The models show more, which have no run of their own.

Logs and deploys:

- Two pushes that start from the same ref both go live; git then rejects the
  second, which is the one that serves (`deploy.go:192-194`).
- What a reader lost right before its stream ends is never marked
  (`logs.go:4-5`): `told` falls short of the count by what `dropped` holds, which
  is why `NothingIsMissed` counts that too.
- A failed first deploy leaves `ps` at starting (`deploy.go:176` against
  `status.go:7`), so `StatusIsTrue` says nothing of starting.
- Deploys asked for over the API are not cancelled by a shutdown, they finish and
  the shutdown waits (`api/deploys.go:58-69` against `supervisor.go:152`).
- A deploy that panics leaves its row open until the next start (`deploy.go:25`
  against `deploy.go:109`), so `OpenRowIsOwned` is checked without panics. If it
  panics in the build it also keeps its slot, since the release of the slot is
  not deferred (`deploy.go:133-136` against `deploy.go:21-23`); as many such
  panics as there are slots stop every later build. `SlotsAreReturned` counts
  them.

Start and stop:

- A SIGTERM during Reconcile does not end it but makes the rest of it fail, and the
  daemon exits in an orderly way with orphans running and releases open
  (`daemon.go:99`, `reconcile.go:100-107`); the next start finds them.

Apps:

- A create that crosses a destroy of the same name can leave a row without a
  repository, or the reverse (`RowTakesRepo` exempts it).
- A caller that hangs up between `UpdateConfig` and the redeploy leaves a saved
  config nobody applies and nobody is told of (`config.go:88`, whose `LiveRelease`
  has the request's context, against `config.go:96-98`); `unapplied` records it.
- When a deploy crosses a destroy, the reused ids let its late `MarkBuilt` put
  another app's image on a row, and a late config change reaches the new app
  (`releases.go:200-215`); `ImagesAreOwn` and `ConfigIsApplied` exempt that.

Router and runtime:

- A deploy drops requests that outlive its drain: `retire` stops the old instance
  after `DrainGrace`, or at once when the daemon stops, whoever is still served, a
  stream or a WebSocket too (`deploy.go:237-241`, against `README.md:23`, "A deploy
  drops no requests"). `DeploysDropNothing` exempts what was drained: it says that
  nothing else of a deploy costs a request its answer.
- The route of a crashed app stays, for the 502 that `actor.go:225-227` wants;
  but its port is free, and the next instance that gets it may be another app's.
  `DeploysDropNothing` exempts instances that exited.
- Where the app binds the port itself, Start succeeds on a port that is taken and
  the probe is answered by the other app: with `Native` TRUE `CollisionsFail`
  fails, and with it `DeploysDropNothing`, against `runtime/port.go:13-15`.
- The bucket table grows beyond `maxBuckets` when nobody in it is idle, and a
  client swept by a request that reads the clock late may win what fits in that
  delay.
- With `BigSpec` TRUE `EveryCallReturns` fails: spawn holds the read end of the
  spec pipe itself, so a spec larger than the pipe's buffer, sent to a child that
  is gone, blocks for ever (`spawn.go:83` against `native.go:75-76`).
- A crash between the child's exec and the state file leaves an instance no List
  returns and nobody stops; `ReturnedIsListed` starts when Start returned.
- A start time that could not be read is saved as 0, which turns the guard
  against reused pids off (`spawn.go:100`, `state.go:82`): Stop may then signal a
  process of somebody else. `EndIsTrue` holds all the same.
- A read of `/proc/<pid>/stat` that fails is an end for the code (`state.go:82`): of
  an adopted instance that runs, Wait then reports its exit, Logs ends, and Stop
  takes its state away, after which no List has it and nobody stops it.
- A cgroup whose removal fails after a failed Start is left without a word
  (`spawn.go:136`), after a Stop with a warning (`process.go:156-160`).

## Proofs

TLAPS proves, for every number of apps, releases, instances, callers and
stops, and every threshold:

- `ReleaseStoreProofs`: the type invariant, `LivePointerAgrees`,
  `VersionsInOrder`, `HistoryIsNeverRewritten`, and three facts no run repeats: that
  a release past building has an image, that an app which went live has a
  live release until it is deleted, and that no release outlives its app
  (`ReleasesHaveApps`, which `AppLifecycleProofs` needs when ids come back).
  `TypeOK`, the live pointer and the images are inductive as they stand, one lemma
  per call saying which rows it changes; the versions need the fact that ids grow
  with the versions of an app.
- `SupervisorProofs`, under any set of faults:
  - `TypeCorrect`. `TypeInv` adds to `TypeOK` that the live pointer leads to a
    row and that a candidate exists from `health` to `swap`; without the first
    a restart could read the image of no row.
  - `RetryIsForDead` and `CurrentHasWatcher`, from `ActorInv`: a pending retry,
    or the retry's deploy in progress, has an exited current instance; a current
    one not known to have exited has a watcher or a posted exit; an actor that
    does not exist has none of these.
  - `RouteOnlyMoves`, from `OnlyDestroyUnroutes`: only a caller that asked for a
    destroy gets to where routes are removed.
  - `NoDowntime`, from `DrainInv`, for sets of faults without `wait`: what
    drains is neither routed nor current, a candidate is neither until the swap,
    a posted exit is of an instance that ended, and before reconcile has swept
    there is no route. Stops happen to candidates, drained instances, exited
    ones and, in the sweep and in destroy, with no route set. A `Wait` that
    returns an error for a running instance breaks it, and the code counts such
    an error as an exit (`actor.go:131-142`).
  - `DeployInvariant`, under every fault, is what the rest stands on: who has the
    turn of each caller (`CallInv`: a caller whose command was taken is the one the
    deploy in progress is for), and what a deploy holds at each of its steps
    (`DeployInv`: its row from `build` on, or `launch` for a restart, and a candidate
    from `health` to `setlive` only).
  - `StatusTruth`, for sets of faults without `panic` and `parse`: a restart that
    forgot the failures for its caller, and then panics or finds that its snapshots
    do not parse, leaves the status it found.
  - `NothingIsOrphaned` and `DestroyLeavesNothing`, from `RunsInv`: at each step of
    the sweep, of a deploy and of a destroy, which instances may run. Needs that
    no statement, Stop or List fails, snapshots parse and nothing panics
    (`SweepIsWhole`), and, as the properties say, that no shutdown interrupted the
    sweep.
  - `StepsAreStoreCalls`: every step is a call of `ReleaseStore` or leaves its
    tables alone, under every fault; so what a call may do to a row is proved
    once, over there.
  - `OpenRowsAreOwned`, from `OpenInv`: a row that is building or starting is the
    row of the deploy in progress, and is past building once it starts an
    instance (`StoreAnswers`: no failing statement or List, no panic), unless a shutdown
    interrupted the Reconcile that should have ended it; what a daemon serves
    after an uninterrupted one is `Serving`.
  - `VerdictsAreTrue` and `WhatIsServedIsLive`, where nobody destroys, statements
    work and nothing panics (`RowsAreKept`). `RowInv` says how far the row of the
    deploy in progress has come at each of its steps; `ServeInv`, which release
    the current instance, the candidate and the instance the sweep keeps run:
    between `swap` and `setlive` the current one runs the deploy's row and the
    pointer is still on the one before, which is why a crash there may go back.
  - `ShutdownIsClean`, under both hypotheses, from `QuitInv`, of a daemon whose
    Reconcile was whole: once the actor has returned, what runs drains or is
    what the route leads to, of the live release.

  The hypotheses on faults are not for the prover's sake. TLC, with one kind of
  fault at a time and one caller, finds a counterexample for each fault that a
  theorem excludes: `store` and `panic` break `WhatIsServedIsLive` and
  `VerdictsAreTrue`; `parse` and `panic` break `StatusTruth`; `store`, `parse`,
  `stop`, `list` and `panic` break `NothingIsOrphaned`, `DestroyLeavesNothing`
  and `ShutdownIsClean`; `store`, `list` and `panic` break `OpenRowsAreOwned`. A
  destroy breaks `WhatIsServedIsLive` and `ShutdownIsClean` (see
  `late_destroy`), and with a second caller also `VerdictsAreTrue`, when it
  takes the row along.

- `HookPushProofs`, for any number of pushes and stops: every safety property
  of the run `hook`. `Inv` ties the processes of a push together by the order in
  which they come to life (`Order`), says by the state of a connection whether
  its push went live (`Went`), why something may have broken off (`Admitted`),
  and that the ref and every value of it a pusher was shown are commits git
  accepted (`Recorded`), from which it follows that a ref that moved never
  comes back to a value some pusher still holds.

- `NativeRuntimeProofs`, for any number of instances, images, pids and crashes:
  every safety property of the run `native`, with what each exempts (a start
  time may be unknown, a later read may fail, a cgroup may stay). The invariant
  says which places in Start go with which phase of the process, that the holder
  of a pid is unique, that a process which runs was given a whole image (a
  marker is never removed, and an export holds its image's lock until it wrote
  one), and that what is listed and not yet gone has the state file of its own
  process; and that what is thought to have ended has, unless it is in
  `misread`.
- `AppLifecycleProofs`, for any number of names, ids, callers and slots: `LifeInv`
  ties the place of a job or call to the ids it must hold, and the slots to the
  jobs that build. `LifeUsesTheStore` is the refinement: every step of
  `AppLifecycle` is a call of `ReleaseStore` or leaves its tables alone, from
  which its theorems on the live pointer, versions and history follow for
  deploys and deletions that cross. `ReposAreKept` rests on `RepoInv`, which says
  of each name who is between its row and its repository: without a crossing
  there is one such request at most. `NoForeignImage` rests on `OwnInv`: no
  release outlives its app, and, unless a deletion crossed a deploy and its ids came
  back (`crossed`), a job is for the app its name has, writes to a release of that
  app, and row, image and instance are one app's. `ChangesAreApplied` rests on
  `ConfInv`: for each name, what serves is the live release with the config that is
  stored, or there is a recorded reason for an older one, or a caller or a job that
  will apply it is on its way. Which caller that is depends on whether it is alone
  on the name, so the invariant counts on `RepoInv` for who is there.
- `RouterProofs`, for any number of apps, instances, ports and requests, when
  Docker binds the ports (`~Native`): `DropsNothing` from which instance a route,
  a request and a drain refer to (a candidate that is given up, the only other
  thing an actor stops, is nobody's aim yet), and `RoutedPortIsOwn` from a port having one
  listener that an app's live instance keeps until it ends.
- `RateLimitProofs`, for every rate, burst and number of clients: `last` is at
  most `Delay` behind the newest time a bucket has seen, and a bucket the sweep
  drops was idle for a whole refill.
- `LogHubProofs`, for any number of readers and sinks and every size of ring,
  buffer and file: `EveryLossIsTold` from one lemma on `send` (whatever it does,
  the balance goes on with the next line) and `RingInv`, which says what each
  slot of the ring holds; `ReadersAreServed` from `Placed`, which says where a
  reader that has a sink, but no channel yet, may stand when Forget or Close
  comes between. `RotationLosesTheOldest`, for any number of files, rests on
  `FilesInv`: while nothing is being removed one sink at most rotates, and the name
  its rotation has come to is empty, so that a rename overwrites nothing but the
  oldest file. That the sum of the lengths then falls by no more than that file is
  an induction on the number of files (`Induction`, by the least counterexample:
  `WFMin` of the library takes a set and not an operator, so the provers can use it).

Every safety property of the passing runs is the consequence of a theorem here.
Only model-checked is what rests on fairness, which the prover cannot treat:
`ShutdownEnds` (of `Supervisor` and of `HookPush`), `DeathIsHandled`, `EveryCallEnds`,
`PushEnds` and `EveryCallReturns`. `ImageExport` has no theorems of its own: the part
of it that matters, that what is mounted is whole, is `RootfsStaysWhole`.

## Not modelled

The components without a module are listed in `PROJECT.json` with the reason:
the builder (a pipeline with one outcome, which `Supervisor` has as a step), the
metrics, the web pages and the event framing, the parsing of configuration,
manifests and names, and the command line. Of the modelled ones:

- `Supervisor` has one app; what actors share is in `AppLifecycle` and `Router`,
  which have no crashes of the daemon. A crash between a create's row and its
  repository, or between a destroy's two, leaves them apart; nothing at start
  compares them.
- Failures of the database's disk are in `Supervisor` (`Faults`), not in
  `AppLifecycle`.
- Instance directories and export containers that a crash leaves are never
  collected by the code, and not counted here.
- The pipe between `handle` and a pusher that stops reading: the deploy writes to
  it without a deadline (`hook/server.go:184`); `PushEnds` assumes that a deploy
  ends.
- A Destroy whose Stop fails: `AppLifecycle` has the step (the rows stay, the
  actor is gone), `Supervisor` checks destroys with a Stop that works.
- TLS, headers, cgroup limits, mounts, users and capabilities.

## Plan

What could follow, in this order:

1. `ZeroDowntime`: what the platform promises of one app, refined by `Supervisor`
   (from `ServeInv` and `DrainInv`) and by `Router`.
2. `HookOutput`: the deploy's output from the actor to a pusher that may stop
   reading, with the buffers between.
3. `LineWriter`, `SSE`, `Backoff`, `Migrate`: pure algorithms against a reference.
