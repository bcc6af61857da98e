---------------------------- MODULE AppLifecycle ----------------------------
(***************************************************************************)
(* Several apps in one daemon: callers of the API that create, configure   *)
(* and destroy apps (api/apps.go, api/config.go), the deploys of each      *)
(* app's actor (supervisor/deploy.go) and the build slots they share.      *)
(*                                                                         *)
(* ReleaseStore's Apps are the ids of rows here, what the code passes as   *)
(* app.ID.  Names are what callers and actors know an app by; both kinds   *)
(* of ids come back after a row is deleted.  What a build makes is known   *)
(* by the name it was built for, a set of config vars by the number of     *)
(* changes that led to it.                                                 *)
(*                                                                         *)
(* An actor does one thing at a time, a deploy or the destroy that waits   *)
(* its turn.  How an instance is started, watched and drained, and what a  *)
(* crash of the daemon leaves, is in Supervisor; here a launch succeeds or *)
(* fails.  A statement of the database fails only for what it says.        *)
(***************************************************************************)
EXTENDS ReleaseStore

CONSTANTS
  Names,      \* what apps are called; Images is the same set
  NoName,     \* the name of an id without a row
  Callers,    \* API requests that may be in progress at once
  Slots,      \* the build semaphore's capacity
  MaxConfig,  \* bound: changes of one app's config
  MaxCalls,   \* bound: calls and pushes
  MaxPanics   \* bound: builds that panic

ASSUME AppsAssumption == IsFiniteSet(Apps) /\ Apps = 1 .. Cardinality(Apps)
ASSUME NamesAssumption == IsFiniteSet(Names) /\ Images = Names /\ NoName \notin Names
ASSUME SlotsAssumption == Slots \in Nat \ {0}
ASSUME CountsAssumption == MaxConfig \in Nat /\ MaxCalls \in Nat /\ MaxPanics \in Nat

VARIABLES
  nameOf,     \* apps.name
  config,     \* the config table: the changes made to each app's vars
  snap,       \* releases.config_json
  repos,      \* names with a repository's directory, whole or in part
  job,        \* for each name, what its actor is doing
  builds,     \* tokens in the build semaphore
  caller,     \* each request's place in its handler
  serving,    \* for each name, what its actor's current instance is made of
  calls, panics,
  unapplied,  \* apps with a change whose redeploy was not asked for, or failed
  crossed     \* the kinds of calls that have met a create or a destroy half-way,
              \* and "undo" for a create that could not be undone

rowVars  == <<nameOf, config, snap>>
lifeVars == <<repos, job, builds, caller, serving, calls, panics, unapplied, crossed>>
vars     == <<storeVars, rowVars, lifeVars>>

NoRel   == 0
Nothing == [image |-> NoImage, config |-> 0]
NoJob   == [pc |-> "idle", kind |-> "push", app |-> 0, rel |-> NoRel, image |-> NoImage, config |-> 0]
NoCall  == [pc |-> "none", name |-> NoName, app |-> 0]

-----------------------------------------------------------------------------
(* The store, by name and by id *)

Named(n) == {a \in apps : nameOf[a] = n}

IsNextApp(a) == /\ \A b \in apps : b < a
                /\ a > 1 => a - 1 \in apps

InsertApp(n, a) ==
  /\ Named(n) = {} /\ IsNextApp(a) /\ CreateApp(a)
  /\ nameOf' = [nameOf EXCEPT ![a] = n]
  /\ UNCHANGED <<config, snap>>

\* DELETE by name, and what cascades from it.
DeleteNamed(n) ==
  \E a \in Named(n) :
    /\ DeleteApp(a)
    /\ nameOf' = [nameOf EXCEPT ![a] = NoName]
    /\ config' = [config EXCEPT ![a] = 0] /\ unapplied' = unapplied \ {a}
    /\ snap' = [i \in Ids |-> IF i \in RowsOf(a) THEN 0 ELSE snap[i]]

-----------------------------------------------------------------------------
(* Callers *)

Is(c, pc) == caller[c].pc = pc
Goes(c, pc) == caller' = [caller EXCEPT ![c].pc = pc]
Returns(c)  == caller' = [caller EXCEPT ![c] = NoCall]
Calls(c, pc, n, a) ==
  /\ Is(c, "none") /\ calls < MaxCalls /\ calls' = calls + 1
  /\ caller' = [caller EXCEPT ![c] = [pc |-> pc, name |-> n, app |-> a]]

Crosses(what, yes) == crossed' = crossed \cup {w \in {what} : yes}

\* A change of config holds the id of an app called n.
HeldIn(n) ==
  \E c \in Callers : caller[c].pc \in {"config", "saved", "queued", "deploying"} /\ caller[c].app \in Named(n)

On(n, pcs) == \E c \in Callers : caller[c].name = n /\ caller[c].pc \in pcs

\* createApp: the row, then the repository.  The repository is there already if
\* an earlier destroy could not, or has yet to, remove it.
CallCreate(c, n, a) ==
  /\ Calls(c, "creating", n, a) /\ InsertApp(n, a)
  /\ Crosses("create", On(n, {"destroying", "retired"}))
  /\ UNCHANGED <<repos, job, builds, serving, panics, unapplied>>

\* Mutant: a directory that is there is taken as it is.
MakeRepoAnyway(c) ==
  /\ Is(c, "creating") /\ repos' = repos \cup {caller[c].name} /\ Returns(c)
  /\ UNCHANGED <<storeVars, rowVars, job, builds, serving, calls, panics, unapplied, crossed>>

\* InitRepo refuses a directory that is there, and may leave one behind when git
\* fails.
MakeRepo(c) ==
  /\ Is(c, "creating")
  /\ \/ caller[c].name \notin repos /\ repos' = repos \cup {caller[c].name} /\ Returns(c)
     \/ Goes(c, "undoing") /\ repos' \in {repos, repos \cup {caller[c].name}}
  /\ UNCHANGED <<storeVars, rowVars, job, builds, serving, calls, panics, unapplied, crossed>>

\* The DELETE has the caller's context, and so fails when git failed because the
\* caller has left.
UndoCreate(c) ==
  /\ Is(c, "undoing") /\ Returns(c)
  /\ LET n == caller[c].name IN
       \/ DeleteNamed(n) /\ Crosses("config", HeldIn(n))
       \/ Crosses("undo", Named(n) # {}) /\ UNCHANGED <<storeVars, rowVars, unapplied>>
  /\ UNCHANGED <<repos, job, builds, serving, calls, panics>>

\* destroyApp.  A create of that name whose repository is still to come is met
\* half-way.
CallDestroy(c, n, a) ==
  /\ a \in Named(n) /\ Calls(c, "destroying", n, a)
  /\ Crosses("create", On(n, {"creating", "undoing"}))
  /\ UNCHANGED <<storeVars, rowVars, repos, job, builds, serving, panics, unapplied>>

\* Supervisor.Destroy: the actor's turn, and its last act; the other destroys
\* that wait for it find it retired and go on.  The app may be gone by now, or the
\* caller.  Mutant: the actor does not finish its deploy first.
Retired(n, c) ==
  /\ serving' = [serving EXCEPT ![n] = Nothing]
  /\ \E S \in SUBSET {d \in Callers \ {c} : Is(d, "destroying") /\ caller[d].name = n} :
       caller' = [d \in Callers |-> IF d \in S \cup {c} THEN [caller[d] EXCEPT !.pc = "retired"] ELSE caller[d]]

RetireAtOnce(c) ==
  /\ Is(c, "destroying") /\ Retired(caller[c].name, c)
  /\ UNCHANGED <<storeVars, rowVars, repos, job, builds, calls, panics, unapplied, crossed>>

Retire(c) ==
  /\ Is(c, "destroying")
  /\ LET n == caller[c].name IN
       \/ Returns(c) /\ UNCHANGED serving
       \/ Named(n) # {} /\ job[n].pc = "idle" /\ Retired(n, c)
  /\ UNCHANGED <<storeVars, rowVars, repos, job, builds, calls, panics, unapplied, crossed>>

\* DeleteApp, unless the instance did not stop, though the actor is gone all the
\* same, the caller has left, or the app is gone by now.
DeleteRows(c) ==
  /\ Is(c, "retired")
  /\ LET n == caller[c].name IN
       \/ DeleteNamed(n) /\ Goes(c, "removing") /\ Crosses("config", HeldIn(n))
       \/ Returns(c) /\ UNCHANGED <<storeVars, rowVars, unapplied, crossed>>
  /\ UNCHANGED <<repos, job, builds, serving, calls, panics>>

\* A repository that cannot be removed is a line in the log.
RemoveRepo(c) ==
  /\ Is(c, "removing") /\ Returns(c)
  /\ repos' \in {repos, repos \ {caller[c].name}}
  /\ UNCHANGED <<storeVars, rowVars, job, builds, serving, calls, panics, unapplied, crossed>>

CallConfig(c, n, a) ==
  /\ a \in Named(n) /\ Calls(c, "config", n, a)
  /\ UNCHANGED <<storeVars, rowVars, repos, job, builds, serving, panics, unapplied, crossed>>

\* UpdateConfig goes by the id it was given: the row may be gone, or another's.
SaveConfig(c) ==
  /\ Is(c, "config")
  /\ \/ Returns(c) /\ UNCHANGED config
     \/ /\ caller[c].app \in apps /\ config[caller[c].app] < MaxConfig /\ Goes(c, "saved")
        /\ config' = [config EXCEPT ![caller[c].app] = @ + 1]
  /\ UNCHANGED <<storeVars, nameOf, snap, repos, job, builds, serving, calls, panics, unapplied, crossed>>

\* What is live is redeployed; otherwise "the next push uses it", or an error.
LookLive(c) ==
  /\ Is(c, "saved")
  /\ \/ liveRelease[caller[c].app] # NoLive /\ Goes(c, "queued") /\ UNCHANGED unapplied
     \/ Returns(c) /\ unapplied' = unapplied \cup {caller[c].app}
  /\ UNCHANGED <<storeVars, rowVars, repos, job, builds, serving, calls, panics, crossed>>

-----------------------------------------------------------------------------
(* The deploy of a name's actor *)

At(n, pc) == job[n].pc = pc
Becomes(n, j) == job' = [job EXCEPT ![n] = j]
To(n, pc) == Becomes(n, [job[n] EXCEPT !.pc = pc])

\* The deploy is over.  A redeploy that fails leaves its change to the next.
Ends(n, ok) ==
  /\ Becomes(n, NoJob)
  /\ caller' = [c \in Callers |-> IF caller[c].name = n /\ Is(c, "deploying") THEN NoCall ELSE caller[c]]
  /\ unapplied' = IF job[n].kind = "redeploy" /\ ~ok THEN unapplied \cup {job[n].app} ELSE unapplied

\* GetApp.  After the actor was retired and before the row goes, a new actor is
\* started for whoever asks; what a destroy left of a repository takes pushes as
\* soon as a create has inserted the row.
Take(n, kind, a) ==
  /\ At(n, "idle") /\ a \in Named(n)
  /\ Becomes(n, [pc |-> "fetched", kind |-> kind, app |-> a, rel |-> NoRel, image |-> NoImage, config |-> 0])
  /\ Crosses("deploy", On(n, {"creating", "undoing", "retired"}))
  /\ UNCHANGED <<storeVars, rowVars, repos, builds, serving, panics, unapplied>>

TakeCall(n, kind, a) ==
  /\ kind \in {"push", "rollback", "restart"} /\ (kind = "push" => n \in repos)
  /\ calls < MaxCalls /\ calls' = calls + 1
  /\ Take(n, kind, a) /\ UNCHANGED caller

TakeRedeploy(n, a) ==
  /\ Take(n, "redeploy", a)
  /\ \E c \in Callers : Is(c, "queued") /\ caller[c].name = n /\ Goes(c, "deploying")
  /\ UNCHANGED calls

\* The actor is retired, or the app gone, when the redeploy's turn comes.
RefuseRedeploy(c) ==
  /\ Is(c, "queued") /\ At(caller[c].name, "idle") /\ Returns(c)
  /\ Named(caller[c].name) = {} \/ On(caller[c].name, {"retired"})
  /\ unapplied' = unapplied \cup {caller[c].app}
  /\ UNCHANGED <<storeVars, rowVars, repos, job, builds, serving, calls, panics, crossed>>

\* What the release is made of: the pushed manifest, the live release or the
\* one of that version, with its snapshot for a rollback.  A restart has its row.
\* Any of it may be missing, or the manifest not parse.
Source(n) ==
  /\ At(n, "fetched")
  /\ LET j == job[n]
         From(i, pc, rel, c) ==
           Becomes(n, [j EXCEPT !.pc = pc, !.rel = rel, !.image = rows[i].image, !.config = c])
         live == liveRelease[j.app]
     IN \/ /\ \/ j.kind = "push" /\ To(n, "sourced")
              \/ j.kind = "redeploy" /\ live # NoLive /\ From(live, "sourced", NoRel, 0)
              \/ j.kind = "restart" /\ live # NoLive /\ From(live, "starting", live, snap[live])
              \/ /\ j.kind = "rollback"
                 /\ \E i \in RowsOf(j.app) \ {live} : rows[i].image # NoImage /\ From(i, "snapped", NoRel, snap[i])
           /\ UNCHANGED <<caller, unapplied>>
        \/ Ends(n, FALSE)
  /\ UNCHANGED <<storeVars, rowVars, repos, builds, serving, calls, panics, crossed>>

\* GetConfig.  Mutant: a redeploy keeps the live release's snapshot.
SnapshotOfLive(n) ==
  /\ At(n, "sourced")
  /\ Becomes(n, [job[n] EXCEPT !.pc = "snapped",
                !.config = IF job[n].kind = "redeploy" THEN serving[n].config ELSE config[job[n].app]])
  /\ UNCHANGED <<storeVars, rowVars, repos, builds, caller, serving, calls, panics, unapplied, crossed>>

Snapshot(n) ==
  /\ At(n, "sourced")
  /\ Becomes(n, [job[n] EXCEPT !.pc = "snapped", !.config = config[job[n].app]])
  /\ UNCHANGED <<storeVars, rowVars, repos, builds, caller, serving, calls, panics, unapplied, crossed>>

\* CreateRelease, by id.  No row with that id is an error, a pusher who has left
\* is another.
Record(n) ==
  /\ At(n, "snapped")
  /\ LET j == job[n] IN
       \/ \E i \in Ids :
            /\ CreateRelease(j.app, j.image, i)
            /\ snap' = [snap EXCEPT ![i] = j.config]
            /\ Becomes(n, [j EXCEPT !.rel = i, !.pc = IF j.image = NoImage THEN "waiting" ELSE "starting"])
            /\ UNCHANGED <<caller, unapplied>>
       \/ Ends(n, FALSE) /\ UNCHANGED <<storeVars, snap>>
  /\ UNCHANGED <<nameOf, config, repos, builds, serving, calls, panics, crossed>>

AcquireSlot(n) ==
  /\ At(n, "waiting") /\ builds < Slots /\ builds' = builds + 1 /\ To(n, "building")
  /\ UNCHANGED <<storeVars, rowVars, repos, caller, serving, calls, panics, unapplied, crossed>>

\* The pusher goes while it waits for a slot.
LeaveQueue(n) ==
  /\ At(n, "waiting") /\ To(n, "failing")
  /\ UNCHANGED <<storeVars, rowVars, repos, builds, caller, serving, calls, panics, unapplied, crossed>>

\* The slot goes back whatever the build came to.  Mutant: unless it failed.
BuildEndsKeeping(n) ==
  /\ At(n, "building")
  /\ \/ To(n, "built") /\ builds' = builds - 1
     \/ To(n, "failing") /\ UNCHANGED builds
  /\ UNCHANGED <<storeVars, rowVars, repos, caller, serving, calls, panics, unapplied, crossed>>

BuildEnds(n) ==
  /\ At(n, "building") /\ builds' = builds - 1
  /\ To(n, "built") \/ To(n, "failing")
  /\ UNCHANGED <<storeVars, rowVars, repos, caller, serving, calls, panics, unapplied, crossed>>

\* deploy recovers from a panic, after the build had the slot: neither the slot
\* nor the row is looked after.
BuildPanics(n) ==
  /\ At(n, "building") /\ panics < MaxPanics /\ panics' = panics + 1 /\ Ends(n, FALSE)
  /\ UNCHANGED <<storeVars, rowVars, repos, builds, serving, calls, crossed>>

\* MarkBuilt, by id.  It fails for a pusher who has left.
RecordImage(n) ==
  /\ At(n, "built")
  /\ \/ MarkBuilt(job[n].rel, n) /\ Becomes(n, [job[n] EXCEPT !.pc = "starting", !.image = n])
     \/ To(n, "failing") /\ UNCHANGED storeVars
  /\ UNCHANGED <<rowVars, repos, builds, caller, serving, calls, panics, unapplied, crossed>>

LaunchFails(n) ==
  /\ At(n, "starting") /\ To(n, "failing")
  /\ UNCHANGED <<storeVars, rowVars, repos, builds, caller, serving, calls, panics, unapplied, crossed>>

\* The swap.  An app that goes live with what is stored has all its changes; a
\* rollback runs the config of its target.
Swap(n) ==
  /\ At(n, "starting") /\ To(n, "swapped")
  /\ LET j == job[n] IN
       /\ serving' = [serving EXCEPT ![n] = [image |-> j.image, config |-> j.config]]
       /\ unapplied' = IF j.config = config[j.app] THEN unapplied \ {j.app}
                       ELSE IF j.kind = "rollback" THEN unapplied \cup {j.app} ELSE unapplied
  /\ UNCHANGED <<storeVars, rowVars, repos, builds, caller, calls, panics, crossed>>

\* SetLive, by both ids; that it changes nothing is a line in the log.  A restart
\* leaves its row as it is, here and below.
Commit(n) ==
  /\ At(n, "swapped") /\ Ends(n, TRUE)
  /\ LET j == job[n] IN
       IF j.kind # "restart" /\ HasStatus(j.rel, {"starting"}) /\ rows[j.rel].app = j.app
       THEN SetLive(j.app, j.rel)
       ELSE UNCHANGED storeVars
  /\ UNCHANGED <<rowVars, repos, builds, serving, calls, panics, crossed>>

\* MarkFailed, by id.
Fail(n) ==
  /\ At(n, "failing") /\ Ends(n, FALSE)
  /\ IF job[n].kind # "restart" /\ HasStatus(job[n].rel, {"building", "starting"})
     THEN MarkFailed(job[n].rel)
     ELSE UNCHANGED storeVars
  /\ UNCHANGED <<rowVars, repos, builds, serving, calls, panics, crossed>>

-----------------------------------------------------------------------------

LifeInit ==
  /\ Init
  /\ nameOf = [a \in Apps |-> NoName] /\ config = [a \in Apps |-> 0] /\ snap = [i \in Ids |-> 0]
  /\ repos = {} /\ builds = 0
  /\ job = [n \in Names |-> NoJob] /\ caller = [c \in Callers |-> NoCall]
  /\ serving = [n \in Names |-> Nothing]
  /\ calls = 0 /\ panics = 0 /\ unapplied = {} /\ crossed = {}

CallerStep(c) ==
  \/ MakeRepo(c) \/ UndoCreate(c)
  \/ Retire(c) \/ DeleteRows(c) \/ RemoveRepo(c)
  \/ SaveConfig(c) \/ LookLive(c) \/ RefuseRedeploy(c)

DeployStep(n) ==
  \/ Source(n) \/ Snapshot(n) \/ Record(n)
  \/ AcquireSlot(n) \/ LeaveQueue(n) \/ BuildEnds(n) \/ BuildPanics(n) \/ RecordImage(n)
  \/ LaunchFails(n) \/ Swap(n) \/ Commit(n) \/ Fail(n)

LifeNext ==
  \/ \E c \in Callers : CallerStep(c)
  \/ \E c \in Callers, n \in Names, a \in Apps : CallCreate(c, n, a) \/ CallDestroy(c, n, a) \/ CallConfig(c, n, a)
  \/ \E n \in Names, a \in Apps : TakeRedeploy(n, a) \/ \E kind \in {"push", "rollback", "restart"} : TakeCall(n, kind, a)
  \/ \E n \in Names : DeployStep(n)

LifeSpec == LifeInit /\ [][LifeNext]_vars

-----------------------------------------------------------------------------
(* Properties *)

Job ==
  [pc: {"idle", "fetched", "sourced", "snapped", "waiting", "building", "built", "starting", "swapped", "failing"},
   kind: {"push", "rollback", "redeploy", "restart"}, app: Apps \cup {0}, rel: Ids \cup {NoRel},
   image: Images \cup {NoImage}, config: 0 .. MaxConfig]

Call ==
  [pc: {"none", "creating", "undoing", "destroying", "retired", "removing", "config", "saved", "queued", "deploying"},
   name: Names \cup {NoName}, app: Apps \cup {0}]

\* The type invariant.
LifeTypeOK ==
  /\ TypeOK
  /\ nameOf \in [Apps -> Names \cup {NoName}]
  /\ config \in [Apps -> 0 .. MaxConfig] /\ snap \in [Ids -> 0 .. MaxConfig]
  /\ repos \subseteq Names /\ unapplied \subseteq Apps /\ crossed \subseteq {"create", "deploy", "config", "undo"}
  /\ job \in [Names -> Job] /\ caller \in [Callers -> Call]
  /\ serving \in [Names -> [image: Images \cup {NoImage}, config: 0 .. MaxConfig]]
  /\ builds \in Nat /\ calls \in 0 .. MaxCalls /\ panics \in 0 .. MaxPanics

\* "A repository that cannot be created takes the row with it, so the two never
\* disagree" (apps.go:84-85): an app nobody is creating or destroying has the
\* repository that pushes go to, as long as nobody destroyed an app whose create
\* had not finished.
RowTakesRepo ==
  \A a \in apps :
    ~On(nameOf[a], {"creating", "undoing", "retired", "removing"}) => "create" \in crossed \/ nameOf[a] \in repos

\* The same, as long as no caller left a create that then failed.
AppHasRepo == "undo" \in crossed \/ RowTakesRepo

\* What a release of an app names as its image, and what serves the app, was
\* built for the app, though releases and apps share ids with what was deleted
\* (releases.go:200-215): the actor finishes a deploy before its app goes.  A
\* deploy taken between Destroy and DeleteApp outlives its app all the same, and
\* its late MarkBuilt hits the row that has its id by then: then a deletion
\* crossed a deploy, of which this says nothing.
ImagesAreOwn ==
  "deploy" \notin crossed =>
     /\ \A i \in Ids : Exists(i) => rows[i].image \in {NoImage, nameOf[rows[i].app]}
     /\ \A n \in Names : serving[n].image \in {NoImage, n}

\* When an app is at rest it runs with the config that is stored, or with an
\* older one after a redeploy that failed, was refused, or was not asked for, since
\* nothing was live or the caller had left (of which nobody is told), or after a
\* rollback (config.go:53-56, 88, 96-98); unless a request met the create or the
\* destroy of its app half-way.
ConfigIsApplied ==
  \A a \in apps :
    LET n == nameOf[a] IN
      At(n, "idle") /\ ~On(n, {"config", "saved", "queued", "deploying"}) /\ serving[n] # Nothing =>
        crossed \ {"undo"} # {} \/ a \in unapplied \/ serving[n].config = config[a]

\* A build slot is taken while a build goes on and for good by one that
\* panicked, and never else, so that a deploy waits for a slot only as long as
\* others build (deploy.go:113-122, 246-260).
SlotsAreReturned ==
  builds = Cardinality({n \in Names : At(n, "building")}) + panics /\ builds <= Slots
=============================================================================
