------------------------- MODULE AppLifecycleProofs -------------------------
(***************************************************************************)
(* AppLifecycle for every number of names, ids, callers and build slots:   *)
(* its types, the build slots, that whatever the callers and actors do is  *)
(* a behaviour of ReleaseStore, whose theorems then hold of it, and that   *)
(* an app has its repository, its own images and the config it was given.  *)
(***************************************************************************)
EXTENDS AppLifecycle, ReleaseStoreProofs, FiniteSetTheorems

Late == {"waiting", "building", "built", "starting", "swapped", "failing"}

\* A deploy is for an app, and has its release once it is recorded.
JobKnown(j) == (j.pc # "idle" => j.app \in Apps) /\ (j.pc \in Late => j.rel \in Ids)
JobsKnown   == job \in [Names -> Job] /\ \A n \in Names : JobKnown(job[n])

\* A call is for a name and an app.
CallKnown(k) == k.pc # "none" => k.name \in Names /\ k.app \in Apps
CallsKnown   == caller \in [Callers -> Call] /\ \A c \in Callers : CallKnown(caller[c])

\* The rest of the types.
RowsTyped ==
  /\ nameOf \in [Apps -> Names \cup {NoName}]
  /\ config \in [Apps -> 0 .. MaxConfig] /\ snap \in [Ids -> 0 .. MaxConfig]
  /\ repos \subseteq Names /\ unapplied \subseteq Apps /\ crossed \subseteq {"create", "deploy", "config", "undo"}
  /\ serving \in [Names -> [image: Images \cup {NoImage}, config: 0 .. MaxConfig]]
  /\ calls \in 0 .. MaxCalls /\ panics \in 0 .. MaxPanics

Building == {n \in Names : job[n].pc = "building"}
SlotsOK  == builds \in Nat /\ builds = Cardinality(Building) + panics /\ builds <= Slots

LifeInv == TypeOK /\ LivePointerAgrees /\ JobsKnown /\ CallsKnown /\ RowsTyped /\ SlotsOK

-----------------------------------------------------------------------------
(* The helpers *)

LEMMA BecomesKnown ==
  ASSUME JobsKnown, NEW n \in Names, NEW j \in Job, JobKnown(j), Becomes(n, j)
  PROVE  JobsKnown' /\ job'[n] = j /\ \A m \in Names : m # n => job'[m] = job[m]
  BY DEF JobsKnown, Becomes

LEMMA ToKnown ==
  ASSUME JobsKnown, NEW n \in Names, NEW pc \in {"sourced"} \cup Late, To(n, pc),
         job[n].pc # "idle", pc \in Late => job[n].rel \in Ids
  PROVE  /\ JobsKnown' /\ job'[n].pc = pc
         /\ \A m \in Names : m # n => job'[m] = job[m]
  <1>1. job[n] \in Job /\ job[n].app \in Apps
    BY DEF JobsKnown, JobKnown
  <1>2. [job[n] EXCEPT !.pc = pc] \in Job /\ JobKnown([job[n] EXCEPT !.pc = pc])
    BY <1>1 DEF Job, JobKnown, Late
  <1>3. [job[n] EXCEPT !.pc = pc].pc = pc
    BY <1>1 DEF Job
  <1> QED  BY <1>2, <1>3, BecomesKnown DEF To

LEMMA EndsKnown ==
  ASSUME JobsKnown, CallsKnown, unapplied \subseteq Apps, NEW n \in Names, NEW ok \in BOOLEAN,
         job[n].pc # "idle", Ends(n, ok)
  PROVE  /\ JobsKnown' /\ CallsKnown' /\ unapplied' \subseteq Apps
         /\ job'[n].pc = "idle" /\ \A m \in Names : m # n => job'[m] = job[m]
  <1>1. NoJob \in Job /\ JobKnown(NoJob) /\ NoJob.pc = "idle"
    BY CountsAssumption DEF NoJob, Job, JobKnown, Late, NoRel
  <1>2. NoCall \in Call /\ CallKnown(NoCall)
    BY DEF NoCall, Call, CallKnown
  <1>3. CallsKnown'
    BY <1>2 DEF Ends, CallsKnown
  <1>4. unapplied' \subseteq Apps
    BY DEF Ends, JobsKnown, JobKnown
  <1> QED  BY <1>1, <1>3, <1>4, BecomesKnown DEF Ends

LEMMA GoesKnown ==
  ASSUME CallsKnown, NEW c \in Callers, NEW pc \in {"undoing", "removing", "saved", "queued", "deploying"},
         Goes(c, pc), caller[c].pc # "none"
  PROVE  CallsKnown'
  <1>1. [caller[c] EXCEPT !.pc = pc] \in Call /\ CallKnown([caller[c] EXCEPT !.pc = pc])
    BY DEF CallsKnown, CallKnown, Call
  <1> QED  BY <1>1 DEF Goes, CallsKnown

LEMMA ReturnsKnown ==
  ASSUME CallsKnown, NEW c \in Callers, Returns(c)
  PROVE  CallsKnown'
  <1>1. NoCall \in Call /\ CallKnown(NoCall)
    BY DEF NoCall, Call, CallKnown
  <1> QED  BY <1>1 DEF Returns, CallsKnown

LEMMA CallsKnownMore ==
  ASSUME CallsKnown, NEW c \in Callers, NEW pc \in {"creating", "destroying", "config"}, NEW n \in Names,
         NEW a \in Apps, Calls(c, pc, n, a)
  PROVE  CallsKnown'
  <1> DEFINE k == [pc |-> pc, name |-> n, app |-> a]
  <1>1. k \in Call /\ CallKnown(k)
    BY DEF Call, CallKnown
  <1> QED  BY <1>1 DEF Calls, CallsKnown

LEMMA CallIsFor ==
  ASSUME CallsKnown, NEW c \in Callers, caller[c].pc # "none"
  PROVE  caller[c].name \in Names /\ caller[c].app \in Apps
  BY DEF CallsKnown, CallKnown

LEMMA DeleteNamedKnown ==
  ASSUME TypeOK, RowsTyped, NEW n \in Names, DeleteNamed(n)
  PROVE  /\ Next /\ unapplied' \subseteq Apps
         /\ nameOf' \in [Apps -> Names \cup {NoName}]
         /\ config' \in [Apps -> 0 .. MaxConfig] /\ snap' \in [Ids -> 0 .. MaxConfig]
  <1>1. PICK a \in Named(n) :
          /\ DeleteApp(a)
          /\ nameOf' = [nameOf EXCEPT ![a] = NoName]
          /\ config' = [config EXCEPT ![a] = 0] /\ unapplied' = unapplied \ {a}
          /\ snap' = [i \in Ids |-> IF i \in RowsOf(a) THEN 0 ELSE snap[i]]
    BY DEF DeleteNamed
  <1>2. a \in Apps
    BY DEF Named, TypeOK
  <1>3. 0 \in 0 .. MaxConfig
    BY CountsAssumption
  <1> QED  BY <1>1, <1>2, <1>3 DEF Next, RowsTyped

\* No deploy starts or ends a build.
LEMMA BuildingStays ==
  ASSUME SlotsOK, NEW n \in Names, job[n].pc # "building", job'[n].pc # "building",
         \A m \in Names : m # n => job'[m] = job[m],
         builds' = builds, panics' = panics
  PROVE  SlotsOK'
  <1>1. Building' = Building
    BY DEF Building
  <1> QED  BY <1>1 DEF SlotsOK

LEMMA BuildingFinite == IsFiniteSet(Building) /\ Cardinality(Building) \in Nat
  BY NamesAssumption, FS_Subset, FS_CardinalityType DEF Building

LEMMA CrossesTyped ==
  ASSUME NEW what \in {"create", "deploy", "config", "undo"}, NEW yes, Crosses(what, yes),
         crossed \subseteq {"create", "deploy", "config", "undo"}
  PROVE  crossed' \subseteq {"create", "deploy", "config", "undo"}
  BY DEF Crosses

-----------------------------------------------------------------------------
(* The steps *)

LEMMA MakeRepoKeeps == ASSUME LifeInv, NEW c \in Callers, MakeRepo(c) PROVE [Next]_storeVars /\ LifeInv'
  <1> USE DEF LifeInv
  <1>0. caller[c].name \in Names /\ caller[c].app \in Apps
    BY CallIsFor DEF MakeRepo, Is
  <1>1. [Next]_storeVars
    BY DEF MakeRepo, storeVars
  <1>2. TypeOK' /\ LivePointerAgrees'
    BY <1>1, TypeStep, LivePointerStep
  <1>3. JobsKnown'
    BY DEF MakeRepo, JobsKnown
  <1>4. CallsKnown'
    BY GoesKnown, ReturnsKnown DEF MakeRepo, Is
  <1>5. RowsTyped'
    BY <1>0 DEF MakeRepo, rowVars, RowsTyped
  <1>6. SlotsOK'
    BY DEF MakeRepo, SlotsOK, Building
  <1> QED  BY <1>1, <1>2, <1>3, <1>4, <1>5, <1>6

LEMMA UndoCreateKeeps == ASSUME LifeInv, NEW c \in Callers, UndoCreate(c) PROVE [Next]_storeVars /\ LifeInv'
  <1> USE DEF LifeInv
  <1>0. caller[c].name \in Names /\ caller[c].app \in Apps
    BY CallIsFor DEF UndoCreate, Is
  <1>1. [Next]_storeVars
    BY <1>0, DeleteNamedKnown DEF UndoCreate, storeVars
  <1>2. TypeOK' /\ LivePointerAgrees'
    BY <1>1, TypeStep, LivePointerStep
  <1>3. JobsKnown'
    BY DEF UndoCreate, JobsKnown
  <1>4. CallsKnown'
    BY ReturnsKnown DEF UndoCreate
  <1>5. RowsTyped'
    <2>1. CASE UNCHANGED <<rowVars, unapplied>>
      BY <2>1, CrossesTyped DEF UndoCreate, rowVars, RowsTyped
    <2>2. CASE DeleteNamed(caller[c].name)
      BY <1>0, <2>2, DeleteNamedKnown, CrossesTyped DEF UndoCreate, RowsTyped
    <2> QED  BY <2>1, <2>2 DEF UndoCreate
  <1>6. SlotsOK'
    BY DEF UndoCreate, SlotsOK, Building
  <1> QED  BY <1>1, <1>2, <1>3, <1>4, <1>5, <1>6

LEMMA RetireKeeps == ASSUME LifeInv, NEW c \in Callers, Retire(c) PROVE [Next]_storeVars /\ LifeInv'
  <1> USE DEF LifeInv
  <1>0. caller[c].name \in Names /\ caller[c].app \in Apps
    BY CallIsFor DEF Retire, Is
  <1>1. [Next]_storeVars
    BY DEF Retire, storeVars
  <1>2. TypeOK' /\ LivePointerAgrees'
    BY <1>1, TypeStep, LivePointerStep
  <1>3. JobsKnown'
    BY DEF Retire, JobsKnown
  <1>4. CallsKnown'
    <2>1. CASE Returns(c)
      BY <2>1, ReturnsKnown
    <2>2. CASE Retired(caller[c].name, c)
      <3>1. PICK S \in SUBSET {d \in Callers \ {c} : Is(d, "destroying")} :
              caller' = [d \in Callers |-> IF d \in S \cup {c} THEN [caller[d] EXCEPT !.pc = "retired"] ELSE caller[d]]
        BY <2>2 DEF Retired
      <3>2. \A d \in S \cup {c} : [caller[d] EXCEPT !.pc = "retired"] \in Call /\ CallKnown([caller[d] EXCEPT !.pc = "retired"])
        BY DEF Retire, Is, CallsKnown, CallKnown, Call
      <3> QED  BY <3>1, <3>2 DEF CallsKnown
    <2> QED  BY <2>1, <2>2 DEF Retire
  <1>5. RowsTyped'
    <2>1. Nothing \in [image: Images \cup {NoImage}, config: 0 .. MaxConfig]
      BY CountsAssumption DEF Nothing
    <2> QED  BY <1>0, <2>1 DEF Retire, Retired, rowVars, RowsTyped
  <1>6. SlotsOK'
    BY DEF Retire, SlotsOK, Building
  <1> QED  BY <1>1, <1>2, <1>3, <1>4, <1>5, <1>6

LEMMA DeleteRowsKeeps == ASSUME LifeInv, NEW c \in Callers, DeleteRows(c) PROVE [Next]_storeVars /\ LifeInv'
  <1> USE DEF LifeInv
  <1>0. caller[c].name \in Names /\ caller[c].app \in Apps
    BY CallIsFor DEF DeleteRows, Is
  <1>1. [Next]_storeVars
    BY <1>0, DeleteNamedKnown DEF DeleteRows, storeVars
  <1>2. TypeOK' /\ LivePointerAgrees'
    BY <1>1, TypeStep, LivePointerStep
  <1>3. JobsKnown'
    BY DEF DeleteRows, JobsKnown
  <1>4. CallsKnown'
    BY GoesKnown, ReturnsKnown DEF DeleteRows, Is
  <1>5. RowsTyped'
    <2>1. CASE UNCHANGED <<rowVars, unapplied>>
      BY <2>1, CrossesTyped DEF DeleteRows, rowVars, RowsTyped
    <2>2. CASE DeleteNamed(caller[c].name)
      BY <1>0, <2>2, DeleteNamedKnown, CrossesTyped DEF DeleteRows, RowsTyped
    <2> QED  BY <2>1, <2>2 DEF DeleteRows
  <1>6. SlotsOK'
    BY DEF DeleteRows, SlotsOK, Building
  <1> QED  BY <1>1, <1>2, <1>3, <1>4, <1>5, <1>6

LEMMA RemoveRepoKeeps == ASSUME LifeInv, NEW c \in Callers, RemoveRepo(c) PROVE [Next]_storeVars /\ LifeInv'
  <1> USE DEF LifeInv
  <1>1. [Next]_storeVars
    BY DEF RemoveRepo, storeVars
  <1>2. TypeOK' /\ LivePointerAgrees'
    BY <1>1, TypeStep, LivePointerStep
  <1>3. JobsKnown'
    BY DEF RemoveRepo, JobsKnown
  <1>4. CallsKnown'
    BY ReturnsKnown DEF RemoveRepo
  <1>5. RowsTyped'
    BY DEF RemoveRepo, rowVars, RowsTyped
  <1>6. SlotsOK'
    BY DEF RemoveRepo, SlotsOK, Building
  <1> QED  BY <1>1, <1>2, <1>3, <1>4, <1>5, <1>6

LEMMA SaveConfigKeeps == ASSUME LifeInv, NEW c \in Callers, SaveConfig(c) PROVE [Next]_storeVars /\ LifeInv'
  <1> USE DEF LifeInv
  <1>0. caller[c].name \in Names /\ caller[c].app \in Apps
    BY CallIsFor DEF SaveConfig, Is
  <1>1. [Next]_storeVars
    BY DEF SaveConfig, storeVars
  <1>2. TypeOK' /\ LivePointerAgrees'
    BY <1>1, TypeStep, LivePointerStep
  <1>3. JobsKnown'
    BY DEF SaveConfig, JobsKnown
  <1>4. CallsKnown'
    BY GoesKnown, ReturnsKnown DEF SaveConfig, Is
  <1>5. RowsTyped'
    <2>1. CASE UNCHANGED config
      BY <2>1 DEF SaveConfig, rowVars, RowsTyped
    <2>2. CASE config[caller[c].app] < MaxConfig /\ config' = [config EXCEPT ![caller[c].app] = @ + 1]
      <3>1. config[caller[c].app] \in 0 .. MaxConfig
        BY <1>0 DEF RowsTyped
      <3>2. config[caller[c].app] + 1 \in 0 .. MaxConfig
        BY <2>2, <3>1, CountsAssumption
      <3>3. config' \in [Apps -> 0 .. MaxConfig]
        BY <1>0, <2>2, <3>2 DEF RowsTyped
      <3> QED  BY <3>3 DEF SaveConfig, RowsTyped
    <2> QED  BY <2>1, <2>2 DEF SaveConfig
  <1>6. SlotsOK'
    BY DEF SaveConfig, SlotsOK, Building
  <1> QED  BY <1>1, <1>2, <1>3, <1>4, <1>5, <1>6

LEMMA LookLiveKeeps == ASSUME LifeInv, NEW c \in Callers, LookLive(c) PROVE [Next]_storeVars /\ LifeInv'
  <1> USE DEF LifeInv
  <1>0. caller[c].name \in Names /\ caller[c].app \in Apps
    BY CallIsFor DEF LookLive, Is
  <1>1. [Next]_storeVars
    BY DEF LookLive, storeVars
  <1>2. TypeOK' /\ LivePointerAgrees'
    BY <1>1, TypeStep, LivePointerStep
  <1>3. JobsKnown'
    BY DEF LookLive, JobsKnown
  <1>4. CallsKnown'
    BY GoesKnown, ReturnsKnown DEF LookLive, Is
  <1>5. RowsTyped'
    BY <1>0 DEF LookLive, rowVars, RowsTyped
  <1>6. SlotsOK'
    BY DEF LookLive, SlotsOK, Building
  <1> QED  BY <1>1, <1>2, <1>3, <1>4, <1>5, <1>6

LEMMA RefuseRedeployKeeps == ASSUME LifeInv, NEW c \in Callers, RefuseRedeploy(c) PROVE [Next]_storeVars /\ LifeInv'
  <1> USE DEF LifeInv
  <1>0. caller[c].name \in Names /\ caller[c].app \in Apps
    BY CallIsFor DEF RefuseRedeploy, Is
  <1>1. [Next]_storeVars
    BY DEF RefuseRedeploy, storeVars
  <1>2. TypeOK' /\ LivePointerAgrees'
    BY <1>1, TypeStep, LivePointerStep
  <1>3. JobsKnown'
    BY DEF RefuseRedeploy, JobsKnown
  <1>4. CallsKnown'
    BY ReturnsKnown DEF RefuseRedeploy
  <1>5. RowsTyped'
    BY <1>0 DEF RefuseRedeploy, rowVars, RowsTyped
  <1>6. SlotsOK'
    BY DEF RefuseRedeploy, SlotsOK, Building
  <1> QED  BY <1>1, <1>2, <1>3, <1>4, <1>5, <1>6

LEMMA CallCreateKeeps == ASSUME LifeInv, NEW c \in Callers, NEW n \in Names, NEW a \in Apps, CallCreate(c, n, a) PROVE [Next]_storeVars /\ LifeInv'
  <1> USE DEF LifeInv
  <1>1. [Next]_storeVars
    BY DEF CallCreate, InsertApp, Next
  <1>2. TypeOK' /\ LivePointerAgrees'
    BY <1>1, TypeStep, LivePointerStep
  <1>3. JobsKnown'
    BY DEF CallCreate, JobsKnown
  <1>4. CallsKnown'
    BY CallsKnownMore DEF CallCreate
  <1>5. RowsTyped'
    <2>1. calls' \in 0 .. MaxCalls
      BY CountsAssumption DEF CallCreate, Calls, RowsTyped
    <2> QED  BY <2>1, CrossesTyped DEF CallCreate, InsertApp, rowVars, RowsTyped
  <1>6. SlotsOK'
    BY DEF CallCreate, SlotsOK, Building
  <1> QED  BY <1>1, <1>2, <1>3, <1>4, <1>5, <1>6

LEMMA CallDestroyKeeps == ASSUME LifeInv, NEW c \in Callers, NEW n \in Names, NEW a \in Apps, CallDestroy(c, n, a) PROVE [Next]_storeVars /\ LifeInv'
  <1> USE DEF LifeInv
  <1>1. [Next]_storeVars
    BY DEF CallDestroy, storeVars
  <1>2. TypeOK' /\ LivePointerAgrees'
    BY <1>1, TypeStep, LivePointerStep
  <1>3. JobsKnown'
    BY DEF CallDestroy, JobsKnown
  <1>4. CallsKnown'
    BY CallsKnownMore DEF CallDestroy
  <1>5. RowsTyped'
    <2>1. calls' \in 0 .. MaxCalls
      BY CountsAssumption DEF CallDestroy, Calls, RowsTyped
    <2> QED  BY <2>1, CrossesTyped DEF CallDestroy, rowVars, RowsTyped
  <1>6. SlotsOK'
    BY DEF CallDestroy, SlotsOK, Building
  <1> QED  BY <1>1, <1>2, <1>3, <1>4, <1>5, <1>6

LEMMA CallConfigKeeps == ASSUME LifeInv, NEW c \in Callers, NEW n \in Names, NEW a \in Apps, CallConfig(c, n, a) PROVE [Next]_storeVars /\ LifeInv'
  <1> USE DEF LifeInv
  <1>1. [Next]_storeVars
    BY DEF CallConfig, storeVars
  <1>2. TypeOK' /\ LivePointerAgrees'
    BY <1>1, TypeStep, LivePointerStep
  <1>3. JobsKnown'
    BY DEF CallConfig, JobsKnown
  <1>4. CallsKnown'
    BY CallsKnownMore DEF CallConfig
  <1>5. RowsTyped'
    <2>1. calls' \in 0 .. MaxCalls
      BY CountsAssumption DEF CallConfig, Calls, RowsTyped
    <2> QED  BY <2>1 DEF CallConfig, rowVars, RowsTyped
  <1>6. SlotsOK'
    BY DEF CallConfig, SlotsOK, Building
  <1> QED  BY <1>1, <1>2, <1>3, <1>4, <1>5, <1>6

LEMMA TakeCallKeeps == ASSUME LifeInv, NEW n \in Names, NEW kind \in {"push", "rollback", "restart"}, NEW a \in Apps, TakeCall(n, kind, a) PROVE [Next]_storeVars /\ LifeInv'
  <1> USE DEF LifeInv
  <1>0. /\ JobsKnown' /\ job'[n].pc = "fetched" /\ \A m \in Names : m # n => job'[m] = job[m]
    <2> DEFINE j == [pc |-> "fetched", kind |-> kind, app |-> a, rel |-> NoRel, image |-> NoImage, config |-> 0]
    <2>1. j \in Job /\ JobKnown(j) /\ j.pc = "fetched"
      BY CountsAssumption DEF Job, JobKnown, Late, NoRel
    <2> QED  BY <2>1, BecomesKnown DEF TakeCall, Take
  <1>1. [Next]_storeVars
    BY DEF TakeCall, Take, storeVars
  <1>2. TypeOK' /\ LivePointerAgrees'
    BY <1>1, TypeStep, LivePointerStep
  <1>3. JobsKnown'
    BY <1>0
  <1>4. CallsKnown'
    BY DEF TakeCall, CallsKnown
  <1>5. RowsTyped'
    <2>1. calls' \in 0 .. MaxCalls
      BY CountsAssumption DEF TakeCall, RowsTyped
    <2> QED  BY <2>1, CrossesTyped DEF TakeCall, Take, rowVars, RowsTyped
  <1>6. SlotsOK'
    BY <1>0, BuildingStays DEF TakeCall, Take, At
  <1> QED  BY <1>1, <1>2, <1>3, <1>4, <1>5, <1>6

LEMMA TakeRedeployKeeps == ASSUME LifeInv, NEW n \in Names, NEW a \in Apps, TakeRedeploy(n, a) PROVE [Next]_storeVars /\ LifeInv'
  <1> USE DEF LifeInv
  <1>0. /\ JobsKnown' /\ job'[n].pc = "fetched" /\ \A m \in Names : m # n => job'[m] = job[m]
    <2> DEFINE j == [pc |-> "fetched", kind |-> "redeploy", app |-> a, rel |-> NoRel, image |-> NoImage, config |-> 0]
    <2>1. j \in Job /\ JobKnown(j) /\ j.pc = "fetched"
      BY CountsAssumption DEF Job, JobKnown, Late, NoRel
    <2> QED  BY <2>1, BecomesKnown DEF TakeRedeploy, Take
  <1>1. [Next]_storeVars
    BY DEF TakeRedeploy, Take, storeVars
  <1>2. TypeOK' /\ LivePointerAgrees'
    BY <1>1, TypeStep, LivePointerStep
  <1>3. JobsKnown'
    BY <1>0
  <1>4. CallsKnown'
    BY GoesKnown DEF TakeRedeploy, Is
  <1>5. RowsTyped'
    BY CrossesTyped DEF TakeRedeploy, Take, rowVars, RowsTyped
  <1>6. SlotsOK'
    BY <1>0, BuildingStays DEF TakeRedeploy, Take, At
  <1> QED  BY <1>1, <1>2, <1>3, <1>4, <1>5, <1>6

LEMMA SourceKeeps == ASSUME LifeInv, NEW n \in Names, Source(n) PROVE [Next]_storeVars /\ LifeInv'
  <1> USE DEF LifeInv
  <1>a. job[n] \in Job /\ JobKnown(job[n])
    BY DEF JobsKnown
  <1>0. /\ JobsKnown' /\ CallsKnown' /\ unapplied' \subseteq Apps
        /\ job'[n].pc # "building" /\ \A m \in Names : m # n => job'[m] = job[m]
    <2> DEFINE live == liveRelease[job[n].app]
    <2>1. CASE To(n, "sourced") /\ UNCHANGED <<caller, unapplied>>
      <3>1. JobsKnown' /\ job'[n].pc = "sourced" /\ \A m \in Names : m # n => job'[m] = job[m]
        BY <2>1, ToKnown DEF Source, At, Late
      <3> QED  BY <2>1, <3>1 DEF CallsKnown, RowsTyped
    <2>2. ASSUME NEW i \in Ids, Exists(i), NEW pc \in {"sourced", "starting", "snapped"}, NEW rel \in Ids \cup {NoRel},
                 NEW k \in 0 .. MaxConfig, pc = "starting" => rel \in Ids,
                 Becomes(n, [job[n] EXCEPT !.pc = pc, !.rel = rel, !.image = rows[i].image, !.config = k]),
                 UNCHANGED <<caller, unapplied>>
          PROVE  /\ JobsKnown' /\ CallsKnown' /\ unapplied' \subseteq Apps
                 /\ job'[n].pc # "building" /\ \A m \in Names : m # n => job'[m] = job[m]
      <3> DEFINE j == [job[n] EXCEPT !.pc = pc, !.rel = rel, !.image = rows[i].image, !.config = k]
      <3>1. rows[i].image \in Images \cup {NoImage}
        BY <2>2, RowAt DEF Row
      <3>2. job[n].app \in Apps
        BY <1>a DEF Source, At, JobKnown
      <3>3. j \in Job /\ JobKnown(j) /\ j.pc # "building"
        BY <1>a, <2>2, <3>1, <3>2 DEF Job, JobKnown, Late
      <3> QED  BY <2>2, <3>3, BecomesKnown DEF CallsKnown, RowsTyped
    <2>3. CASE Ends(n, FALSE)
      BY <2>3, EndsKnown DEF Source, At, RowsTyped
    <2>4. job[n].app \in Apps
      BY <1>a DEF Source, At, JobKnown
    <2>5. live \in Ids \cup {NoLive}
      BY <2>4 DEF TypeOK
    <2>10. live # NoLive => live \in Ids /\ Exists(live)
      BY <2>4, <2>5 DEF LivePointerAgrees, RowsOf, NoLive
    <2>6. 0 \in 0 .. MaxConfig /\ \A i \in Ids : snap[i] \in 0 .. MaxConfig
      BY CountsAssumption DEF RowsTyped
    <2>7. CASE live # NoLive /\ Becomes(n, [job[n] EXCEPT !.pc = "sourced", !.rel = NoRel, !.image = rows[live].image, !.config = 0])
               /\ UNCHANGED <<caller, unapplied>>
      BY <2>2, <2>6, <2>7, <2>10 DEF NoRel
    <2>8. CASE live # NoLive /\ Becomes(n, [job[n] EXCEPT !.pc = "starting", !.rel = live, !.image = rows[live].image, !.config = snap[live]])
               /\ UNCHANGED <<caller, unapplied>>
      BY <2>2, <2>6, <2>8, <2>10
    <2>9. CASE \E i \in RowsOf(job[n].app) \ {live} :
                 Becomes(n, [job[n] EXCEPT !.pc = "snapped", !.rel = NoRel, !.image = rows[i].image, !.config = snap[i]])
               /\ UNCHANGED <<caller, unapplied>>
      BY <2>2, <2>6, <2>9 DEF RowsOf, NoRel
    <2> QED  BY <2>1, <2>3, <2>7, <2>8, <2>9 DEF Source
  <1>1. [Next]_storeVars
    BY DEF Source, storeVars
  <1>2. TypeOK' /\ LivePointerAgrees'
    BY <1>1, TypeStep, LivePointerStep
  <1>3. JobsKnown'
    BY <1>0
  <1>4. CallsKnown'
    BY <1>0
  <1>5. RowsTyped'
    BY <1>0 DEF Source, rowVars, RowsTyped
  <1>6. SlotsOK'
    BY <1>0, BuildingStays DEF Source, At
  <1> QED  BY <1>1, <1>2, <1>3, <1>4, <1>5, <1>6

LEMMA SnapshotKeeps == ASSUME LifeInv, NEW n \in Names, Snapshot(n) PROVE [Next]_storeVars /\ LifeInv'
  <1> USE DEF LifeInv
  <1>a. job[n] \in Job /\ JobKnown(job[n])
    BY DEF JobsKnown
  <1>0. /\ JobsKnown' /\ \A m \in Names : m # n => job'[m] = job[m]
        /\ job'[n].pc # "building"
    <2> DEFINE j == [job[n] EXCEPT !.pc = "snapped", !.config = config[job[n].app]]
    <2>1. j \in Job /\ JobKnown(j) /\ j.pc # "building"
      BY <1>a, CountsAssumption DEF Snapshot, At, Job, JobKnown, Late, RowsTyped
    <2> QED  BY <2>1, BecomesKnown DEF Snapshot
  <1>1. [Next]_storeVars
    BY DEF Snapshot, storeVars
  <1>2. TypeOK' /\ LivePointerAgrees'
    BY <1>1, TypeStep, LivePointerStep
  <1>3. JobsKnown'
    BY <1>0
  <1>4. CallsKnown'
    BY DEF Snapshot, CallsKnown
  <1>5. RowsTyped'
    BY DEF Snapshot, rowVars, RowsTyped
  <1>6. SlotsOK'
    BY <1>0, BuildingStays DEF Snapshot, At
  <1> QED  BY <1>1, <1>2, <1>3, <1>4, <1>5, <1>6

LEMMA RecordKeeps == ASSUME LifeInv, NEW n \in Names, Record(n) PROVE [Next]_storeVars /\ LifeInv'
  <1> USE DEF LifeInv
  <1>a. job[n] \in Job /\ JobKnown(job[n])
    BY DEF JobsKnown
  <1>0. /\ JobsKnown' /\ CallsKnown' /\ unapplied' \subseteq Apps /\ snap' \in [Ids -> 0 .. MaxConfig]
        /\ job'[n].pc # "building" /\ \A m \in Names : m # n => job'[m] = job[m]
    <2>1. CASE Ends(n, FALSE) /\ UNCHANGED <<storeVars, snap>>
      BY <2>1, EndsKnown DEF Record, At, RowsTyped
    <2>2. ASSUME NEW i \in Ids, snap' = [snap EXCEPT ![i] = job[n].config],
                 Becomes(n, [job[n] EXCEPT !.rel = i, !.pc = IF job[n].image = NoImage THEN "waiting" ELSE "starting"]),
                 UNCHANGED <<caller, unapplied>>
          PROVE  /\ JobsKnown' /\ CallsKnown' /\ unapplied' \subseteq Apps /\ snap' \in [Ids -> 0 .. MaxConfig]
                 /\ job'[n].pc # "building" /\ \A m \in Names : m # n => job'[m] = job[m]
      <3> DEFINE j == [job[n] EXCEPT !.rel = i, !.pc = IF job[n].image = NoImage THEN "waiting" ELSE "starting"]
      <3>1. j \in Job /\ JobKnown(j) /\ j.pc # "building"
        BY <1>a DEF Record, At, Job, JobKnown, Late
      <3>2. snap' \in [Ids -> 0 .. MaxConfig]
        BY <1>a, <2>2 DEF Job, RowsTyped
      <3> QED  BY <2>2, <3>1, <3>2, BecomesKnown DEF CallsKnown, RowsTyped
    <2> QED  BY <2>1, <2>2 DEF Record
  <1>1. [Next]_storeVars
    BY <1>a DEF Record, Next, storeVars, Job, At, JobKnown
  <1>2. TypeOK' /\ LivePointerAgrees'
    BY <1>1, TypeStep, LivePointerStep
  <1>3. JobsKnown'
    BY <1>0
  <1>4. CallsKnown'
    BY <1>0
  <1>5. RowsTyped'
    BY <1>0 DEF Record, RowsTyped
  <1>6. SlotsOK'
    BY <1>0, BuildingStays DEF Record, At
  <1> QED  BY <1>1, <1>2, <1>3, <1>4, <1>5, <1>6

LEMMA AcquireSlotKeeps == ASSUME LifeInv, NEW n \in Names, AcquireSlot(n) PROVE [Next]_storeVars /\ LifeInv'
  <1> USE DEF LifeInv
  <1>a. job[n] \in Job /\ JobKnown(job[n])
    BY DEF JobsKnown
  <1>0. /\ JobsKnown' /\ \A m \in Names : m # n => job'[m] = job[m]
        /\ job'[n].pc \in {"building"}
    BY <1>a, ToKnown DEF AcquireSlot, At, JobKnown, Late
  <1>1. [Next]_storeVars
    BY DEF AcquireSlot, storeVars
  <1>2. TypeOK' /\ LivePointerAgrees'
    BY <1>1, TypeStep, LivePointerStep
  <1>3. JobsKnown'
    BY <1>0
  <1>4. CallsKnown'
    BY DEF AcquireSlot, CallsKnown
  <1>5. RowsTyped'
    BY DEF AcquireSlot, rowVars, RowsTyped
  <1>6. SlotsOK'
    <2>1. Building' = Building \cup {n} /\ n \notin Building
      BY <1>0 DEF AcquireSlot, At, Building
    <2>2. Cardinality(Building') = Cardinality(Building) + 1
      BY <2>1, BuildingFinite, FS_AddElement
    <2> QED  BY <2>2, BuildingFinite, SlotsAssumption, CountsAssumption DEF AcquireSlot, SlotsOK, RowsTyped
  <1> QED  BY <1>1, <1>2, <1>3, <1>4, <1>5, <1>6

LEMMA LeaveQueueKeeps == ASSUME LifeInv, NEW n \in Names, LeaveQueue(n) PROVE [Next]_storeVars /\ LifeInv'
  <1> USE DEF LifeInv
  <1>a. job[n] \in Job /\ JobKnown(job[n])
    BY DEF JobsKnown
  <1>0. /\ JobsKnown' /\ \A m \in Names : m # n => job'[m] = job[m]
        /\ job'[n].pc \in {"failing"}
    BY <1>a, ToKnown DEF LeaveQueue, At, JobKnown, Late
  <1>1. [Next]_storeVars
    BY DEF LeaveQueue, storeVars
  <1>2. TypeOK' /\ LivePointerAgrees'
    BY <1>1, TypeStep, LivePointerStep
  <1>3. JobsKnown'
    BY <1>0
  <1>4. CallsKnown'
    BY DEF LeaveQueue, CallsKnown
  <1>5. RowsTyped'
    BY DEF LeaveQueue, rowVars, RowsTyped
  <1>6. SlotsOK'
    BY <1>0, BuildingStays DEF LeaveQueue, At
  <1> QED  BY <1>1, <1>2, <1>3, <1>4, <1>5, <1>6

LEMMA BuildEndsKeeps == ASSUME LifeInv, NEW n \in Names, BuildEnds(n) PROVE [Next]_storeVars /\ LifeInv'
  <1> USE DEF LifeInv
  <1>a. job[n] \in Job /\ JobKnown(job[n])
    BY DEF JobsKnown
  <1>0. /\ JobsKnown' /\ \A m \in Names : m # n => job'[m] = job[m]
        /\ job'[n].pc \in {"built", "failing"}
    BY <1>a, ToKnown DEF BuildEnds, At, JobKnown, Late
  <1>1. [Next]_storeVars
    BY DEF BuildEnds, storeVars
  <1>2. TypeOK' /\ LivePointerAgrees'
    BY <1>1, TypeStep, LivePointerStep
  <1>3. JobsKnown'
    BY <1>0
  <1>4. CallsKnown'
    BY DEF BuildEnds, CallsKnown
  <1>5. RowsTyped'
    BY DEF BuildEnds, rowVars, RowsTyped
  <1>6. SlotsOK'
    <2>1. Building' = Building \ {n} /\ n \in Building
      BY <1>0 DEF BuildEnds, At, Building
    <2>2. Cardinality(Building') = Cardinality(Building) - 1
      BY <2>1, BuildingFinite, FS_RemoveElement
    <2>3. Cardinality(Building') \in Nat
      BY <2>1, BuildingFinite, FS_Subset, FS_CardinalityType
    <2> QED  BY <2>2, <2>3, BuildingFinite, SlotsAssumption, CountsAssumption DEF BuildEnds, SlotsOK, RowsTyped
  <1> QED  BY <1>1, <1>2, <1>3, <1>4, <1>5, <1>6

LEMMA BuildPanicsKeeps == ASSUME LifeInv, NEW n \in Names, BuildPanics(n) PROVE [Next]_storeVars /\ LifeInv'
  <1> USE DEF LifeInv
  <1>a. job[n] \in Job /\ JobKnown(job[n])
    BY DEF JobsKnown
  <1>0. /\ JobsKnown' /\ CallsKnown' /\ unapplied' \subseteq Apps
        /\ job'[n].pc = "idle" /\ \A m \in Names : m # n => job'[m] = job[m]
    BY EndsKnown DEF BuildPanics, At, RowsTyped
  <1>1. [Next]_storeVars
    BY DEF BuildPanics, storeVars
  <1>2. TypeOK' /\ LivePointerAgrees'
    BY <1>1, TypeStep, LivePointerStep
  <1>3. JobsKnown'
    BY <1>0
  <1>4. CallsKnown'
    BY <1>0
  <1>5. RowsTyped'
    <2>1. panics' \in 0 .. MaxPanics
      BY CountsAssumption DEF BuildPanics, RowsTyped
    <2> QED  BY <1>0, <2>1 DEF BuildPanics, rowVars, RowsTyped
  <1>6. SlotsOK'
    <2>1. Building' = Building \ {n} /\ n \in Building
      BY <1>0 DEF BuildPanics, At, Building
    <2>2. Cardinality(Building') = Cardinality(Building) - 1
      BY <2>1, BuildingFinite, FS_RemoveElement
    <2>3. Cardinality(Building') \in Nat
      BY <2>1, BuildingFinite, FS_Subset, FS_CardinalityType
    <2> QED  BY <2>2, <2>3, BuildingFinite, SlotsAssumption, CountsAssumption DEF BuildPanics, SlotsOK, RowsTyped
  <1> QED  BY <1>1, <1>2, <1>3, <1>4, <1>5, <1>6

LEMMA RecordImageKeeps == ASSUME LifeInv, NEW n \in Names, RecordImage(n) PROVE [Next]_storeVars /\ LifeInv'
  <1> USE DEF LifeInv
  <1>a. job[n] \in Job /\ JobKnown(job[n])
    BY DEF JobsKnown
  <1>0. /\ JobsKnown' /\ \A m \in Names : m # n => job'[m] = job[m]
        /\ job'[n].pc # "building"
    <2> DEFINE j == [job[n] EXCEPT !.pc = "starting", !.image = n]
    <2>1. j \in Job /\ JobKnown(j) /\ j.pc # "building"
      BY <1>a, NamesAssumption DEF RecordImage, At, Job, JobKnown, Late
    <2>2. CASE Becomes(n, j)
      BY <2>1, <2>2, BecomesKnown
    <2>3. CASE To(n, "failing")
      BY <1>a, <2>3, ToKnown DEF RecordImage, At, JobKnown, Late
    <2> QED  BY <2>2, <2>3 DEF RecordImage
  <1>1. [Next]_storeVars
    BY <1>a, NamesAssumption DEF RecordImage, Next, storeVars, At, JobKnown, Late
  <1>2. TypeOK' /\ LivePointerAgrees'
    BY <1>1, TypeStep, LivePointerStep
  <1>3. JobsKnown'
    BY <1>0
  <1>4. CallsKnown'
    BY DEF RecordImage, CallsKnown
  <1>5. RowsTyped'
    BY DEF RecordImage, rowVars, RowsTyped
  <1>6. SlotsOK'
    BY <1>0, BuildingStays DEF RecordImage, At
  <1> QED  BY <1>1, <1>2, <1>3, <1>4, <1>5, <1>6

LEMMA LaunchFailsKeeps == ASSUME LifeInv, NEW n \in Names, LaunchFails(n) PROVE [Next]_storeVars /\ LifeInv'
  <1> USE DEF LifeInv
  <1>a. job[n] \in Job /\ JobKnown(job[n])
    BY DEF JobsKnown
  <1>0. /\ JobsKnown' /\ \A m \in Names : m # n => job'[m] = job[m]
        /\ job'[n].pc \in {"failing"}
    BY <1>a, ToKnown DEF LaunchFails, At, JobKnown, Late
  <1>1. [Next]_storeVars
    BY DEF LaunchFails, storeVars
  <1>2. TypeOK' /\ LivePointerAgrees'
    BY <1>1, TypeStep, LivePointerStep
  <1>3. JobsKnown'
    BY <1>0
  <1>4. CallsKnown'
    BY DEF LaunchFails, CallsKnown
  <1>5. RowsTyped'
    BY DEF LaunchFails, rowVars, RowsTyped
  <1>6. SlotsOK'
    BY <1>0, BuildingStays DEF LaunchFails, At
  <1> QED  BY <1>1, <1>2, <1>3, <1>4, <1>5, <1>6

LEMMA SwapKeeps == ASSUME LifeInv, NEW n \in Names, Swap(n) PROVE [Next]_storeVars /\ LifeInv'
  <1> USE DEF LifeInv
  <1>a. job[n] \in Job /\ JobKnown(job[n])
    BY DEF JobsKnown
  <1>0. /\ JobsKnown' /\ \A m \in Names : m # n => job'[m] = job[m]
        /\ job'[n].pc \in {"swapped"}
    BY <1>a, ToKnown DEF Swap, At, JobKnown, Late
  <1>1. [Next]_storeVars
    BY DEF Swap, storeVars
  <1>2. TypeOK' /\ LivePointerAgrees'
    BY <1>1, TypeStep, LivePointerStep
  <1>3. JobsKnown'
    BY <1>0
  <1>4. CallsKnown'
    BY DEF Swap, CallsKnown
  <1>5. RowsTyped'
    <2>1. job[n].app \in Apps /\ [image |-> job[n].image, config |-> job[n].config] \in
            [image: Images \cup {NoImage}, config: 0 .. MaxConfig]
      BY <1>a DEF Swap, At, Job, JobKnown
    <2> QED  BY <2>1 DEF Swap, rowVars, RowsTyped
  <1>6. SlotsOK'
    BY <1>0, BuildingStays DEF Swap, At
  <1> QED  BY <1>1, <1>2, <1>3, <1>4, <1>5, <1>6

LEMMA CommitKeeps == ASSUME LifeInv, NEW n \in Names, Commit(n) PROVE [Next]_storeVars /\ LifeInv'
  <1> USE DEF LifeInv
  <1>a. job[n] \in Job /\ JobKnown(job[n])
    BY DEF JobsKnown
  <1>0. /\ JobsKnown' /\ CallsKnown' /\ unapplied' \subseteq Apps
        /\ job'[n].pc = "idle" /\ \A m \in Names : m # n => job'[m] = job[m]
    BY EndsKnown DEF Commit, At, RowsTyped
  <1>1. [Next]_storeVars
    <2>1. job[n].app \in Apps /\ job[n].rel \in Ids
      BY <1>a DEF Commit, At, JobKnown, Late
    <2> QED  BY <2>1 DEF Commit, Next, storeVars
  <1>2. TypeOK' /\ LivePointerAgrees'
    BY <1>1, TypeStep, LivePointerStep
  <1>3. JobsKnown'
    BY <1>0
  <1>4. CallsKnown'
    BY <1>0
  <1>5. RowsTyped'
    BY <1>0 DEF Commit, rowVars, RowsTyped
  <1>6. SlotsOK'
    BY <1>0, BuildingStays DEF Commit, At
  <1> QED  BY <1>1, <1>2, <1>3, <1>4, <1>5, <1>6

LEMMA FailKeeps == ASSUME LifeInv, NEW n \in Names, Fail(n) PROVE [Next]_storeVars /\ LifeInv'
  <1> USE DEF LifeInv
  <1>a. job[n] \in Job /\ JobKnown(job[n])
    BY DEF JobsKnown
  <1>0. /\ JobsKnown' /\ CallsKnown' /\ unapplied' \subseteq Apps
        /\ job'[n].pc = "idle" /\ \A m \in Names : m # n => job'[m] = job[m]
    BY EndsKnown DEF Fail, At, RowsTyped
  <1>1. [Next]_storeVars
    <2>1. job[n].rel \in Ids
      BY <1>a DEF Fail, At, JobKnown, Late
    <2> QED  BY <2>1 DEF Fail, Next, storeVars
  <1>2. TypeOK' /\ LivePointerAgrees'
    BY <1>1, TypeStep, LivePointerStep
  <1>3. JobsKnown'
    BY <1>0
  <1>4. CallsKnown'
    BY <1>0
  <1>5. RowsTyped'
    BY <1>0 DEF Fail, rowVars, RowsTyped
  <1>6. SlotsOK'
    BY <1>0, BuildingStays DEF Fail, At
  <1> QED  BY <1>1, <1>2, <1>3, <1>4, <1>5, <1>6

-----------------------------------------------------------------------------

LEMMA LifeInitInv == LifeInit => LifeInv
  <1> SUFFICES ASSUME LifeInit PROVE LifeInv
    OBVIOUS
  <1>1. TypeOK
    BY DEF LifeInit, Init, TypeOK, NoLive
  <1>6. LivePointerAgrees
    BY DEF LifeInit, Init, LivePointerAgrees, RowsOf, Exists, NoLive
  <1>2. JobsKnown
    <2>1. NoJob \in Job /\ JobKnown(NoJob)
      BY CountsAssumption DEF NoJob, Job, JobKnown, Late, NoRel
    <2> QED  BY <2>1 DEF LifeInit, JobsKnown
  <1>3. CallsKnown
    <2>1. NoCall \in Call /\ CallKnown(NoCall)
      BY DEF NoCall, Call, CallKnown
    <2> QED  BY <2>1 DEF LifeInit, CallsKnown
  <1>4. RowsTyped
    <2>1. Nothing \in [image: Images \cup {NoImage}, config: 0 .. MaxConfig]
      BY CountsAssumption DEF Nothing
    <2> QED  BY <2>1, CountsAssumption DEF LifeInit, RowsTyped
  <1>5. SlotsOK
    <2>1. Building = {}
      BY DEF LifeInit, Building, NoJob
    <2> QED  BY <2>1, FS_EmptySet, SlotsAssumption DEF LifeInit, SlotsOK
  <1> QED  BY <1>1, <1>2, <1>3, <1>4, <1>5, <1>6 DEF LifeInv

LEMMA LifeStep == LifeInv /\ [LifeNext]_vars => [Next]_storeVars /\ LifeInv'
  <1> SUFFICES ASSUME LifeInv, [LifeNext]_vars PROVE [Next]_storeVars /\ LifeInv'
    OBVIOUS
  <1>1. ASSUME NEW c \in Callers, CallerStep(c) PROVE [Next]_storeVars /\ LifeInv'
    BY <1>1, MakeRepoKeeps, UndoCreateKeeps, RetireKeeps, DeleteRowsKeeps, RemoveRepoKeeps, SaveConfigKeeps,
       LookLiveKeeps, RefuseRedeployKeeps DEF CallerStep
  <1>2. ASSUME NEW c \in Callers, NEW n \in Names, NEW a \in Apps,
               CallCreate(c, n, a) \/ CallDestroy(c, n, a) \/ CallConfig(c, n, a)
        PROVE  [Next]_storeVars /\ LifeInv'
    BY <1>2, CallCreateKeeps, CallDestroyKeeps, CallConfigKeeps
  <1>3. ASSUME NEW n \in Names, NEW a \in Apps,
               TakeRedeploy(n, a) \/ \E kind \in {"push", "rollback", "restart"} : TakeCall(n, kind, a)
        PROVE  [Next]_storeVars /\ LifeInv'
    BY <1>3, TakeRedeployKeeps, TakeCallKeeps
  <1>4. ASSUME NEW n \in Names, DeployStep(n) PROVE [Next]_storeVars /\ LifeInv'
    BY <1>4, SourceKeeps, SnapshotKeeps, RecordKeeps, AcquireSlotKeeps, LeaveQueueKeeps, BuildEndsKeeps,
       BuildPanicsKeeps, RecordImageKeeps, LaunchFailsKeeps, SwapKeeps, CommitKeeps, FailKeeps DEF DeployStep
  <1>5. CASE UNCHANGED vars
    BY <1>5 DEF vars, rowVars, lifeVars, storeVars, LifeInv, TypeOK, LivePointerAgrees, RowsOf, Exists, JobsKnown, CallsKnown, RowsTyped, SlotsOK, Building
  <1> QED  BY <1>1, <1>2, <1>3, <1>4, <1>5 DEF LifeNext

\* The inductive invariant of the apps' life: the types, that a deploy knows its
\* app and its release, and the count of build slots.
THEOREM LifeInvariance == LifeSpec => []LifeInv
  BY LifeInitInv, LifeStep, PTL DEF LifeSpec

\* The types of what callers, actors and the store keep (api/apps.go,
\* api/config.go, supervisor/deploy.go).
THEOREM LifeTypeCorrect == LifeSpec => []LifeTypeOK
  <1>1. LifeInv => LifeTypeOK
    BY DEF LifeInv, LifeTypeOK, JobsKnown, CallsKnown, RowsTyped, SlotsOK
  <1> QED  BY <1>1, LifeInvariance, PTL

\* A build slot comes back on every way out of a build but a panic
\* (deploy.go:126-146, 258-272).
THEOREM SlotsComeBack == LifeSpec => []SlotsAreReturned
  <1>1. LifeInv => SlotsAreReturned
    BY DEF LifeInv, SlotsOK, Building, SlotsAreReturned, At
  <1> QED  BY <1>1, LifeInvariance, PTL

\* Callers and actors, however they interleave and whichever ids come back, use
\* the store as ReleaseStore specifies it: AppLifecycle implements ReleaseStore.
THEOREM LifeUsesTheStore == LifeSpec => Spec
  <1>1. LifeInit => Init
    BY DEF LifeInit
  <1> QED  BY <1>1, LifeInvariance, LifeStep, PTL DEF LifeSpec, Spec

\* So at most one release of an app is live, and it is the one the app names,
\* whatever deploys outlive their app (releases.go:231-260).
THEOREM OneIsLive == LifeSpec => []LivePointerAgrees
  BY LifeUsesTheStore, LivePointerIsRight, PTL

\* The versions of an app are in the order of its releases and without a gap,
\* for apps that come and go under the same ids (releases.go:131-169).
THEOREM VersionsAreInOrder == LifeSpec => []VersionsInOrder
  BY LifeUsesTheStore, VersionsStayInOrder, PTL

\* No caller or late deploy moves a release against its status machine
\* (releases.go:14-26).
THEOREM HistoryStays == LifeSpec => HistoryIsNeverRewritten
  BY LifeUsesTheStore, HistoryIsKept, PTL
-----------------------------------------------------------------------------
(* Rows and repositories *)

Holds(c, n, pcs) == caller[c].name = n /\ caller[c].pc \in pcs
Making   == {"creating", "undoing"}
Ending   == {"destroying", "retired"}
Clean    == {"create", "undo"} \cap crossed = {}
Busy     == Making \cup Ending \cup {"removing"}

\* Nobody who creates an app meets another who creates or destroys it; one who
\* removes the repository is alone in that, and has it still.
NameOK(n) ==
  /\ \A c \in Callers : Holds(c, n, Making) =>
       /\ Named(n) # {} /\ ~On(n, Ending)
       /\ \A d \in Callers : Holds(d, n, Making) => d = c
  /\ \A c \in Callers : Holds(c, n, {"removing"}) =>
       /\ n \in repos /\ (Named(n) # {} => On(n, Making))
       /\ \A d \in Callers : Holds(d, n, {"removing"}) => d = c
  /\ Named(n) # {} /\ ~On(n, Making) => n \in repos

NamesAreUnique ==
  /\ \A a \in apps : nameOf[a] \in Names
  /\ \A a, b \in apps : nameOf[a] = nameOf[b] => a = b

RepoInv == NamesAreUnique /\ (Clean => \A n \in Names : NameOK(n))

LEMMA RepoFrame ==
  ASSUME RepoInv, apps' = apps, nameOf' = nameOf, repos' = repos, crossed \subseteq crossed',
         \A c \in Callers : caller[c].pc \in Busy \/ caller'[c].pc \in Busy => caller'[c] = caller[c]
  PROVE  RepoInv'
  <1>1. NamesAreUnique'
    BY DEF RepoInv, NamesAreUnique
  <1>2. ASSUME Clean', NEW n \in Names PROVE NameOK(n)'
    <2>1. NameOK(n) /\ Named(n)' = Named(n)
      BY <1>2 DEF RepoInv, Named, Clean
    <2>2. \A c \in Callers : /\ Holds(c, n, Making)' <=> Holds(c, n, Making)
                             /\ Holds(c, n, Ending)' <=> Holds(c, n, Ending)
                             /\ Holds(c, n, {"removing"})' <=> Holds(c, n, {"removing"})
      BY DEF Holds, Busy, Making, Ending
    <2>3. (On(n, Making)' <=> On(n, Making)) /\ (On(n, Ending)' <=> On(n, Ending))
      BY <2>2 DEF On, Holds
    <2> QED  BY <2>1, <2>2, <2>3 DEF NameOK
  <1> QED  BY <1>1, <1>2 DEF RepoInv

\* What is not for a name leaves it as it is.
LEMMA NameFrame ==
  ASSUME NEW n \in Names, NameOK(n), Named(n)' = Named(n), n \in repos' <=> n \in repos,
         \A c \in Callers : caller[c].name = n \/ caller'[c].name = n =>
           (caller[c].pc \in Busy \/ caller'[c].pc \in Busy => caller'[c] = caller[c])
  PROVE  NameOK(n)'
  <1>2. \A c \in Callers : /\ Holds(c, n, Making)' <=> Holds(c, n, Making)
                           /\ Holds(c, n, Ending)' <=> Holds(c, n, Ending)
                           /\ Holds(c, n, {"removing"})' <=> Holds(c, n, {"removing"})
    BY DEF Holds, Busy, Making, Ending
  <1>3. (On(n, Making)' <=> On(n, Making)) /\ (On(n, Ending)' <=> On(n, Ending))
    BY <1>2 DEF On, Holds
  <1> QED  BY <1>2, <1>3 DEF NameOK

\* A name's one row goes, and no other name's.
LEMMA DeleteNamedNames ==
  ASSUME TypeOK, RowsTyped, NamesAreUnique, NEW n \in Names, DeleteNamed(n)
  PROVE  /\ NamesAreUnique' /\ Named(n)' = {}
         /\ \A m \in Names : m # n => Named(m)' = Named(m)
  <1>1. PICK a \in Named(n) : DeleteApp(a) /\ nameOf' = [nameOf EXCEPT ![a] = NoName]
    BY DEF DeleteNamed
  <1>2. a \in Apps /\ a \in apps /\ nameOf[a] = n /\ apps' = apps \ {a} /\ apps \subseteq Apps
    BY <1>1 DEF Named, TypeOK, DeleteApp
  <1>3. \A b \in apps : b # a => nameOf'[b] = nameOf[b] /\ nameOf[b] # n
    BY <1>1, <1>2 DEF RowsTyped, NamesAreUnique
  <1>4. NamesAreUnique'
    BY <1>2, <1>3 DEF NamesAreUnique
  <1>5. Named(n)' = {}
    BY <1>2, <1>3 DEF Named
  <1>6. ASSUME NEW m \in Names, m # n PROVE Named(m)' = Named(m)
    BY <1>2, <1>3, <1>6 DEF Named
  <1> QED  BY <1>4, <1>5, <1>6

LEMMA MakeRepoRepo == ASSUME LifeInv, RepoInv, NEW c \in Callers, MakeRepo(c) PROVE RepoInv'
  <1> DEFINE m == caller[c].name
  <1>1. m \in Names /\ caller \in [Callers -> Call]
    BY CallIsFor DEF MakeRepo, Is, LifeInv, CallsKnown
  <1>2. NamesAreUnique' /\ crossed' = crossed /\ \A n \in Names : Named(n)' = Named(n)
    BY DEF MakeRepo, RepoInv, NamesAreUnique, Named, rowVars, storeVars
  <1>3. \A d \in Callers : d # c => caller'[d] = caller[d]
    BY <1>1 DEF MakeRepo, Goes, Returns
  <1>4. ASSUME Clean', NEW n \in Names PROVE NameOK(n)'
    <2>1. NameOK(n)
      BY <1>2, <1>4 DEF RepoInv, Clean
    <2>2. CASE n # m
      <3>1. caller'[c].name \in {m, NoName}
        BY <1>1 DEF MakeRepo, Goes, Returns, NoCall, Call
      <3> QED  BY <1>2, <1>3, <2>1, <2>2, <3>1, NameFrame, NamesAssumption DEF MakeRepo
    <2>3. CASE n = m /\ Goes(c, "undoing") /\ repos' \in {repos, repos \cup {n}}
      <3>1. caller'[c].name = n /\ caller'[c].pc = "undoing" /\ caller[c].pc = "creating"
        BY <1>1, <2>3 DEF Goes, Call, MakeRepo, Is
      <3>2. \A d \in Callers : /\ Holds(d, n, Making)' <=> Holds(d, n, Making)
                               /\ Holds(d, n, Ending)' <=> Holds(d, n, Ending)
                               /\ Holds(d, n, {"removing"})' <=> Holds(d, n, {"removing"})
        BY <1>3, <2>3, <3>1 DEF Holds, Making, Ending
      <3>3. (On(n, Making)' <=> On(n, Making)) /\ (On(n, Ending)' <=> On(n, Ending))
        BY <3>2 DEF On, Holds
      <3> QED  BY <1>2, <2>1, <2>3, <3>2, <3>3 DEF NameOK
    <2>4. CASE n = m /\ n \notin repos /\ repos' = repos \cup {n} /\ Returns(c)
      <3>1. caller'[c].pc = "none" /\ caller[c].pc = "creating"
        BY <1>1, <2>4 DEF Returns, NoCall, MakeRepo, Is
      <3>2. Holds(c, n, Making) /\ n \in repos'
        BY <2>4, <3>1 DEF Holds, Making
      <3>3. \A d \in Callers : ~Holds(d, n, Making)' /\ ~Holds(d, n, {"removing"})'
        BY <1>3, <2>1, <2>4, <3>1, <3>2 DEF NameOK, Holds, Making
      <3> QED  BY <3>2, <3>3 DEF NameOK
    <2> QED  BY <2>2, <2>3, <2>4 DEF MakeRepo
  <1> QED  BY <1>2, <1>4 DEF RepoInv

\* A caller on a name deletes its row, if there is one, or leaves it there.
LEMMA RowGoes ==
  ASSUME LifeInv, RepoInv, NEW c \in Callers, NEW m \in Names, caller[c].name = m, repos' = repos,
         \A d \in Callers : d # c => caller'[d] = caller[d],
         crossed \subseteq crossed',
         DeleteNamed(m) \/ UNCHANGED <<apps, nameOf>>,
         \/ /\ caller[c].pc = "undoing" /\ caller'[c].pc = "none" /\ caller'[c].name = NoName
            /\ DeleteNamed(m) \/ Named(m) = {} \/ ~Clean'
         \/ /\ caller[c].pc = "retired"
            /\ \/ caller'[c].pc = "removing" /\ caller'[c].name = m /\ DeleteNamed(m)
               \/ caller'[c].pc = "none" /\ caller'[c].name = NoName
  PROVE  RepoInv'
  <1>1. NamesAreUnique' /\ \A n \in Names : n # m => Named(n)' = Named(n)
    <2>1. CASE UNCHANGED <<apps, nameOf>>
      BY <2>1 DEF RepoInv, NamesAreUnique, Named
    <2>2. CASE DeleteNamed(m)
      BY <2>2, DeleteNamedNames DEF LifeInv, RepoInv
    <2> QED  BY <2>1, <2>2
  <1>2. Clean' => Clean
    BY DEF Clean
  <1>3. ASSUME Clean', NEW n \in Names PROVE NameOK(n)'
    <2>1. NameOK(n)
      BY <1>2, <1>3 DEF RepoInv
    <2>2. CASE n # m
      BY <1>1, <2>1, <2>2, NameFrame, NamesAssumption
    <2>3. CASE n = m /\ caller[c].pc = "undoing"
      <3>1. Holds(c, n, Making)
        BY <2>3 DEF Holds, Making
      <3>2. \A d \in Callers : ~Holds(d, n, Making)'
        BY <2>1, <2>3, <3>1 DEF NameOK, Holds, Making
      <3>3. \A d \in Callers : Holds(d, n, {"removing"})' => Holds(d, n, {"removing"})
        BY <2>3 DEF Holds
      <3>4. Named(n)' = {}
        <4>1. CASE DeleteNamed(m)
          BY <2>3, <4>1, DeleteNamedNames DEF LifeInv, RepoInv
        <4>2. CASE ~DeleteNamed(m)
          BY <1>3, <2>3, <4>2 DEF Named
        <4> QED  BY <4>1, <4>2
      <3> QED  BY <2>1, <2>3, <3>2, <3>3, <3>4 DEF NameOK
    <2>4. CASE n = m /\ caller[c].pc = "retired"
      <3>1. On(n, Ending)
        BY <2>4 DEF On, Ending
      <3>2. \A d \in Callers : ~Holds(d, n, Making)
        BY <2>1, <3>1 DEF NameOK
      <3>3. ~On(n, Making)
        BY <3>2 DEF On, Holds
      <3>4. \A d \in Callers : ~Holds(d, n, Making)'
        BY <2>4, <3>2 DEF Holds, Making
      <3>5. CASE DeleteNamed(m)
        <4>0. Named(n) # {} /\ Named(n)' = {}
          BY <2>4, <3>5, DeleteNamedNames DEF LifeInv, RepoInv, DeleteNamed
        <4>1. \A d \in Callers : ~Holds(d, n, {"removing"})
          BY <2>1, <2>4, <3>3, <4>0 DEF NameOK
        <4>2. n \in repos
          BY <2>1, <2>4, <3>3, <4>0 DEF NameOK
        <4>3. \A d \in Callers : Holds(d, n, {"removing"})' => d = c
          BY <4>1 DEF Holds
        <4> QED  BY <2>4, <3>4, <4>0, <4>2, <4>3 DEF NameOK
      <3>6. CASE ~DeleteNamed(m)
        <4>1. \A d \in Callers : Holds(d, n, {"removing"})' => Holds(d, n, {"removing"})
          BY <2>4, <3>6 DEF Holds
        <4>2. Named(n)' = Named(n)
          BY <3>6 DEF Named
        <4>3. Named(n) # {} => n \in repos
          BY <2>1, <3>3 DEF NameOK
        <4>4. \A d \in Callers : Holds(d, n, {"removing"}) => Named(n) = {}
          BY <2>1, <3>3 DEF NameOK
        <4> QED  BY <2>1, <2>4, <3>4, <4>1, <4>2, <4>3, <4>4 DEF NameOK
      <3> QED  BY <3>5, <3>6
    <2> QED  BY <2>2, <2>3, <2>4
  <1> QED  BY <1>1, <1>3 DEF RepoInv

LEMMA UndoCreateRepo == ASSUME LifeInv, RepoInv, NEW c \in Callers, UndoCreate(c) PROVE RepoInv'
  <1>1. caller[c].name \in Names /\ caller \in [Callers -> Call] /\ caller[c].pc = "undoing"
    BY CallIsFor DEF UndoCreate, Is, LifeInv, CallsKnown
  <1>2. /\ caller'[c].pc = "none" /\ caller'[c].name = NoName /\ repos' = repos
        /\ \A d \in Callers : d # c => caller'[d] = caller[d]
    BY <1>1 DEF UndoCreate, Returns, NoCall
  <1>3. crossed \subseteq crossed'
    BY DEF UndoCreate, Crosses
  <1>4. \/ DeleteNamed(caller[c].name)
        \/ UNCHANGED <<apps, nameOf>> /\ (Named(caller[c].name) = {} \/ ~Clean')
    BY DEF UndoCreate, Crosses, storeVars, rowVars, Clean
  <1> QED  BY <1>1, <1>2, <1>3, <1>4, RowGoes

LEMMA DeleteRowsRepo == ASSUME LifeInv, RepoInv, NEW c \in Callers, DeleteRows(c) PROVE RepoInv'
  <1>1. /\ caller[c].name \in Names /\ caller \in [Callers -> Call] /\ caller[c].pc = "retired"
        /\ repos' = repos /\ crossed \subseteq crossed'
    BY CallIsFor DEF DeleteRows, Is, LifeInv, CallsKnown, Crosses
  <1>2. CASE Returns(c) /\ UNCHANGED <<apps, nameOf>>
    <2>1. /\ caller'[c].pc = "none" /\ caller'[c].name = NoName
          /\ \A d \in Callers : d # c => caller'[d] = caller[d]
      BY <1>1, <1>2 DEF Returns, NoCall
    <2> QED  BY <1>1, <1>2, <2>1, RowGoes
  <1>3. CASE Goes(c, "removing") /\ DeleteNamed(caller[c].name)
    <2>1. /\ caller'[c].pc = "removing" /\ caller'[c].name = caller[c].name
          /\ \A d \in Callers : d # c => caller'[d] = caller[d]
      BY <1>1, <1>3 DEF Goes, Call
    <2> QED  BY <1>1, <1>3, <2>1, RowGoes
  <1> QED  BY <1>2, <1>3 DEF DeleteRows, storeVars, rowVars

LEMMA RetireRepo == ASSUME LifeInv, RepoInv, NEW c \in Callers, Retire(c) PROVE RepoInv'
  <1>1. /\ caller[c].pc = "destroying" /\ caller \in [Callers -> Call]
        /\ UNCHANGED <<apps, nameOf, repos, crossed>>
    BY DEF Retire, Is, LifeInv, CallsKnown, storeVars, rowVars
  <1>2. \A d \in Callers : caller'[d] # caller[d] =>
          /\ caller[d].pc = "destroying"
          /\ \/ caller'[d].pc = "none"
             \/ caller'[d].pc = "retired" /\ caller'[d].name = caller[d].name
    <2>1. CASE Returns(c)
      BY <1>1, <2>1 DEF Returns, NoCall
    <2>2. CASE Retired(caller[c].name, c)
      <3>1. PICK S \in SUBSET {d \in Callers \ {c} : Is(d, "destroying")} :
              caller' = [d \in Callers |-> IF d \in S \cup {c} THEN [caller[d] EXCEPT !.pc = "retired"] ELSE caller[d]]
        BY <2>2 DEF Retired
      <3>2. \A d \in Callers : [caller[d] EXCEPT !.pc = "retired"].pc = "retired"
                            /\ [caller[d] EXCEPT !.pc = "retired"].name = caller[d].name
        BY <1>1 DEF Call
      <3> QED  BY <1>1, <3>1, <3>2 DEF Is
    <2> QED  BY <2>1, <2>2 DEF Retire
  <1>3. NamesAreUnique' /\ \A n \in Names : Named(n)' = Named(n)
    BY <1>1 DEF RepoInv, NamesAreUnique, Named
  <1>4. ASSUME Clean', NEW n \in Names PROVE NameOK(n)'
    <2>1. NameOK(n)
      BY <1>1, <1>4 DEF RepoInv, Clean
    <2>2. \A d \in Callers : /\ Holds(d, n, Making)' <=> Holds(d, n, Making)
                             /\ Holds(d, n, Ending)' => Holds(d, n, Ending)
                             /\ Holds(d, n, {"removing"})' <=> Holds(d, n, {"removing"})
      BY <1>2 DEF Holds, Making, Ending
    <2>3. (On(n, Making)' <=> On(n, Making)) /\ (On(n, Ending)' => On(n, Ending))
      BY <2>2 DEF On, Holds
    <2> QED  BY <1>1, <1>3, <2>1, <2>2, <2>3 DEF NameOK
  <1> QED  BY <1>3, <1>4 DEF RepoInv

LEMMA RemoveRepoRepo == ASSUME LifeInv, RepoInv, NEW c \in Callers, RemoveRepo(c) PROVE RepoInv'
  <1> DEFINE m == caller[c].name
  <1>1. caller[c].pc = "removing" /\ m \in Names /\ caller \in [Callers -> Call]
    BY CallIsFor DEF RemoveRepo, Is, LifeInv, CallsKnown
  <1>2. /\ caller'[c].pc = "none" /\ caller'[c].name = NoName
        /\ \A d \in Callers : d # c => caller'[d] = caller[d]
    BY <1>1 DEF RemoveRepo, Returns, NoCall
  <1>3. NamesAreUnique' /\ crossed' = crossed /\ \A n \in Names : Named(n)' = Named(n)
    BY DEF RemoveRepo, RepoInv, NamesAreUnique, Named, rowVars, storeVars
  <1>4. ASSUME Clean', NEW n \in Names PROVE NameOK(n)'
    <2>1. NameOK(n)
      BY <1>3, <1>4 DEF RepoInv, Clean
    <2>2. CASE n # m
      BY <1>1, <1>2, <1>3, <2>1, <2>2, NameFrame, NamesAssumption DEF RemoveRepo
    <2>3. CASE n = m
      <3>1. Holds(c, n, {"removing"})
        BY <1>1, <2>3 DEF Holds
      <3>2. \A d \in Callers : ~Holds(d, n, {"removing"})'
        BY <1>1, <1>2, <2>1, <3>1 DEF NameOK, Holds
      <3>3. \A d \in Callers : /\ Holds(d, n, Making)' <=> Holds(d, n, Making)
                               /\ Holds(d, n, Ending)' <=> Holds(d, n, Ending)
        BY <1>1, <1>2 DEF Holds, Making, Ending
      <3>4. (On(n, Making)' <=> On(n, Making)) /\ (On(n, Ending)' <=> On(n, Ending))
        BY <3>3 DEF On, Holds
      <3>5. Named(n) # {} => On(n, Making)
        BY <2>1, <3>1 DEF NameOK
      <3> QED  BY <1>3, <2>1, <3>2, <3>3, <3>4, <3>5 DEF NameOK
    <2> QED  BY <2>2, <2>3
  <1> QED  BY <1>3, <1>4 DEF RepoInv

LEMMA CallCreateRepo ==
  ASSUME LifeInv, RepoInv, NEW c \in Callers, NEW m \in Names, NEW a \in Apps, CallCreate(c, m, a)
  PROVE  RepoInv'
  <1>1. /\ caller[c].pc = "none" /\ caller'[c].pc = "creating" /\ caller'[c].name = m
        /\ \A d \in Callers : d # c => caller'[d] = caller[d]
    BY DEF CallCreate, Calls, Is, LifeInv, CallsKnown
  <1>2. /\ Named(m) = {} /\ a \notin apps /\ apps' = apps \cup {a} /\ repos' = repos /\ apps \subseteq Apps
        /\ nameOf'[a] = m /\ \A b \in apps : b # a => nameOf'[b] = nameOf[b]
    BY DEF CallCreate, InsertApp, CreateApp, LifeInv, RowsTyped, TypeOK
  <1>3. NamesAreUnique'
    BY <1>2 DEF RepoInv, NamesAreUnique, Named
  <1>4. Named(m)' = {a} /\ \A n \in Names : n # m => Named(n)' = Named(n)
    BY <1>2 DEF Named
  <1>5. ASSUME Clean', NEW n \in Names PROVE NameOK(n)'
    <2>1. NameOK(n) /\ Clean /\ ~On(m, Ending)
      BY <1>5 DEF CallCreate, Crosses, RepoInv, Ending, Clean
    <2>2. CASE n # m
      <3>1. caller[c].name # n \/ caller[c].pc \notin Busy
        BY <1>1 DEF Busy, Making, Ending
      <3>2. \A d \in Callers : /\ Holds(d, n, Making)' <=> Holds(d, n, Making)
                               /\ Holds(d, n, Ending)' <=> Holds(d, n, Ending)
                               /\ Holds(d, n, {"removing"})' <=> Holds(d, n, {"removing"})
        BY <1>1, <2>2 DEF Holds, Making, Ending
      <3>3. (On(n, Making)' <=> On(n, Making)) /\ (On(n, Ending)' <=> On(n, Ending))
        BY <3>2 DEF On, Holds
      <3> QED  BY <1>2, <1>4, <2>1, <2>2, <3>2, <3>3 DEF NameOK
    <2>3. CASE n = m
      <3>1. \A d \in Callers : ~Holds(d, n, Making)
        BY <1>2, <2>1, <2>3 DEF NameOK
      <3>2. \A d \in Callers : Holds(d, n, Making)' <=> d = c
        BY <1>1, <2>3, <3>1 DEF Holds, Making
      <3>3. On(n, Making)' /\ ~On(n, Ending)'
        BY <1>1, <2>1, <2>3 DEF On, Making, Ending
      <3>4. \A d \in Callers : Holds(d, n, {"removing"})' => Holds(d, n, {"removing"})
        BY <1>1 DEF Holds
      <3> QED  BY <1>2, <1>4, <2>1, <2>3, <3>2, <3>3, <3>4 DEF NameOK
    <2> QED  BY <2>2, <2>3
  <1> QED  BY <1>3, <1>5 DEF RepoInv

LEMMA CallDestroyRepo ==
  ASSUME LifeInv, RepoInv, NEW c \in Callers, NEW m \in Names, NEW a \in Apps, CallDestroy(c, m, a)
  PROVE  RepoInv'
  <1>1. /\ caller[c].pc = "none" /\ caller'[c].pc = "destroying" /\ caller'[c].name = m
        /\ \A d \in Callers : d # c => caller'[d] = caller[d]
    BY DEF CallDestroy, Calls, Is, LifeInv, CallsKnown
  <1>2. NamesAreUnique' /\ repos' = repos /\ \A n \in Names : Named(n)' = Named(n)
    BY DEF CallDestroy, RepoInv, NamesAreUnique, Named, rowVars, storeVars
  <1>3. ASSUME Clean', NEW n \in Names PROVE NameOK(n)'
    <2>1. NameOK(n) /\ ~On(m, Making)
      BY <1>3 DEF CallDestroy, Crosses, RepoInv, Making, Clean
    <2>2. \A d \in Callers : /\ Holds(d, n, Making)' <=> Holds(d, n, Making)
                             /\ Holds(d, n, Ending)' => Holds(d, n, Ending) \/ n = m
                             /\ Holds(d, n, {"removing"})' <=> Holds(d, n, {"removing"})
      BY <1>1 DEF Holds, Making, Ending
    <2>3. (On(n, Making)' <=> On(n, Making)) /\ (On(n, Ending)' => On(n, Ending) \/ n = m)
      BY <2>2 DEF On, Holds
    <2>4. \A d \in Callers : Holds(d, n, Making) => n # m
      BY <2>1 DEF Holds, On
    <2> QED  BY <1>2, <2>1, <2>2, <2>3, <2>4 DEF NameOK
  <1> QED  BY <1>2, <1>3 DEF RepoInv

\* A deploy that ends does nothing to a caller that creates or destroys.
LEMMA EndsFrame ==
  ASSUME CallsKnown, NEW n \in Names, NEW ok \in BOOLEAN, Ends(n, ok)
  PROVE  \A c \in Callers : caller[c].pc \in Busy \/ caller'[c].pc \in Busy => caller'[c] = caller[c]
  BY DEF Ends, Is, NoCall, Busy, Making, Ending, CallsKnown

LEMMA SaveConfigRepo == ASSUME LifeInv, RepoInv, NEW c \in Callers, SaveConfig(c) PROVE RepoInv'
  <1>1. apps' = apps /\ nameOf' = nameOf /\ repos' = repos /\ crossed \subseteq crossed'
    BY DEF SaveConfig, storeVars, rowVars
  <1>2. \A d \in Callers : caller[d].pc \in Busy \/ caller'[d].pc \in Busy => caller'[d] = caller[d]
    BY DEF SaveConfig, Goes, Returns, NoCall, Is, CallsKnown, LifeInv, Call, Busy, Making, Ending
  <1> QED  BY <1>1, <1>2, RepoFrame

LEMMA LookLiveRepo == ASSUME LifeInv, RepoInv, NEW c \in Callers, LookLive(c) PROVE RepoInv'
  <1>1. apps' = apps /\ nameOf' = nameOf /\ repos' = repos /\ crossed \subseteq crossed'
    BY DEF LookLive, storeVars, rowVars
  <1>2. \A d \in Callers : caller[d].pc \in Busy \/ caller'[d].pc \in Busy => caller'[d] = caller[d]
    BY DEF LookLive, Goes, Returns, NoCall, Is, CallsKnown, LifeInv, Call, Busy, Making, Ending
  <1> QED  BY <1>1, <1>2, RepoFrame

LEMMA RefuseRedeployRepo == ASSUME LifeInv, RepoInv, NEW c \in Callers, RefuseRedeploy(c) PROVE RepoInv'
  <1>1. apps' = apps /\ nameOf' = nameOf /\ repos' = repos /\ crossed \subseteq crossed'
    BY DEF RefuseRedeploy, storeVars, rowVars
  <1>2. \A d \in Callers : caller[d].pc \in Busy \/ caller'[d].pc \in Busy => caller'[d] = caller[d]
    BY DEF RefuseRedeploy, Returns, NoCall, Is, CallsKnown, LifeInv, Call, Busy, Making, Ending
  <1> QED  BY <1>1, <1>2, RepoFrame

LEMMA CallConfigRepo == ASSUME LifeInv, RepoInv, NEW c \in Callers, NEW n \in Names, NEW a \in Apps, CallConfig(c, n, a) PROVE RepoInv'
  <1>1. apps' = apps /\ nameOf' = nameOf /\ repos' = repos /\ crossed \subseteq crossed'
    BY DEF CallConfig, Calls, storeVars, rowVars
  <1>2. \A d \in Callers : caller[d].pc \in Busy \/ caller'[d].pc \in Busy => caller'[d] = caller[d]
    BY DEF CallConfig, Calls, Is, CallsKnown, LifeInv, Call, Busy, Making, Ending
  <1> QED  BY <1>1, <1>2, RepoFrame

LEMMA TakeRedeployRepo == ASSUME LifeInv, RepoInv, NEW n \in Names, NEW a \in Apps, TakeRedeploy(n, a) PROVE RepoInv'
  <1>1. apps' = apps /\ nameOf' = nameOf /\ repos' = repos /\ crossed \subseteq crossed'
    BY DEF TakeRedeploy, Take, Crosses, storeVars, rowVars
  <1>2. \A d \in Callers : caller[d].pc \in Busy \/ caller'[d].pc \in Busy => caller'[d] = caller[d]
    BY DEF TakeRedeploy, Goes, Is, CallsKnown, LifeInv, Call, Busy, Making, Ending
  <1> QED  BY <1>1, <1>2, RepoFrame

LEMMA TakeCallRepo == ASSUME LifeInv, RepoInv, NEW n \in Names, NEW kind \in {"push", "rollback", "restart"}, NEW a \in Apps, TakeCall(n, kind, a) PROVE RepoInv'
  <1>1. apps' = apps /\ nameOf' = nameOf /\ repos' = repos /\ crossed \subseteq crossed'
    BY DEF TakeCall, Take, Crosses, storeVars, rowVars
  <1>2. \A d \in Callers : caller[d].pc \in Busy \/ caller'[d].pc \in Busy => caller'[d] = caller[d]
    BY DEF TakeCall
  <1> QED  BY <1>1, <1>2, RepoFrame

LEMMA SourceRepo == ASSUME LifeInv, RepoInv, NEW n \in Names, Source(n) PROVE RepoInv'
  <1>1. apps' = apps /\ nameOf' = nameOf /\ repos' = repos /\ crossed \subseteq crossed'
    BY DEF Source, storeVars, rowVars
  <1>2. \A d \in Callers : caller[d].pc \in Busy \/ caller'[d].pc \in Busy => caller'[d] = caller[d]
    BY EndsFrame DEF Source, LifeInv
  <1> QED  BY <1>1, <1>2, RepoFrame

LEMMA SnapshotRepo == ASSUME LifeInv, RepoInv, NEW n \in Names, Snapshot(n) PROVE RepoInv'
  <1>1. apps' = apps /\ nameOf' = nameOf /\ repos' = repos /\ crossed \subseteq crossed'
    BY DEF Snapshot, storeVars, rowVars
  <1>2. \A d \in Callers : caller[d].pc \in Busy \/ caller'[d].pc \in Busy => caller'[d] = caller[d]
    BY DEF Snapshot
  <1> QED  BY <1>1, <1>2, RepoFrame

LEMMA RecordRepo == ASSUME LifeInv, RepoInv, NEW n \in Names, Record(n) PROVE RepoInv'
  <1>1. apps' = apps /\ nameOf' = nameOf /\ repos' = repos /\ crossed \subseteq crossed'
    BY DEF Record, CreateRelease, storeVars, rowVars
  <1>2. \A d \in Callers : caller[d].pc \in Busy \/ caller'[d].pc \in Busy => caller'[d] = caller[d]
    BY EndsFrame DEF Record, LifeInv
  <1> QED  BY <1>1, <1>2, RepoFrame

LEMMA AcquireSlotRepo == ASSUME LifeInv, RepoInv, NEW n \in Names, AcquireSlot(n) PROVE RepoInv'
  <1>1. apps' = apps /\ nameOf' = nameOf /\ repos' = repos /\ crossed \subseteq crossed'
    BY DEF AcquireSlot, storeVars, rowVars
  <1>2. \A d \in Callers : caller[d].pc \in Busy \/ caller'[d].pc \in Busy => caller'[d] = caller[d]
    BY DEF AcquireSlot
  <1> QED  BY <1>1, <1>2, RepoFrame

LEMMA LeaveQueueRepo == ASSUME LifeInv, RepoInv, NEW n \in Names, LeaveQueue(n) PROVE RepoInv'
  <1>1. apps' = apps /\ nameOf' = nameOf /\ repos' = repos /\ crossed \subseteq crossed'
    BY DEF LeaveQueue, storeVars, rowVars
  <1>2. \A d \in Callers : caller[d].pc \in Busy \/ caller'[d].pc \in Busy => caller'[d] = caller[d]
    BY DEF LeaveQueue
  <1> QED  BY <1>1, <1>2, RepoFrame

LEMMA BuildEndsRepo == ASSUME LifeInv, RepoInv, NEW n \in Names, BuildEnds(n) PROVE RepoInv'
  <1>1. apps' = apps /\ nameOf' = nameOf /\ repos' = repos /\ crossed \subseteq crossed'
    BY DEF BuildEnds, storeVars, rowVars
  <1>2. \A d \in Callers : caller[d].pc \in Busy \/ caller'[d].pc \in Busy => caller'[d] = caller[d]
    BY DEF BuildEnds
  <1> QED  BY <1>1, <1>2, RepoFrame

LEMMA BuildPanicsRepo == ASSUME LifeInv, RepoInv, NEW n \in Names, BuildPanics(n) PROVE RepoInv'
  <1>1. apps' = apps /\ nameOf' = nameOf /\ repos' = repos /\ crossed \subseteq crossed'
    BY DEF BuildPanics, storeVars, rowVars
  <1>2. \A d \in Callers : caller[d].pc \in Busy \/ caller'[d].pc \in Busy => caller'[d] = caller[d]
    BY EndsFrame DEF BuildPanics, LifeInv
  <1> QED  BY <1>1, <1>2, RepoFrame

LEMMA RecordImageRepo == ASSUME LifeInv, RepoInv, NEW n \in Names, RecordImage(n) PROVE RepoInv'
  <1>1. apps' = apps /\ nameOf' = nameOf /\ repos' = repos /\ crossed \subseteq crossed'
    BY DEF RecordImage, MarkBuilt, storeVars, rowVars
  <1>2. \A d \in Callers : caller[d].pc \in Busy \/ caller'[d].pc \in Busy => caller'[d] = caller[d]
    BY DEF RecordImage
  <1> QED  BY <1>1, <1>2, RepoFrame

LEMMA LaunchFailsRepo == ASSUME LifeInv, RepoInv, NEW n \in Names, LaunchFails(n) PROVE RepoInv'
  <1>1. apps' = apps /\ nameOf' = nameOf /\ repos' = repos /\ crossed \subseteq crossed'
    BY DEF LaunchFails, storeVars, rowVars
  <1>2. \A d \in Callers : caller[d].pc \in Busy \/ caller'[d].pc \in Busy => caller'[d] = caller[d]
    BY DEF LaunchFails
  <1> QED  BY <1>1, <1>2, RepoFrame

LEMMA SwapRepo == ASSUME LifeInv, RepoInv, NEW n \in Names, Swap(n) PROVE RepoInv'
  <1>1. apps' = apps /\ nameOf' = nameOf /\ repos' = repos /\ crossed \subseteq crossed'
    BY DEF Swap, storeVars, rowVars
  <1>2. \A d \in Callers : caller[d].pc \in Busy \/ caller'[d].pc \in Busy => caller'[d] = caller[d]
    BY DEF Swap
  <1> QED  BY <1>1, <1>2, RepoFrame

LEMMA CommitRepo == ASSUME LifeInv, RepoInv, NEW n \in Names, Commit(n) PROVE RepoInv'
  <1>1. apps' = apps /\ nameOf' = nameOf /\ repos' = repos /\ crossed \subseteq crossed'
    BY DEF Commit, SetLive, storeVars, rowVars
  <1>2. \A d \in Callers : caller[d].pc \in Busy \/ caller'[d].pc \in Busy => caller'[d] = caller[d]
    BY EndsFrame DEF Commit, LifeInv
  <1> QED  BY <1>1, <1>2, RepoFrame

LEMMA FailRepo == ASSUME LifeInv, RepoInv, NEW n \in Names, Fail(n) PROVE RepoInv'
  <1>1. apps' = apps /\ nameOf' = nameOf /\ repos' = repos /\ crossed \subseteq crossed'
    BY DEF Fail, MarkFailed, storeVars, rowVars
  <1>2. \A d \in Callers : caller[d].pc \in Busy \/ caller'[d].pc \in Busy => caller'[d] = caller[d]
    BY EndsFrame DEF Fail, LifeInv
  <1> QED  BY <1>1, <1>2, RepoFrame

LEMMA RepoStep == LifeInv /\ RepoInv /\ [LifeNext]_vars => RepoInv'
  <1> SUFFICES ASSUME LifeInv, RepoInv, [LifeNext]_vars PROVE RepoInv'
    OBVIOUS
  <1>1. ASSUME NEW c \in Callers, CallerStep(c) PROVE RepoInv'
    BY <1>1, MakeRepoRepo, UndoCreateRepo, RetireRepo, DeleteRowsRepo, RemoveRepoRepo, SaveConfigRepo,
       LookLiveRepo, RefuseRedeployRepo DEF CallerStep
  <1>2. ASSUME NEW c \in Callers, NEW n \in Names, NEW a \in Apps,
               CallCreate(c, n, a) \/ CallDestroy(c, n, a) \/ CallConfig(c, n, a)
        PROVE  RepoInv'
    BY <1>2, CallCreateRepo, CallDestroyRepo, CallConfigRepo
  <1>3. ASSUME NEW n \in Names, NEW a \in Apps,
               TakeRedeploy(n, a) \/ \E kind \in {"push", "rollback", "restart"} : TakeCall(n, kind, a)
        PROVE  RepoInv'
    BY <1>3, TakeRedeployRepo, TakeCallRepo
  <1>4. ASSUME NEW n \in Names, DeployStep(n) PROVE RepoInv'
    BY <1>4, SourceRepo, SnapshotRepo, RecordRepo, AcquireSlotRepo, LeaveQueueRepo, BuildEndsRepo,
       BuildPanicsRepo, RecordImageRepo, LaunchFailsRepo, SwapRepo, CommitRepo, FailRepo DEF DeployStep
  <1>5. CASE UNCHANGED vars
    BY <1>5, RepoFrame DEF vars, rowVars, lifeVars, storeVars
  <1> QED  BY <1>1, <1>2, <1>3, <1>4, <1>5 DEF LifeNext

LEMMA RepoInitInv == LifeInit => RepoInv
  <1> SUFFICES ASSUME LifeInit PROVE RepoInv
    OBVIOUS
  <1>1. apps = {} /\ \A c \in Callers : caller[c].pc = "none"
    BY DEF LifeInit, Init, NoCall
  <1> QED  BY <1>1 DEF RepoInv, NamesAreUnique, NameOK, Named, Holds, Making

\* Rows and repositories agree, as long as no create meets a destroy of the same
\* name half-way and none has to be undone for a caller who left (apps.go:84-104, 106-128).
THEOREM ReposAreKept == LifeSpec => []AppHasRepo
  <1>1. RepoInv => AppHasRepo
    <2> SUFFICES ASSUME RepoInv, NEW a \in apps, Clean,
                        ~On(nameOf[a], {"creating", "undoing", "retired", "removing"})
                 PROVE  nameOf[a] \in repos
      BY DEF AppHasRepo, RowTakesRepo, Clean
    <2>1. nameOf[a] \in Names /\ a \in Named(nameOf[a]) /\ NameOK(nameOf[a])
      BY DEF RepoInv, NamesAreUnique, Named
    <2>2. ~On(nameOf[a], Making)
      BY DEF On, Making
    <2> QED  BY <2>1, <2>2 DEF NameOK
  <1> QED  BY <1>1, RepoInitInv, RepoStep, LifeInvariance, PTL DEF LifeSpec

-----------------------------------------------------------------------------
(* What an app's releases and instance are made of *)

\* A name whose app is about to come or to go.
Passing == {"creating", "undoing", "retired"}

\* A deploy is for the app of its actor's name, which nobody creates or deletes
\* meanwhile, and what it writes to is a release of that app.
JobOwn(n) ==
  LET j == job[n] IN
    /\ j.app \in Named(n) /\ ~On(n, Passing) /\ j.image \in {NoImage, n}
    /\ j.kind = "restart" => j.pc \in {"fetched", "starting", "swapped", "failing"}
    /\ j.kind # "restart" /\ j.pc \in Late => Exists(j.rel) /\ rows[j.rel].app = j.app

RowOwn(i) == Exists(i) => rows[i].image \in {NoImage, nameOf[rows[i].app]}
JobsOwn   == \A n \in Names : job[n].pc # "idle" => JobOwn(n)
RowsOwn   == \A i \in Ids : RowOwn(i)
ServesOwn == \A n \in Names : serving[n].image \in {NoImage, n}

OwnInv == RowsHaveApps /\ ("deploy" \notin crossed => JobsOwn /\ RowsOwn /\ ServesOwn)

\* A step that leaves the apps as they are, and the releases where they are, has
\* to answer only for the names whose deploy, callers or instance it changes.
LEMMA OwnFrame ==
  ASSUME LifeInv, OwnInv, RowsHaveApps', UNCHANGED <<apps, nameOf>>, crossed \subseteq crossed',
         \A i \in Ids : Exists(i) => Exists(i)' /\ rows'[i].app = rows[i].app,
         \A i \in Ids : "deploy" \notin crossed' => RowOwn(i)' \/ (Exists(i) /\ rows'[i].image = rows[i].image),
         \A n \in Names : "deploy" \notin crossed' /\ job'[n].pc # "idle" =>
           JobOwn(n)' \/ (job'[n] = job[n] /\ (On(n, Passing)' => On(n, Passing))),
         \A n \in Names : "deploy" \notin crossed' => serving'[n].image \in {NoImage, n, serving[n].image}
  PROVE  OwnInv'
  <1> SUFFICES ASSUME "deploy" \notin crossed' PROVE JobsOwn' /\ RowsOwn' /\ ServesOwn'
    BY DEF OwnInv
  <1>1. JobsOwn /\ RowsOwn /\ ServesOwn
    BY DEF OwnInv
  <1>2. RowsOwn'
    BY <1>1 DEF RowsOwn, RowOwn
  <1>3. ServesOwn'
    BY <1>1 DEF ServesOwn
  <1>4. ASSUME NEW n \in Names, job'[n].pc # "idle" PROVE JobOwn(n)'
    <2>1. CASE JobOwn(n)'
      BY <2>1
    <2>2. CASE job'[n] = job[n] /\ (On(n, Passing)' => On(n, Passing))
      <3>1. JobOwn(n) /\ Named(n)' = Named(n) /\ (job[n].pc \in Late => job[n].rel \in Ids)
        BY <1>1, <1>4, <2>2 DEF JobsOwn, Named, LifeInv, JobsKnown, JobKnown
      <3> QED  BY <2>2, <3>1 DEF JobOwn
    <2> QED  BY <1>4, <2>1, <2>2
  <1> QED  BY <1>2, <1>3, <1>4 DEF JobsOwn

\* A name is passing only if it was, unless one of its callers has moved on.
LEMMA PassingFrame ==
  ASSUME NEW n \in Names,
         \A c \in Callers : \/ caller'[c] = caller[c] \/ caller'[c].pc \notin Passing
                            \/ caller[c].pc \in Passing /\ caller'[c].name = caller[c].name
                            \/ caller'[c].name # n
  PROVE  On(n, Passing)' => On(n, Passing)
  BY DEF On

\* A step of the callers alone.
LEMMA OwnOfCallers ==
  ASSUME LifeInv, OwnInv, UNCHANGED <<storeVars, nameOf, job>>, crossed \subseteq crossed',
         \A c \in Callers : \/ caller'[c] = caller[c] \/ caller'[c].pc \notin Passing
                            \/ caller[c].pc \in Passing /\ caller'[c].name = caller[c].name
                            \/ caller'[c].name \in Names => job[caller'[c].name].pc = "idle",
         \A n \in Names : serving'[n] \in {serving[n], Nothing}
  PROVE  OwnInv'
  <1>1. RowsHaveApps'
    BY DEF OwnInv, RowsHaveApps, Exists, storeVars
  <1>2. ASSUME NEW n \in Names, job'[n].pc # "idle" PROVE On(n, Passing)' => On(n, Passing)
    BY <1>2, PassingFrame
  <1>3. ASSUME NEW n \in Names PROVE serving'[n].image \in {NoImage, n, serving[n].image}
    BY DEF Nothing
  <1>4. \A i \in Ids : Exists(i) => Exists(i)' /\ rows'[i].app = rows[i].app /\ rows'[i].image = rows[i].image
    BY DEF storeVars, Exists
  <1>5. \A i \in Ids : RowOwn(i)' \/ (Exists(i) /\ rows'[i].image = rows[i].image)
    BY <1>4 DEF RowOwn, storeVars, Exists
  <1> QED  BY <1>1, <1>2, <1>3, <1>4, <1>5, OwnFrame DEF storeVars

LEMMA MakeRepoOwn == ASSUME LifeInv, OwnInv, NEW c \in Callers, MakeRepo(c) PROVE OwnInv'
  BY OwnOfCallers DEF MakeRepo, Goes, Returns, NoCall, Is, Passing, LifeInv, CallsKnown, Call, rowVars

LEMMA RemoveRepoOwn == ASSUME LifeInv, OwnInv, NEW c \in Callers, RemoveRepo(c) PROVE OwnInv'
  BY OwnOfCallers DEF RemoveRepo, Returns, NoCall, Passing, LifeInv, CallsKnown, rowVars

LEMMA SaveConfigOwn == ASSUME LifeInv, OwnInv, NEW c \in Callers, SaveConfig(c) PROVE OwnInv'
  BY OwnOfCallers DEF SaveConfig, Goes, Returns, NoCall, Passing, LifeInv, CallsKnown, Call

LEMMA LookLiveOwn == ASSUME LifeInv, OwnInv, NEW c \in Callers, LookLive(c) PROVE OwnInv'
  BY OwnOfCallers DEF LookLive, Goes, Returns, NoCall, Passing, LifeInv, CallsKnown, Call, rowVars

LEMMA RefuseRedeployOwn == ASSUME LifeInv, OwnInv, NEW c \in Callers, RefuseRedeploy(c) PROVE OwnInv'
  BY OwnOfCallers DEF RefuseRedeploy, Returns, NoCall, Passing, LifeInv, CallsKnown, rowVars

LEMMA CallDestroyOwn ==
  ASSUME LifeInv, OwnInv, NEW c \in Callers, NEW n \in Names, NEW a \in Apps, CallDestroy(c, n, a)
  PROVE  OwnInv'
  BY OwnOfCallers DEF CallDestroy, Calls, Crosses, Passing, LifeInv, CallsKnown, rowVars

LEMMA CallConfigOwn ==
  ASSUME LifeInv, OwnInv, NEW c \in Callers, NEW n \in Names, NEW a \in Apps, CallConfig(c, n, a)
  PROVE  OwnInv'
  BY OwnOfCallers DEF CallConfig, Calls, Passing, LifeInv, CallsKnown, rowVars

LEMMA RetireOwn == ASSUME LifeInv, OwnInv, NEW c \in Callers, Retire(c) PROVE OwnInv'
  <1> DEFINE m == caller[c].name
  <1>1. m \in Names /\ caller \in [Callers -> Call] /\ serving \in [Names -> [image: Images \cup {NoImage}, config: 0 .. MaxConfig]]
    BY CallIsFor DEF Retire, Is, LifeInv, CallsKnown, RowsTyped
  <1>2. CASE Returns(c) /\ UNCHANGED serving
    BY <1>1, <1>2, OwnOfCallers DEF Retire, Returns, NoCall, Passing, rowVars
  <1>3. CASE job[m].pc = "idle" /\ Retired(m, c)
    <2>1. \A n \in Names : serving'[n] \in {serving[n], Nothing}
      BY <1>1, <1>3 DEF Retired
    <2>2. \A d \in Callers : caller'[d] = caller[d] \/ caller'[d].name = m
      BY <1>1, <1>3 DEF Retired, Call
    <2> QED  BY <1>1, <1>3, <2>1, <2>2, OwnOfCallers DEF Retire, rowVars
  <1> QED  BY <1>2, <1>3 DEF Retire

\* The rows of a name's app go, and nothing else of a deploy's or a release's.
LEMMA OwnOfDelete ==
  ASSUME LifeInv, RepoInv, OwnInv, NEW c \in Callers, NEW m \in Names, caller[c].name = m, caller[c].pc \in Passing,
         DeleteNamed(m), UNCHANGED <<job, serving>>, crossed \subseteq crossed', RowsHaveApps',
         \A d \in Callers : caller'[d] = caller[d] \/ caller'[d].pc \notin Passing
  PROVE  OwnInv'
  <1> SUFFICES ASSUME "deploy" \notin crossed' PROVE JobsOwn' /\ RowsOwn' /\ ServesOwn'
    BY DEF OwnInv
  <1>0. JobsOwn /\ RowsOwn /\ ServesOwn /\ TypeOK
    BY DEF OwnInv, LifeInv
  <1>1. PICK a \in Named(m) : DeleteApp(a) /\ nameOf' = [nameOf EXCEPT ![a] = NoName]
    BY DEF DeleteNamed
  <1>2. a \in Apps /\ nameOf \in [Apps -> Names \cup {NoName}]
    BY <1>0 DEF Named, TypeOK, LifeInv, RowsTyped
  <1>3. \A j \in Ids : /\ Exists(j)' <=> Exists(j) /\ rows[j].app # a
                       /\ Exists(j)' => rows'[j] = rows[j] /\ rows[j].app \in Apps
    BY <1>0, <1>1, <1>2, DeleteAppRows, RowAt
  <1>4. RowsOwn'
    BY <1>0, <1>1, <1>2, <1>3 DEF RowsOwn, RowOwn
  <1>5. ASSUME NEW n \in Names, job'[n].pc # "idle" PROVE JobOwn(n)'
    <2>1. JobOwn(n) /\ n # m /\ (job[n].pc \in Late => job[n].rel \in Ids)
      BY <1>0, <1>5 DEF JobsOwn, JobOwn, On, LifeInv, JobsKnown, JobKnown
    <2>2. job[n].app # a /\ Named(n)' = Named(n)
      BY <2>1, DeleteNamedNames DEF JobOwn, Named, LifeInv, RepoInv
    <2>3. On(n, Passing)' => On(n, Passing)
      BY PassingFrame
    <2> QED  BY <1>3, <2>1, <2>2, <2>3 DEF JobOwn
  <1> QED  BY <1>0, <1>4, <1>5 DEF JobsOwn, ServesOwn

LEMMA UndoCreateOwn ==
  ASSUME LifeInv, RepoInv, OwnInv, RowsHaveApps', NEW c \in Callers, UndoCreate(c)
  PROVE  OwnInv'
  <1> DEFINE m == caller[c].name
  <1>1. m \in Names /\ caller \in [Callers -> Call] /\ caller[c].pc \in Passing
    BY CallIsFor DEF UndoCreate, Is, LifeInv, CallsKnown, Passing
  <1>2. crossed \subseteq crossed' /\ \A d \in Callers : caller'[d] = caller[d] \/ caller'[d].pc \notin Passing
    BY <1>1 DEF UndoCreate, Crosses, Returns, NoCall, Passing
  <1>3. CASE DeleteNamed(m)
    BY <1>1, <1>2, <1>3, OwnOfDelete DEF UndoCreate
  <1>4. CASE UNCHANGED <<storeVars, rowVars, unapplied>>
    BY <1>2, <1>4, OwnOfCallers DEF UndoCreate, rowVars
  <1> QED  BY <1>3, <1>4 DEF UndoCreate

LEMMA DeleteRowsOwn ==
  ASSUME LifeInv, RepoInv, OwnInv, RowsHaveApps', NEW c \in Callers, DeleteRows(c)
  PROVE  OwnInv'
  <1> DEFINE m == caller[c].name
  <1>1. m \in Names /\ caller \in [Callers -> Call] /\ caller[c].pc \in Passing
    BY CallIsFor DEF DeleteRows, Is, LifeInv, CallsKnown, Passing
  <1>2. crossed \subseteq crossed' /\ \A d \in Callers : caller'[d] = caller[d] \/ caller'[d].pc \notin Passing
    BY <1>1 DEF DeleteRows, Crosses, Returns, Goes, Call, NoCall, Passing
  <1>3. CASE DeleteNamed(m)
    BY <1>1, <1>2, <1>3, OwnOfDelete DEF DeleteRows
  <1>4. CASE UNCHANGED <<storeVars, rowVars, unapplied, crossed>>
    BY <1>2, <1>4, OwnOfCallers DEF DeleteRows, rowVars
  <1> QED  BY <1>3, <1>4 DEF DeleteRows

LEMMA CallCreateOwn ==
  ASSUME LifeInv, OwnInv, RowsHaveApps', NEW c \in Callers, NEW m \in Names, NEW a \in Apps, CallCreate(c, m, a)
  PROVE  OwnInv'
  <1> SUFFICES ASSUME "deploy" \notin crossed' PROVE JobsOwn' /\ RowsOwn' /\ ServesOwn'
    BY DEF OwnInv
  <1>0. JobsOwn /\ RowsOwn /\ ServesOwn /\ RowsHaveApps
    BY DEF OwnInv, CallCreate, Crosses
  <1>1. /\ Named(m) = {} /\ a \notin apps /\ apps' = apps \cup {a} /\ rows' = rows /\ job' = job /\ serving' = serving
        /\ nameOf'[a] = m /\ \A b \in Apps : b # a => nameOf'[b] = nameOf[b]
    BY DEF CallCreate, InsertApp, CreateApp, LifeInv, RowsTyped
  <1>2. \A d \in Callers : caller'[d] = caller[d] \/ caller'[d].name = m
    BY DEF CallCreate, Calls, LifeInv, CallsKnown
  <1>3. \A i \in Ids : Exists(i) => rows[i].app \in Apps /\ rows[i].app # a
    BY <1>0, <1>1, RowAt DEF RowsHaveApps, LifeInv
  <1>4. RowsOwn'
    BY <1>0, <1>1, <1>3 DEF RowsOwn, RowOwn, Exists
  <1>5. ASSUME NEW n \in Names, job'[n].pc # "idle" PROVE JobOwn(n)'
    <2>1. JobOwn(n)
      BY <1>0, <1>1, <1>5 DEF JobsOwn
    <2>2. n # m
      BY <1>1, <2>1 DEF JobOwn
    <2>3. job[n].app \in Named(n)'
      BY <1>1, <2>1 DEF JobOwn, Named, LifeInv, TypeOK
    <2>4. On(n, Passing)' => On(n, Passing)
      BY <1>2, <2>2, PassingFrame
    <2> QED  BY <1>1, <2>1, <2>3, <2>4 DEF JobOwn, Exists
  <1> QED  BY <1>0, <1>1, <1>4, <1>5 DEF JobsOwn, ServesOwn

\* What To changes of a job.
LEMMA ToMoves ==
  ASSUME JobsKnown, NEW n \in Names, NEW pc, To(n, pc)
  PROVE  /\ job'[n].pc = pc /\ job'[n].kind = job[n].kind /\ job'[n].app = job[n].app
         /\ job'[n].rel = job[n].rel /\ job'[n].image = job[n].image /\ job'[n].config = job[n].config
         /\ \A m \in Names : m # n => job'[m] = job[m]
  BY DEF To, Becomes, JobsKnown, Job

\* What Ends changes of the jobs and the callers.
LEMMA EndsMoves ==
  ASSUME JobsKnown, CallsKnown, NEW n \in Names, NEW ok \in BOOLEAN, Ends(n, ok)
  PROVE  /\ job'[n] = NoJob /\ job'[n].pc = "idle" /\ \A m \in Names : m # n => job'[m] = job[m]
         /\ \A c \in Callers : caller'[c] = caller[c] \/ (caller[c].pc = "deploying" /\ caller'[c] = NoCall)
  BY DEF Ends, Becomes, NoJob, JobsKnown, CallsKnown, Is

\* A step of one deploy that leaves the store and the callers who pass.
LEMMA OwnOfDeploy ==
  ASSUME LifeInv, OwnInv, UNCHANGED <<storeVars, nameOf>>, crossed \subseteq crossed', NEW n \in Names,
         \A m \in Names : m # n => job'[m] = job[m],
         "deploy" \notin crossed' => job'[n].pc = "idle" \/ JobOwn(n)',
         \A c \in Callers : caller'[c] = caller[c] \/ caller'[c].pc \notin Passing,
         \A m \in Names : "deploy" \notin crossed' => serving'[m].image \in {NoImage, m, serving[m].image}
  PROVE  OwnInv'
  <1>1. RowsHaveApps'
    BY DEF OwnInv, RowsHaveApps, Exists, storeVars
  <1>2. \A m \in Names : On(m, Passing)' => On(m, Passing)
    BY PassingFrame
  <1>3. \A i \in Ids : Exists(i) => Exists(i)' /\ rows'[i].app = rows[i].app /\ rows'[i].image = rows[i].image
    BY DEF storeVars, Exists
  <1>4. \A i \in Ids : RowOwn(i)' \/ (Exists(i) /\ rows'[i].image = rows[i].image)
    BY <1>3 DEF RowOwn, storeVars, Exists
  <1> QED  BY <1>1, <1>2, <1>3, <1>4, OwnFrame DEF storeVars

\* The deploy goes on with what it has.
LEMMA OwnGoesOn ==
  ASSUME LifeInv, OwnInv, NEW n \in Names, job[n].pc # "idle", NEW pc, To(n, pc), UNCHANGED <<storeVars, nameOf, crossed>>,
         \A c \in Callers : caller'[c] = caller[c],
         pc \in Late => job[n].pc \in Late,
         job[n].pc \in {"fetched", "starting", "swapped", "failing"} => pc \in {"swapped", "failing"},
         \A m \in Names : "deploy" \notin crossed /\ JobOwn(n) => serving'[m].image \in {NoImage, m, serving[m].image}
  PROVE  OwnInv'
  <1>1. "deploy" \notin crossed => JobOwn(n)
    BY DEF OwnInv, JobsOwn
  <1>2. ASSUME JobOwn(n), pc # "idle" PROVE JobOwn(n)'
    <2>1. On(n, Passing)' => On(n, Passing)
      BY PassingFrame
    <2>2. Named(n)' = Named(n)
      BY DEF Named, storeVars
    <2>3. job[n].kind = "restart" => pc \in {"swapped", "failing"}
      BY <1>2 DEF JobOwn
    <2> QED  BY <1>2, <2>1, <2>2, <2>3, ToMoves DEF JobOwn, Exists, storeVars, LifeInv
  <1>3. job'[n].pc = pc /\ \A m \in Names : m # n => job'[m] = job[m]
    BY ToMoves DEF LifeInv
  <1> QED  BY <1>1, <1>2, <1>3, OwnOfDeploy

\* The deploy ends, without a word to the store.
LEMMA OwnEnds ==
  ASSUME LifeInv, OwnInv, NEW n \in Names, Ends(n, FALSE), UNCHANGED <<storeVars, nameOf, serving, crossed>>
  PROVE  OwnInv'
  <1>1. job'[n].pc = "idle" /\ \A m \in Names : m # n => job'[m] = job[m]
    BY EndsMoves DEF LifeInv
  <1>2. \A c \in Callers : caller'[c] = caller[c] \/ caller'[c].pc \notin Passing
    <2>1. NoCall.pc \notin Passing
      BY DEF NoCall, Passing
    <2>2. \A c \in Callers : caller'[c] = caller[c] \/ (caller[c].pc = "deploying" /\ caller'[c] = NoCall)
      BY EndsMoves DEF LifeInv
    <2> QED  BY <2>1, <2>2
  <1> QED  BY <1>1, <1>2, OwnOfDeploy

LEMMA AcquireSlotOwn == ASSUME LifeInv, OwnInv, NEW n \in Names, AcquireSlot(n) PROVE OwnInv'
  BY OwnGoesOn DEF AcquireSlot, At, Late, rowVars

LEMMA LeaveQueueOwn == ASSUME LifeInv, OwnInv, NEW n \in Names, LeaveQueue(n) PROVE OwnInv'
  BY OwnGoesOn DEF LeaveQueue, At, Late, rowVars

LEMMA BuildEndsOwn == ASSUME LifeInv, OwnInv, NEW n \in Names, BuildEnds(n) PROVE OwnInv'
  BY OwnGoesOn DEF BuildEnds, At, Late, rowVars

LEMMA LaunchFailsOwn == ASSUME LifeInv, OwnInv, NEW n \in Names, LaunchFails(n) PROVE OwnInv'
  BY OwnGoesOn DEF LaunchFails, At, Late, rowVars

LEMMA SwapOwn == ASSUME LifeInv, OwnInv, NEW n \in Names, Swap(n) PROVE OwnInv'
  <1>1. \A m \in Names : JobOwn(n) => serving'[m].image \in {NoImage, m, serving[m].image}
    BY DEF Swap, JobOwn, LifeInv, RowsTyped
  <1> QED  BY <1>1, OwnGoesOn DEF Swap, At, Late, rowVars

LEMMA BuildPanicsOwn == ASSUME LifeInv, OwnInv, NEW n \in Names, BuildPanics(n) PROVE OwnInv'
  BY OwnEnds DEF BuildPanics, rowVars

\* A deploy is taken: it is the app's, and meets whoever passes.
LEMMA TakeOwn ==
  ASSUME LifeInv, OwnInv, NEW n \in Names, NEW kind \in {"push", "rollback", "redeploy", "restart"}, NEW a \in Apps,
         Take(n, kind, a), \A c \in Callers : caller'[c] = caller[c] \/ caller'[c].pc \notin Passing
  PROVE  OwnInv'
  <1> DEFINE j == [pc |-> "fetched", kind |-> kind, app |-> a, rel |-> NoRel, image |-> NoImage, config |-> 0]
  <1>1. job'[n] = j /\ \A m \in Names : m # n => job'[m] = job[m]
    BY DEF Take, Becomes, LifeInv, JobsKnown
  <1>2. On(n, Passing)' => On(n, Passing)
    BY PassingFrame
  <1>3. "deploy" \notin crossed' => JobOwn(n)'
    BY <1>1, <1>2 DEF Take, Crosses, JobOwn, Named, Passing, Late, storeVars, rowVars
  <1> QED  BY <1>1, <1>3, OwnOfDeploy DEF Take, Crosses, rowVars

LEMMA TakeCallOwn ==
  ASSUME LifeInv, OwnInv, NEW n \in Names, NEW kind \in {"push", "rollback", "restart"}, NEW a \in Apps, TakeCall(n, kind, a)
  PROVE  OwnInv'
  BY TakeOwn DEF TakeCall

LEMMA TakeRedeployOwn ==
  ASSUME LifeInv, OwnInv, NEW n \in Names, NEW a \in Apps, TakeRedeploy(n, a)
  PROVE  OwnInv'
  BY TakeOwn DEF TakeRedeploy, Goes, Passing, LifeInv, CallsKnown, Call

LEMMA SourceOwn == ASSUME LifeInv, OwnInv, NEW n \in Names, Source(n) PROVE OwnInv'
  <1> DEFINE live == liveRelease[job[n].app]
  <1>1. job[n].pc = "fetched" /\ job[n] \in Job /\ job[n].app \in Apps
    BY DEF Source, At, LifeInv, JobsKnown, JobKnown
  <1>2. live # NoLive => live \in RowsOf(job[n].app)
    BY <1>1 DEF LifeInv, TypeOK, LivePointerAgrees
  <1>3. CASE Ends(n, FALSE)
    BY <1>3, OwnEnds DEF Source, rowVars
  <1>4. CASE job[n].kind = "push" /\ To(n, "sourced") /\ UNCHANGED <<caller, unapplied>>
    <2>1. On(n, Passing)' => On(n, Passing)
      BY <1>4, PassingFrame
    <2>2. "deploy" \notin crossed' => JobOwn(n)
      BY <1>1 DEF Source, OwnInv, JobsOwn
    <2>3. "deploy" \notin crossed' => JobOwn(n)'
      BY <1>4, <2>1, <2>2, ToMoves DEF Source, JobOwn, Named, Late, LifeInv, storeVars, rowVars
    <2> QED  BY <1>4, <2>3, ToMoves, OwnOfDeploy DEF Source, LifeInv, rowVars
  <1>5. ASSUME NEW i \in RowsOf(job[n].app), NEW pc \in {"sourced", "starting", "snapped"}, NEW rel, NEW k,
               job[n].kind = "restart" <=> pc = "starting",
               Becomes(n, [job[n] EXCEPT !.pc = pc, !.rel = rel, !.image = rows[i].image, !.config = k]),
               UNCHANGED <<caller, unapplied>>
        PROVE  OwnInv'
    <2>1. On(n, Passing)' => On(n, Passing)
      BY <1>5, PassingFrame
    <2>2. "deploy" \notin crossed' => JobOwn(n) /\ RowOwn(i)
      BY <1>1, <1>5 DEF Source, OwnInv, JobsOwn, RowsOwn, RowsOf
    <2>3. /\ job'[n].pc = pc /\ job'[n].kind = job[n].kind /\ job'[n].app = job[n].app /\ job'[n].image = rows[i].image
          /\ \A m \in Names : m # n => job'[m] = job[m]
      BY <1>1, <1>5 DEF Becomes, Job, LifeInv, JobsKnown
    <2>4. "deploy" \notin crossed' => JobOwn(n)'
      <3>1. Named(n)' = Named(n)
        BY DEF Source, Named, storeVars, rowVars
      <3> QED  BY <1>5, <2>1, <2>2, <2>3, <3>1 DEF JobOwn, Late, RowOwn, RowsOf, Named
    <2> QED  BY <1>5, <2>3, <2>4, OwnOfDeploy DEF Source, rowVars
  <1>6. CASE /\ job[n].kind = "redeploy" /\ live # NoLive /\ UNCHANGED <<caller, unapplied>>
             /\ Becomes(n, [job[n] EXCEPT !.pc = "sourced", !.rel = NoRel, !.image = rows[live].image, !.config = 0])
    BY <1>2, <1>5, <1>6
  <1>7. CASE /\ job[n].kind = "restart" /\ live # NoLive /\ UNCHANGED <<caller, unapplied>>
             /\ Becomes(n, [job[n] EXCEPT !.pc = "starting", !.rel = live, !.image = rows[live].image, !.config = snap[live]])
    BY <1>2, <1>5, <1>7
  <1>8. CASE /\ job[n].kind = "rollback" /\ UNCHANGED <<caller, unapplied>>
             /\ \E i \in RowsOf(job[n].app) \ {live} :
                  Becomes(n, [job[n] EXCEPT !.pc = "snapped", !.rel = NoRel, !.image = rows[i].image, !.config = snap[i]])
    BY <1>5, <1>8
  <1> QED  BY <1>3, <1>4, <1>6, <1>7, <1>8 DEF Source

LEMMA SnapshotOwn == ASSUME LifeInv, OwnInv, NEW n \in Names, Snapshot(n) PROVE OwnInv'
  <1>1. /\ job'[n].pc = "snapped" /\ job'[n].kind = job[n].kind /\ job'[n].app = job[n].app /\ job'[n].image = job[n].image
        /\ \A m \in Names : m # n => job'[m] = job[m]
    BY DEF Snapshot, Becomes, Job, LifeInv, JobsKnown
  <1>2. On(n, Passing)' => On(n, Passing)
    BY PassingFrame DEF Snapshot
  <1>3. "deploy" \notin crossed' => JobOwn(n)
    BY DEF Snapshot, At, OwnInv, JobsOwn
  <1>4. "deploy" \notin crossed' => JobOwn(n)'
    BY <1>1, <1>2, <1>3 DEF Snapshot, At, JobOwn, Named, Late, storeVars, rowVars
  <1> QED  BY <1>1, <1>4, OwnOfDeploy DEF Snapshot, rowVars

\* A deploy records its release, and what it is made of.
LEMMA RecordOwn ==
  ASSUME LifeInv, OwnInv, RowsHaveApps', NEW n \in Names, Record(n)
  PROVE  OwnInv'
  <1> DEFINE j == job[n]
  <1>1. j \in Job /\ j.app \in Apps /\ j.pc = "snapped"
    BY DEF Record, At, LifeInv, JobsKnown, JobKnown
  <1>2. CASE Ends(n, FALSE) /\ UNCHANGED <<storeVars, snap>>
    BY <1>2, OwnEnds DEF Record
  <1>3. ASSUME NEW i \in Ids, CreateRelease(j.app, j.image, i), UNCHANGED <<caller, unapplied>>,
               Becomes(n, [j EXCEPT !.rel = i, !.pc = IF j.image = NoImage THEN "waiting" ELSE "starting"])
        PROVE  OwnInv'
    <2>1. /\ ~Exists(i) /\ Exists(i)' /\ rows'[i].app = j.app /\ rows'[i].image = j.image
          /\ \A k \in Ids \ {i} : rows'[k] = rows[k]
      BY <1>1, <1>3, CreateReleaseRows DEF Job, LifeInv
    <2>2. UNCHANGED <<apps, nameOf, serving, crossed>>
      BY <1>3 DEF CreateRelease, Record
    <2>3. \A k \in Ids : Exists(k) => Exists(k)' /\ rows'[k] = rows[k]
      BY <2>1 DEF Exists
    <2>4. /\ job'[n].pc \in {"waiting", "starting"} /\ job'[n].kind = j.kind /\ job'[n].app = j.app
          /\ job'[n].rel = i /\ job'[n].image = j.image /\ \A m \in Names : m # n => job'[m] = job[m]
      BY <1>1, <1>3 DEF Becomes, Job, LifeInv, JobsKnown
    <2>5. "deploy" \notin crossed' => JobOwn(n)
      BY <1>1, <2>2 DEF OwnInv, JobsOwn
    <2>6. \A m \in Names : On(m, Passing)' => On(m, Passing)
      BY <1>3, PassingFrame
    <2>7. Named(n)' = Named(n)
      BY <2>2 DEF Named
    <2>8. "deploy" \notin crossed' => JobOwn(n)'
      BY <1>1, <2>1, <2>4, <2>5, <2>6, <2>7 DEF JobOwn
    <2>9. \A k \in Ids : "deploy" \notin crossed' => RowOwn(k)' \/ (Exists(k) /\ rows'[k].image = rows[k].image)
      BY <2>1, <2>2, <2>5 DEF RowOwn, JobOwn, Named, Exists
    <2> QED  BY <2>2, <2>3, <2>4, <2>6, <2>8, <2>9, OwnFrame
  <1> QED  BY <1>2, <1>3 DEF Record

\* A step of a deploy on its release's row, which keeps the row's app.
LEMMA OwnOfRow ==
  ASSUME LifeInv, OwnInv, RowsHaveApps', UNCHANGED <<apps, nameOf>>, crossed \subseteq crossed', serving' = serving,
         NEW n \in Names, \A m \in Names : m # n => job'[m] = job[m],
         \A i \in Ids : Exists(i) => Exists(i)' /\ rows'[i].app = rows[i].app,
         \A i \in Ids : "deploy" \notin crossed' => RowOwn(i)' \/ (Exists(i) /\ rows'[i].image = rows[i].image),
         "deploy" \notin crossed' => job'[n].pc = "idle" \/ JobOwn(n)',
         \A c \in Callers : caller'[c] = caller[c] \/ caller'[c].pc \notin Passing
  PROVE  OwnInv'
  <1>1. \A m \in Names : On(m, Passing)' => On(m, Passing)
    BY PassingFrame
  <1> QED  BY <1>1, OwnFrame

LEMMA RecordImageOwn ==
  ASSUME LifeInv, OwnInv, RowsHaveApps', NEW n \in Names, RecordImage(n)
  PROVE  OwnInv'
  <1> DEFINE j == job[n]
  <1>1. j \in Job /\ j.rel \in Ids /\ j.pc = "built" /\ n \in Images \cup {NoImage}
    BY NamesAssumption DEF RecordImage, At, LifeInv, JobsKnown, JobKnown, Late
  <1>2. CASE To(n, "failing") /\ UNCHANGED storeVars
    BY <1>1, <1>2, OwnGoesOn DEF RecordImage, Late, rowVars
  <1>3. CASE MarkBuilt(j.rel, n) /\ Becomes(n, [j EXCEPT !.pc = "starting", !.image = n])
    <2>0. PICK i \in Ids : i = j.rel
      BY <1>1
    <2>a. MarkBuilt(i, n) /\ TypeOK
      BY <1>3, <2>0 DEF LifeInv
    <2>1. /\ Exists(i) /\ Exists(i)' /\ rows'[i].app = rows[i].app /\ rows'[i].image = n
          /\ \A k \in Ids \ {i} : rows'[k] = rows[k]
      BY <1>1, <2>a, MarkBuiltRows
    <2>2. UNCHANGED <<apps, nameOf, serving, crossed, caller>>
      BY <1>3 DEF MarkBuilt, RecordImage, rowVars
    <2>3. \A k \in Ids : Exists(k) => Exists(k)' /\ rows'[k].app = rows[k].app
      BY <2>1 DEF Exists
    <2>4. /\ job'[n].pc = "starting" /\ job'[n].kind = j.kind /\ job'[n].app = j.app
          /\ job'[n].rel = i /\ job'[n].image = n /\ \A m \in Names : m # n => job'[m] = job[m]
      BY <1>1, <1>3, <2>0 DEF Becomes, Job, LifeInv, JobsKnown
    <2>5. "deploy" \notin crossed' => JobOwn(n) /\ j.kind # "restart" /\ rows[i].app = j.app
      BY <1>1, <2>0, <2>2 DEF OwnInv, JobsOwn, JobOwn, Late
    <2>6. On(n, Passing)' => On(n, Passing)
      BY <2>2, PassingFrame
    <2>7. Named(n)' = Named(n)
      BY <2>2 DEF Named
    <2>8. "deploy" \notin crossed' => JobOwn(n)'
      BY <1>1, <2>1, <2>4, <2>5, <2>6, <2>7 DEF JobOwn
    <2>9. \A k \in Ids : "deploy" \notin crossed' => RowOwn(k)' \/ (Exists(k) /\ rows'[k].image = rows[k].image)
      BY <2>1, <2>2, <2>5 DEF RowOwn, JobOwn, Named, Exists
    <2> QED  BY <2>2, <2>3, <2>4, <2>8, <2>9, OwnOfRow
  <1> QED  BY <1>2, <1>3 DEF RecordImage

\* A deploy that ends, with its release live or failed.
LEMMA OwnOfEnd ==
  ASSUME LifeInv, OwnInv, RowsHaveApps', NEW n \in Names, NEW ok \in BOOLEAN, Ends(n, ok), job[n].pc \in {"swapped", "failing"},
         UNCHANGED <<nameOf, serving, crossed>>,
         \/ SetLive(job[n].app, job[n].rel)
         \/ MarkFailed(job[n].rel)
         \/ UNCHANGED storeVars
  PROVE  OwnInv'
  <1>1. job[n].rel \in Ids /\ job[n].app \in Apps
    BY DEF LifeInv, JobsKnown, JobKnown, Late
  <1>2. apps' = apps
    BY DEF SetLive, MarkFailed, storeVars
  <1>3. \A i \in Ids : Exists(i) => Exists(i)' /\ rows'[i].app = rows[i].app /\ rows'[i].image = rows[i].image
    <2>1. CASE SetLive(job[n].app, job[n].rel)
      BY <1>1, <2>1, SetLiveRows DEF LifeInv
    <2>2. CASE MarkFailed(job[n].rel)
      BY <1>1, <2>2, MarkFailedRows DEF LifeInv, Exists
    <2>3. CASE UNCHANGED storeVars
      BY <2>3 DEF storeVars, Exists
    <2> QED  BY <2>1, <2>2, <2>3
  <1>4. \A i \in Ids : Exists(i)' => Exists(i)
    <2>1. CASE SetLive(job[n].app, job[n].rel)
      BY <1>1, <2>1, SetLiveRows DEF LifeInv
    <2>2. CASE MarkFailed(job[n].rel)
      BY <1>1, <2>2, MarkFailedRows DEF LifeInv, Exists
    <2>3. CASE UNCHANGED storeVars
      BY <2>3 DEF storeVars, Exists
    <2> QED  BY <2>1, <2>2, <2>3
  <1>5. \A i \in Ids : RowOwn(i)' \/ (Exists(i) /\ rows'[i].image = rows[i].image)
    BY <1>3, <1>4 DEF RowOwn
  <1>6. job'[n].pc = "idle" /\ \A m \in Names : m # n => job'[m] = job[m]
    BY EndsMoves DEF LifeInv
  <1>7. \A c \in Callers : caller'[c] = caller[c] \/ caller'[c].pc \notin Passing
    <2>1. NoCall.pc \notin Passing
      BY DEF NoCall, Passing
    <2>2. \A c \in Callers : caller'[c] = caller[c] \/ (caller[c].pc = "deploying" /\ caller'[c] = NoCall)
      BY EndsMoves DEF LifeInv
    <2> QED  BY <2>1, <2>2
  <1> QED  BY <1>2, <1>3, <1>5, <1>6, <1>7, OwnOfRow

LEMMA CommitOwn == ASSUME LifeInv, OwnInv, RowsHaveApps', NEW n \in Names, Commit(n) PROVE OwnInv'
  BY OwnOfEnd DEF Commit, At, rowVars

LEMMA FailOwn == ASSUME LifeInv, OwnInv, RowsHaveApps', NEW n \in Names, Fail(n) PROVE OwnInv'
  BY OwnOfEnd DEF Fail, At, rowVars

LEMMA OwnStep == LifeInv /\ RepoInv /\ OwnInv /\ [LifeNext]_vars => OwnInv'
  <1> SUFFICES ASSUME LifeInv, RepoInv, OwnInv, [LifeNext]_vars PROVE OwnInv'
    OBVIOUS
  <1>0. RowsHaveApps'
    BY LifeStep, RowsHaveAppsStep DEF OwnInv, LifeInv
  <1>1. ASSUME NEW c \in Callers, CallerStep(c) PROVE OwnInv'
    BY <1>0, <1>1, MakeRepoOwn, UndoCreateOwn, RetireOwn, DeleteRowsOwn, RemoveRepoOwn, SaveConfigOwn,
       LookLiveOwn, RefuseRedeployOwn DEF CallerStep
  <1>2. ASSUME NEW c \in Callers, NEW n \in Names, NEW a \in Apps,
               CallCreate(c, n, a) \/ CallDestroy(c, n, a) \/ CallConfig(c, n, a)
        PROVE  OwnInv'
    BY <1>0, <1>2, CallCreateOwn, CallDestroyOwn, CallConfigOwn
  <1>3. ASSUME NEW n \in Names, NEW a \in Apps,
               TakeRedeploy(n, a) \/ \E kind \in {"push", "rollback", "restart"} : TakeCall(n, kind, a)
        PROVE  OwnInv'
    BY <1>3, TakeRedeployOwn, TakeCallOwn
  <1>4. ASSUME NEW n \in Names, DeployStep(n) PROVE OwnInv'
    BY <1>0, <1>4, SourceOwn, SnapshotOwn, RecordOwn, AcquireSlotOwn, LeaveQueueOwn, BuildEndsOwn,
       BuildPanicsOwn, RecordImageOwn, LaunchFailsOwn, SwapOwn, CommitOwn, FailOwn DEF DeployStep
  <1>5. CASE UNCHANGED vars
    BY <1>5, OwnOfCallers DEF vars, rowVars, lifeVars
  <1> QED  BY <1>1, <1>2, <1>3, <1>4, <1>5 DEF LifeNext

LEMMA OwnInitInv == LifeInit => OwnInv
  BY DEF LifeInit, Init, OwnInv, RowsHaveApps, JobsOwn, RowsOwn, RowOwn, ServesOwn, Exists, NoJob, Nothing

\* The invariant: no release outlives its app, a deploy writes to a release of the
\* app its actor is for, and image, release and instance are one app's.
THEOREM OwnInvariant == LifeSpec => []OwnInv
  <1>1. LifeInit => LifeInv /\ RepoInv
    BY LifeInitInv, RepoInitInv
  <1> QED  BY <1>1, OwnInitInv, OwnStep, LifeStep, RepoStep, PTL DEF LifeSpec

\* What an app's releases name and what serves it was built for it, though ids come
\* back (releases.go:200-215).
THEOREM NoForeignImage == LifeSpec => []ImagesAreOwn
  <1>1. OwnInv => ImagesAreOwn
    BY DEF OwnInv, RowsOwn, RowOwn, ServesOwn, ImagesAreOwn
  <1> QED  BY <1>1, OwnInvariant, PTL
-----------------------------------------------------------------------------
(* Which config an app runs with *)

\* A change that is stored, and whose caller has yet to ask for a redeploy or has
\* one waiting.
Pending(a) == \E c \in Callers : caller[c].pc \in {"saved", "queued"} /\ caller[c].app = a

\* Running with k is running with what is stored, or with less for a reason.
Current(a, k) == a \in unapplied \/ k = config[a] \/ Pending(a)

CallersHold ==
  \A c \in Callers : caller[c].pc \in {"config", "saved", "queued"} => caller[c].app \in Named(caller[c].name)

\* The release a deploy is for, as the deploy left it: its status, and the config
\* it will run with.
JobRow(n) ==
  LET j == job[n] IN
    /\ j.kind # "restart" =>
         /\ j.pc \in {"waiting", "building", "built"} => rows[j.rel].status = "building"
         /\ j.pc \in {"starting", "swapped"} => rows[j.rel].status = "starting"
         /\ j.pc \in Late => snap[j.rel] = j.config
    /\ j.kind = "restart" /\ j.pc \in {"starting", "swapped"} =>
         liveRelease[j.app] # NoLive /\ j.config = snap[liveRelease[j.app]]

\* A push or a redeploy has the stored config or an excuse, and so has what was
\* swapped in.
JobConf(n) ==
  LET j == job[n] IN
    /\ j.kind \in {"push", "redeploy"} /\ j.pc \in {"snapped", "waiting", "building", "built", "starting"} =>
         Current(j.app, j.config)
    /\ j.pc = "swapped" => Current(j.app, j.config) /\ serving[n].config = j.config

\* But between the swap and the commit, what serves is the live release, and that
\* has the stored config, an excuse or a redeploy to come.
AppConf(n) ==
  job[n].pc # "swapped" =>
    \A a \in Named(n) :
      /\ serving[n] # Nothing => liveRelease[a] # NoLive /\ serving[n].config = snap[liveRelease[a]]
      /\ liveRelease[a] # NoLive =>
           Current(a, snap[liveRelease[a]]) \/ (job[n].kind = "redeploy" /\ job[n].pc # "idle")

NoneServes(n) == Named(n) = {} \/ On(n, Passing) => serving[n] = Nothing

NameConf(n) == (job[n].pc # "idle" => JobRow(n) /\ JobConf(n)) /\ AppConf(n) /\ NoneServes(n)

Calm == crossed \subseteq {"undo"}
Conf == CallersHold /\ \A n \in Names : NameConf(n)
ConfInv == Calm => Conf

\* What every step may count on, as long as it is calm.
Ground == LifeInv /\ NamesAreUnique /\ RowsHaveApps /\ JobsOwn

\* A step that changes nothing that matters to a name.
Untouched(n) ==
  /\ job'[n] = job[n] /\ serving'[n] = serving[n] /\ Named(n)' = Named(n) /\ (On(n, Passing)' => On(n, Passing))
  /\ \A a \in Named(n) :
       /\ liveRelease'[a] = liveRelease[a]
       /\ \A i \in RowsOf(a) : rows'[i] = rows[i] /\ snap'[i] = snap[i]
       /\ \A k \in 0 .. MaxConfig : Current(a, k) => Current(a, k)'

\* The live release is one of the app's.
LEMMA LiveIsOwn ==
  ASSUME LifeInv, NEW a \in Apps, liveRelease[a] # NoLive
  PROVE  liveRelease[a] \in RowsOf(a) /\ liveRelease[a] \in Ids /\ snap[liveRelease[a]] \in 0 .. MaxConfig
  BY DEF LifeInv, LivePointerAgrees, RowsOf, RowsTyped

\* What a busy actor's job is known to be.
LEMMA JobIs ==
  ASSUME Ground, NEW n \in Names, job[n].pc # "idle"
  PROVE  /\ job[n] \in Job /\ job[n].app \in Apps /\ job[n].config \in 0 .. MaxConfig
         /\ job[n].app \in apps /\ nameOf[job[n].app] = n /\ Named(n) = {job[n].app}
         /\ job[n].kind = "restart" => job[n].pc \in {"fetched", "starting", "swapped", "failing"}
         /\ job[n].pc \in Late => job[n].rel \in Ids
         /\ job[n].kind # "restart" /\ job[n].pc \in Late => job[n].rel \in RowsOf(job[n].app)
         /\ ~On(n, Passing)
  <1>1. job[n] \in Job /\ job[n].app \in Apps /\ job[n].config \in 0 .. MaxConfig
        /\ (job[n].pc \in Late => job[n].rel \in Ids)
    BY DEF Ground, LifeInv, JobsKnown, JobKnown, Job
  <1>2. JobOwn(n)
    BY DEF Ground, JobsOwn
  <1>3. job[n].app \in apps /\ nameOf[job[n].app] = n
    BY <1>2 DEF JobOwn, Named
  <1>4. Named(n) = {job[n].app}
    BY <1>3 DEF Named, Ground, NamesAreUnique
  <1> QED  BY <1>1, <1>2, <1>3, <1>4 DEF JobOwn, RowsOf

\* What is not touched stays as the invariant has it.
LEMMA UntouchedKeeps ==
  ASSUME Ground, NEW n \in Names, NameConf(n), Untouched(n)
  PROVE  NameConf(n)'
  <1>1. \A a \in Named(n) : a \in Apps
    BY DEF Named, Ground, LifeInv, TypeOK
  <1>2. ASSUME NEW a \in Named(n), liveRelease[a] # NoLive
        PROVE  /\ liveRelease'[a] = liveRelease[a] /\ snap'[liveRelease'[a]] = snap[liveRelease[a]]
               /\ Current(a, snap[liveRelease[a]]) => Current(a, snap[liveRelease[a]])'
    <2>1. a \in Apps
      BY <1>1
    <2>2. liveRelease[a] \in RowsOf(a) /\ snap[liveRelease[a]] \in 0 .. MaxConfig
      BY <1>2, <2>1, LiveIsOwn DEF Ground
    <2> QED  BY <2>2 DEF Untouched
  <1>3. ASSUME job[n].pc # "idle" PROVE JobRow(n)' /\ JobConf(n)'
    <2>1. JobRow(n) /\ JobConf(n)
      BY <1>3 DEF NameConf
    <2>2. job[n].app \in Named(n) /\ job[n].config \in 0 .. MaxConfig
      BY <1>3, JobIs
    <2>3. job[n].kind # "restart" /\ job[n].pc \in Late => job[n].rel \in RowsOf(job[n].app)
      BY <1>3, JobIs
    <2>4. job[n].kind # "restart" /\ job[n].pc \in Late =>
            rows'[job[n].rel] = rows[job[n].rel] /\ snap'[job[n].rel] = snap[job[n].rel]
      BY <2>2, <2>3 DEF Untouched
    <2>5. job'[n] = job[n] /\ serving'[n] = serving[n]
      BY DEF Untouched
    <2>6. JobRow(n)'
      BY <1>2, <2>1, <2>2, <2>4, <2>5 DEF JobRow, Untouched, Late
    <2>7. Current(job[n].app, job[n].config) => Current(job[n].app, job[n].config)'
      BY <2>2 DEF Untouched
    <2>8. JobConf(n)'
      BY <2>1, <2>5, <2>7 DEF JobConf
    <2> QED  BY <2>6, <2>8
  <1>4. AppConf(n)'
    <2>1. job'[n] = job[n] /\ serving'[n] = serving[n] /\ Named(n)' = Named(n)
      BY DEF Untouched
    <2>2. SUFFICES ASSUME job[n].pc # "swapped", NEW a \in Named(n)
                   PROVE /\ serving[n] # Nothing => liveRelease'[a] # NoLive /\ serving[n].config = snap'[liveRelease'[a]]
                         /\ liveRelease'[a] # NoLive =>
                              Current(a, snap[liveRelease[a]])' \/ (job[n].kind = "redeploy" /\ job[n].pc # "idle")
      BY <2>1 DEF AppConf
    <2>3. /\ serving[n] # Nothing => liveRelease[a] # NoLive /\ serving[n].config = snap[liveRelease[a]]
          /\ liveRelease[a] # NoLive =>
               Current(a, snap[liveRelease[a]]) \/ (job[n].kind = "redeploy" /\ job[n].pc # "idle")
      BY <2>2 DEF NameConf, AppConf
    <2>4. liveRelease'[a] = liveRelease[a]
      BY DEF Untouched
    <2>5. CASE liveRelease[a] = NoLive
      BY <2>3, <2>4, <2>5
    <2>6. CASE liveRelease[a] # NoLive
      <3> DEFINE k == snap[liveRelease[a]]
      <3>1. k' = k /\ (Current(a, k) => Current(a, k)')
        BY <1>2, <2>6
      <3> QED  BY <2>3, <2>4, <3>1
    <2> QED  BY <2>5, <2>6
  <1>5. NoneServes(n)'
    BY DEF NameConf, NoneServes, Untouched
  <1> QED  BY <1>3, <1>4, <1>5 DEF NameConf, Untouched

\* A step that touches no name.
LEMMA ConfUntouched ==
  ASSUME Ground, Conf, CallersHold', \A n \in Names : Untouched(n)
  PROVE  Conf'
  BY UntouchedKeeps DEF Conf

\* A step that leaves the store and the actors touches no name, if it leaves every
\* caller who passes and every change with the one who brings it.
LEMMA ConfOfCallers ==
  ASSUME Ground, Conf, UNCHANGED <<storeVars, nameOf, snap, job, serving>>,
         \A a \in Apps, k \in 0 .. MaxConfig : Current(a, k) => Current(a, k)',
         \A c \in Callers :
           \/ caller'[c] = caller[c]
           \/ /\ caller'[c].pc \notin Passing \/ (caller[c].pc \in Passing /\ caller'[c].name = caller[c].name)
              /\ caller'[c].pc \in {"config", "saved", "queued"} => caller'[c].app \in Named(caller'[c].name)
  PROVE  Conf'
  <1>1. \A n \in Names : On(n, Passing)' => On(n, Passing)
    BY PassingFrame
  <1>2. \A n : Named(n)' = Named(n)
    BY DEF Named, storeVars
  <1>3. \A n \in Names : \A a \in Named(n) : a \in Apps
    BY DEF Named, Ground, LifeInv, TypeOK
  <1>4. \A n \in Names : Untouched(n)
    BY <1>1, <1>2, <1>3 DEF Untouched, storeVars
  <1>5. CallersHold'
    BY <1>2 DEF Conf, CallersHold
  <1> QED  BY <1>4, <1>5, ConfUntouched

\* A change has its excuse as long as its caller has it.
LEMMA CurrentKept ==
  ASSUME NEW a \in Apps, NEW k, a \in unapplied => a \in unapplied', config'[a] = config[a],
         \A c \in Callers : caller'[c] = caller[c] \/ caller[c].pc \notin {"saved", "queued"}
                            \/ caller[c].app # a \/ a \in unapplied'
                            \/ (caller'[c].pc \in {"saved", "queued"} /\ caller'[c].app = caller[c].app),
         Current(a, k)
  PROVE  Current(a, k)'
  BY DEF Current, Pending

LEMMA MakeRepoConf == ASSUME Ground, Conf, NEW c \in Callers, MakeRepo(c) PROVE Conf'
  <1>1. caller[c].pc = "creating" /\ \A d \in Callers : d # c => caller'[d] = caller[d]
    BY DEF MakeRepo, Is, Goes, Returns, Ground, LifeInv, CallsKnown
  <1>2. \/ caller'[c].pc = "none"
        \/ caller'[c].pc = "undoing" /\ caller'[c].name = caller[c].name
    BY DEF MakeRepo, Goes, Returns, NoCall, Ground, LifeInv, CallsKnown, Call
  <1>3. \A a \in Apps, k \in 0 .. MaxConfig : Current(a, k) => Current(a, k)'
    BY <1>1, CurrentKept DEF MakeRepo, rowVars
  <1> QED  BY <1>1, <1>2, <1>3, ConfOfCallers DEF MakeRepo, rowVars, Passing

LEMMA RemoveRepoConf == ASSUME Ground, Conf, NEW c \in Callers, RemoveRepo(c) PROVE Conf'
  <1>1. caller[c].pc = "removing" /\ \A d \in Callers : d # c => caller'[d] = caller[d]
    BY DEF RemoveRepo, Is, Returns, Ground, LifeInv, CallsKnown
  <1>2. caller'[c].pc = "none"
    BY DEF RemoveRepo, Returns, NoCall, Ground, LifeInv, CallsKnown
  <1>3. \A a \in Apps, k \in 0 .. MaxConfig : Current(a, k) => Current(a, k)'
    BY <1>1, CurrentKept DEF RemoveRepo, rowVars
  <1> QED  BY <1>1, <1>2, <1>3, ConfOfCallers DEF RemoveRepo, rowVars, Passing

LEMMA CallDestroyConf ==
  ASSUME Ground, Conf, NEW c \in Callers, NEW n \in Names, NEW a \in Apps, CallDestroy(c, n, a)
  PROVE  Conf'
  <1>1. caller[c].pc = "none" /\ \A d \in Callers : d # c => caller'[d] = caller[d]
    BY DEF CallDestroy, Calls, Is, Ground, LifeInv, CallsKnown
  <1>2. caller'[c].pc = "destroying"
    BY DEF CallDestroy, Calls, Ground, LifeInv, CallsKnown
  <1>3. \A b \in Apps, k \in 0 .. MaxConfig : Current(b, k) => Current(b, k)'
    BY <1>1, CurrentKept DEF CallDestroy, rowVars
  <1> QED  BY <1>1, <1>2, <1>3, ConfOfCallers DEF CallDestroy, rowVars, Passing

LEMMA CallConfigConf ==
  ASSUME Ground, Conf, NEW c \in Callers, NEW n \in Names, NEW a \in Apps, CallConfig(c, n, a)
  PROVE  Conf'
  <1>1. caller[c].pc = "none" /\ \A d \in Callers : d # c => caller'[d] = caller[d]
    BY DEF CallConfig, Calls, Is, Ground, LifeInv, CallsKnown
  <1>2. caller'[c].pc = "config" /\ caller'[c].app = a /\ caller'[c].name = n /\ a \in Named(n)
    BY DEF CallConfig, Calls, Ground, LifeInv, CallsKnown
  <1>3. \A b \in Apps, k \in 0 .. MaxConfig : Current(b, k) => Current(b, k)'
    BY <1>1, CurrentKept DEF CallConfig, rowVars
  <1> QED  BY <1>1, <1>2, <1>3, ConfOfCallers DEF CallConfig, rowVars, Passing

\* A change is stored, and with that it is pending.
LEMMA SaveConfigConf == ASSUME Ground, Conf, NEW c \in Callers, SaveConfig(c) PROVE Conf'
  <1>1. caller[c].pc = "config" /\ (\A d \in Callers : d # c => caller'[d] = caller[d])
        /\ config \in [Apps -> 0 .. MaxConfig]
    BY DEF SaveConfig, Is, Goes, Returns, Ground, LifeInv, CallsKnown, RowsTyped
  <1>2. caller[c].app \in Named(caller[c].name)
    BY <1>1 DEF Conf, CallersHold
  <1>3. CASE Returns(c) /\ UNCHANGED config
    <2>1. caller'[c].pc = "none"
      BY <1>3 DEF Returns, NoCall, Ground, LifeInv, CallsKnown
    <2>2. \A a \in Apps, k \in 0 .. MaxConfig : Current(a, k) => Current(a, k)'
      BY <1>1, <1>3, CurrentKept DEF SaveConfig
    <2> QED  BY <1>1, <2>1, <2>2, ConfOfCallers DEF SaveConfig, Passing
  <1>4. CASE Goes(c, "saved") /\ config' = [config EXCEPT ![caller[c].app] = @ + 1]
    <2>1. caller'[c].pc = "saved" /\ caller'[c].app = caller[c].app /\ caller'[c].name = caller[c].name
      BY <1>4 DEF Goes, Ground, LifeInv, CallsKnown, Call
    <2>2. ASSUME NEW a \in Apps, NEW k \in 0 .. MaxConfig, Current(a, k) PROVE Current(a, k)'
      <3>1. CASE a = caller[c].app
        BY <2>1, <3>1 DEF Current, Pending
      <3>2. CASE a # caller[c].app
        BY <1>1, <1>4, <2>2, <3>2, CurrentKept DEF SaveConfig
      <3> QED  BY <3>1, <3>2
    <2> QED  BY <1>1, <1>2, <2>1, <2>2, ConfOfCallers DEF SaveConfig, Passing
  <1> QED  BY <1>3, <1>4 DEF SaveConfig

LEMMA LookLiveConf == ASSUME Ground, Conf, NEW c \in Callers, LookLive(c) PROVE Conf'
  <1>1. caller[c].pc = "saved" /\ \A d \in Callers : d # c => caller'[d] = caller[d]
    BY DEF LookLive, Is, Goes, Returns, Ground, LifeInv, CallsKnown
  <1>2. caller[c].app \in Named(caller[c].name)
    BY <1>1 DEF Conf, CallersHold
  <1>3. \/ caller'[c].pc = "none" /\ unapplied' = unapplied \cup {caller[c].app}
        \/ /\ caller'[c].pc = "queued" /\ caller'[c].name = caller[c].name /\ caller'[c].app = caller[c].app
           /\ unapplied' = unapplied
    BY DEF LookLive, Goes, Returns, NoCall, Ground, LifeInv, CallsKnown, Call
  <1>4. \A a \in Apps, k \in 0 .. MaxConfig : Current(a, k) => Current(a, k)'
    BY <1>1, <1>3, CurrentKept DEF LookLive, rowVars
  <1> QED  BY <1>1, <1>2, <1>3, <1>4, ConfOfCallers DEF LookLive, rowVars, Passing

LEMMA RefuseRedeployConf == ASSUME Ground, Conf, NEW c \in Callers, RefuseRedeploy(c) PROVE Conf'
  <1>1. caller[c].pc = "queued" /\ \A d \in Callers : d # c => caller'[d] = caller[d]
    BY DEF RefuseRedeploy, Is, Returns, Ground, LifeInv, CallsKnown
  <1>2. caller'[c].pc = "none" /\ unapplied' = unapplied \cup {caller[c].app}
    BY DEF RefuseRedeploy, Returns, NoCall, Ground, LifeInv, CallsKnown
  <1>3. \A a \in Apps, k \in 0 .. MaxConfig : Current(a, k) => Current(a, k)'
    BY <1>1, <1>2, CurrentKept DEF RefuseRedeploy, rowVars
  <1> QED  BY <1>1, <1>2, <1>3, ConfOfCallers DEF RefuseRedeploy, rowVars, Passing

\* A step that touches one name.
LEMMA ConfOfName ==
  ASSUME Ground, Conf, CallersHold', NEW n \in Names, NameConf(n)', \A m \in Names : m # n => Untouched(m)
  PROVE  Conf'
  BY UntouchedKeeps DEF Conf

\* The actor is retired, and its instance stops.
LEMMA RetireConf == ASSUME Ground, Conf, NEW c \in Callers, Retire(c) PROVE Conf'
  <1>0. PICK m \in Names : m = caller[c].name
    BY CallIsFor DEF Retire, Is, Ground, LifeInv
  <1>1. m \in Names /\ caller \in [Callers -> Call] /\ serving \in [Names -> [image: Images \cup {NoImage}, config: 0 .. MaxConfig]]
        /\ caller[c].pc = "destroying"
    BY DEF Retire, Is, Ground, LifeInv, CallsKnown, RowsTyped
  <1>2. CASE Returns(c) /\ UNCHANGED serving
    <2>1. caller'[c].pc = "none" /\ \A d \in Callers : d # c => caller'[d] = caller[d]
      BY <1>1, <1>2 DEF Returns, NoCall
    <2>2. \A a \in Apps, k \in 0 .. MaxConfig : Current(a, k) => Current(a, k)'
      BY <1>1, <2>1, CurrentKept DEF Retire, rowVars
    <2> QED  BY <1>2, <2>1, <2>2, ConfOfCallers DEF Retire, rowVars, Passing
  <1>3. CASE job[m].pc = "idle" /\ Retired(m, c)
    <2>1. serving'[m] = Nothing /\ \A n \in Names : n # m => serving'[n] = serving[n]
      BY <1>1, <1>3 DEF Retired
    <2>2. \A d \in Callers : \/ caller'[d] = caller[d]
                             \/ caller[d].pc = "destroying" /\ caller'[d].pc = "retired" /\ caller'[d].name = m
      BY <1>0, <1>1, <1>3 DEF Retired, Call, Is
    <2>3. \A a \in Apps, k \in 0 .. MaxConfig : Current(a, k) => Current(a, k)'
      BY <2>2, CurrentKept DEF Retire, rowVars
    <2>4. /\ UNCHANGED <<storeVars, nameOf, snap, job>>
          /\ \A n : Named(n)' = Named(n)
      BY DEF Retire, rowVars, storeVars, Named
    <2>5. \A n \in Names : \A a \in Named(n) : a \in Apps
      BY DEF Named, Ground, LifeInv, TypeOK
    <2>6. ASSUME NEW n \in Names, n # m PROVE Untouched(n)
      <3>1. On(n, Passing)' => On(n, Passing)
        BY <2>2, <2>6, PassingFrame
      <3> QED  BY <2>1, <2>3, <2>4, <2>5, <2>6, <3>1 DEF Untouched, storeVars
    <2>7. CallersHold'
      BY <2>2, <2>4 DEF Conf, CallersHold
    <2>8. NameConf(m)'
      <3>1. NameConf(m)
        BY <1>1 DEF Conf
      <3>2. ASSUME NEW a \in Named(m), liveRelease[a] # NoLive PROVE Current(a, snap[liveRelease[a]])'
        <4>1. a \in Apps /\ snap[liveRelease[a]] \in 0 .. MaxConfig
          BY <2>5, <1>1, <3>2, LiveIsOwn DEF Ground
        <4>2. Current(a, snap[liveRelease[a]])
          BY <1>3, <3>1, <3>2 DEF NameConf, AppConf
        <4>3. UNCHANGED snap[liveRelease[a]]
          BY <2>4 DEF storeVars
        <4> QED  BY <2>3, <4>1, <4>2, <4>3
      <3>3. AppConf(m)'
        BY <2>1, <2>4, <3>2 DEF AppConf, storeVars
      <3> QED  BY <1>3, <2>1, <2>4, <3>3 DEF NameConf, NoneServes
    <2> QED  BY <1>1, <2>6, <2>7, <2>8, ConfOfName
  <1> QED  BY <1>0, <1>2, <1>3 DEF Retire

\* A name's row goes, and its releases with it; what the name ran has gone.
LEMMA ConfOfDelete ==
  ASSUME Ground, Conf, NEW c \in Callers, NEW m \in Names, caller[c].name = m, caller[c].pc \in Passing,
         DeleteNamed(m), UNCHANGED <<job, serving>>, ~HeldIn(m),
         caller'[c].pc \in {"none", "removing"}, \A d \in Callers : d # c => caller'[d] = caller[d]
  PROVE  Conf'
  <1>1. PICK a \in Named(m) :
          /\ DeleteApp(a)
          /\ config' = [config EXCEPT ![a] = 0] /\ unapplied' = unapplied \ {a}
          /\ snap' = [i \in Ids |-> IF i \in RowsOf(a) THEN 0 ELSE snap[i]]
    BY DEF DeleteNamed
  <1>2. /\ a \in Apps /\ config \in [Apps -> 0 .. MaxConfig] /\ TypeOK
        /\ \A n \in Names : \A b \in Named(n) : b \in Apps /\ (n # m => b # a)
    BY DEF Named, Ground, LifeInv, TypeOK, RowsTyped
  <1>3. Named(m)' = {} /\ \A n \in Names : n # m => Named(n)' = Named(n)
    BY DeleteNamedNames DEF Ground, LifeInv
  <1>4. job[m].pc = "idle"
    BY DEF Ground, JobsOwn, JobOwn, On
  <1>5. serving[m] = Nothing
    BY DEF Conf, NameConf, NoneServes, On
  <1>6. NameConf(m)'
    BY <1>3, <1>4, <1>5 DEF NameConf, AppConf, NoneServes
  <1>7. CallersHold'
    <2> SUFFICES ASSUME NEW d \in Callers, (caller[d].pc \in {"config", "saved", "queued"})'
                 PROVE  (caller[d].app \in Named(caller[d].name))'
      BY DEF CallersHold
    <2>1. d # c /\ caller'[d] = caller[d] /\ caller[d].app \in Named(caller[d].name) /\ caller[d].name \in Names
      BY CallIsFor DEF Conf, CallersHold, Ground, LifeInv
    <2>2. caller[d].name # m
      BY <2>1 DEF HeldIn
    <2> QED  BY <1>3, <2>1, <2>2
  <1>8. ASSUME NEW n \in Names, n # m PROVE Untouched(n)
    <2>1. On(n, Passing)' => On(n, Passing)
      BY PassingFrame DEF Passing
    <2>2. ASSUME NEW b \in Named(n)
          PROVE  /\ liveRelease'[b] = liveRelease[b]
                 /\ \A i \in RowsOf(b) : rows'[i] = rows[i] /\ snap'[i] = snap[i]
                 /\ \A k \in 0 .. MaxConfig : Current(b, k) => Current(b, k)'
      <3>1. b \in Apps /\ b # a
        BY <1>2, <1>8, <2>2
      <3>2. liveRelease'[b] = liveRelease[b] /\ config'[b] = config[b] /\ (b \in unapplied => b \in unapplied')
        BY <1>1, <1>2, <3>1 DEF DeleteApp, TypeOK
      <3>3. \A i \in RowsOf(b) : i \in Ids /\ i \notin RowsOf(a)
        BY <3>1 DEF RowsOf
      <3>4. \A i \in RowsOf(b) : rows'[i] = rows[i] /\ snap'[i] = snap[i]
        BY <1>1, <3>3 DEF DeleteApp
      <3>5. \A d \in Callers : caller'[d] = caller[d] \/ caller[d].pc \notin {"saved", "queued"}
        BY DEF Passing
      <3> QED  BY <3>1, <3>2, <3>4, <3>5, CurrentKept
    <2> QED  BY <1>3, <1>8, <2>1, <2>2 DEF Untouched
  <1> QED  BY <1>6, <1>7, <1>8, ConfOfName

LEMMA UndoCreateConf == ASSUME Ground, Conf, Calm', NEW c \in Callers, UndoCreate(c) PROVE Conf'
  <1> DEFINE m == caller[c].name
  <1>1. m \in Names /\ caller[c].pc = "undoing" /\ caller'[c].pc = "none" /\ \A d \in Callers : d # c => caller'[d] = caller[d]
    BY CallIsFor DEF UndoCreate, Is, Returns, NoCall, Ground, LifeInv, CallsKnown
  <1>2. CASE DeleteNamed(m) /\ Crosses("config", HeldIn(m))
    <2>1. ~HeldIn(m)
      BY <1>2 DEF Crosses, Calm
    <2> QED  BY <1>1, <1>2, <2>1, ConfOfDelete DEF UndoCreate, Passing
  <1>3. CASE UNCHANGED <<storeVars, rowVars, unapplied>>
    <2>1. \A a \in Apps, k \in 0 .. MaxConfig : Current(a, k) => Current(a, k)'
      BY <1>1, <1>3, CurrentKept DEF rowVars
    <2> QED  BY <1>1, <1>3, <2>1, ConfOfCallers DEF UndoCreate, rowVars, Passing
  <1> QED  BY <1>2, <1>3 DEF UndoCreate

LEMMA DeleteRowsConf == ASSUME Ground, Conf, Calm', NEW c \in Callers, DeleteRows(c) PROVE Conf'
  <1> DEFINE m == caller[c].name
  <1>1. m \in Names /\ caller[c].pc = "retired" /\ caller'[c].pc \in {"none", "removing"}
        /\ \A d \in Callers : d # c => caller'[d] = caller[d]
    BY CallIsFor DEF DeleteRows, Is, Returns, Goes, NoCall, Ground, LifeInv, CallsKnown, Call
  <1>2. CASE DeleteNamed(m) /\ Crosses("config", HeldIn(m))
    <2>1. ~HeldIn(m)
      BY <1>2 DEF Crosses, Calm
    <2> QED  BY <1>1, <1>2, <2>1, ConfOfDelete DEF DeleteRows, Passing
  <1>3. CASE UNCHANGED <<storeVars, rowVars, unapplied, crossed>>
    <2>1. \A a \in Apps, k \in 0 .. MaxConfig : Current(a, k) => Current(a, k)'
      BY <1>1, <1>3, CurrentKept DEF rowVars
    <2> QED  BY <1>1, <1>3, <2>1, ConfOfCallers DEF DeleteRows, rowVars, Passing
  <1> QED  BY <1>2, <1>3 DEF DeleteRows

\* An app comes, with nothing live and nothing serving its name.
LEMMA CallCreateConf ==
  ASSUME Ground, LifeInv', Conf, NEW c \in Callers, NEW m \in Names, NEW a \in Apps, CallCreate(c, m, a)
  PROVE  Conf'
  <1>1. /\ Named(m) = {} /\ a \notin apps /\ apps' = apps \cup {a} /\ rows' = rows /\ liveRelease' = liveRelease
        /\ nameOf'[a] = m /\ \A b \in Apps : b # a => nameOf'[b] = nameOf[b]
        /\ UNCHANGED <<config, snap, job, serving, unapplied>>
    BY DEF CallCreate, InsertApp, CreateApp, Ground, LifeInv, RowsTyped
  <1>2. caller[c].pc = "none" /\ caller'[c].pc = "creating" /\ caller'[c].name = m
        /\ \A d \in Callers : d # c => caller'[d] = caller[d]
    BY DEF CallCreate, Calls, Is, Ground, LifeInv, CallsKnown
  <1>3. apps \subseteq Apps /\ Named(m)' = {a} /\ \A n \in Names : n # m => Named(n)' = Named(n)
    BY <1>1 DEF Named, Ground, LifeInv, TypeOK
  <1>4. ASSUME NEW n \in Names, n # m PROVE Untouched(n)
    <2>1. On(n, Passing)' => On(n, Passing)
      BY <1>2, <1>4, PassingFrame
    <2>2. \A b \in Apps, k \in 0 .. MaxConfig : Current(b, k) => Current(b, k)'
      BY <1>1, <1>2, CurrentKept
    <2>3. \A b \in Named(n) : b \in Apps
      BY <1>3 DEF Named
    <2> QED  BY <1>1, <1>3, <1>4, <2>1, <2>2, <2>3 DEF Untouched
  <1>5. CallersHold'
    <2> SUFFICES ASSUME NEW d \in Callers, (caller[d].pc \in {"config", "saved", "queued"})'
                 PROVE  (caller[d].app \in Named(caller[d].name))'
      BY DEF CallersHold
    <2>1. caller'[d] = caller[d] /\ caller[d].app \in Named(caller[d].name) /\ caller[d].name \in Names
      BY <1>2, CallIsFor DEF Conf, CallersHold, Ground, LifeInv
    <2> QED  BY <1>1, <1>3, <2>1
  <1>6. NameConf(m)'
    <2>1. job[m].pc = "idle"
      BY <1>1 DEF Ground, JobsOwn, JobOwn
    <2>2. serving[m] = Nothing
      BY <1>1 DEF Conf, NameConf, NoneServes
    <2>3. liveRelease[a] = NoLive
      <3>1. RowsOf(a) = {}
        BY <1>1 DEF RowsOf, Ground, RowsHaveApps
      <3> QED  BY <3>1, LiveIsOwn DEF Ground
    <2> QED  BY <1>1, <1>3, <2>1, <2>2, <2>3 DEF NameConf, AppConf, NoneServes
  <1> QED  BY <1>4, <1>5, <1>6, ConfOfName

\* A step of one deploy touches no other name, if all it changes is of its app.
LEMMA DeployTouches ==
  ASSUME Ground, NEW n \in Names, NEW a \in Named(n), UNCHANGED <<apps, nameOf, config>>,
         \A m \in Names : m # n => job'[m] = job[m] /\ serving'[m] = serving[m],
         \A b \in Apps : b # a => liveRelease'[b] = liveRelease[b] /\ (b \in unapplied => b \in unapplied'),
         \A i \in Ids : Exists(i) /\ rows[i].app # a => rows'[i] = rows[i] /\ snap'[i] = snap[i],
         \A c \in Callers : caller'[c] = caller[c]
                            \/ (caller'[c].pc \notin Passing /\ (caller[c].pc \in {"saved", "queued"} => caller[c].app = a))
  PROVE  \A m \in Names : Named(m)' = Named(m) /\ (On(m, Passing)' => On(m, Passing)) /\ (m # n => Untouched(m))
  <1>1. ASSUME NEW m \in Names PROVE Named(m)' = Named(m) /\ (On(m, Passing)' => On(m, Passing))
    BY PassingFrame DEF Named
  <1>2. ASSUME NEW m \in Names, m # n PROVE Untouched(m)
    <2>1. ASSUME NEW b \in Named(m)
          PROVE  /\ liveRelease'[b] = liveRelease[b]
                 /\ \A i \in RowsOf(b) : rows'[i] = rows[i] /\ snap'[i] = snap[i]
                 /\ \A k \in 0 .. MaxConfig : Current(b, k) => Current(b, k)'
      <3>1. b \in Apps /\ b # a
        BY <1>2 DEF Named, Ground, LifeInv, TypeOK
      <3>2. \A i \in RowsOf(b) : i \in Ids /\ Exists(i) /\ rows[i].app # a
        BY <3>1 DEF RowsOf
      <3>3. \A k : Current(b, k) => Current(b, k)'
        BY <3>1, CurrentKept
      <3> QED  BY <3>1, <3>2, <3>3
    <2> QED  BY <1>1, <1>2, <2>1 DEF Untouched
  <1> QED  BY <1>1, <1>2

\* So the rest is about the name itself.
LEMMA ConfOfDeploy ==
  ASSUME Ground, Conf, NEW n \in Names, NEW a \in Named(n), UNCHANGED <<apps, nameOf, config>>,
         \A m \in Names : m # n => job'[m] = job[m] /\ serving'[m] = serving[m],
         \A b \in Apps : b # a => liveRelease'[b] = liveRelease[b] /\ (b \in unapplied => b \in unapplied'),
         \A i \in Ids : Exists(i) /\ rows[i].app # a => rows'[i] = rows[i] /\ snap'[i] = snap[i],
         \A c \in Callers : caller'[c] = caller[c]
                            \/ (caller'[c].pc \notin Passing \cup {"config", "saved", "queued"}
                                  /\ (caller[c].pc \in {"saved", "queued"} => caller[c].app = a)),
         ~On(n, Passing)' \/ serving'[n] = serving[n],
         job'[n].pc # "idle" => JobRow(n)' /\ JobConf(n)', AppConf(n)'
  PROVE  Conf'
  <1>1. \A m \in Names : Named(m)' = Named(m) /\ (On(m, Passing)' => On(m, Passing)) /\ (m # n => Untouched(m))
    BY DeployTouches
  <1>2. NameConf(n)'
    BY <1>1 DEF NameConf, NoneServes, Conf
  <1>3. CallersHold'
    <2> SUFFICES ASSUME NEW d \in Callers, (caller[d].pc \in {"config", "saved", "queued"})'
                 PROVE  (caller[d].app \in Named(caller[d].name))'
      BY DEF CallersHold
    <2>1. caller'[d] = caller[d] /\ caller[d].app \in Named(caller[d].name) /\ caller[d].name \in Names
      BY CallIsFor DEF Conf, CallersHold, Ground, LifeInv
    <2> QED  BY <1>1, <2>1
  <1> QED  BY <1>1, <1>2, <1>3, ConfOfName

\* A deploy is taken: what its app runs with has its excuse still, or the deploy is
\* the redeploy it was waiting for.
LEMMA TakeConf ==
  ASSUME Ground, Conf, NEW n \in Names, NEW kind \in {"push", "rollback", "redeploy", "restart"}, NEW a \in Apps,
         Take(n, kind, a),
         \A c \in Callers : caller'[c] = caller[c]
                            \/ (/\ kind = "redeploy" /\ caller'[c].pc = "deploying"
                                /\ caller[c].app = a)
  PROVE  Conf'
  <1> DEFINE j == [pc |-> "fetched", kind |-> kind, app |-> a, rel |-> NoRel, image |-> NoImage, config |-> 0]
  <1>1. job[n].pc = "idle" /\ a \in Named(n) /\ job'[n] = j /\ \A m \in Names : m # n => job'[m] = job[m]
    BY DEF Take, At, Becomes, Ground, LifeInv, JobsKnown
  <1>2. UNCHANGED <<apps, rows, liveRelease, nameOf, config, snap, serving, unapplied>>
    BY DEF Take, storeVars, rowVars
  <1>3. JobRow(n)' /\ JobConf(n)'
    BY <1>1 DEF JobRow, JobConf, Late
  <1>4. AppConf(n)'
    <2> SUFFICES ASSUME NEW b \in Named(n)'
                 PROVE  (/\ serving[n] # Nothing => liveRelease[b] # NoLive /\ serving[n].config = snap[liveRelease[b]]
                         /\ liveRelease[b] # NoLive =>
                              Current(b, snap[liveRelease[b]]) \/ (job[n].kind = "redeploy" /\ job[n].pc # "idle"))'
      BY DEF AppConf
    <2>1. b \in Named(n) /\ b \in Apps
      BY <1>2 DEF Named, Ground, LifeInv, TypeOK
    <2>2. /\ serving[n] # Nothing => liveRelease[b] # NoLive /\ serving[n].config = snap[liveRelease[b]]
          /\ liveRelease[b] # NoLive => Current(b, snap[liveRelease[b]])
      BY <1>1, <2>1 DEF Conf, NameConf, AppConf
    <2>3. CASE kind = "redeploy"
      BY <1>1, <1>2, <2>2, <2>3
    <2>4. CASE kind # "redeploy"
      BY <1>2, <2>2, <2>4 DEF Current, Pending
    <2> QED  BY <2>3, <2>4
  <1> QED  BY <1>1, <1>2, <1>3, <1>4, ConfOfDeploy DEF Passing

LEMMA TakeCallConf ==
  ASSUME Ground, Conf, NEW n \in Names, NEW kind \in {"push", "rollback", "restart"}, NEW a \in Apps, TakeCall(n, kind, a)
  PROVE  Conf'
  BY TakeConf DEF TakeCall

LEMMA TakeRedeployConf ==
  ASSUME Ground, Conf, NEW n \in Names, NEW a \in Apps, TakeRedeploy(n, a)
  PROVE  Conf'
  <1>1. PICK c \in Callers : caller[c].pc = "queued" /\ caller[c].name = n /\ Goes(c, "deploying")
    BY DEF TakeRedeploy, Is
  <1>2. caller'[c].pc = "deploying" /\ \A d \in Callers : d # c => caller'[d] = caller[d]
    BY <1>1 DEF Goes, Ground, LifeInv, CallsKnown, Call
  <1>3. caller[c].app \in Named(n) /\ a \in Named(n)
    BY <1>1 DEF Conf, CallersHold, TakeRedeploy, Take
  <1>4. caller[c].app = a
    BY <1>3 DEF Named, Ground, NamesAreUnique
  <1> QED  BY <1>2, <1>4, TakeConf DEF TakeRedeploy

\* A deploy that goes on, and leaves the store, the configs and what serves.
LEMMA ConfGoesOn ==
  ASSUME Ground, Conf, NEW n \in Names, job[n].pc \notin {"idle", "swapped"}, job'[n].pc \notin {"idle", "swapped"},
         job'[n].app = job[n].app, job'[n].kind = job[n].kind, \A m \in Names : m # n => job'[m] = job[m],
         UNCHANGED <<storeVars, nameOf, config, snap, caller, serving, unapplied>>,
         JobRow(n)' /\ JobConf(n)'
  PROVE  Conf'
  <1>1. Named(n) = {job[n].app} /\ job[n].app \in Apps
    BY JobIs
  <1>2. AppConf(n)
    BY DEF Conf, NameConf
  <1>3. AppConf(n)'
    BY <1>2 DEF AppConf, Named, Current, Pending, storeVars
  <1> QED  BY <1>1, <1>3, ConfOfDeploy DEF storeVars

\* In particular one that has but another place in its course.
LEMMA ConfOfTo ==
  ASSUME Ground, Conf, NEW n \in Names, NEW pc, To(n, pc),
         UNCHANGED <<storeVars, nameOf, config, snap, caller, serving, unapplied>>,
         \/ pc = "failing" /\ job[n].pc \in Late \ {"swapped"}
         \/ job[n].pc \in {"waiting", "building"} /\ pc \in {"building", "built"}
  PROVE  Conf'
  <1>1. job[n].pc \in Late \ {"swapped"} /\ pc \in Late \ {"swapped"}
    BY DEF Late
  <1>2. /\ job'[n].pc = pc /\ job'[n].kind = job[n].kind /\ job'[n].app = job[n].app
        /\ job'[n].rel = job[n].rel /\ job'[n].config = job[n].config
        /\ \A m \in Names : m # n => job'[m] = job[m]
    BY ToMoves DEF Ground, LifeInv
  <1>3. JobRow(n) /\ JobConf(n)
    BY <1>1 DEF Conf, NameConf, Late
  <1>4. JobRow(n)'
    BY <1>1, <1>2, <1>3 DEF JobRow, Late, storeVars
  <1>5. \A a, k : Current(a, k) => Current(a, k)'
    BY DEF Current, Pending
  <1>6. JobConf(n)'
    BY <1>1, <1>2, <1>3, <1>5 DEF JobConf
  <1> QED  BY <1>1, <1>2, <1>4, <1>6, ConfGoesOn DEF Late

LEMMA AcquireSlotConf == ASSUME Ground, Conf, NEW n \in Names, AcquireSlot(n) PROVE Conf'
  BY ConfOfTo DEF AcquireSlot, At, Late, rowVars

LEMMA LeaveQueueConf == ASSUME Ground, Conf, NEW n \in Names, LeaveQueue(n) PROVE Conf'
  BY ConfOfTo DEF LeaveQueue, At, Late, rowVars

LEMMA BuildEndsConf == ASSUME Ground, Conf, NEW n \in Names, BuildEnds(n) PROVE Conf'
  BY ConfOfTo DEF BuildEnds, At, Late, rowVars

LEMMA LaunchFailsConf == ASSUME Ground, Conf, NEW n \in Names, LaunchFails(n) PROVE Conf'
  BY ConfOfTo DEF LaunchFails, At, Late, rowVars

\* What becomes of the changes when a deploy ends.
LEMMA EndsLeaves ==
  ASSUME Ground, NEW n \in Names, NEW ok \in BOOLEAN, Ends(n, ok), config' = config
  PROVE  /\ job[n].kind = "redeploy" /\ ~ok => job[n].app \in unapplied'
         /\ \A b \in Apps : b \in unapplied => b \in unapplied'
         /\ \A b \in Apps : \A k : Current(b, k) => Current(b, k)'
         /\ \A c \in Callers : caller'[c] = caller[c]
                               \/ (caller'[c].pc = "none" /\ caller[c].pc = "deploying")
  <1>1. \A c \in Callers : caller'[c] = caller[c] \/ (caller'[c].pc = "none" /\ caller[c].pc = "deploying")
    <2>1. \A c \in Callers : caller'[c] = caller[c] \/ (caller[c].pc = "deploying" /\ caller'[c] = NoCall)
      BY EndsMoves DEF Ground, LifeInv
    <2> QED  BY <2>1 DEF NoCall
  <1>2. /\ job[n].kind = "redeploy" /\ ~ok => job[n].app \in unapplied'
        /\ \A b \in Apps : b \in unapplied => b \in unapplied'
    BY DEF Ends
  <1>3. \A b \in Apps : \A k : Current(b, k) => Current(b, k)'
    BY <1>1, <1>2, CurrentKept
  <1> QED  BY <1>1, <1>2, <1>3

\* A deploy that fails before the swap: what serves goes on serving.
LEMMA ConfOfFailure ==
  ASSUME Ground, Conf, NEW n \in Names, job[n].pc \notin {"idle", "swapped"}, Ends(n, FALSE),
         UNCHANGED <<apps, liveRelease, nameOf, config, snap, serving>>,
         \A i \in Ids : Exists(i) /\ rows[i].app # job[n].app => rows'[i] = rows[i]
  PROVE  Conf'
  <1>1. Named(n) = {job[n].app} /\ job[n].app \in Apps
    BY JobIs
  <1>2. /\ job[n].kind = "redeploy" => job[n].app \in unapplied'
        /\ \A b \in Apps : b \in unapplied => b \in unapplied'
        /\ \A b \in Apps : \A k : Current(b, k) => Current(b, k)'
        /\ \A c \in Callers : caller'[c] = caller[c] \/ (caller'[c].pc = "none" /\ caller[c].pc = "deploying")
    BY EndsLeaves
  <1>3. job'[n].pc = "idle" /\ \A m \in Names : m # n => job'[m] = job[m]
    BY EndsMoves DEF Ground, LifeInv
  <1>4. AppConf(n)'
    <2> SUFFICES ASSUME NEW b \in Named(n)'
                 PROVE  (/\ serving[n] # Nothing => liveRelease[b] # NoLive /\ serving[n].config = snap[liveRelease[b]]
                         /\ liveRelease[b] # NoLive => Current(b, snap[liveRelease[b]]))'
      BY DEF AppConf
    <2>1. b = job[n].app /\ b \in Named(n)
      BY <1>1 DEF Named
    <2>2. /\ serving[n] # Nothing => liveRelease[b] # NoLive /\ serving[n].config = snap[liveRelease[b]]
          /\ liveRelease[b] # NoLive => Current(b, snap[liveRelease[b]]) \/ job[n].kind = "redeploy"
      BY <2>1 DEF Conf, NameConf, AppConf
    <2>3. CASE job[n].kind = "redeploy"
      BY <1>2, <2>1, <2>2, <2>3 DEF Current
    <2>4. CASE job[n].kind # "redeploy"
      BY <1>1, <1>2, <2>1, <2>2, <2>4
    <2> QED  BY <2>3, <2>4
  <1> QED  BY <1>1, <1>2, <1>3, <1>4, ConfOfDeploy DEF Passing

LEMMA BuildPanicsConf == ASSUME Ground, Conf, NEW n \in Names, BuildPanics(n) PROVE Conf'
  BY ConfOfFailure DEF BuildPanics, At, storeVars, rowVars

LEMMA FailConf == ASSUME Ground, Conf, NEW n \in Names, Fail(n) PROVE Conf'
  <1>1. job[n].pc = "failing"
    BY DEF Fail, At
  <1>2. job[n].kind # "restart" => job[n].rel \in Ids /\ Exists(job[n].rel) /\ rows[job[n].rel].app = job[n].app
    BY <1>1, JobIs DEF Late, RowsOf
  <1>3. \A i \in Ids : Exists(i) /\ rows[i].app # job[n].app => rows'[i] = rows[i]
    <2>1. CASE UNCHANGED storeVars
      BY <2>1 DEF storeVars
    <2>2. CASE job[n].kind # "restart" /\ MarkFailed(job[n].rel)
      BY <1>2, <2>2, MarkFailedRows DEF Ground, LifeInv
    <2> QED  BY <2>1, <2>2 DEF Fail
  <1>4. UNCHANGED <<apps, liveRelease>>
    BY DEF Fail, MarkFailed, storeVars
  <1> QED  BY <1>1, <1>3, <1>4, ConfOfFailure DEF Fail, rowVars

LEMMA SourceConf == ASSUME Ground, Conf, NEW n \in Names, Source(n) PROVE Conf'
  <1> DEFINE live == liveRelease[job[n].app]
  <1>1. job[n].pc = "fetched" /\ job[n] \in Job /\ job[n].app \in Apps
    BY DEF Source, At, Ground, LifeInv, JobsKnown, JobKnown
  <1>2. CASE Ends(n, FALSE)
    BY <1>1, <1>2, ConfOfFailure DEF Source, storeVars, rowVars
  <1>3. CASE /\ job'[n].app = job[n].app /\ job'[n].kind = job[n].kind /\ UNCHANGED <<caller, unapplied>>
             /\ \A m \in Names : m # n => job'[m] = job[m]
             /\ \/ job'[n].pc = "sourced" /\ job[n].kind # "restart"
                \/ job'[n].pc = "snapped" /\ job[n].kind = "rollback"
                \/ job'[n].pc = "starting" /\ job[n].kind = "restart" /\ live # NoLive /\ job'[n].config = snap[live]
    <2>1. JobRow(n)' /\ JobConf(n)'
      BY <1>3 DEF JobRow, JobConf, Source, Late, storeVars, rowVars
    <2> QED  BY <1>1, <1>3, <2>1, ConfGoesOn DEF Source, rowVars
  <1>4. ASSUME NEW i, NEW pc, NEW rel, NEW k,
               Becomes(n, [job[n] EXCEPT !.pc = pc, !.rel = rel, !.image = rows[i].image, !.config = k])
        PROVE  /\ job'[n].app = job[n].app /\ job'[n].kind = job[n].kind /\ job'[n].pc = pc /\ job'[n].config = k
               /\ \A m \in Names : m # n => job'[m] = job[m]
    BY <1>1, <1>4 DEF Becomes, Job, Ground, LifeInv, JobsKnown
  <1>5. CASE job[n].kind = "push" /\ To(n, "sourced") /\ UNCHANGED <<caller, unapplied>>
    BY <1>3, <1>5, ToMoves DEF Ground, LifeInv
  <1>6. CASE /\ job[n].kind = "redeploy" /\ live # NoLive /\ UNCHANGED <<caller, unapplied>>
             /\ Becomes(n, [job[n] EXCEPT !.pc = "sourced", !.rel = NoRel, !.image = rows[live].image, !.config = 0])
    <2>1. /\ job'[n].app = job[n].app /\ job'[n].kind = job[n].kind /\ job'[n].pc = "sourced"
          /\ \A m \in Names : m # n => job'[m] = job[m]
      BY <1>1, <1>6 DEF Becomes, Job, Ground, LifeInv, JobsKnown
    <2> QED  BY <1>3, <1>6, <2>1
  <1>7. CASE /\ job[n].kind = "restart" /\ live # NoLive /\ UNCHANGED <<caller, unapplied>>
             /\ Becomes(n, [job[n] EXCEPT !.pc = "starting", !.rel = live, !.image = rows[live].image, !.config = snap[live]])
    <2>1. /\ job'[n].app = job[n].app /\ job'[n].kind = job[n].kind /\ job'[n].pc = "starting" /\ job'[n].config = snap[live]
          /\ \A m \in Names : m # n => job'[m] = job[m]
      BY <1>1, <1>7 DEF Becomes, Job, Ground, LifeInv, JobsKnown
    <2> QED  BY <1>3, <1>7, <2>1
  <1>8. CASE /\ job[n].kind = "rollback" /\ UNCHANGED <<caller, unapplied>>
             /\ \E i \in RowsOf(job[n].app) \ {live} :
                  Becomes(n, [job[n] EXCEPT !.pc = "snapped", !.rel = NoRel, !.image = rows[i].image, !.config = snap[i]])
    BY <1>3, <1>4, <1>8
  <1> QED  BY <1>2, <1>5, <1>6, <1>7, <1>8 DEF Source

LEMMA SnapshotConf == ASSUME Ground, Conf, NEW n \in Names, Snapshot(n) PROVE Conf'
  <1>1. /\ job[n].pc = "sourced" /\ job'[n].pc = "snapped" /\ job'[n].kind = job[n].kind /\ job'[n].app = job[n].app
        /\ job'[n].config = config[job[n].app] /\ \A m \in Names : m # n => job'[m] = job[m]
    BY DEF Snapshot, At, Becomes, Job, Ground, LifeInv, JobsKnown
  <1>2. job[n].kind # "restart"
    BY <1>1, JobIs
  <1>3. JobRow(n)' /\ JobConf(n)'
    BY <1>1, <1>2 DEF Snapshot, JobRow, JobConf, Current, Late, rowVars
  <1> QED  BY <1>1, <1>3, ConfGoesOn DEF Snapshot, rowVars

\* A deploy records its release with the config it will run with.
LEMMA RecordConf == ASSUME Ground, Conf, NEW n \in Names, Record(n) PROVE Conf'
  <1> DEFINE j == job[n]
  <1>1. /\ j \in Job /\ j.app \in Apps /\ j.pc = "snapped" /\ Named(n) = {j.app} /\ j.kind # "restart"
        /\ snap \in [Ids -> 0 .. MaxConfig] /\ nameOf' = nameOf /\ config' = config /\ serving' = serving
    BY JobIs DEF Record, At, Ground, LifeInv, RowsTyped
  <1>2. CASE Ends(n, FALSE) /\ UNCHANGED <<storeVars, snap>>
    BY <1>1, <1>2, ConfOfFailure DEF storeVars
  <1>3. ASSUME NEW i \in Ids, CreateRelease(j.app, j.image, i), UNCHANGED <<caller, unapplied>>,
               snap' = [snap EXCEPT ![i] = j.config],
               Becomes(n, [j EXCEPT !.rel = i, !.pc = IF j.image = NoImage THEN "waiting" ELSE "starting"])
        PROVE  Conf'
    <2>1. /\ ~Exists(i) /\ rows'[i].status = IF j.image = NoImage THEN "building" ELSE "starting"
          /\ \A k \in Ids \ {i} : rows'[k] = rows[k]
      BY <1>1, <1>3, CreateReleaseRows DEF Job, Ground, LifeInv
    <2>2. UNCHANGED <<apps, liveRelease>>
      BY <1>3 DEF CreateRelease
    <2>3. \A k \in Ids : Exists(k) => rows'[k] = rows[k] /\ snap'[k] = snap[k]
      BY <1>1, <1>3, <2>1
    <2>4. /\ job'[n].pc = (IF j.image = NoImage THEN "waiting" ELSE "starting") /\ job'[n].kind = j.kind
          /\ job'[n].app = j.app /\ job'[n].rel = i /\ job'[n].config = j.config /\ snap'[i] = j.config
          /\ \A m \in Names : m # n => job'[m] = job[m]
      BY <1>1, <1>3 DEF Becomes, Job, Ground, LifeInv, JobsKnown
    <2>5. \A b, k : Current(b, k) => Current(b, k)'
      BY <1>1, <1>3 DEF Current, Pending
    <2>6. JobRow(n)'
      BY <1>1, <2>1, <2>4 DEF JobRow, Late
    <2>7. JobConf(n)'
      <3>1. JobConf(n)
        BY <1>1 DEF Conf, NameConf
      <3> QED  BY <1>1, <2>4, <2>5, <3>1 DEF JobConf
    <2>8. AppConf(n)'
      <3> SUFFICES ASSUME NEW b \in Named(n)'
                   PROVE  (/\ serving[n] # Nothing => liveRelease[b] # NoLive /\ serving[n].config = snap[liveRelease[b]]
                           /\ liveRelease[b] # NoLive =>
                                Current(b, snap[liveRelease[b]]) \/ (job[n].kind = "redeploy" /\ job[n].pc # "idle"))'
        BY DEF AppConf
      <3>1. b \in Named(n) /\ b \in Apps
        BY <1>1, <2>2 DEF Named
      <3>2. /\ serving[n] # Nothing => liveRelease[b] # NoLive /\ serving[n].config = snap[liveRelease[b]]
            /\ liveRelease[b] # NoLive => Current(b, snap[liveRelease[b]]) \/ j.kind = "redeploy"
        BY <1>1, <3>1 DEF Conf, NameConf, AppConf
      <3>3. liveRelease[b] # NoLive => snap'[liveRelease[b]] = snap[liveRelease[b]]
        <4> SUFFICES ASSUME liveRelease[b] # NoLive PROVE snap'[liveRelease[b]] = snap[liveRelease[b]]
          OBVIOUS
        <4>1. liveRelease[b] \in RowsOf(b) /\ liveRelease[b] \in Ids
          BY <3>1, LiveIsOwn DEF Ground
        <4> QED  BY <2>3, <4>1 DEF RowsOf
      <3> QED  BY <1>1, <2>2, <2>4, <2>5, <3>2, <3>3
    <2> QED  BY <1>1, <1>3, <2>2, <2>3, <2>4, <2>6, <2>7, <2>8, ConfOfDeploy
  <1> QED  BY <1>2, <1>3 DEF Record

LEMMA RecordImageConf == ASSUME Ground, Conf, NEW n \in Names, RecordImage(n) PROVE Conf'
  <1> DEFINE j == job[n]
  <1>1. /\ j \in Job /\ j.app \in Apps /\ j.pc = "built" /\ Named(n) = {j.app} /\ j.kind # "restart"
        /\ j.rel \in Ids /\ Exists(j.rel) /\ rows[j.rel].app = j.app /\ n \in Images \cup {NoImage}
    BY JobIs, NamesAssumption DEF RecordImage, At, Late, RowsOf
  <1>2. UNCHANGED <<nameOf, config, snap, serving, caller, unapplied>>
    BY DEF RecordImage, rowVars
  <1>3. CASE To(n, "failing") /\ UNCHANGED storeVars
    BY <1>1, <1>2, <1>3, ConfOfTo DEF Late
  <1>4. CASE MarkBuilt(j.rel, n) /\ Becomes(n, [j EXCEPT !.pc = "starting", !.image = n])
    <2>0. PICK i \in Ids : i = j.rel
      BY <1>1
    <2>1. MarkBuilt(i, n) /\ TypeOK
      BY <1>4, <2>0 DEF Ground, LifeInv
    <2>2. rows'[i].status = "starting" /\ \A k \in Ids \ {i} : rows'[k] = rows[k]
      BY <1>1, <2>1, MarkBuiltRows
    <2>3. UNCHANGED <<apps, liveRelease>>
      BY <1>4 DEF MarkBuilt
    <2>4. /\ job'[n].pc = "starting" /\ job'[n].kind = j.kind /\ job'[n].app = j.app
          /\ job'[n].rel = i /\ job'[n].config = j.config
          /\ \A m \in Names : m # n => job'[m] = job[m]
      BY <1>1, <1>4, <2>0 DEF Becomes, Job, Ground, LifeInv, JobsKnown
    <2>5. \A b, k : Current(b, k) => Current(b, k)'
      BY <1>2 DEF Current, Pending
    <2>6. JobRow(n) /\ JobConf(n) /\ AppConf(n)
      BY <1>1 DEF Conf, NameConf
    <2>7. JobRow(n)'
      BY <1>1, <1>2, <2>0, <2>2, <2>4, <2>6 DEF JobRow, Late
    <2>8. JobConf(n)'
      BY <1>1, <2>4, <2>5, <2>6 DEF JobConf
    <2>9. AppConf(n)'
      BY <1>1, <1>2, <2>3, <2>4, <2>5, <2>6 DEF AppConf, Named
    <2>10. \A k \in Ids : Exists(k) /\ rows[k].app # j.app => rows'[k] = rows[k]
      BY <1>1, <2>0, <2>2
    <2> QED  BY <1>1, <1>2, <2>3, <2>4, <2>7, <2>8, <2>9, <2>10, ConfOfDeploy
  <1> QED  BY <1>3, <1>4 DEF RecordImage

\* What is swapped in is what the deploy has, with the excuse it needs.
LEMMA SwapConf == ASSUME Ground, Conf, NEW n \in Names, Swap(n) PROVE Conf'
  <1> DEFINE j == job[n]
  <1>1. /\ j \in Job /\ j.app \in Apps /\ j.pc = "starting" /\ Named(n) = {j.app} /\ ~On(n, Passing)
        /\ j.config \in 0 .. MaxConfig
    BY JobIs DEF Swap, At
  <1>2. /\ job'[n].pc = "swapped" /\ job'[n].kind = j.kind /\ job'[n].app = j.app /\ job'[n].rel = j.rel
        /\ job'[n].config = j.config /\ \A m \in Names : m # n => job'[m] = job[m]
    BY ToMoves DEF Swap, Ground, LifeInv
  <1>3. /\ UNCHANGED <<apps, rows, liveRelease, nameOf, config, snap, caller>>
        /\ serving'[n].config = j.config /\ \A m \in Names : m # n => serving'[m] = serving[m]
    BY DEF Swap, storeVars, rowVars, Ground, LifeInv, RowsTyped
  <1>4. /\ \A b \in Apps : b # j.app => (b \in unapplied => b \in unapplied')
        /\ j.config = config[j.app] \/ (j.app \in unapplied => j.app \in unapplied')
        /\ j.config # config[j.app] /\ j.kind = "rollback" => j.app \in unapplied'
    BY DEF Swap
  <1>5. JobRow(n) /\ JobConf(n) /\ AppConf(n)
    BY <1>1 DEF Conf, NameConf
  <1>6. Current(j.app, j.config) \/ j.kind = "rollback"
    <2>1. CASE j.kind \in {"push", "redeploy"}
      BY <1>1, <1>5, <2>1 DEF JobConf
    <2>2. CASE j.kind = "restart"
      BY <1>1, <1>5, <2>2 DEF JobRow, AppConf
    <2> QED  BY <1>1, <2>1, <2>2 DEF Job
  <1>7. Current(j.app, j.config)'
    <2>1. CASE j.config = config[j.app]
      BY <1>2, <1>3, <2>1 DEF Current
    <2>2. CASE j.config # config[j.app]
      BY <1>2, <1>3, <1>4, <1>6, <2>2 DEF Current, Pending
    <2> QED  BY <2>1, <2>2
  <1>8. JobRow(n)'
    BY <1>1, <1>2, <1>3, <1>5 DEF JobRow, Late
  <1>9. JobConf(n)'
    BY <1>2, <1>3, <1>7 DEF JobConf
  <1>10. AppConf(n)'
    BY <1>2 DEF AppConf
  <1>11. ~On(n, Passing)'
    BY <1>1, <1>3 DEF On
  <1> QED  BY <1>1, <1>2, <1>3, <1>4, <1>8, <1>9, <1>10, <1>11, ConfOfDeploy

\* What was swapped in becomes the live release, or was it.
LEMMA CommitConf == ASSUME Ground, Conf, NEW n \in Names, Commit(n) PROVE Conf'
  <1> DEFINE j == job[n]
  <1>1. /\ j \in Job /\ j.app \in Apps /\ j.pc = "swapped" /\ Named(n) = {j.app} /\ j.rel \in Ids
        /\ j.kind # "restart" => j.rel \in RowsOf(j.app)
    BY JobIs DEF Commit, At, Late
  <1>2. JobRow(n) /\ JobConf(n)
    BY <1>1 DEF Conf, NameConf
  <1>3. serving[n].config = j.config /\ Current(j.app, j.config)
    BY <1>1, <1>2 DEF JobConf
  <1>4. /\ \A b \in Apps : b \in unapplied => b \in unapplied'
        /\ \A b \in Apps : \A k : Current(b, k) => Current(b, k)'
        /\ \A c \in Callers : caller'[c] = caller[c] \/ (caller'[c].pc = "none" /\ caller[c].pc = "deploying")
    BY EndsLeaves DEF Commit, rowVars
  <1>5. job'[n].pc = "idle" /\ \A m \in Names : m # n => job'[m] = job[m]
    BY EndsMoves DEF Commit, Ground, LifeInv
  <1>6. UNCHANGED <<apps, nameOf, config, snap, serving>>
    BY DEF Commit, SetLive, storeVars, rowVars
  <1>7. /\ \A b \in Apps : b # j.app => liveRelease'[b] = liveRelease[b]
        /\ liveRelease'[j.app] # NoLive /\ snap[liveRelease'[j.app]] = j.config
        /\ \A i \in Ids : Exists(i) /\ rows[i].app # j.app => rows'[i] = rows[i]
    <2>1. CASE j.kind = "restart"
      BY <1>1, <1>2, <2>1 DEF Commit, JobRow, storeVars
    <2>2. CASE j.kind # "restart"
      <3>1. HasStatus(j.rel, {"starting"}) /\ rows[j.rel].app = j.app /\ snap[j.rel] = j.config
        BY <1>1, <1>2, <2>2 DEF JobRow, HasStatus, RowsOf, Late
      <3>2. SetLive(j.app, j.rel)
        BY <2>2, <3>1 DEF Commit
      <3>3. liveRelease' = [liveRelease EXCEPT ![j.app] = j.rel] /\ rows' = LiveAndSuperseded(j.app, j.rel)
        BY <3>2 DEF SetLive
      <3>4. liveRelease \in [Apps -> Ids \cup {NoLive}] /\ j.rel # NoLive
        BY <1>1 DEF Ground, LifeInv, TypeOK, Ids, NoLive
      <3>5. \A i \in Ids : Exists(i) /\ rows[i].app # j.app => rows'[i] = rows[i]
        BY <3>1, <3>3 DEF LiveAndSuperseded, RowsOf
      <3> QED  BY <1>1, <3>1, <3>3, <3>4, <3>5
    <2> QED  BY <2>1, <2>2
  <1>8. AppConf(n)'
    <2> SUFFICES ASSUME NEW b \in Named(n)'
                 PROVE  (/\ serving[n] # Nothing => liveRelease[b] # NoLive /\ serving[n].config = snap[liveRelease[b]]
                         /\ liveRelease[b] # NoLive => Current(b, snap[liveRelease[b]]))'
      BY DEF AppConf
    <2>1. b = j.app
      BY <1>1, <1>6 DEF Named
    <2>2. Current(b, j.config)
      BY <1>3, <2>1
    <2>3. liveRelease'[b] # NoLive /\ snap'[liveRelease'[b]] = j.config /\ serving'[n].config = j.config
      BY <1>3, <1>6, <1>7, <2>1
    <2>4. b \in unapplied' \/ j.config = config'[b] \/ Pending(b)'
      <3>1. PICK k : k = j.config
        OBVIOUS
      <3>2. b \in Apps /\ (Current(b, k) => Current(b, k)')
        BY <1>1, <1>4, <2>1
      <3> QED  BY <2>2, <3>1, <3>2 DEF Current
    <2> QED  BY <2>3, <2>4 DEF Current
  <1> QED  BY <1>1, <1>4, <1>5, <1>6, <1>7, <1>8, ConfOfDeploy DEF Passing

\* No step takes back that it met another half-way.
LEMMA CrossedGrows == [LifeNext]_vars => crossed \subseteq crossed'
  <1> SUFFICES ASSUME [LifeNext]_vars PROVE crossed \subseteq crossed'
    OBVIOUS
  <1>1. ASSUME NEW c \in Callers, CallerStep(c) PROVE crossed \subseteq crossed'
    BY <1>1 DEF CallerStep, MakeRepo, UndoCreate, Retire, DeleteRows, RemoveRepo, SaveConfig, LookLive, RefuseRedeploy, Crosses
  <1>2. ASSUME NEW c \in Callers, NEW n \in Names, NEW a \in Apps,
               CallCreate(c, n, a) \/ CallDestroy(c, n, a) \/ CallConfig(c, n, a)
        PROVE  crossed \subseteq crossed'
    BY <1>2 DEF CallCreate, CallDestroy, CallConfig, Crosses
  <1>3. ASSUME NEW n \in Names, NEW a \in Apps,
               TakeRedeploy(n, a) \/ \E kind \in {"push", "rollback", "restart"} : TakeCall(n, kind, a)
        PROVE  crossed \subseteq crossed'
    BY <1>3 DEF TakeRedeploy, TakeCall, Take, Crosses
  <1>4. ASSUME NEW n \in Names, DeployStep(n) PROVE crossed \subseteq crossed'
    BY <1>4 DEF DeployStep, Source, Snapshot, Record, AcquireSlot, LeaveQueue, BuildEnds, BuildPanics, RecordImage,
                LaunchFails, Swap, Commit, Fail
  <1>5. CASE UNCHANGED vars
    BY <1>5 DEF vars, lifeVars
  <1> QED  BY <1>1, <1>2, <1>3, <1>4, <1>5 DEF LifeNext

LEMMA ConfStep ==
  LifeInv /\ RepoInv /\ OwnInv /\ ConfInv /\ [LifeNext]_vars => ConfInv'
  <1> SUFFICES ASSUME LifeInv, RepoInv, OwnInv, ConfInv, [LifeNext]_vars, Calm' PROVE Conf'
    BY DEF ConfInv
  <1>0. LifeInv' /\ crossed \subseteq crossed'
    BY LifeStep, CrossedGrows
  <1>1. Ground /\ Conf
    BY <1>0 DEF Ground, OwnInv, RepoInv, ConfInv, Calm
  <1>2. ASSUME NEW c \in Callers, CallerStep(c) PROVE Conf'
    BY <1>1, <1>2, MakeRepoConf, UndoCreateConf, RetireConf, DeleteRowsConf, RemoveRepoConf, SaveConfigConf,
       LookLiveConf, RefuseRedeployConf DEF CallerStep
  <1>3. ASSUME NEW c \in Callers, NEW n \in Names, NEW a \in Apps,
               CallCreate(c, n, a) \/ CallDestroy(c, n, a) \/ CallConfig(c, n, a)
        PROVE  Conf'
    BY <1>0, <1>1, <1>3, CallCreateConf, CallDestroyConf, CallConfigConf
  <1>4. ASSUME NEW n \in Names, NEW a \in Apps,
               TakeRedeploy(n, a) \/ \E kind \in {"push", "rollback", "restart"} : TakeCall(n, kind, a)
        PROVE  Conf'
    BY <1>1, <1>4, TakeRedeployConf, TakeCallConf
  <1>5. ASSUME NEW n \in Names, DeployStep(n) PROVE Conf'
    BY <1>1, <1>5, SourceConf, SnapshotConf, RecordConf, AcquireSlotConf, LeaveQueueConf, BuildEndsConf,
       BuildPanicsConf, RecordImageConf, LaunchFailsConf, SwapConf, CommitConf, FailConf DEF DeployStep
  <1>6. CASE UNCHANGED vars
    <2>1. \A a \in Apps, k \in 0 .. MaxConfig : Current(a, k) => Current(a, k)'
      BY <1>6, CurrentKept DEF vars, rowVars, lifeVars
    <2> QED  BY <1>1, <1>6, <2>1, ConfOfCallers DEF vars, rowVars, lifeVars
  <1> QED  BY <1>2, <1>3, <1>4, <1>5, <1>6 DEF LifeNext

LEMMA ConfInitInv == LifeInit => ConfInv
  <1> SUFFICES ASSUME LifeInit PROVE Conf
    BY DEF ConfInv
  <1>1. apps = {} /\ \A n : Named(n) = {}
    BY DEF LifeInit, Init, Named
  <1>2. /\ \A c \in Callers : caller[c].pc = "none"
        /\ \A n \in Names : job[n].pc = "idle" /\ serving[n] = Nothing
    BY DEF LifeInit, NoCall, NoJob
  <1> QED  BY <1>1, <1>2 DEF Conf, CallersHold, NameConf, AppConf, NoneServes

\* The invariant: as long as nobody meets a create or a destroy half-way, what
\* serves an app is its live release, with the config that is stored, a reason for
\* an older one, or a change that is on its way.
THEOREM ConfInvariant == LifeSpec => []ConfInv
  <1>1. LifeInit => LifeInv /\ RepoInv /\ OwnInv
    BY LifeInitInv, RepoInitInv, OwnInitInv
  <1> QED  BY <1>1, ConfInitInv, ConfStep, OwnStep, LifeStep, RepoStep, PTL DEF LifeSpec

\* An app at rest runs with the config that is stored, unless its redeploy failed,
\* was refused or was not asked for (api/config.go:53-56, 88, 96-98), it was rolled
\* back, or a request met its create or destroy half-way.
THEOREM ChangesAreApplied == LifeSpec => []ConfigIsApplied
  <1>1. LifeInv /\ RepoInv /\ ConfInv => ConfigIsApplied
    <2> SUFFICES ASSUME LifeInv, RepoInv, ConfInv, NEW a \in apps, NEW n \in Names, n = nameOf[a],
                        At(n, "idle"), ~On(n, {"config", "saved", "queued", "deploying"}), serving[n] # Nothing, Calm
                 PROVE  a \in unapplied \/ serving[n].config = config[a]
      BY DEF ConfigIsApplied, Calm, RepoInv, NamesAreUnique
    <2>1. a \in Named(n) /\ CallersHold /\ AppConf(n)
      BY DEF Named, ConfInv, Conf, NameConf
    <2>2. ~Pending(a)
      <3> SUFFICES ASSUME NEW c \in Callers, caller[c].pc \in {"saved", "queued"}, caller[c].app = a PROVE FALSE
        BY DEF Pending
      <3>1. caller[c].name = n
        BY <2>1 DEF CallersHold, Named
      <3> QED  BY <3>1 DEF On
    <2> QED  BY <2>1, <2>2 DEF AppConf, At, Current
  <1> QED  BY <1>1, RepoInitInv, RepoStep, LifeInvariance, ConfInvariant, PTL DEF LifeSpec
=============================================================================
