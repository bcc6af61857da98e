-------------------------- MODULE SupervisorProofs --------------------------
(***************************************************************************)
(* What one app's supervisor guarantees: proved for every number of        *)
(* callers, releases, instances and shutdowns and every crash threshold,   *)
(* and for every set of faults but those a theorem's hypothesis names.     *)
(***************************************************************************)
EXTENDS Supervisor, TLAPS

-----------------------------------------------------------------------------
(* Types.  A step disturbs few of the parts of TypeOK; Kept carries the    *)
(* others over.                                                            *)

\* The live pointer leads to a row: what a restart or a redeploy reads there
\* is an image.
LiveExists == live # None => Store!Exists(live)

StorePart == Store!TypeOK /\ LiveExists
JobPart   == /\ pc \in Pcs /\ job \in Job
             /\ pc \in {"health", "check", "swap"} => job.cand # None
WatchPart == watching \subseteq Insts /\ exits \subseteq Insts /\ draining \subseteq Insts
RoutePart == route \in Insts \cup {None}
CallsPart == calls \in [Callers -> Call]

TypeInv ==
  /\ StorePart /\ RuntimeTypeOK /\ DaemonTypeOK /\ ActorTypeOK
  /\ JobPart /\ WatchPart /\ RoutePart /\ CallsPart

\* A part whose variables a step leaves alone stays true.
LEMMA Kept ==
  ASSUME TypeInv
  PROVE  /\ UNCHANGED storeVars   => StorePart'
         /\ UNCHANGED runtimeVars => RuntimeTypeOK'
         /\ UNCHANGED daemonVars  => DaemonTypeOK'
         /\ UNCHANGED actorVars   => ActorTypeOK'
         /\ UNCHANGED jobVars     => JobPart'
         /\ UNCHANGED watchVars   => WatchPart'
         /\ UNCHANGED route       => RoutePart'
         /\ UNCHANGED calls       => CallsPart'
<1>1. UNCHANGED storeVars => StorePart'
  BY DEF TypeInv, StorePart, storeVars, LiveExists, live, Store!TypeOK, Store!Exists
<1>2. UNCHANGED runtimeVars => RuntimeTypeOK'
  BY DEF TypeInv, RuntimeTypeOK, runtimeVars
<1>3. UNCHANGED daemonVars => DaemonTypeOK'
  BY DEF TypeInv, DaemonTypeOK, daemonVars
<1>4. UNCHANGED actorVars => ActorTypeOK'
  BY DEF TypeInv, ActorTypeOK, actorVars
<1>5. UNCHANGED jobVars => JobPart'
  BY DEF TypeInv, JobPart, jobVars
<1>6. UNCHANGED watchVars => WatchPart'
  BY DEF TypeInv, WatchPart, watchVars
<1>7. UNCHANGED route => RoutePart'
  BY DEF TypeInv, RoutePart
<1>8. UNCHANGED calls => CallsPart'
  BY DEF TypeInv, CallsPart
<1>. QED
  BY <1>1, <1>2, <1>3, <1>4, <1>5, <1>6, <1>7, <1>8

\* A call that is over is still a call.
LEMMA OverTypes ==
  ASSUME CallsPart, NEW c \in Callers, NEW verdict \in Phases
  PROVE  Over(calls[c], verdict) \in Call
<1>1. calls[c] \in Call
  BY DEF CallsPart
<1>. QED
  BY <1>1 DEF Over, Call

\* The end of the process breaks the connections and says nothing else.
LEMMA ProcessGoneCalls ==
  ASSUME TypeInv, ProcessGone, NEW c \in Callers
  PROVE  /\ calls'[c].kind = calls[c].kind /\ calls'[c].row = calls[c].row
         /\ calls'[c].phase = IF calls[c].phase \in {"waiting", "taken", "unrouting", "deleting"}
                              THEN "broken" ELSE calls[c].phase
<1>1. calls[c] \in Call
  BY DEF TypeInv, CallsPart
<1>2. calls'[c] = IF calls[c].phase \in {"waiting", "taken", "unrouting", "deleting"}
                  THEN Over(calls[c], "broken") ELSE calls[c]
  BY DEF ProcessGone
<1>. QED
  BY <1>1, <1>2 DEF Over, Call

\* A reply to a caller keeps the job, the place and the callers typed.
LEMMA AnswerTypes ==
  ASSUME TypeInv, NEW verdict \in {"accepted", "rejected"}, Answer(verdict)
  PROVE  JobPart' /\ CallsPart'
<1>1. JobPart'
  BY DEF Answer, NoJob, Job, None, JobPart, Pcs
<1>2. CallsPart'
  <2> SUFFICES ASSUME NEW c \in Callers
               PROVE  (IF c = job.by THEN Over(calls[c], verdict) ELSE calls[c]) \in Call
    BY DEF Answer, CallsPart
  <2>1. Over(calls[c], verdict) \in Call
    BY OverTypes DEF Phases, TypeInv
  <2>2. calls[c] \in Call
    BY DEF TypeInv, CallsPart
  <2>. QED
    BY <2>1, <2>2
<1>. QED
  BY <1>1, <1>2

\* Counting a failure keeps the counters and the status typed.
LEMMA CountTypes ==
  ASSUME ActorTypeOK, CountFailure
  PROVE  /\ retry' \in BOOLEAN /\ failures' \in Nat
         /\ status' \in {"none", "starting", "running", "restarting", "crashed"}
<1>1. PICK n \in FailureCounts :
        /\ failures' = n
        /\ IF n >= CrashThreshold
           THEN status' = "crashed" /\ UNCHANGED retry
           ELSE status' = "restarting" /\ retry' = TRUE
  BY DEF CountFailure
<1>2. failures \in Nat /\ retry \in BOOLEAN
  BY DEF ActorTypeOK
<1>3. n \in Nat
  BY <1>2 DEF FailureCounts
<1>. QED
  BY <1>1, <1>2, <1>3

\* A deploy that returns an error keeps every type of the actor.
LEMMA RejectTypes ==
  ASSUME TypeInv, Reject
  PROVE  JobPart' /\ CallsPart' /\ ActorTypeOK'
<1>1. JobPart' /\ CallsPart'
  BY AnswerTypes DEF Reject
<1>2. ActorTypeOK
  BY DEF TypeInv
<1>3. UNCHANGED <<current, exited>>
  BY DEF Reject
<1>4. CASE job.by = "retry"
  <2>1. CountFailure
    BY <1>4 DEF Reject
  <2>. QED
    BY <1>1, <1>2, <1>3, <2>1, CountTypes DEF ActorTypeOK
<1>5. CASE job.by # "retry"
  <2>1. UNCHANGED failVars
    BY <1>5 DEF Reject
  <2>. QED
    BY <1>1, <1>2, <1>3, <2>1 DEF ActorTypeOK, failVars
<1>. QED
  BY <1>4, <1>5

\* So does launchAndSwap giving up, whichever of its two ways it takes.
LEMMA GiveUpTypes ==
  ASSUME TypeInv, GiveUp
  PROVE  JobPart' /\ CallsPart' /\ ActorTypeOK'
<1>1. CASE Reject
  BY <1>1, RejectTypes
<1>2. CASE /\ pc' = "fail"
           /\ job' = [job EXCEPT !.cand = None]
           /\ UNCHANGED <<actorVars, calls>>
  <2>1. JobPart'
    BY <1>2 DEF TypeInv, JobPart, Job, Pcs
  <2>. QED
    BY <1>2, <2>1, Kept
<1>. QED
  BY <1>1, <1>2 DEF GiveUp

\* A Stop, also one that fails, keeps the runtime typed.
LEMMA StopTypes ==
  ASSUME TypeInv, NEW i, Stop(i)
  PROVE  RuntimeTypeOK'
BY DEF TypeInv, RuntimeTypeOK, Stop

\* The callers that find the actor gone get a phase that is one.
LEMMA ActorGoneTypes ==
  ASSUME TypeInv
  PROVE  ActorGone \in [Callers -> Call]
<1> SUFFICES ASSUME NEW c \in Callers
             PROVE  ActorGone[c] \in Call
  BY DEF ActorGone
<1>1. calls[c] \in Call
  BY DEF TypeInv, CallsPart
<1>. QED
  BY <1>1 DEF ActorGone, Over, Call, Phases

\* What an actor that returns leaves behind has its types.
LEMMA RetiredTypes ==
  ASSUME Retired
  PROVE  pc' = "none" /\ ActorTypeOK' /\ watching' \subseteq Insts /\ exits' \subseteq Insts
BY DEF Retired, ActorTypeOK

\* What a daemon leaves behind has its types again.
LEMMA ProcessGoneTypes ==
  ASSUME TypeInv, ProcessGone, stops' \in 0 .. MaxStops
  PROVE  TypeInv'
<1>1. DaemonTypeOK'
  BY DEF ProcessGone, AllHandled, DaemonTypeOK
<1>2. JobPart' /\ ActorTypeOK' /\ WatchPart'
  BY RetiredTypes DEF ProcessGone, JobPart, WatchPart, NoJob, Job, None, Pcs
<1>3. CallsPart'
  <2> SUFFICES ASSUME NEW c \in Callers
               PROVE  (IF calls[c].phase \in {"waiting", "taken", "unrouting", "deleting"}
                       THEN Over(calls[c], "broken") ELSE calls[c]) \in Call
    BY DEF ProcessGone, CallsPart
  <2>1. Over(calls[c], "broken") \in Call
    BY OverTypes DEF TypeInv, Phases
  <2>2. calls[c] \in Call
    BY DEF TypeInv, CallsPart
  <2>. QED
    BY <2>1, <2>2
<1>. QED
  BY <1>1, <1>2, <1>3, Kept DEF ProcessGone, TypeInv, RoutePart

-----------------------------------------------------------------------------
(* The store's calls, on one app *)

\* A row of the table is a record of Row.
LEMMA RowAt ==
  ASSUME StorePart, NEW i \in Ids, Store!Exists(i)
  PROVE  rows[i] \in Store!Row
BY DEF StorePart, Store!TypeOK, Store!Exists, Store!Ids, Ids

\* Rewriting a row keeps the table's type and the live pointer.  The id of no
\* row, which a deploy holds before its row is made, is outside the table.
LEMMA RewriteTypes ==
  ASSUME StorePart, NEW i \in Ids \cup {None}, NEW row, i \in Ids => row \in Store!Row,
         rows' = [rows EXCEPT ![i] = row], UNCHANGED <<apps, liveRelease>>
  PROVE  StorePart'
<1>1. Store!TypeOK'
  BY DEF StorePart, Store!TypeOK, Store!Ids, Ids
<1>2. rows \in [Ids -> Store!Row \cup {NoRow}]
  BY DEF StorePart, Store!TypeOK, Store!Ids, Ids
<1>3. live' = live
  BY DEF live
<1>4. Store!Exists(live) => Store!Exists(live)'
  BY <1>2, <1>3, NoRowAssumption DEF Store!Exists
<1>. QED
  BY <1>1, <1>3, <1>4 DEF StorePart, LiveExists

\* Deleting the app keeps the tables typed and clears its live pointer.
LEMMA DeleteAppTypes ==
  ASSUME StorePart, Store!DeleteApp(App)
  PROVE  StorePart'
<1>1. Store!TypeOK'
  BY DEF StorePart, Store!TypeOK, Store!DeleteApp
<1>2. live' = None
  BY DEF StorePart, Store!TypeOK, Store!DeleteApp, live, Store!NoLive, None
<1>. QED
  BY <1>1, <1>2 DEF StorePart, LiveExists

\* A new row of the table is a row, and no other row goes.
LEMMA CreateReleaseTypes ==
  ASSUME StorePart, NEW image \in {Image, NoImage}, NEW i \in Ids, Store!CreateRelease(App, image, i)
  PROVE  StorePart'
<1>1. PICK v \in Store!Ids :
        rows' = [rows EXCEPT ![i] =
          [app |-> App, version |-> v, image |-> image,
           status |-> IF image = NoImage THEN "building" ELSE "starting"]]
  BY DEF Store!CreateRelease
<1>2. [app |-> App, version |-> v, image |-> image,
       status |-> IF image = NoImage THEN "building" ELSE "starting"] \in Store!Row
  BY DEF Store!Row, Store!Statuses
<1>3. UNCHANGED <<apps, liveRelease>>
  BY DEF Store!CreateRelease
<1>. QED
  BY <1>1, <1>2, <1>3, RewriteTypes

\* A release that is built keeps the tables typed.
LEMMA MarkBuiltTypes ==
  ASSUME StorePart, NEW i \in Ids \cup {None}, Store!MarkBuilt(i, Image)
  PROVE  StorePart'
<1> DEFINE row == Store!Built(rows[i], Image)
<1>1. i \in Ids => row \in Store!Row
  BY RowAt DEF Store!MarkBuilt, Store!HasStatus, Store!Built, Store!Row, Store!Statuses
<1>2. rows' = [rows EXCEPT ![i] = row] /\ UNCHANGED <<apps, liveRelease>>
  BY DEF Store!MarkBuilt
<1>. QED
  BY <1>1, <1>2, RewriteTypes

\* A release that fails keeps the tables typed and stays in them.
LEMMA MarkFailedTypes ==
  ASSUME StorePart, NEW i \in Ids \cup {None}, Store!MarkFailed(i)
  PROVE  StorePart'
<1> DEFINE row == [rows[i] EXCEPT !.status = "failed"]
<1>1. i \in Ids => row \in Store!Row
  BY RowAt DEF Store!MarkFailed, Store!HasStatus, Store!Row, Store!Statuses
<1>2. rows' = [rows EXCEPT ![i] = row] /\ UNCHANGED <<apps, liveRelease>>
  BY DEF Store!MarkFailed
<1>. QED
  BY <1>1, <1>2, RewriteTypes

\* After SetLive the live pointer leads to a row that exists.
LEMMA SetLiveTypes ==
  ASSUME StorePart, NEW i \in Ids \cup {None}, Store!SetLive(App, i)
  PROVE  StorePart'
<1>1. UNCHANGED apps /\ rows' = Store!LiveAndSuperseded(App, i)
      /\ liveRelease' = [liveRelease EXCEPT ![App] = i] /\ Store!Exists(i)
  BY DEF Store!SetLive, Store!HasStatus
<1>2. live' = i
  BY <1>1 DEF StorePart, Store!TypeOK, live
<1>3. ASSUME NEW j \in Ids
      PROVE  rows'[j] \in Store!Row \cup {NoRow} /\ (Store!Exists(j) => Store!Exists(j)')
  <2>1. CASE Store!Exists(j)
    <3>1. rows[j] \in Store!Row
      BY <2>1, RowAt
    <3>2. /\ [rows[j] EXCEPT !.status = "live"] \in Store!Row
          /\ [rows[j] EXCEPT !.status = "superseded"] \in Store!Row
      BY <3>1 DEF Store!Row, Store!Statuses
    <3>3. rows'[j] \in {[rows[j] EXCEPT !.status = "live"], [rows[j] EXCEPT !.status = "superseded"], rows[j]}
      BY <1>1 DEF Store!LiveAndSuperseded, Store!Ids, Ids
    <3>4. rows'[j] \in Store!Row
      BY <3>1, <3>2, <3>3
    <3>. QED
      BY <3>4, NoRowAssumption DEF Store!Exists
  <2>2. CASE ~Store!Exists(j)
    <3>1. j # i /\ j \notin Store!RowsOf(App)
      BY <1>1, <2>2 DEF Store!RowsOf
    <3>2. rows'[j] = rows[j]
      BY <1>1, <3>1 DEF Store!LiveAndSuperseded, Store!Ids, Ids
    <3>. QED
      BY <2>2, <3>2 DEF Store!Exists
  <2>. QED
    BY <2>1, <2>2
<1>4. Store!TypeOK'
  <2>1. rows' = [j \in Store!Ids |-> rows'[j]]
    BY <1>1 DEF Store!LiveAndSuperseded
  <2>2. rows' \in [Store!Ids -> Store!Row \cup {NoRow}]
    BY <1>3, <2>1 DEF Store!Ids, Ids
  <2>3. liveRelease' \in [{App} -> Store!Ids \cup {Store!NoLive}]
    BY <1>1 DEF StorePart, Store!TypeOK, Store!Ids, Ids, Store!NoLive, None
  <2>. QED
    BY <1>1, <2>2, <2>3 DEF StorePart, Store!TypeOK
<1>5. LiveExists'
  BY <1>1, <1>2, <1>3 DEF LiveExists
<1>. QED
  BY <1>4, <1>5 DEF StorePart

-----------------------------------------------------------------------------
(* One lemma per action *)

\* A request that reaches the queue preserves the types.
LEMMA RequestTypes ==
  ASSUME TypeInv, NEW c \in Callers, NEW k \in Kinds, Request(c, k)
  PROVE  TypeInv'
<1>1. CallsPart'
  BY KindsAssumption DEF Request, TypeInv, CallsPart, Call, Phases
<1>2. JobPart'
  BY DEF Request, TypeInv, JobPart, Job, Pcs
<1>. QED
  BY <1>1, <1>2, Kept DEF Request, TypeInv

\* A request to destroy preserves the types.
LEMMA RequestDestroyTypes ==
  ASSUME TypeInv, NEW c \in Callers, RequestDestroy(c)
  PROVE  TypeInv'
<1>1. CallsPart'
  BY DEF RequestDestroy, TypeInv, CallsPart, Call, Phases, AllKinds
<1>. QED
  BY <1>1, Kept DEF RequestDestroy, TypeInv

\* Removing the route of an app without an actor preserves the types.
LEMMA RemoveRouteTypes ==
  ASSUME TypeInv, NEW c \in Callers, RemoveRoute(c)
  PROVE  TypeInv'
<1>1. CallsPart'
  BY DEF RemoveRoute, TypeInv, CallsPart, Call, Phases
<1>2. RoutePart'
  BY DEF RemoveRoute, TypeInv, RoutePart
<1>. QED
  BY <1>1, <1>2, Kept DEF RemoveRoute, TypeInv

\* A caller that hangs up preserves the types.
LEMMA CancelTypes ==
  ASSUME TypeInv, NEW c \in Callers, Cancel(c)
  PROVE  TypeInv'
<1>1. CallsPart'
  BY DEF Cancel, TypeInv, CallsPart, Call, Phases
<1>. QED
  BY <1>1, Kept DEF Cancel, TypeInv

\* A caller that leaves the queue preserves the types.
LEMMA WithdrawTypes ==
  ASSUME TypeInv, NEW c \in Callers, Withdraw(c)
  PROVE  TypeInv'
<1>1. CallsPart'
  BY DEF Withdraw, TypeInv, CallsPart, Call, Phases
<1>. QED
  BY <1>1, Kept DEF Withdraw, TypeInv

\* Deleting the app's rows preserves the types.
LEMMA DeleteRowsTypes ==
  ASSUME TypeInv, NEW c \in Callers, DeleteRows(c)
  PROVE  TypeInv'
<1>1. StorePart'
  BY DeleteAppTypes, Kept DEF DeleteRows, TypeInv
<1>2. CallsPart'
  BY DEF DeleteRows, TypeInv, CallsPart, Call, Phases
<1>. QED
  BY <1>1, <1>2, Kept DEF DeleteRows, TypeInv

\* The actor's last act, destroy, preserves the types.
LEMMA DestroyTypes ==
  ASSUME TypeInv, NEW c \in Callers, Destroy(c)
  PROVE  TypeInv'
<1>1. JobPart' /\ ActorTypeOK' /\ WatchPart'
  BY RetiredTypes DEF Destroy, TypeInv, JobPart, WatchPart, Pcs
<1>2. CallsPart'
  <2>1. ActorGone \in [Callers -> Call]
    BY ActorGoneTypes
  <2>2. \E verdict \in {"deleting", "rejected"} : calls' = [ActorGone EXCEPT ![c].phase = verdict]
    BY DEF Destroy
  <2>. QED
    BY <2>1, <2>2 DEF CallsPart, Call, Phases
<1>3. RuntimeTypeOK'
  BY DEF Destroy, StopCurrent, TypeInv, RuntimeTypeOK
<1>4. DaemonTypeOK'
  BY DEF Destroy, TypeInv, DaemonTypeOK
<1>5. RoutePart'
  BY DEF Destroy, RoutePart
<1>. QED
  BY <1>1, <1>2, <1>3, <1>4, <1>5, Kept DEF Destroy, TypeInv

\* The image of a row, which the kinds without a build of their own run.
LEMMA ImageTypes ==
  ASSUME TypeInv, NEW i \in Ids, Store!Exists(i)
  PROVE  rows[i].image \in {Image, NoImage}
<1>1. rows[i] \in Store!Row
  BY RowAt DEF TypeInv
<1>. QED
  BY <1>1 DEF Store!Row

\* What a restart or a redeploy reads in the live row is an image.
LEMMA LiveImageTypes ==
  ASSUME TypeInv, live # None
  PROVE  live \in Ids /\ rows[live].image \in {Image, NoImage}
<1>1. live \in Ids
  BY DEF TypeInv, StorePart, Store!TypeOK, live, Store!Ids, Ids, Store!NoLive, None
<1>2. Store!Exists(live)
  BY DEF TypeInv, StorePart, LiveExists
<1>. QED
  BY <1>1, <1>2, ImageTypes

\* A restart that found its release preserves the types.
LEMMA PrepareRestartTypes ==
  ASSUME TypeInv, PrepareRestart
  PROVE  TypeInv'
<1>1. JobPart'
  BY LiveImageTypes DEF PrepareRestart, TypeInv, JobPart, Job, Pcs
<1>2. ActorTypeOK'
  <2>1. \/ retry' = FALSE /\ failures' = 0
        \/ UNCHANGED <<retry, failures>>
    BY DEF PrepareRestart
  <2>2. UNCHANGED <<current, exited, status>>
    BY DEF PrepareRestart
  <2>3. ActorTypeOK
    BY DEF TypeInv
  <2>4. CASE retry' = FALSE /\ failures' = 0
    BY <2>2, <2>3, <2>4 DEF ActorTypeOK
  <2>5. CASE UNCHANGED <<retry, failures>>
    BY <2>2, <2>3, <2>5 DEF ActorTypeOK
  <2>. QED
    BY <2>1, <2>4, <2>5
<1>. QED
  BY <1>1, <1>2, Kept DEF PrepareRestart, TypeInv

\* A new release that found its image preserves the types.
LEMMA PrepareReleaseTypes ==
  ASSUME TypeInv, PrepareRelease
  PROVE  TypeInv'
<1>1. PICK image \in {Image, NoImage} : job' = [job EXCEPT !.image = image]
  BY LiveImageTypes, ImageTypes DEF PrepareRelease
<1>2. JobPart'
  BY <1>1 DEF PrepareRelease, TypeInv, JobPart, Job, Pcs
<1>. QED
  BY <1>2, Kept DEF PrepareRelease, TypeInv

\* Making the row of a release preserves the types.
LEMMA CreateRowTypes ==
  ASSUME TypeInv, CreateRow
  PROVE  TypeInv'
<1>1. CASE Reject /\ UNCHANGED storeVars
  BY <1>1, RejectTypes, Kept DEF CreateRow, TypeInv
<1>2. ASSUME NEW i \in Ids, Store!CreateRelease(App, job.image, i),
             job' = [job EXCEPT !.row = i], calls' = [calls EXCEPT ![job.by].row = i],
             pc' \in {"build", "launch"}, UNCHANGED actorVars
      PROVE  TypeInv'
  <2>1. StorePart'
    BY <1>2, CreateReleaseTypes DEF TypeInv, JobPart, Job
  <2>2. JobPart'
    BY <1>2 DEF TypeInv, JobPart, Job, Pcs
  <2>3. CallsPart'
    BY <1>2 DEF TypeInv, CallsPart, Call
  <2>. QED
    BY <1>2, <2>1, <2>2, <2>3, Kept DEF CreateRow, TypeInv
<1>. QED
  BY <1>1, <1>2 DEF CreateRow

\* Recording what was built preserves the types.
LEMMA RecordImageTypes ==
  ASSUME TypeInv, RecordImage
  PROVE  TypeInv'
<1>1. StorePart'
  BY MarkBuiltTypes, Kept DEF RecordImage, TypeInv, JobPart, Job
<1>2. JobPart'
  BY DEF RecordImage, TypeInv, JobPart, Job, Pcs
<1>. QED
  BY <1>1, <1>2, Kept DEF RecordImage, TypeInv

\* Ending the row of a failed deploy preserves the types.
LEMMA FailRowTypes ==
  ASSUME TypeInv, FailRow
  PROVE  TypeInv'
<1>1. StorePart'
  BY MarkFailedTypes, Kept DEF FailRow, TypeInv, JobPart, Job
<1>. QED
  BY <1>1, RejectTypes, Kept DEF FailRow, TypeInv

\* Starting the candidate preserves the types: it is an instance.
LEMMA StartInstanceTypes ==
  ASSUME TypeInv, StartInstance
  PROVE  TypeInv'
<1>1. CASE GiveUp /\ UNCHANGED runtimeVars
  BY <1>1, GiveUpTypes, Kept DEF StartInstance, TypeInv
<1>2. ASSUME NEW i \in Insts, state' = [state EXCEPT ![i] = "up"],
             release' = [release EXCEPT ![i] = job.row], job' = [job EXCEPT !.cand = i],
             pc' = "health", UNCHANGED <<actorVars, calls>>
      PROVE  TypeInv'
  <2>1. RuntimeTypeOK'
    BY <1>2 DEF TypeInv, RuntimeTypeOK, JobPart, Job
  <2>2. JobPart'
    BY <1>2 DEF TypeInv, JobPart, Job, Pcs, Insts, None
  <2>. QED
    BY <1>2, <2>1, <2>2, Kept DEF StartInstance, TypeInv
<1>. QED
  BY <1>1, <1>2 DEF StartInstance

\* Taking a command off the queue preserves the types.
LEMMA TakeCommandTypes ==
  ASSUME TypeInv, NEW c \in Callers, TakeCommand(c)
  PROVE  TypeInv'
<1>1. CallsPart'
  BY DEF TakeCommand, TypeInv, CallsPart, Call, Phases
<1>2. JobPart'
  BY DEF TakeCommand, TypeInv, JobPart, Job, Pcs, Take, NoJob, None, CallsPart, Call
<1>. QED
  BY <1>1, <1>2, Kept DEF TakeCommand, TypeInv

\* Taking Reconcile's restart preserves the types.
LEMMA TakeBootTypes ==
  ASSUME TypeInv, TakeBoot
  PROVE  TypeInv'
<1>1. JobPart'
  BY DEF TakeBoot, TypeInv, JobPart, Job, Pcs, NoJob, None, AllKinds
<1>2. DaemonTypeOK'
  BY DEF TakeBoot, TypeInv, DaemonTypeOK
<1>. QED
  BY <1>1, <1>2, Kept DEF TakeBoot, TypeInv

\* A retry timer that fires preserves the types.
LEMMA FireRetryTypes ==
  ASSUME TypeInv, FireRetry
  PROVE  TypeInv'
<1>1. JobPart'
  BY DEF FireRetry, TypeInv, JobPart, Job, Pcs, Take, NoJob, None, AllKinds
<1>2. ActorTypeOK'
  BY DEF FireRetry, TypeInv, ActorTypeOK
<1>. QED
  BY <1>1, <1>2, Kept DEF FireRetry, TypeInv

\* A deploy refused before its row preserves the types.
LEMMA PrepareRefusedTypes ==
  ASSUME TypeInv, PrepareRefused
  PROVE  TypeInv'
<1>1. JobPart' /\ ActorTypeOK' /\ CallsPart'
  BY RejectTypes DEF PrepareRefused
<1>. QED
  BY <1>1, Kept DEF PrepareRefused, TypeInv

\* A build, failed or not, preserves the types.
LEMMA BuildTypes ==
  ASSUME TypeInv, Build
  PROVE  TypeInv'
<1>1. JobPart'
  BY DEF Build, TypeInv, JobPart, Job, Pcs, jobVars
<1>. QED
  BY <1>1, Kept DEF Build, TypeInv

\* Announcing the start of an instance preserves the types.
LEMMA LaunchTypes ==
  ASSUME TypeInv, Launch
  PROVE  TypeInv'
<1>1. JobPart'
  BY DEF Launch, TypeInv, JobPart, Job, Pcs
<1>2. ActorTypeOK'
  BY DEF Launch, TypeInv, ActorTypeOK
<1>. QED
  BY <1>1, <1>2, Kept DEF Launch, TypeInv

\* A release whose snapshots do not parse preserves the types.
LEMMA LaunchRefusedTypes ==
  ASSUME TypeInv, LaunchRefused
  PROVE  TypeInv'
<1>1. JobPart' /\ ActorTypeOK' /\ CallsPart'
  BY GiveUpTypes DEF LaunchRefused
<1>. QED
  BY <1>1, Kept DEF LaunchRefused, TypeInv

\* A healthy candidate preserves the types.
LEMMA HealthyTypes ==
  ASSUME TypeInv, Healthy
  PROVE  TypeInv'
<1>1. JobPart'
  BY DEF Healthy, TypeInv, JobPart, Job, Pcs
<1>. QED
  BY <1>1, Kept DEF Healthy, TypeInv

\* The context check before the swap preserves the types.
LEMMA PassCheckTypes ==
  ASSUME TypeInv, PassCheck
  PROVE  TypeInv'
<1>1. JobPart'
  BY DEF PassCheck, TypeInv, JobPart, Job, Pcs
<1>. QED
  BY <1>1, Kept DEF PassCheck, TypeInv

\* A panic caught by deploy's recover preserves the types.
LEMMA PanicTypes ==
  ASSUME TypeInv, Panic
  PROVE  TypeInv'
<1>1. JobPart' /\ ActorTypeOK' /\ CallsPart'
  BY RejectTypes DEF Panic
<1>. QED
  BY <1>1, Kept DEF Panic, TypeInv

\* An instance that ends by itself preserves the types.
LEMMA DieTypes ==
  ASSUME TypeInv, NEW i \in Insts, Die(i)
  PROVE  TypeInv'
<1>1. RuntimeTypeOK'
  BY DEF Die, TypeInv, RuntimeTypeOK
<1>. QED
  BY <1>1, Kept DEF Die, TypeInv

\* A watcher's report preserves the types.
LEMMA ReportTypes ==
  ASSUME TypeInv, NEW i \in Insts, Report(i)
  PROVE  TypeInv'
<1>1. WatchPart'
  BY DEF Report, TypeInv, WatchPart, Post
<1>. QED
  BY <1>1, Kept DEF Report, TypeInv

\* An exit of no interest preserves the types.
LEMMA IgnoreExitTypes ==
  ASSUME TypeInv, NEW i \in Insts, IgnoreExit(i)
  PROVE  TypeInv'
<1>1. WatchPart'
  BY DEF IgnoreExit, TypeInv, WatchPart
<1>. QED
  BY <1>1, Kept DEF IgnoreExit, TypeInv

\* The end of a drain preserves the types.
LEMMA RetireTypes ==
  ASSUME TypeInv, NEW i \in Insts, Retire(i)
  PROVE  TypeInv'
<1>1. RuntimeTypeOK'
  BY StopTypes DEF Retire
<1>2. WatchPart'
  BY DEF Retire, TypeInv, WatchPart
<1>. QED
  BY <1>1, <1>2, Kept DEF Retire, TypeInv

\* The listing at the start of the daemon preserves the types.
LEMMA StartDaemonTypes ==
  ASSUME TypeInv, StartDaemon
  PROVE  TypeInv'
<1>1. DaemonTypeOK'
  BY DEF StartDaemon, TypeInv, DaemonTypeOK, RuntimeTypeOK
<1>. QED
  BY <1>1, Kept DEF StartDaemon, TypeInv

\* A Reconcile that returns an error preserves the types.
LEMMA ReconcileFailsTypes ==
  ASSUME TypeInv, ReconcileFails
  PROVE  TypeInv'
<1>1. DaemonTypeOK'
  BY DEF ReconcileFails, TypeInv, DaemonTypeOK, AllHandled
<1>. QED
  BY <1>1, Kept DEF ReconcileFails, TypeInv

\* Keeping an instance for adoption preserves the types.
LEMMA SweepKeepTypes ==
  ASSUME TypeInv, NEW i \in Insts, SweepKeep(i)
  PROVE  TypeInv'
<1>1. DaemonTypeOK'
  BY DEF SweepKeep, TypeInv, DaemonTypeOK
<1>. QED
  BY <1>1, Kept DEF SweepKeep, TypeInv

\* Sweeping an instance away preserves the types.
LEMMA SweepRemoveTypes ==
  ASSUME TypeInv, NEW i \in Insts, SweepRemove(i)
  PROVE  TypeInv'
<1>1. RuntimeTypeOK'
  BY StopTypes, Kept DEF SweepRemove
<1>2. DaemonTypeOK'
  BY DEF SweepRemove, TypeInv, DaemonTypeOK
<1>. QED
  BY <1>1, <1>2, Kept DEF SweepRemove, TypeInv

\* The end of a sweep with nothing kept preserves the types.
LEMMA SweptRestartTypes ==
  ASSUME TypeInv, SweptRestart
  PROVE  TypeInv'
<1>1. DaemonTypeOK'
  BY DEF SweptRestart, TypeInv, DaemonTypeOK
<1>. QED
  BY <1>1, Kept DEF SweptRestart, TypeInv

\* Opening the listeners preserves the types.
LEMMA ServeTypes ==
  ASSUME TypeInv, Serve
  PROVE  TypeInv'
<1>1. DaemonTypeOK'
  BY DEF Serve, TypeInv, DaemonTypeOK
<1>. QED
  BY <1>1, Kept DEF Serve, TypeInv

\* Giving up on a candidate preserves the types.
LEMMA AbandonTypes ==
  ASSUME TypeInv, Abandon
  PROVE  TypeInv'
<1>1. JobPart' /\ ActorTypeOK' /\ CallsPart'
  BY GiveUpTypes DEF Abandon
<1>2. RuntimeTypeOK'
  BY StopTypes DEF Abandon
<1>. QED
  BY <1>1, <1>2, Kept DEF Abandon, TypeInv

\* The swap preserves the types: the candidate is an instance.
LEMMA SwapTypes ==
  ASSUME TypeInv, Swap
  PROVE  TypeInv'
<1>1. JobPart' /\ CallsPart'
  <2>1. CASE Accept
    BY <2>1, AnswerTypes DEF Accept
  <2>2. CASE pc' = "setlive" /\ UNCHANGED <<job, calls>>
    BY <2>2 DEF TypeInv, JobPart, CallsPart, Pcs
  <2>. QED
    BY <2>1, <2>2 DEF Swap
<1>2. job.cand \in Insts
  BY DEF Swap, TypeInv, JobPart, Job
<1>3. ActorTypeOK'
  BY <1>2 DEF Swap, DropRetry, TypeInv, ActorTypeOK
<1>4. RoutePart'
  BY <1>2 DEF Swap, RoutePart
<1>5. WatchPart'
  BY <1>2 DEF Swap, StartWatcher, ToRetire, TypeInv, WatchPart, ActorTypeOK
<1>. QED
  BY <1>1, <1>3, <1>4, <1>5, Kept DEF Swap, TypeInv

\* Adoption preserves the types: what was kept is an instance.
LEMMA SweptAdoptTypes ==
  ASSUME TypeInv, SweptAdopt
  PROVE  TypeInv'
<1>1. keep \in Insts
  BY DEF SweptAdopt, TypeInv, DaemonTypeOK
<1>2. DaemonTypeOK'
  BY DEF SweptAdopt, TypeInv, DaemonTypeOK
<1>3. JobPart' /\ ActorTypeOK' /\ WatchPart' /\ RoutePart'
  BY <1>1 DEF SweptAdopt, TypeInv, JobPart, Pcs, ActorTypeOK, WatchPart, RoutePart
<1>. QED
  BY <1>2, <1>3, Kept DEF SweptAdopt, TypeInv

\* An adoption that fails preserves the types.
LEMMA AdoptFailsTypes ==
  ASSUME TypeInv, AdoptFails
  PROVE  TypeInv'
<1>1. DaemonTypeOK'
  BY DEF AdoptFails, TypeInv, DaemonTypeOK
<1>2. JobPart'
  BY DEF AdoptFails, TypeInv, JobPart, Pcs
<1>. QED
  BY <1>1, <1>2, Kept DEF AdoptFails, TypeInv

\* Recording the live release preserves the types.
LEMMA RecordLiveTypes ==
  ASSUME TypeInv, RecordLive
  PROVE  TypeInv'
<1>1. StorePart'
  BY SetLiveTypes, Kept DEF RecordLive, TypeInv, JobPart, Job
<1>2. JobPart' /\ CallsPart'
  BY AnswerTypes DEF RecordLive, Accept
<1>. QED
  BY <1>1, <1>2, Kept DEF RecordLive, TypeInv

\* The current instance's exit preserves the types.
LEMMA OnExitTypes ==
  ASSUME TypeInv, NEW i \in Insts, OnExit(i)
  PROVE  TypeInv'
<1>1. RuntimeTypeOK'
  BY StopTypes DEF OnExit
<1>2. ActorTypeOK'
  BY CountTypes DEF OnExit, TypeInv, ActorTypeOK
<1>3. WatchPart' /\ RoutePart'
  BY DEF OnExit, LeaveRoute, TypeInv, WatchPart, RoutePart
<1>. QED
  BY <1>1, <1>2, <1>3, Kept DEF OnExit, TypeInv

\* Ending a release a crash cut off preserves the types.
LEMMA MarkCutOffTypes ==
  ASSUME TypeInv, NEW i \in Ids, MarkCutOff(i)
  PROVE  TypeInv'
<1>1. StorePart'
  BY MarkFailedTypes DEF MarkCutOff, TypeInv
<1>. QED
  BY <1>1, Kept DEF MarkCutOff, TypeInv

\* A shutdown asked for during Reconcile preserves the types.
LEMMA InterruptTypes ==
  ASSUME TypeInv, Interrupt
  PROVE  TypeInv'
<1>1. DaemonTypeOK'
  BY BoundsAssumption DEF Interrupt, TypeInv, DaemonTypeOK
<1>. QED
  BY <1>1, Kept DEF Interrupt, TypeInv

\* The beginning of a shutdown preserves the types.
LEMMA ShutdownTypes ==
  ASSUME TypeInv, Shutdown
  PROVE  TypeInv'
<1>1. DaemonTypeOK'
  BY BoundsAssumption DEF Shutdown, TypeInv, DaemonTypeOK
<1>2. CallsPart'
  <2> SUFFICES ASSUME NEW c \in Callers
               PROVE  (IF calls[c].kind = "push" /\ calls[c].phase \in {"waiting", "taken"}
                       THEN [calls[c] EXCEPT !.cancelled = TRUE] ELSE calls[c]) \in Call
    BY DEF Shutdown, CallsPart
  <2>1. calls[c] \in Call
    BY DEF TypeInv, CallsPart
  <2>. QED
    BY <2>1 DEF Call
<1>. QED
  BY <1>1, <1>2, Kept DEF Shutdown, TypeInv

\* An actor that ends with the supervisor preserves the types.
LEMMA ActorQuitTypes ==
  ASSUME TypeInv, ActorQuit
  PROVE  TypeInv'
<1>1. JobPart' /\ ActorTypeOK' /\ WatchPart'
  BY RetiredTypes DEF ActorQuit, TypeInv, JobPart, WatchPart, Pcs
<1>2. CallsPart'
  BY ActorGoneTypes DEF ActorQuit, CallsPart
<1>. QED
  BY <1>1, <1>2, Kept DEF ActorQuit, TypeInv

\* A daemon that has shut down preserves the types.
LEMMA ExitTypes ==
  ASSUME TypeInv, Exit
  PROVE  TypeInv'
<1>1. stops' \in 0 .. MaxStops
  BY DEF Exit, TypeInv, DaemonTypeOK
<1>. QED
  BY <1>1, ProcessGoneTypes DEF Exit

\* A crash preserves the types.
LEMMA CrashTypes ==
  ASSUME TypeInv, Crash
  PROVE  TypeInv'
<1>1. stops' \in 0 .. MaxStops
  BY BoundsAssumption DEF Crash, TypeInv, DaemonTypeOK
<1>. QED
  BY <1>1, ProcessGoneTypes DEF Crash

\* The initial states have their types.
LEMMA InitTypes ==
  ASSUME Init
  PROVE  TypeInv
<1>1. StorePart
  <2>1. apps = {App}
    BY DEF Init
  <2>2. CASE rows = [i \in Ids |-> NoRow] /\ liveRelease = [a \in {App} |-> None]
    BY <2>1, <2>2 DEF StorePart, LiveExists, live, Store!TypeOK, Store!Ids, Ids, Store!NoLive, None
  <2>3. CASE /\ rows = [i \in Ids |-> IF i = 1 THEN
                  [app |-> App, version |-> 1, image |-> Image, status |-> "live"] ELSE NoRow]
             /\ liveRelease = [a \in {App} |-> 1]
    <3>1. 1 \in Ids
      BY BoundsAssumption DEF Ids
    <3>2. [app |-> App, version |-> 1, image |-> Image, status |-> "live"] \in Store!Row
      BY <3>1 DEF Store!Row, Store!Statuses, Store!Ids, Ids
    <3>3. Store!TypeOK
      BY <2>1, <2>3, <3>1, <3>2 DEF Store!TypeOK, Store!Ids, Ids
    <3>4. live = 1
      BY <2>3 DEF live
    <3>5. Store!Exists(1)
      BY <2>3, <3>1, <3>2, NoRowAssumption DEF Store!Exists
    <3>. QED
      BY <3>3, <3>4, <3>5 DEF StorePart, LiveExists
  <2>. QED
    BY <2>2, <2>3 DEF Init
<1>2. RuntimeTypeOK
  <2>1. 1 \in Ids
    BY BoundsAssumption DEF Ids
  <2>2. release \in [Insts -> Ids \cup {None}]
    BY <2>1 DEF Init
  <2>3. state \in [Insts -> {"none", "up", "dead"}]
    <3>1. CASE state = [i \in Insts |-> "none"]
      BY <3>1
    <3>2. ASSUME NEW st \in {"none", "up", "dead"}, state = [i \in Insts |-> IF i = 1 THEN st ELSE "none"]
          PROVE  state \in [Insts -> {"none", "up", "dead"}]
      BY <3>2
    <3>. QED
      BY <3>1, <3>2 DEF Init
  <2>. QED
    BY <2>2, <2>3 DEF RuntimeTypeOK
<1>3. DaemonTypeOK
  <2>1. daemon = "down" /\ interrupted = FALSE /\ stops = 0 /\ found = AllHandled /\ keep = None /\ boot = FALSE
    BY DEF Init
  <2>2. stops \in 0 .. MaxStops
    BY <2>1, BoundsAssumption
  <2>3. found \in [Insts -> {"handled", "up", "dead"}]
    BY <2>1 DEF AllHandled
  <2>. QED
    BY <2>1, <2>2, <2>3 DEF DaemonTypeOK
<1>4. JobPart
  BY DEF Init, JobPart, NoJob, Job, None, Pcs
<1>5. ActorTypeOK /\ WatchPart /\ RoutePart
  BY DEF Init, ActorTypeOK, WatchPart, RoutePart
<1>6. CallsPart
  BY DEF Init, CallsPart, NoCall, Call, Phases, None
<1>. QED
  BY <1>1, <1>2, <1>3, <1>4, <1>5, <1>6 DEF TypeInv

-----------------------------------------------------------------------------
(* The invariants and the action property *)

\* TypeInv is inductive: every action keeps every part of it.
THEOREM TypeInvariant == Spec => []TypeInv
<1>1. Init => TypeInv
  BY InitTypes
<1>2. TypeInv /\ [Next]_vars => TypeInv'
  <2> SUFFICES ASSUME TypeInv, [Next]_vars
               PROVE  TypeInv'
    OBVIOUS
  <2>1. ASSUME NEW c \in Callers, CallerStep(c) \/ TakeCommand(c) \/ Destroy(c)
        PROVE  TypeInv'
    BY <2>1, RequestTypes, RequestDestroyTypes, CancelTypes, WithdrawTypes, RemoveRouteTypes,
       DeleteRowsTypes, TakeCommandTypes, DestroyTypes DEF CallerStep
  <2>2. CASE DeployStep
    BY <2>2, PrepareRefusedTypes, PrepareRestartTypes, PrepareReleaseTypes, CreateRowTypes,
       BuildTypes, RecordImageTypes, FailRowTypes, LaunchTypes, LaunchRefusedTypes, StartInstanceTypes, HealthyTypes,
       AbandonTypes, PassCheckTypes, SwapTypes, RecordLiveTypes DEF DeployStep
  <2>3. CASE TakeBoot \/ FireRetry \/ ExitStep \/ ActorQuit \/ Panic
    BY <2>3, TakeBootTypes, FireRetryTypes, IgnoreExitTypes, OnExitTypes, ActorQuitTypes,
       PanicTypes DEF ExitStep
  <2>4. ASSUME NEW i \in Insts, Die(i) \/ Report(i) \/ Retire(i)
        PROVE  TypeInv'
    BY <2>4, DieTypes, ReportTypes, RetireTypes
  <2>5. CASE StartDaemon \/ ReconcileStep \/ ReconcileFails
    BY <2>5, StartDaemonTypes, SweepKeepTypes, SweepRemoveTypes, SweptAdoptTypes, AdoptFailsTypes,
       SweptRestartTypes, MarkCutOffTypes, ServeTypes, ReconcileFailsTypes DEF ReconcileStep
  <2>6. CASE Interrupt \/ Shutdown \/ Exit \/ Crash
    BY <2>6, InterruptTypes, ShutdownTypes, ExitTypes, CrashTypes
  <2>7. CASE UNCHANGED vars
    BY <2>7, Kept DEF vars, TypeInv
  <2>. QED
    BY <2>1, <2>2, <2>3, <2>4, <2>5, <2>6, <2>7 DEF Next
<1>. QED
  BY <1>1, <1>2, PTL DEF Spec

\* The state keeps its type, whatever fails.
THEOREM TypeCorrect == Spec => []TypeOK
<1>1. TypeInv => TypeOK
  BY DEF TypeInv, TypeOK, StorePart, JobPart, WatchPart, RoutePart, CallsPart
<1>. QED
  BY <1>1, TypeInvariant, PTL

\* What the actor's loop keeps, and why a scheduled restart never replaces an
\* instance that runs: only the exit of the current instance, and a scheduled
\* restart of it that failed, schedule one.
ActorInv ==
  /\ RetryOnlyForDead
  /\ CurrentIsWatched
  /\ job.by = "retry" => job.kind = "restart" /\ current # None /\ exited
  /\ pc \in {"none", "idle"} => job.by = Nobody
  /\ pc = "none" => current = None /\ ~retry
  /\ daemon \in {"down", "sweeping"} => pc = "none"

\* The steps of callers, instances and the sweep leave the actor alone.
LEMMA OthersKeepActor ==
  ASSUME ActorInv, UNCHANGED <<pc, job, current, exited, retry, watching, exits, daemon>>
  PROVE  ActorInv'
BY DEF ActorInv, RetryOnlyForDead, CurrentIsWatched

\* So do the steps of a deploy up to its swap or its end.
LEMMA DeployKeepsActor ==
  ASSUME ActorInv, pc \notin {"none", "idle"}, pc' \notin {"none", "idle"},
         job'.by = job.by, job'.kind = job.kind, UNCHANGED retry \/ ~retry',
         UNCHANGED <<current, exited, watching, exits, daemon>>
  PROVE  ActorInv'
<1>1. RetryOnlyForDead' /\ CurrentIsWatched'
  BY DEF ActorInv, RetryOnlyForDead, CurrentIsWatched
<1>. QED
  BY <1>1 DEF ActorInv

\* A deploy that returns an error leaves the actor with the exit of an
\* instance that has one, its retry for a dead instance, its watcher.
LEMMA RejectKeepsActor ==
  ASSUME TypeInv, ActorInv, pc \notin {"none", "idle"}, Reject, UNCHANGED <<watching, exits, daemon>>
  PROVE  ActorInv'
<1>1. /\ pc' = "idle" /\ job'.by = Nobody /\ UNCHANGED <<current, exited>>
      /\ UNCHANGED retry \/ job.by = "retry"
  BY DEF Reject, Answer, NoJob, failVars
<1>2. daemon \notin {"down", "sweeping"}
  BY DEF ActorInv, RetryOnlyForDead, CurrentIsWatched
<1>3. RetryOnlyForDead'
  <2>1. CASE UNCHANGED retry
    BY <1>1, <2>1 DEF ActorInv, RetryOnlyForDead, CurrentIsWatched
  <2>2. CASE job.by = "retry"
    BY <1>1, <2>2 DEF ActorInv, RetryOnlyForDead, CurrentIsWatched
  <2>. QED
    BY <1>1, <2>1, <2>2
<1>4. CurrentIsWatched'
  BY <1>1 DEF ActorInv, RetryOnlyForDead, CurrentIsWatched
<1>. QED
  BY <1>1, <1>2, <1>3, <1>4, NobodyAssumption DEF ActorInv, RetryOnlyForDead, CurrentIsWatched

\* So does giving up on a candidate.
LEMMA GiveUpKeepsActor ==
  ASSUME TypeInv, ActorInv, pc \notin {"none", "idle"}, GiveUp, UNCHANGED <<watching, exits, daemon>>
  PROVE  ActorInv'
<1>1. CASE Reject
  BY <1>1, RejectKeepsActor
<1>2. CASE pc' = "fail" /\ job' = [job EXCEPT !.cand = None] /\ UNCHANGED <<actorVars, calls>>
  <2>1. job'.by = job.by /\ job'.kind = job.kind
    BY <1>2 DEF TypeInv, JobPart, Job
  <2>. QED
    BY <1>2, <2>1, DeployKeepsActor DEF actorVars
<1>. QED
  BY <1>1, <1>2 DEF GiveUp

\* An actor that is gone has no instance to watch or to retry.
LEMMA RetiredKeepsActor ==
  ASSUME ActorInv, Retired, job'.by = Nobody
  PROVE  ActorInv'
BY NobodyAssumption DEF ActorInv, RetryOnlyForDead, CurrentIsWatched, Retired

\* Every step of a deploy preserves ActorInv; the swap is the one that
\* replaces the instance, starts its watcher and drops the retry.
LEMMA DeployStepKeepsActor ==
  ASSUME TypeInv, ActorInv, DeployStep
  PROVE  ActorInv'
<1>0. job \in Job
  BY DEF TypeInv, JobPart
<1>1. CASE PrepareRefused
  BY <1>1, RejectKeepsActor DEF PrepareRefused, daemonVars, watchVars
<1>2. CASE PrepareRestart
  <2>1. job'.by = job.by /\ job'.kind = job.kind
    BY <1>0, <1>2 DEF PrepareRestart, Job
  <2>2. UNCHANGED retry \/ ~retry'
    BY <1>2 DEF PrepareRestart
  <2>. QED
    BY <1>2, <2>1, <2>2, DeployKeepsActor DEF PrepareRestart, daemonVars, watchVars
<1>3. CASE PrepareRelease
  <2>1. job'.by = job.by /\ job'.kind = job.kind
    BY <1>0, <1>3 DEF PrepareRelease, Job
  <2>. QED
    BY <1>3, <2>1, DeployKeepsActor DEF PrepareRelease, daemonVars, watchVars, actorVars
<1>4. CASE CreateRow
  <2>1. CASE Reject
    BY <1>4, <2>1, RejectKeepsActor DEF CreateRow, daemonVars, watchVars
  <2>2. ASSUME NEW i \in Ids, job' = [job EXCEPT !.row = i], pc' \in {"build", "launch"}, UNCHANGED actorVars
        PROVE  ActorInv'
    <3>1. job'.by = job.by /\ job'.kind = job.kind
      BY <1>0, <2>2 DEF Job
    <3>. QED
      BY <1>4, <2>2, <3>1, DeployKeepsActor DEF CreateRow, daemonVars, watchVars, actorVars
  <2>. QED
    BY <1>4, <2>1, <2>2 DEF CreateRow
<1>5. CASE Build \/ Launch \/ Healthy \/ PassCheck
  BY <1>5, DeployKeepsActor DEF Build, Launch, Healthy, PassCheck, daemonVars, watchVars, actorVars, jobVars
<1>6. CASE RecordImage
  <2>1. job'.by = job.by /\ job'.kind = job.kind
    BY <1>0, <1>6 DEF RecordImage, Job
  <2>. QED
    BY <1>6, <2>1, DeployKeepsActor DEF RecordImage, daemonVars, watchVars, actorVars
<1>7. CASE FailRow
  BY <1>7, RejectKeepsActor DEF FailRow, daemonVars, watchVars
<1>8. CASE StartInstance
  <2>1. CASE GiveUp
    BY <1>8, <2>1, GiveUpKeepsActor DEF StartInstance, daemonVars, watchVars
  <2>2. ASSUME NEW i \in Insts, job' = [job EXCEPT !.cand = i], pc' = "health", UNCHANGED <<actorVars, calls>>
        PROVE  ActorInv'
    <3>1. job'.by = job.by /\ job'.kind = job.kind
      BY <1>0, <2>2 DEF Job
    <3>. QED
      BY <1>8, <2>2, <3>1, DeployKeepsActor DEF StartInstance, daemonVars, watchVars, actorVars
  <2>. QED
    BY <1>8, <2>1, <2>2 DEF StartInstance
<1>9. CASE Abandon \/ LaunchRefused
  BY <1>9, GiveUpKeepsActor DEF Abandon, LaunchRefused, daemonVars, watchVars
<1>10. CASE Swap
  <2>1. /\ current' = job.cand /\ ~exited' /\ ~retry' /\ current' \in watching'
        /\ UNCHANGED daemon /\ daemon \notin {"down", "sweeping"}
    BY <1>10 DEF Swap, DropRetry, StartWatcher, daemonVars, ActorInv, RetryOnlyForDead, CurrentIsWatched
  <2>2. \/ pc' = "idle" /\ job'.by = Nobody
        \/ pc' = "setlive" /\ UNCHANGED job /\ job.kind # "restart"
    BY <1>10 DEF Swap, Accept, Answer, NoJob, KeepsRow
  <2>. QED
    BY <2>1, <2>2, NobodyAssumption DEF ActorInv, RetryOnlyForDead, CurrentIsWatched
<1>11. CASE RecordLive
  <2>1. pc' = "idle" /\ job'.by = Nobody /\ pc = "setlive"
    BY <1>11 DEF RecordLive, Accept, Answer, NoJob
  <2>2. UNCHANGED <<current, exited, retry, watching, exits, daemon>>
    BY <1>11 DEF RecordLive, daemonVars, watchVars, actorVars
  <2>. QED
    BY <2>1, <2>2, NobodyAssumption DEF ActorInv, RetryOnlyForDead, CurrentIsWatched
<1>. QED
  BY <1>1, <1>2, <1>3, <1>4, <1>5, <1>6, <1>7, <1>8, <1>9, <1>10, <1>11 DEF DeployStep

\* The rest of the actor's loop, the watchers and the daemon.
LEMMA LoopKeepsActor ==
  ASSUME TypeInv, ActorInv
  PROVE  /\ \A c \in Callers, k \in Kinds : Request(c, k) => ActorInv'
         /\ \A c \in Callers : TakeCommand(c) \/ Destroy(c) => ActorInv'
         /\ TakeBoot \/ FireRetry \/ ActorQuit \/ Panic => ActorInv'
         /\ \A i \in Insts : Report(i) \/ IgnoreExit(i) \/ OnExit(i) => ActorInv'
         /\ StartDaemon \/ SweptAdopt \/ AdoptFails \/ SweptRestart \/ ReconcileFails \/ Serve => ActorInv'
         /\ Interrupt \/ Shutdown \/ Exit \/ Crash => ActorInv'
<1>1. ASSUME NEW c \in Callers, NEW k \in Kinds, Request(c, k)
      PROVE  ActorInv'
  BY <1>1 DEF Request, ActorInv, RetryOnlyForDead, CurrentIsWatched, daemonVars, actorVars, watchVars
<1>2. ASSUME NEW c \in Callers, TakeCommand(c)
      PROVE  ActorInv'
  <2>1. job'.by = c /\ pc = "idle" /\ pc' = "prepare"
    BY <1>2 DEF TakeCommand, Take, NoJob
  <2>. QED
    BY <1>2, <2>1, NobodyAssumption DEF TakeCommand, ActorInv, RetryOnlyForDead, CurrentIsWatched, daemonVars, actorVars, watchVars
<1>3. ASSUME NEW c \in Callers, Destroy(c)
      PROVE  ActorInv'
  BY <1>3, RetiredKeepsActor DEF Destroy, ActorInv, RetryOnlyForDead, CurrentIsWatched
<1>4. CASE TakeBoot
  <2>1. job'.by = "boot" /\ pc' = "prepare" /\ daemon \notin {"down", "sweeping"} /\ pc \in {"none", "idle"}
    BY <1>4 DEF TakeBoot, NoJob
  <2>. QED
    BY <1>4, <2>1 DEF TakeBoot, ActorInv, RetryOnlyForDead, CurrentIsWatched, actorVars, watchVars
<1>5. CASE FireRetry
  <2>1. /\ job'.by = "retry" /\ job'.kind = "restart" /\ pc = "idle" /\ pc' = "prepare"
        /\ retry /\ ~retry'
    BY <1>5 DEF FireRetry, Take, NoJob
  <2>. QED
    BY <1>5, <2>1 DEF FireRetry, ActorInv, RetryOnlyForDead, CurrentIsWatched, daemonVars, watchVars
<1>6. CASE ActorQuit
  BY <1>6, RetiredKeepsActor DEF ActorQuit, MayQuit, ActorInv, RetryOnlyForDead, CurrentIsWatched
<1>7. CASE Panic
  BY <1>7, RejectKeepsActor DEF Panic, daemonVars, watchVars
<1>8. ASSUME NEW i \in Insts, Report(i)
      PROVE  ActorInv'
  BY <1>8 DEF Report, Post, ActorInv, RetryOnlyForDead, CurrentIsWatched, daemonVars, actorVars, jobVars
<1>9. ASSUME NEW i \in Insts, IgnoreExit(i)
      PROVE  ActorInv'
  BY <1>9 DEF IgnoreExit, IsCurrentExit, ActorInv, RetryOnlyForDead, CurrentIsWatched, daemonVars, actorVars, jobVars
<1>10. ASSUME NEW i \in Insts, OnExit(i)
       PROVE  ActorInv'
  <2>1. current # None /\ current' = current /\ exited'
    BY <1>10 DEF OnExit, IsCurrentExit, Insts, None
  <2>2. job.by # "retry" /\ pc = "idle"
    BY <1>10, NobodyAssumption DEF OnExit, ActorInv, RetryOnlyForDead, CurrentIsWatched
  <2>. QED
    BY <1>10, <2>1, <2>2 DEF OnExit, ActorInv, RetryOnlyForDead, CurrentIsWatched, daemonVars, jobVars
<1>11. CASE StartDaemon \/ SweptRestart \/ ReconcileFails \/ Serve
  BY <1>11 DEF StartDaemon, SweptRestart, ReconcileFails, Serve, ActorInv, RetryOnlyForDead, CurrentIsWatched, jobVars, actorVars, watchVars
<1>12. CASE SweptAdopt
  <2>1. pc = "none" /\ pc' = "idle" /\ ~retry' /\ current' \in watching' /\ UNCHANGED job /\ daemon' = "marking"
    BY <1>12 DEF SweptAdopt, ActorInv, RetryOnlyForDead, CurrentIsWatched
  <2>. QED
    BY <2>1, NobodyAssumption DEF ActorInv, RetryOnlyForDead, CurrentIsWatched
<1>15. CASE AdoptFails
  BY <1>15 DEF AdoptFails, ActorInv, RetryOnlyForDead, CurrentIsWatched, actorVars, watchVars
<1>13. CASE Interrupt \/ Shutdown
  BY <1>13 DEF Interrupt, Shutdown, ActorInv, RetryOnlyForDead, CurrentIsWatched, jobVars, actorVars, watchVars
<1>14. CASE Exit \/ Crash
  <2>1. Retired /\ job' = NoJob
    BY <1>14 DEF Exit, Crash, ProcessGone
  <2>. QED
    BY <2>1, RetiredKeepsActor DEF NoJob
<1>. QED
  BY <1>1, <1>2, <1>3, <1>4, <1>5, <1>6, <1>7, <1>8, <1>9, <1>10, <1>11, <1>12, <1>13, <1>14, <1>15

\* The actor's bookkeeping is right in every state of the supervisor.
THEOREM ActorInvariant == Spec => []ActorInv
<1>1. Init => ActorInv
  BY NobodyAssumption DEF Init, NoJob, ActorInv, RetryOnlyForDead, CurrentIsWatched
<1>2. TypeInv /\ ActorInv /\ [Next]_vars => ActorInv'
  <2> SUFFICES ASSUME TypeInv, ActorInv, [Next]_vars
               PROVE  ActorInv'
    OBVIOUS
  <2>1. ASSUME NEW c \in Callers, CallerStep(c) \/ TakeCommand(c) \/ Destroy(c)
        PROVE  ActorInv'
    <3>1. CASE RequestDestroy(c) \/ Cancel(c) \/ Withdraw(c) \/ RemoveRoute(c) \/ DeleteRows(c)
      BY <3>1, OthersKeepActor DEF RequestDestroy, Cancel, Withdraw, RemoveRoute, DeleteRows,
         jobVars, actorVars, watchVars, daemonVars
    <3>. QED
      BY <2>1, <3>1, LoopKeepsActor DEF CallerStep
  <2>2. CASE DeployStep
    BY <2>2, DeployStepKeepsActor
  <2>3. CASE TakeBoot \/ FireRetry \/ ExitStep \/ ActorQuit \/ Panic
    BY <2>3, LoopKeepsActor DEF ExitStep
  <2>4. ASSUME NEW i \in Insts, Die(i) \/ Report(i) \/ Retire(i)
        PROVE  ActorInv'
    <3>1. CASE Die(i) \/ Retire(i)
      BY <3>1, OthersKeepActor DEF Die, Retire, jobVars, actorVars, watchVars, daemonVars
    <3>. QED
      BY <2>4, <3>1, LoopKeepsActor
  <2>5. CASE StartDaemon \/ ReconcileStep \/ ReconcileFails
    <3>1. ASSUME NEW i, SweepKeep(i) \/ SweepRemove(i) \/ MarkCutOff(i)
          PROVE  ActorInv'
      BY <3>1, OthersKeepActor DEF SweepKeep, SweepRemove, MarkCutOff, jobVars, actorVars, watchVars, daemonVars
    <3>. QED
      BY <2>5, <3>1, LoopKeepsActor DEF ReconcileStep
  <2>6. CASE Interrupt \/ Shutdown \/ Exit \/ Crash
    BY <2>6, LoopKeepsActor
  <2>7. CASE UNCHANGED vars
    BY <2>7, OthersKeepActor DEF vars, jobVars, actorVars, watchVars, daemonVars
  <2>. QED
    BY <2>1, <2>2, <2>3, <2>4, <2>5, <2>6, <2>7 DEF Next
<1>. QED
  BY <1>1, <1>2, TypeInvariant, PTL DEF Spec

\* A pending restart is for an instance that is gone: whatever faults, crashes
\* and orders of events there are, firing it never replaces one that runs.
THEOREM RetryIsForDead == Spec => []RetryOnlyForDead
<1>1. ActorInv => RetryOnlyForDead
  BY DEF ActorInv
<1>. QED
  BY <1>1, ActorInvariant, PTL

\* The exit of the current instance is never missed.
THEOREM CurrentHasWatcher == Spec => []CurrentIsWatched
<1>1. ActorInv => CurrentIsWatched
  BY DEF ActorInv
<1>. QED
  BY <1>1, ActorInvariant, PTL

-----------------------------------------------------------------------------
(* The route is moved, never dropped *)

\* Only a destroy takes the route away or goes on to the rows.
OnlyDestroyUnroutes ==
  \A c \in Callers : calls[c].phase \in {"unrouting", "deleting"} => calls[c].kind = "destroy"

\* A step that moves no other call into those phases.
LEMMA CallsKept ==
  ASSUME OnlyDestroyUnroutes,
         \A c \in Callers : /\ calls'[c].kind = calls[c].kind
                            /\ calls'[c].phase \in {"unrouting", "deleting"} =>
                                 calls[c].phase \in {"unrouting", "deleting"} \/ calls[c].kind = "destroy"
  PROVE  OnlyDestroyUnroutes'
BY DEF OnlyDestroyUnroutes

\* A reply changes no kind of request.
LEMMA AnswerKeepsCalls ==
  ASSUME TypeInv, OnlyDestroyUnroutes, NEW verdict \in {"accepted", "rejected"}, Answer(verdict)
  PROVE  OnlyDestroyUnroutes'
<1> SUFFICES ASSUME NEW c \in Callers
             PROVE  /\ calls'[c].kind = calls[c].kind
                    /\ calls'[c].phase \in {"unrouting", "deleting"} =>
                         calls[c].phase \in {"unrouting", "deleting"}
  BY CallsKept
<1>1. calls[c] \in Call
  BY DEF TypeInv, CallsPart
<1>. QED
  BY <1>1 DEF Answer, Over, Call

\* Nor does an error, which moves no route.
LEMMA RejectKeepsCalls ==
  ASSUME TypeInv, OnlyDestroyUnroutes, Reject
  PROVE  OnlyDestroyUnroutes'
BY AnswerKeepsCalls DEF Reject

\* Callers that find the actor gone still ask for what they asked.
LEMMA ActorGoneKeepsCalls ==
  ASSUME TypeInv, NEW c \in Callers
  PROVE  /\ ActorGone[c].kind = calls[c].kind
         /\ ActorGone[c].phase \in {"unrouting", "deleting"} =>
              calls[c].phase \in {"unrouting", "deleting"} \/ calls[c].kind = "destroy"
<1>1. calls[c] \in Call
  BY DEF TypeInv, CallsPart
<1>. QED
  BY <1>1 DEF ActorGone, Over, Call

\* No step of a deploy makes a caller a destroyer or drops the route.
LEMMA DeployStepKeepsCalls ==
  ASSUME TypeInv, OnlyDestroyUnroutes, DeployStep
  PROVE  OnlyDestroyUnroutes'
<1>1. CASE UNCHANGED calls
  BY <1>1, CallsKept
<1>2. CASE Reject
  BY <1>2, RejectKeepsCalls
<1>3. CASE Accept
  BY <1>3, AnswerKeepsCalls DEF Accept
<1>4. ASSUME NEW i \in Ids, calls' = [calls EXCEPT ![job.by].row = i]
      PROVE  OnlyDestroyUnroutes'
  <2> SUFFICES ASSUME NEW c \in Callers
               PROVE  calls'[c].kind = calls[c].kind /\ calls'[c].phase = calls[c].phase
    BY CallsKept
  <2>1. calls[c] \in Call /\ calls \in [Callers -> Call]
    BY DEF TypeInv, CallsPart
  <2>. QED
    BY <1>4, <2>1 DEF Call
<1>. QED
  BY <1>1, <1>2, <1>3, <1>4 DEF DeployStep, PrepareRefused, PrepareRestart, PrepareRelease,
     CreateRow, Build, RecordImage, FailRow, Launch, LaunchRefused, StartInstance, GiveUp, Healthy, Abandon,
     PassCheck, Swap, RecordLive

\* A caller that is on its way to remove the route asked for a destroy.
LEMMA CallersKeepCalls ==
  ASSUME TypeInv, OnlyDestroyUnroutes, NEW c \in Callers, CallerStep(c) \/ TakeCommand(c) \/ Destroy(c)
  PROVE  OnlyDestroyUnroutes'
<1>0. calls \in [Callers -> Call] /\ \A d \in Callers : calls[d] \in Call
  BY DEF TypeInv, CallsPart
<1>1. ASSUME NEW k \in Kinds, Request(c, k)
      PROVE  OnlyDestroyUnroutes'
  BY <1>0, <1>1 DEF Request, OnlyDestroyUnroutes, Call
<1>2. CASE RequestDestroy(c)
  BY <1>0, <1>2 DEF RequestDestroy, OnlyDestroyUnroutes, Call
<1>3. CASE Cancel(c) \/ Withdraw(c) \/ RemoveRoute(c) \/ TakeCommand(c)
  BY <1>0, <1>3 DEF Cancel, Withdraw, RemoveRoute, TakeCommand, OnlyDestroyUnroutes, Call
<1>4. CASE DeleteRows(c)
  BY <1>0, <1>4 DEF DeleteRows, OnlyDestroyUnroutes, Call
<1>5. CASE Destroy(c)
  <2> SUFFICES ASSUME NEW d \in Callers
               PROVE  /\ calls'[d].kind = calls[d].kind
                      /\ calls'[d].phase \in {"unrouting", "deleting"} =>
                           calls[d].phase \in {"unrouting", "deleting"} \/ calls[d].kind = "destroy"
    BY CallsKept
  <2>1. ActorGone \in [Callers -> Call] /\ ActorGone[d] \in Call
    BY ActorGoneTypes
  <2>2. PICK verdict \in {"deleting", "rejected"} : calls' = [ActorGone EXCEPT ![c].phase = verdict]
    BY <1>5 DEF Destroy
  <2>3. calls[c].kind = "destroy"
    BY <1>5 DEF Destroy
  <2>4. calls'[d].kind = ActorGone[d].kind /\ (d # c => calls'[d] = ActorGone[d])
    BY <2>1, <2>2 DEF Call
  <2>. QED
    BY <2>3, <2>4, ActorGoneKeepsCalls
<1>. QED
  BY <1>1, <1>2, <1>3, <1>4, <1>5 DEF CallerStep

\* Only a caller that asked for a destroy is ever about to remove the
\* route or the rows.
THEOREM OnlyDestroyUnroutesInvariant == Spec => []OnlyDestroyUnroutes
<1>1. Init => OnlyDestroyUnroutes
  BY DEF Init, NoCall, OnlyDestroyUnroutes
<1>2. TypeInv /\ OnlyDestroyUnroutes /\ [Next]_vars => OnlyDestroyUnroutes'
  <2> SUFFICES ASSUME TypeInv, OnlyDestroyUnroutes, [Next]_vars
               PROVE  OnlyDestroyUnroutes'
    OBVIOUS
  <2>0. \A d \in Callers : calls[d] \in Call
    BY DEF TypeInv, CallsPart
  <2>1. CASE UNCHANGED calls
    BY <2>1, CallsKept
  <2>2. ASSUME NEW c \in Callers, CallerStep(c) \/ TakeCommand(c) \/ Destroy(c)
        PROVE  OnlyDestroyUnroutes'
    BY <2>2, CallersKeepCalls
  <2>3. CASE DeployStep
    BY <2>3, DeployStepKeepsCalls
  <2>4. CASE Panic
    BY <2>4, RejectKeepsCalls DEF Panic
  <2>5. CASE ActorQuit
    BY <2>5, CallsKept, ActorGoneKeepsCalls DEF ActorQuit
  <2>6. CASE Interrupt \/ Shutdown
    BY <2>0, <2>6 DEF Interrupt, Shutdown, OnlyDestroyUnroutes, Call
  <2>7. CASE Exit \/ Crash
    BY <2>7, ProcessGoneCalls DEF Exit, Crash, OnlyDestroyUnroutes
  <2>8. CASE TakeBoot \/ FireRetry \/ ExitStep \/ StartDaemon \/ ReconcileStep \/ ReconcileFails
    BY <2>1, <2>8 DEF TakeBoot, FireRetry, ExitStep, IgnoreExit, OnExit, StartDaemon, ReconcileStep,
       SweepKeep, SweepRemove, SweptAdopt, AdoptFails, SweptRestart, MarkCutOff, Serve, ReconcileFails
  <2>9. ASSUME NEW i \in Insts, Die(i) \/ Report(i) \/ Retire(i)
        PROVE  OnlyDestroyUnroutes'
    BY <2>1, <2>9 DEF Die, Report, Retire
  <2>10. CASE UNCHANGED vars
    BY <2>1, <2>10 DEF vars
  <2>. QED
    BY <2>2, <2>3, <2>4, <2>5, <2>6, <2>7, <2>8, <2>9, <2>10 DEF Next
<1>. QED
  BY <1>1, <1>2, TypeInvariant, PTL DEF Spec

\* While the daemon lives and nobody destroys the app, a request for it always
\* finds a route: deploys, exits and failures of any kind move it or leave it.
THEOREM RouteOnlyMoves == Spec => RouteIsMoved
<1> DEFINE Moved == route # None /\ route' = None =>
                      daemon' = "down" \/ \E c \in Callers : calls[c].kind = "destroy"
<1>1. TypeInv /\ OnlyDestroyUnroutes /\ [Next]_vars => [Moved]_vars
  <2> SUFFICES ASSUME TypeInv, OnlyDestroyUnroutes, Next, route # None, route' = None
               PROVE  daemon' = "down" \/ \E c \in Callers : calls[c].kind = "destroy"
    OBVIOUS
  <2>0. ~UNCHANGED route
    OBVIOUS
  <2>1. ASSUME NEW c \in Callers, CallerStep(c) \/ TakeCommand(c) \/ Destroy(c)
        PROVE  calls[c].kind = "destroy"
    BY <2>0, <2>1 DEF CallerStep, Request, RequestDestroy, Cancel, Withdraw, RemoveRoute, DeleteRows,
       TakeCommand, Destroy, OnlyDestroyUnroutes
  <2>2. ~DeployStep
    <3>1. ~Swap
      <4>1. pc = "swap" => job.cand # None
        BY DEF TypeInv, JobPart
      <4>. QED
        BY <4>1 DEF Swap
    <3>. QED
      BY <2>0, <3>1 DEF DeployStep, PrepareRefused, PrepareRestart, PrepareRelease, CreateRow, Build,
         RecordImage, FailRow, Launch, LaunchRefused, StartInstance, Healthy, Abandon, PassCheck, RecordLive
  <2>3. ~(TakeBoot \/ FireRetry \/ ExitStep \/ ActorQuit \/ Panic)
    BY <2>0 DEF TakeBoot, FireRetry, ExitStep, IgnoreExit, OnExit, LeaveRoute, ActorQuit, Panic
  <2>4. ~\E i \in Insts : Die(i) \/ Report(i) \/ Retire(i)
    BY <2>0 DEF Die, Report, Retire
  <2>5. ~(StartDaemon \/ ReconcileStep \/ ReconcileFails)
    BY <2>0 DEF StartDaemon, ReconcileStep, SweepKeep, SweepRemove, SweptAdopt, AdoptFails, SweptRestart, MarkCutOff,
       Serve, ReconcileFails
  <2>6. Interrupt \/ Shutdown \/ Exit \/ Crash => daemon' = "down"
    BY <2>0 DEF Interrupt, Shutdown, Exit, Crash, ProcessGone
  <2>. QED
    BY <2>1, <2>2, <2>3, <2>4, <2>5, <2>6 DEF Next
<1>. QED
  BY <1>1, TypeInvariant, OnlyDestroyUnroutesInvariant, PTL DEF Spec, RouteIsMoved

-----------------------------------------------------------------------------
(* No downtime by the supervisor's own hand *)

\* Why what a drain, a failed deploy or an exit stops is never what is routed:
\* a drained instance was replaced, a candidate is new, and an exit that was
\* reported happened.  The last is what a Wait that returns an error breaks.
DrainInv ==
  /\ route \notin draining /\ current \notin draining
  /\ pc \in {"health", "check", "swap"} => job.cand \notin draining \cup {current, route}
  /\ \A i \in exits : state[i] # "up"
  /\ daemon \in {"down", "sweeping"} => route = None /\ draining = {}

\* A step that leaves these alone, stops or ends instances at most, and does
\* not enter the trial of a candidate.
LEMMA DrainKept ==
  ASSUME DrainInv, draining' \subseteq draining,
         route' \notin draining, current' \notin draining,
         pc' \in {"health", "check", "swap"} =>
           /\ pc \in {"health", "check", "swap"} /\ job'.cand = job.cand
           /\ job.cand \notin {current', route'},
         exits' \subseteq exits, \A i \in exits : state'[i] = "up" => state[i] = "up",
         daemon' \in {"down", "sweeping"} => route' = None /\ draining' = {}
  PROVE  DrainInv'
BY DEF DrainInv

\* Steps that move neither drain, route nor current instance keep DrainInv.
LEMMA DrainUntouched ==
  ASSUME DrainInv, UNCHANGED <<draining, route, current, exits, daemon>>,
         \A i \in exits : state'[i] = "up" => state[i] = "up",
         pc' \in {"health", "check", "swap"} =>
           pc \in {"health", "check", "swap"} /\ job'.cand = job.cand
  PROVE  DrainInv'
BY DEF DrainInv

\* A Stop ends one instance and no other.
LEMMA StopOnlyStops ==
  ASSUME TypeInv, NEW j, Stop(j)
  PROVE  /\ \A i \in Insts : state'[i] = "up" => state[i] = "up"
         /\ \A i \in Insts : state[i] = "up" /\ state'[i] = "none" => i = j
BY DEF TypeInv, RuntimeTypeOK, Stop

\* Every step of a deploy preserves DrainInv: the candidate is neither
\* routed nor draining until the swap moves the route and hands over the old one.
LEMMA DeployStepKeepsDrain ==
  ASSUME TypeInv, ActorInv, DrainInv, DeployStep
  PROVE  DrainInv'
<1>0. exits \subseteq Insts /\ draining \subseteq Insts /\ None \notin Insts
  BY DEF TypeInv, WatchPart, None, Insts
<1>1. CASE PrepareRefused \/ PrepareRestart \/ PrepareRelease \/ CreateRow \/ Build \/ RecordImage
           \/ FailRow \/ Launch \/ RecordLive
  <2>1. pc' \notin {"health", "check", "swap"}
    BY <1>1 DEF PrepareRefused, PrepareRestart, PrepareRelease, CreateRow, Build, RecordImage, FailRow,
       Launch, RecordLive, Reject, Accept, Answer
  <2>2. UNCHANGED <<draining, route, current, exits, daemon, state>>
    BY <1>1 DEF PrepareRefused, PrepareRestart, PrepareRelease, CreateRow, Build, RecordImage, FailRow,
       Launch, RecordLive, Reject, runtimeVars, daemonVars, watchVars, actorVars
  <2>. QED
    BY <2>1, <2>2, DrainUntouched
<1>2. CASE Healthy \/ PassCheck
  BY <1>2, DrainUntouched DEF Healthy, PassCheck, runtimeVars, daemonVars, watchVars, actorVars
<1>3. CASE StartInstance
  <2>1. CASE GiveUp /\ UNCHANGED runtimeVars
    <3>1. pc' \notin {"health", "check", "swap"} /\ UNCHANGED current
      BY <2>1 DEF GiveUp, Reject, Answer, actorVars
    <3>. QED
      BY <1>3, <2>1, <3>1, DrainUntouched DEF StartInstance, runtimeVars, daemonVars, watchVars
  <2>2. ASSUME NEW i \in Insts, Fresh(i), state' = [state EXCEPT ![i] = "up"],
               job' = [job EXCEPT !.cand = i], UNCHANGED <<actorVars, calls>>
        PROVE  DrainInv'
    <3>1. i \notin draining \cup {current, route} /\ i \notin exits
      BY <2>2 DEF Fresh, Unused
    <3>2. job'.cand = i
      BY <2>2 DEF TypeInv, JobPart, Job
    <3>3. UNCHANGED <<draining, route, current, exits, daemon>>
      BY <1>3, <2>2 DEF StartInstance, daemonVars, watchVars, actorVars
    <3>4. \A j \in exits : state'[j] = state[j]
      BY <1>0, <2>2, <3>1 DEF TypeInv, RuntimeTypeOK
    <3>. QED
      BY <3>1, <3>2, <3>3, <3>4 DEF DrainInv
  <2>. QED
    BY <1>3, <2>1, <2>2 DEF StartInstance
<1>6. CASE LaunchRefused
  <2>1. pc' \notin {"health", "check", "swap"} /\ UNCHANGED current
    BY <1>6 DEF LaunchRefused, GiveUp, Reject, Answer, actorVars
  <2>. QED
    BY <1>6, <2>1, DrainUntouched DEF LaunchRefused, runtimeVars, daemonVars, watchVars
<1>4. CASE Abandon
  <2>1. pc' \notin {"health", "check", "swap"} /\ UNCHANGED current
    BY <1>4 DEF Abandon, GiveUp, Reject, Answer, actorVars
  <2>2. UNCHANGED <<draining, route, exits, daemon>>
    BY <1>4 DEF Abandon, daemonVars, watchVars
  <2>3. \A i \in exits : state'[i] = "up" => state[i] = "up"
    BY <1>0, <1>4, StopOnlyStops DEF Abandon
  <2>. QED
    BY <2>1, <2>2, <2>3, DrainUntouched
<1>5. CASE Swap
  <2>1. job.cand \notin draining \cup {current, route}
    BY <1>5 DEF Swap, DrainInv
  <2>2. /\ route' = job.cand /\ current' = job.cand /\ draining' \subseteq draining \cup {current}
        /\ UNCHANGED <<state, exits, daemon>> /\ daemon \notin {"down", "sweeping"}
    BY <1>5 DEF Swap, ToRetire, runtimeVars, daemonVars, ActorInv
  <2>3. pc' \notin {"health", "check", "swap"}
    BY <1>5 DEF Swap, Accept, Answer
  <2>. QED
    BY <2>1, <2>2, <2>3 DEF DrainInv
<1>. QED
  BY <1>1, <1>2, <1>3, <1>4, <1>5, <1>6 DEF DeployStep

\* Every other step preserves DrainInv.
LEMMA OtherStepsKeepDrain ==
  ASSUME "wait" \notin Faults, TypeInv, ActorInv, DrainInv
  PROVE  /\ \A c \in Callers : CallerStep(c) \/ TakeCommand(c) \/ Destroy(c) => DrainInv'
         /\ TakeBoot \/ FireRetry \/ ExitStep \/ ActorQuit \/ Panic => DrainInv'
         /\ \A i \in Insts : Die(i) \/ Report(i) \/ Retire(i) => DrainInv'
         /\ StartDaemon \/ ReconcileStep \/ ReconcileFails => DrainInv'
         /\ Interrupt \/ Shutdown \/ Exit \/ Crash => DrainInv'
<1>0. exits \subseteq Insts /\ draining \subseteq Insts /\ None \notin Insts
  BY DEF TypeInv, WatchPart, None, Insts
<1>c. pc \in {"health", "check", "swap"} => job.cand # None
  BY DEF TypeInv, JobPart
<1>1. ASSUME NEW c \in Callers, NEW k \in Kinds, Request(c, k)
      PROVE  DrainInv'
  BY <1>1, DrainUntouched DEF Request, runtimeVars, daemonVars, watchVars, actorVars
<1>2. ASSUME NEW c \in Callers, RequestDestroy(c) \/ Cancel(c) \/ Withdraw(c) \/ DeleteRows(c)
      PROVE  DrainInv'
  BY <1>2, DrainUntouched DEF RequestDestroy, Cancel, Withdraw, DeleteRows, runtimeVars, daemonVars,
     watchVars, actorVars, jobVars
<1>3. ASSUME NEW c \in Callers, RemoveRoute(c)
      PROVE  DrainInv'
  BY <1>0, <1>c, <1>3 DEF RemoveRoute, DrainInv, runtimeVars, daemonVars, watchVars, actorVars, jobVars
<1>4. ASSUME NEW c \in Callers, TakeCommand(c)
      PROVE  DrainInv'
  BY <1>4, DrainUntouched DEF TakeCommand, Take, runtimeVars, daemonVars, watchVars, actorVars
<1>5. ASSUME NEW c \in Callers, Destroy(c)
      PROVE  DrainInv'
  <2>1. /\ route' = None /\ current' = None /\ exits' = {} /\ pc' = "none"
        /\ UNCHANGED <<draining, daemon>>
    BY <1>5 DEF Destroy, Retired
  <2>. QED
    BY <1>0, <2>1 DEF DrainInv
<1>6. CASE TakeBoot
  BY <1>6, DrainUntouched DEF TakeBoot, runtimeVars, watchVars, actorVars
<1>7. CASE FireRetry
  BY <1>7, DrainUntouched DEF FireRetry, Take, runtimeVars, daemonVars, watchVars
<1>8. ASSUME NEW i \in Insts, IgnoreExit(i)
      PROVE  DrainInv'
  BY <1>8 DEF IgnoreExit, DrainInv, runtimeVars, daemonVars, actorVars, jobVars
<1>9. ASSUME NEW i \in Insts, OnExit(i)
      PROVE  DrainInv'
  <2>1. \A j \in exits : state'[j] = "up" => state[j] = "up"
    BY <1>0, <1>9, StopOnlyStops DEF OnExit
  <2>2. exits' \subseteq exits /\ UNCHANGED <<draining, route, current, daemon, pc, job>>
    BY <1>9 DEF OnExit, LeaveRoute, daemonVars, jobVars
  <2>. QED
    BY <2>1, <2>2 DEF DrainInv
<1>10. CASE ActorQuit
  <2>1. /\ current' = None /\ exits' = {} /\ pc' = "none" /\ UNCHANGED <<draining, route, daemon>>
    BY <1>10 DEF ActorQuit, Retired, daemonVars
  <2>. QED
    BY <1>0, <2>1 DEF DrainInv
<1>11. CASE Panic
  <2>1. pc' = "idle" /\ UNCHANGED <<draining, route, current, exits, daemon, state>>
    BY <1>11 DEF Panic, Reject, Answer, runtimeVars, daemonVars, watchVars
  <2>. QED
    BY <2>1, DrainUntouched
<1>12. ASSUME NEW i \in Insts, Die(i)
       PROVE  DrainInv'
  <2>1. \A j \in exits : state'[j] = "up" => state[j] = "up"
    BY <1>0, <1>12 DEF Die, TypeInv, RuntimeTypeOK
  <2>. QED
    BY <1>12, <2>1, DrainUntouched DEF Die, daemonVars, watchVars, actorVars, jobVars
<1>13. ASSUME NEW i \in Insts, Report(i)
       PROVE  DrainInv'
  <2>1. state[i] # "up"
    BY <1>13 DEF Report, Fault
  <2>. QED
    BY <1>13, <2>1 DEF Report, Post, DrainInv, runtimeVars, daemonVars, actorVars, jobVars
<1>14. ASSUME NEW i \in Insts, Retire(i)
       PROVE  DrainInv'
  <2>1. \A j \in exits : state'[j] = "up" => state[j] = "up"
    BY <1>0, <1>14, StopOnlyStops DEF Retire
  <2>2. draining' \subseteq draining /\ UNCHANGED <<route, current, exits, daemon, pc, job>>
    BY <1>14 DEF Retire, daemonVars, actorVars, jobVars
  <2>. QED
    BY <2>1, <2>2 DEF DrainInv
<1>15. CASE StartDaemon \/ AdoptFails \/ ReconcileFails \/ SweptRestart \/ Serve
  BY <1>15 DEF StartDaemon, AdoptFails, ReconcileFails, SweptRestart, Serve, DrainInv, runtimeVars, watchVars,
     actorVars, jobVars
<1>16. ASSUME NEW i \in Insts, SweepKeep(i) \/ SweepRemove(i)
       PROVE  DrainInv'
  <2>1. \A j \in exits : state'[j] = "up" => state[j] = "up"
    BY <1>0, <1>16, StopOnlyStops DEF SweepKeep, SweepRemove, runtimeVars
  <2>. QED
    BY <1>16, <2>1, DrainUntouched DEF SweepKeep, SweepRemove, watchVars, actorVars, jobVars
<1>17. ASSUME NEW i \in Ids, MarkCutOff(i)
       PROVE  DrainInv'
  BY <1>17, DrainUntouched DEF MarkCutOff, runtimeVars, daemonVars, watchVars, actorVars, jobVars
<1>18. CASE SweptAdopt
  <2>1. /\ draining' = {} /\ pc' = "idle" /\ daemon' = "marking" /\ UNCHANGED <<state, exits>>
    BY <1>18 DEF SweptAdopt, DrainInv, runtimeVars
  <2>. QED
    BY <2>1 DEF DrainInv
<1>19. CASE Interrupt \/ Shutdown
  BY <1>19 DEF Interrupt, Shutdown, DrainInv, runtimeVars, watchVars, actorVars, jobVars
<1>20. CASE Exit \/ Crash
  <2>1. /\ route' = None /\ draining' = {} /\ exits' = {} /\ pc' = "none"
    BY <1>20 DEF Exit, Crash, ProcessGone, Retired
  <2>. QED
    BY <2>1 DEF DrainInv
<1>. QED
  BY <1>1, <1>2, <1>3, <1>4, <1>5, <1>6, <1>7, <1>8, <1>9, <1>10, <1>11, <1>12, <1>13, <1>14, <1>15,
     <1>16, <1>17, <1>18, <1>19, <1>20 DEF CallerStep, ExitStep, ReconcileStep

\* No instance is both draining and routed, given that a Wait returns only
\* for an instance that ended.
THEOREM DrainInvariant ==
  ASSUME "wait" \notin Faults
  PROVE  Spec => []DrainInv
<1>1. Init => DrainInv
  BY DEF Init, DrainInv, NoJob
<1>2. TypeInv /\ ActorInv /\ DrainInv /\ [Next]_vars => DrainInv'
  <2> SUFFICES ASSUME TypeInv, ActorInv, DrainInv, [Next]_vars
               PROVE  DrainInv'
    OBVIOUS
  <2>1. CASE UNCHANGED vars
    BY <2>1, DrainUntouched DEF vars, runtimeVars, daemonVars, watchVars, actorVars, jobVars
  <2>. QED
    BY <2>1, DeployStepKeepsDrain, OtherStepsKeepDrain DEF Next
<1>. QED
  BY <1>1, <1>2, TypeInvariant, ActorInvariant, PTL DEF Spec

\* An instance that runs is never stopped while requests are routed to it: not
\* by a deploy, its failure or its drain, not by a late exit event, not by
\* Reconcile, whatever the store, List or Stop refuse and wherever the daemon
\* crashes.  Only a Wait that returns an error for an instance that runs
\* breaks it (actor.go:131-142 reports that as an exit).
THEOREM NoDowntime ==
  ASSUME "wait" \notin Faults
  PROVE  Spec => NeverStopsRouted
<1> DEFINE Stops == \A i \in Insts : state[i] = "up" /\ state'[i] = "none" => route' # i
<1>1. TypeInv /\ DrainInv /\ [Next]_vars => [Stops]_vars
  <2> SUFFICES ASSUME TypeInv, DrainInv, Next, NEW i \in Insts, state[i] = "up", state'[i] = "none"
               PROVE  route' # i
    OBVIOUS
  <2>0. ~UNCHANGED state /\ i # None
    BY DEF Insts, None
  <2>1. ASSUME NEW c \in Callers, CallerStep(c) \/ TakeCommand(c) \/ Destroy(c)
        PROVE  route' # i
    BY <2>0, <2>1 DEF CallerStep, Request, RequestDestroy, Cancel, Withdraw, RemoveRoute, DeleteRows,
       TakeCommand, Destroy, runtimeVars
  <2>2. CASE DeployStep
    <3>1. CASE Abandon
      <4>1. i = job.cand
        BY <3>1, StopOnlyStops DEF Abandon
      <4>2. job.cand # route /\ UNCHANGED route
        BY <3>1 DEF Abandon, DrainInv
      <4>. QED
        BY <4>1, <4>2
    <3>2. ~StartInstance
      <4>1. \A j \in Insts : state' # [state EXCEPT ![j] = "up"]
        BY DEF TypeInv, RuntimeTypeOK
      <4>. QED
        BY <2>0, <4>1 DEF StartInstance, runtimeVars
    <3>. QED
      BY <2>0, <2>2, <3>1, <3>2 DEF DeployStep, PrepareRefused, PrepareRestart, PrepareRelease,
         CreateRow, Build, RecordImage, FailRow, Launch, LaunchRefused, Healthy, PassCheck, Swap, RecordLive, runtimeVars
  <2>3. CASE TakeBoot \/ FireRetry \/ ExitStep \/ ActorQuit \/ Panic
    <3>1. ASSUME NEW j \in Insts, OnExit(j)
          PROVE  FALSE
      <4>1. i = j
        BY <3>1, StopOnlyStops DEF OnExit, IsCurrentExit
      <4>2. state[j] # "up"
        BY <3>1 DEF OnExit, DrainInv
      <4>. QED
        BY <4>1, <4>2
    <3>. QED
      BY <2>0, <2>3, <3>1 DEF TakeBoot, FireRetry, ExitStep, IgnoreExit, ActorQuit, Panic, runtimeVars
  <2>4. ASSUME NEW j \in Insts, Die(j) \/ Report(j) \/ Retire(j)
        PROVE  route' # i
    <3>1. CASE Retire(j)
      <4>1. i = j
        BY <3>1, StopOnlyStops DEF Retire
      <4>2. j # route /\ UNCHANGED route
        BY <3>1 DEF Retire, DrainInv
      <4>. QED
        BY <4>1, <4>2
    <3>2. CASE Die(j)
      BY <3>2 DEF Die, TypeInv, RuntimeTypeOK
    <3>3. CASE Report(j)
      BY <2>0, <3>3 DEF Report, runtimeVars
    <3>. QED
      BY <2>4, <3>1, <3>2, <3>3
  <2>5. CASE StartDaemon \/ ReconcileStep \/ ReconcileFails
    <3>1. ASSUME NEW j \in Insts, SweepRemove(j)
          PROVE  route' # i
      BY <2>0, <3>1 DEF SweepRemove, DrainInv
    <3>. QED
      BY <2>0, <2>5, <3>1 DEF StartDaemon, ReconcileStep, SweepKeep, SweptAdopt, AdoptFails, SweptRestart,
         MarkCutOff, Serve, ReconcileFails, runtimeVars
  <2>6. ~(Interrupt \/ Shutdown \/ Exit \/ Crash)
    BY <2>0 DEF Interrupt, Shutdown, Exit, Crash, ProcessGone, runtimeVars
  <2>. QED
    BY <2>1, <2>2, <2>3, <2>4, <2>5, <2>6 DEF Next
<1>. QED
  BY <1>1, TypeInvariant, DrainInvariant, PTL DEF Spec, NeverStopsRouted

-----------------------------------------------------------------------------
(* A deploy belongs to its caller *)

\* Where the deploy has its row, where it has one of its own, and where the actor
\* is in it.
RowPcs == {"build", "built", "fail", "launch", "start", "health", "check", "swap", "setlive"}
OwnPcs == {"create", "build", "built", "fail", "setlive"}
Busy   == pc \notin {"none", "idle"}

\* A deploy with a row of its own is one a caller asked for; what it has, and
\* which candidate, follows from where it is.
DeployInv ==
  /\ Busy /\ job.kind # "restart" => daemon \in {"up", "stopping"} /\ job.by \in Callers
  /\ pc \in OwnPcs => job.kind # "restart"
  /\ pc \notin {"health", "check", "swap", "setlive"} => job.cand = None
  /\ pc = "setlive" => job.cand = current
  /\ pc \in RowPcs <=> job.row # None
  /\ pc = "none" /\ daemon # "stopping" => route = None

\* A caller that is waited for by the deploy is the one it is run for, and the
\* row it was told is the deploy's.
CallInv ==
  /\ \A c \in Callers :
       /\ calls[c].phase \in {"waiting", "taken", "unrouting", "deleting"} => daemon \in {"up", "stopping"}
       /\ calls[c].phase = "taken" =>
            /\ Busy /\ job.by = c /\ calls[c].kind = job.kind
            /\ calls[c].row = IF job.kind = "restart" THEN None ELSE job.row
       /\ calls[c].phase \in {"new", "waiting"} \/ calls[c].kind \in {"restart", "destroy"} => calls[c].row = None
  /\ job.by \in Callers => calls[job.by].phase = "taken" /\ calls[job.by].kind # "destroy"

\* A step that moves neither the deploy nor what it is tied to.
LEMMA DeployFrame ==
  ASSUME DeployInv, UNCHANGED <<pc, job, current, route, daemon>>
  PROVE  DeployInv'
BY DEF DeployInv, Busy

\* The end of a deploy.
LEMMA AnswerKeepsDeploy ==
  ASSUME TypeInv, ActorInv, DeployInv, NEW verdict, Answer(verdict), Busy, UNCHANGED <<daemon, route>>
  PROVE  DeployInv'
BY DEF Answer, NoJob, DeployInv, Busy, RowPcs, OwnPcs

\* launchAndSwap giving up: the deploy ends, or goes on to end its row.
LEMMA GiveUpKeepsDeploy ==
  ASSUME TypeInv, ActorInv, DeployInv, pc \in {"launch", "start", "health", "check"}, GiveUp, UNCHANGED <<daemon, route>>
  PROVE  DeployInv'
<1>0. job \in Job /\ Busy
  BY DEF TypeInv, JobPart, Busy
<1>1. CASE Reject
  BY <1>0, <1>1, AnswerKeepsDeploy DEF Reject
<1>2. CASE pc' = "fail" /\ job' = [job EXCEPT !.cand = None] /\ UNCHANGED <<actorVars, calls>> /\ ~KeepsRow(job.kind)
  BY <1>0, <1>2 DEF Job, DeployInv, Busy, RowPcs, OwnPcs, actorVars, KeepsRow
<1>. QED
  BY <1>1, <1>2 DEF GiveUp

\* A step of the deploy keeps it its caller's, or ends it.
LEMMA DeployStepKeepsDeploy ==
  ASSUME TypeInv, ActorInv, DeployInv, DeployStep
  PROVE  DeployInv'
<1>0. job \in Job /\ pc \in Pcs /\ (pc \in {"health", "check", "swap"} => job.cand # None)
  BY DEF TypeInv, JobPart
<1>n. None \notin Ids
  BY DEF None, Ids
<1>1. CASE PrepareRefused
  BY <1>1, AnswerKeepsDeploy DEF PrepareRefused, Reject, Busy, daemonVars
<1>2. CASE PrepareRestart
  BY <1>0, <1>2 DEF PrepareRestart, Job, DeployInv, Busy, RowPcs, OwnPcs, daemonVars
<1>3. CASE PrepareRelease
  BY <1>0, <1>3 DEF PrepareRelease, Job, DeployInv, Busy, RowPcs, OwnPcs, daemonVars, actorVars
<1>4. CASE CreateRow
  <2>1. CASE Reject
    BY <1>4, <2>1, AnswerKeepsDeploy DEF CreateRow, Reject, Busy, daemonVars
  <2>2. ASSUME NEW i \in Ids, job' = [job EXCEPT !.row = i], pc' \in {"build", "launch"}, UNCHANGED actorVars
        PROVE  DeployInv'
    BY <1>0, <1>n, <1>4, <2>2 DEF CreateRow, Job, DeployInv, Busy, RowPcs, OwnPcs, daemonVars, actorVars
  <2>. QED
    BY <1>4, <2>1, <2>2 DEF CreateRow
<1>5. CASE Build \/ Launch \/ Healthy \/ PassCheck
  BY <1>5 DEF Build, Launch, Healthy, PassCheck, DeployInv, Busy, RowPcs, OwnPcs, daemonVars, actorVars, jobVars
<1>6. CASE RecordImage
  BY <1>0, <1>6 DEF RecordImage, Job, DeployInv, Busy, RowPcs, OwnPcs, daemonVars, actorVars
<1>7. CASE FailRow
  BY <1>7, AnswerKeepsDeploy DEF FailRow, Reject, Busy, daemonVars
<1>8. CASE StartInstance
  <2>1. CASE GiveUp
    BY <1>8, <2>1, GiveUpKeepsDeploy DEF StartInstance, daemonVars
  <2>2. ASSUME NEW i \in Insts, job' = [job EXCEPT !.cand = i], pc' = "health", UNCHANGED <<actorVars, calls>>
        PROVE  DeployInv'
    BY <1>0, <1>8, <2>2 DEF StartInstance, Job, DeployInv, Busy, RowPcs, OwnPcs, daemonVars, actorVars
  <2>. QED
    BY <1>8, <2>1, <2>2 DEF StartInstance
<1>9. CASE Abandon \/ LaunchRefused
  BY <1>9, GiveUpKeepsDeploy DEF Abandon, LaunchRefused, daemonVars
<1>10. CASE Swap
  <2>1. CASE Accept
    BY <1>10, <2>1 DEF Swap, Accept, Answer, NoJob, DeployInv, Busy, RowPcs, OwnPcs, daemonVars
  <2>2. CASE pc' = "setlive" /\ UNCHANGED <<job, calls>> /\ ~KeepsRow(job.kind)
    BY <1>10, <2>2 DEF Swap, KeepsRow, DeployInv, Busy, RowPcs, OwnPcs, daemonVars
  <2>. QED
    BY <1>10, <2>1, <2>2 DEF Swap
<1>11. CASE RecordLive
  BY <1>11, AnswerKeepsDeploy DEF RecordLive, Accept, Busy, daemonVars
<1>. QED
  BY <1>1, <1>2, <1>3, <1>4, <1>5, <1>6, <1>7, <1>8, <1>9, <1>10, <1>11 DEF DeployStep

\* Every other step: the actor takes a deploy, returns, or is left alone.
LEMMA OthersKeepDeploy ==
  ASSUME TypeInv, ActorInv, DeployInv, CallInv, [Next]_vars, ~DeployStep
  PROVE  DeployInv'
<1>0. job \in Job /\ pc \in Pcs
  BY DEF TypeInv, JobPart
<1>1. ASSUME NEW c \in Callers, NEW k \in Kinds, Request(c, k)
      PROVE  DeployInv'
  BY <1>1 DEF Request, DeployInv, Busy, RowPcs, OwnPcs, daemonVars, actorVars
<1>2. ASSUME NEW c \in Callers, RequestDestroy(c) \/ Cancel(c) \/ Withdraw(c) \/ DeleteRows(c)
      PROVE  DeployInv'
  BY <1>2, DeployFrame DEF RequestDestroy, Cancel, Withdraw, DeleteRows, jobVars, actorVars, daemonVars
<1>3. ASSUME NEW c \in Callers, RemoveRoute(c)
      PROVE  DeployInv'
  BY <1>3 DEF RemoveRoute, DeployInv, Busy, jobVars, actorVars, daemonVars
<1>4. ASSUME NEW c \in Callers, TakeCommand(c)
      PROVE  DeployInv'
  BY <1>0, <1>4 DEF TakeCommand, Take, NoJob, CallInv, DeployInv, Busy, RowPcs, OwnPcs, actorVars, daemonVars
<1>5. ASSUME NEW c \in Callers, Destroy(c)
      PROVE  DeployInv'
  BY <1>5 DEF Destroy, Retired, DeployInv, Busy, RowPcs, OwnPcs
<1>6. CASE TakeBoot
  BY <1>6 DEF TakeBoot, NoJob, DeployInv, Busy, RowPcs, OwnPcs, actorVars
<1>7. CASE FireRetry
  BY <1>7 DEF FireRetry, Take, NoJob, DeployInv, Busy, RowPcs, OwnPcs, daemonVars
<1>8. ASSUME NEW i \in Insts, IgnoreExit(i) \/ OnExit(i) \/ Die(i) \/ Report(i) \/ Retire(i)
      PROVE  DeployInv'
  BY <1>8, DeployFrame DEF IgnoreExit, OnExit, LeaveRoute, Die, Report, Retire, jobVars, actorVars, daemonVars
<1>9. CASE ActorQuit
  BY <1>9 DEF ActorQuit, MayQuit, Retired, DeployInv, Busy, RowPcs, OwnPcs, daemonVars
<1>10. CASE Panic
  BY <1>10, AnswerKeepsDeploy DEF Panic, Reject, Busy, daemonVars
<1>11. CASE StartDaemon \/ AdoptFails \/ ReconcileFails \/ SweptRestart \/ Serve
  BY <1>11 DEF StartDaemon, AdoptFails, ReconcileFails, SweptRestart, Serve, DeployInv, ActorInv, Busy,
     RowPcs, OwnPcs, jobVars, actorVars
<1>12. ASSUME NEW i, SweepKeep(i) \/ SweepRemove(i) \/ MarkCutOff(i)
       PROVE  DeployInv'
  BY <1>12, DeployFrame DEF SweepKeep, SweepRemove, MarkCutOff, jobVars, actorVars, daemonVars
<1>13. CASE SweptAdopt
  BY <1>13 DEF SweptAdopt, ActorInv, DeployInv, Busy, RowPcs, OwnPcs
<1>14. CASE Interrupt \/ Shutdown
  BY <1>14 DEF Interrupt, Shutdown, DeployInv, Busy, jobVars, actorVars
<1>15. CASE Exit \/ Crash
  BY <1>15 DEF Exit, Crash, ProcessGone, Retired, NoJob, DeployInv, Busy, RowPcs, OwnPcs
<1>16. CASE UNCHANGED vars
  BY <1>16, DeployFrame DEF vars, jobVars, actorVars, daemonVars
<1>. QED
  BY <1>1, <1>2, <1>3, <1>4, <1>5, <1>6, <1>7, <1>8, <1>9, <1>10, <1>11, <1>12, <1>13, <1>14, <1>15, <1>16
     DEF Next, CallerStep, ExitStep, ReconcileStep

\* A step that answers nobody, and leaves who asked, what for and which row.
LEMMA CallFrame ==
  ASSUME CallInv, UNCHANGED <<calls, daemon>>, Busy => Busy',
         job'.by = job.by, job'.kind = job.kind, job'.row = job.row
  PROVE  CallInv'
BY DEF CallInv

\* A reply leaves the row of the call and everything of the others.
LEMMA AnswerCalls ==
  ASSUME TypeInv, NEW verdict \in Phases, Answer(verdict), NEW c \in Callers
  PROVE  /\ calls'[c].kind = calls[c].kind /\ calls'[c].row = calls[c].row
         /\ calls'[c].phase = IF c = job.by THEN verdict ELSE calls[c].phase
<1>1. calls[c] \in Call
  BY DEF TypeInv, CallsPart
<1>. QED
  BY <1>1 DEF Answer, Over, Call

\* After a reply nobody is waited for, and the answered call keeps its row.
LEMMA AnswerKeepsCallInv ==
  ASSUME TypeInv, CallInv, NEW verdict \in {"accepted", "rejected"}, Answer(verdict), UNCHANGED daemon
  PROVE  CallInv'
<1>1. job'.by = Nobody /\ Nobody \notin Callers /\ verdict \in Phases
  BY NobodyAssumption DEF Answer, NoJob, Phases
<1> SUFFICES ASSUME NEW c \in Callers
             PROVE  /\ calls'[c].phase \in {"waiting", "taken", "unrouting", "deleting"} => daemon \in {"up", "stopping"}
                    /\ calls'[c].phase # "taken"
                    /\ calls'[c].phase \in {"new", "waiting"} \/ calls'[c].kind \in {"restart", "destroy"} => calls'[c].row = None
  BY <1>1 DEF CallInv
<1>. QED
  BY <1>1, AnswerCalls DEF CallInv

\* What becomes of the callers of an actor that is gone.
LEMMA ActorGoneCalls ==
  ASSUME TypeInv, NEW c \in Callers
  PROVE  /\ ActorGone[c].kind = calls[c].kind /\ ActorGone[c].row = calls[c].row
         /\ ActorGone[c].phase =
              IF calls[c].phase # "waiting" THEN calls[c].phase
              ELSE IF calls[c].kind = "destroy" THEN "unrouting" ELSE "rejected"
<1>1. calls[c] \in Call
  BY DEF TypeInv, CallsPart
<1>. QED
  BY <1>1 DEF ActorGone, Over, Call

\* launchAndSwap giving up: the caller waits on, or has its reply.
LEMMA GiveUpKeepsCallInv ==
  ASSUME TypeInv, CallInv, pc \notin {"none", "idle"}, GiveUp, UNCHANGED daemon
  PROVE  CallInv'
<1>1. CASE Reject
  BY <1>1, AnswerKeepsCallInv DEF Reject
<1>2. CASE pc' = "fail" /\ job' = [job EXCEPT !.cand = None] /\ UNCHANGED <<actorVars, calls>>
  <2>1. job \in Job
    BY DEF TypeInv, JobPart
  <2>. QED
    BY <1>2, <2>1, CallFrame DEF Job, Busy
<1>. QED
  BY <1>1, <1>2 DEF GiveUp

\* A step of the deploy keeps its row the caller's: only createRelease writes it.
LEMMA DeployStepKeepsCallInv ==
  ASSUME TypeInv, DeployInv, CallInv, DeployStep
  PROVE  CallInv'
<1>0. job \in Job /\ calls \in [Callers -> Call]
  BY DEF TypeInv, JobPart, CallsPart
<1>1. CASE Reject
  <2>1. UNCHANGED daemon
    BY <1>1 DEF DeployStep, PrepareRefused, PrepareRestart, PrepareRelease, CreateRow, Build, RecordImage,
       FailRow, Launch, LaunchRefused, StartInstance, Healthy, Abandon, PassCheck, Swap, RecordLive, daemonVars
  <2>. QED
    BY <1>1, <2>1, AnswerKeepsCallInv DEF Reject
<1>2. CASE Accept
  <2>1. UNCHANGED daemon
    BY <1>2 DEF DeployStep, PrepareRefused, PrepareRestart, PrepareRelease, CreateRow, Build, RecordImage,
       FailRow, Launch, LaunchRefused, StartInstance, Healthy, Abandon, PassCheck, Swap, RecordLive, daemonVars
  <2>. QED
    BY <1>2, <2>1, AnswerKeepsCallInv DEF Accept
<1>3. CASE PrepareRestart
  \* The row of a restart is not its caller's.
  <2>1. job'.by = job.by /\ job'.kind = job.kind /\ job.kind = "restart"
    BY <1>0, <1>3 DEF PrepareRestart, Job
  <2>. QED
    BY <1>3, <2>1 DEF PrepareRestart, CallInv, Busy, daemonVars
<1>4. CASE PrepareRelease
  <2>1. job'.by = job.by /\ job'.kind = job.kind /\ job'.row = job.row
    BY <1>0, <1>4 DEF PrepareRelease, Job
  <2>. QED
    BY <1>4, <2>1, CallFrame DEF PrepareRelease, Busy, daemonVars
<1>5. ASSUME CreateRow, NEW i \in Ids, job' = [job EXCEPT !.row = i], calls' = [calls EXCEPT ![job.by].row = i],
             pc' \in {"build", "launch"}
      PROVE  CallInv'
  <2>1. job.kind # "restart" /\ job.by \in Callers /\ daemon \in {"up", "stopping"} /\ UNCHANGED daemon
    BY <1>5 DEF CreateRow, DeployInv, OwnPcs, Busy, daemonVars
  <2>2. job'.by = job.by /\ job'.kind = job.kind /\ job'.row = i
    BY <1>0, <1>5 DEF Job
  <2>3. /\ calls[job.by].phase = "taken" /\ calls[job.by].kind \notin {"restart", "destroy"}
        /\ \A c \in Callers : calls[c].phase = "taken" => c = job.by
    BY <2>1 DEF CallInv
  <2>4. /\ calls'[job.by].phase = "taken" /\ calls'[job.by].kind = calls[job.by].kind /\ calls'[job.by].row = i
        /\ \A c \in Callers : c # job.by => calls'[c] = calls[c]
    BY <1>0, <1>5, <2>1, <2>3 DEF Call
  <2>. QED
    BY <1>5, <2>1, <2>2, <2>3, <2>4 DEF CallInv, Busy
<1>6. CASE Build \/ Launch \/ Healthy \/ PassCheck
  BY <1>6, CallFrame DEF Build, Launch, Healthy, PassCheck, Busy, daemonVars
<1>7. CASE RecordImage
  <2>1. job'.by = job.by /\ job'.kind = job.kind /\ job'.row = job.row
    BY <1>0, <1>7 DEF RecordImage, Job
  <2>. QED
    BY <1>7, <2>1, CallFrame DEF RecordImage, Busy, daemonVars
<1>8. CASE StartInstance
  <2>1. CASE GiveUp
    BY <1>8, <2>1, GiveUpKeepsCallInv DEF StartInstance, daemonVars
  <2>2. ASSUME NEW i \in Insts, job' = [job EXCEPT !.cand = i], pc' = "health", UNCHANGED <<actorVars, calls>>
        PROVE  CallInv'
    <3>1. job'.by = job.by /\ job'.kind = job.kind /\ job'.row = job.row
      BY <1>0, <2>2 DEF Job
    <3>. QED
      BY <1>8, <2>2, <3>1, CallFrame DEF StartInstance, Busy, daemonVars
  <2>. QED
    BY <1>8, <2>1, <2>2 DEF StartInstance
<1>9. CASE Abandon \/ LaunchRefused
  BY <1>9, GiveUpKeepsCallInv DEF Abandon, LaunchRefused, daemonVars
<1>10. ASSUME Swap, pc' = "setlive", UNCHANGED <<job, calls>>
       PROVE  CallInv'
  BY <1>10, CallFrame DEF Swap, Busy, daemonVars
<1>. QED
  BY <1>1, <1>2, <1>3, <1>4, <1>5, <1>6, <1>7, <1>8, <1>9, <1>10
     DEF DeployStep, PrepareRefused, CreateRow, FailRow, Swap, RecordLive

\* A caller's own steps, and the actor taking a command or a destroy.
LEMMA CallersKeepCallInv ==
  ASSUME TypeInv, ActorInv, DeployInv, CallInv, NEW c \in Callers, CallerStep(c) \/ TakeCommand(c) \/ Destroy(c)
  PROVE  CallInv'
<1>0. calls \in [Callers -> Call] /\ \A d \in Callers : calls[d] \in Call
  BY DEF TypeInv, CallsPart
<1>1. ASSUME NEW k \in Kinds, Request(c, k)
      PROVE  CallInv'
  BY <1>0, <1>1 DEF Request, CallInv, Busy, Call, daemonVars
<1>2. CASE RequestDestroy(c)
  BY <1>0, <1>2 DEF RequestDestroy, CallInv, Busy, Call, daemonVars, jobVars
<1>3. CASE Cancel(c) \/ Withdraw(c) \/ RemoveRoute(c)
  BY <1>0, <1>3 DEF Cancel, Withdraw, RemoveRoute, CallInv, Busy, Call, daemonVars, jobVars
<1>4. CASE DeleteRows(c)
  <2>1. /\ calls'[c].phase \in {"accepted", "rejected"} /\ calls'[c].kind = calls[c].kind /\ calls'[c].row = calls[c].row
        /\ \A d \in Callers : d # c => calls'[d] = calls[d]
        /\ calls[c].phase = "deleting"
    BY <1>0, <1>4 DEF DeleteRows, Call
  <2>. QED
    BY <1>4, <2>1 DEF DeleteRows, CallInv, Busy, daemonVars, jobVars
<1>5. CASE TakeCommand(c)
  <2>1. job'.by = c /\ job'.kind = calls[c].kind /\ job'.row = None /\ Busy' /\ pc = "idle" /\ UNCHANGED daemon
    BY <1>5 DEF TakeCommand, Take, NoJob, Busy, daemonVars
  <2>2. /\ calls[c].phase = "waiting" /\ calls[c].kind # "destroy" /\ calls[c].row = None
        /\ calls'[c].phase = "taken" /\ calls'[c].kind = calls[c].kind /\ calls'[c].row = calls[c].row
        /\ \A d \in Callers : d # c => calls'[d] = calls[d]
    BY <1>0, <1>5 DEF TakeCommand, CallInv, Call
  <2>. QED
    BY <2>1, <2>2 DEF CallInv, Busy
<1>6. CASE Destroy(c)
  <2>1. ActorGone \in [Callers -> Call] /\ \A d \in Callers : ActorGone[d] \in Call
    BY ActorGoneTypes
  <2>2. PICK verdict \in {"deleting", "rejected"} : calls' = [ActorGone EXCEPT ![c].phase = verdict]
    BY <1>6 DEF Destroy
  <2>3. /\ calls'[c].phase = verdict /\ calls'[c].kind = calls[c].kind /\ calls'[c].row = calls[c].row
        /\ calls[c].phase = "waiting" /\ calls[c].kind = "destroy"
        /\ \A d \in Callers : d # c => calls'[d] = ActorGone[d]
    BY <1>6, <2>1, <2>2, ActorGoneCalls DEF Destroy, Call
  <2>4. job.by \notin Callers /\ pc = "idle" /\ UNCHANGED <<job, daemon>>
    BY <1>6, NobodyAssumption DEF Destroy, ActorInv
  <2> SUFFICES ASSUME NEW d \in Callers
               PROVE  /\ calls'[d].phase \in {"waiting", "taken", "unrouting", "deleting"} => daemon \in {"up", "stopping"}
                      /\ calls'[d].phase # "taken"
                      /\ calls'[d].phase \in {"new", "waiting"} \/ calls'[d].kind \in {"restart", "destroy"} => calls'[d].row = None
    BY <2>4 DEF CallInv
  <2>. QED
    BY <2>3, <2>4, ActorGoneCalls DEF CallInv, Busy
<1>. QED
  BY <1>1, <1>2, <1>3, <1>4, <1>5, <1>6 DEF CallerStep

\* The steps that no caller takes; the daemon's end breaks what is unanswered.
LEMMA OthersKeepCallInv ==
  ASSUME TypeInv, ActorInv, DeployInv, CallInv
  PROVE  /\ TakeBoot \/ FireRetry \/ ExitStep \/ ActorQuit \/ Panic => CallInv'
         /\ \A i \in Insts : Die(i) \/ Report(i) \/ Retire(i) => CallInv'
         /\ StartDaemon \/ ReconcileStep \/ ReconcileFails => CallInv'
         /\ Interrupt \/ Shutdown \/ Exit \/ Crash => CallInv'
         /\ UNCHANGED vars => CallInv'
<1>0. calls \in [Callers -> Call] /\ \A d \in Callers : calls[d] \in Call
  BY DEF TypeInv, CallsPart
<1>1. CASE TakeBoot
  <2>1. job'.by = "boot" /\ job.by \notin Callers /\ pc \in {"none", "idle"}
    BY <1>1, NobodyAssumption DEF TakeBoot, NoJob, ActorInv
  <2>. QED
    BY <1>1, <2>1, NobodyAssumption DEF TakeBoot, CallInv, Busy
<1>2. CASE FireRetry
  <2>1. job'.by = "retry" /\ pc = "idle"
    BY <1>2 DEF FireRetry, Take, NoJob
  <2>. QED
    BY <1>2, <2>1, NobodyAssumption DEF FireRetry, CallInv, Busy, daemonVars
<1>3. CASE ExitStep
  BY <1>3, CallFrame DEF ExitStep, IgnoreExit, OnExit, jobVars, daemonVars, Busy
<1>4. CASE ActorQuit
  <2>1. job.by \notin Callers /\ pc = "idle" /\ UNCHANGED <<job, daemon>>
    BY <1>4, NobodyAssumption DEF ActorQuit, MayQuit, ActorInv, daemonVars
  <2> SUFFICES ASSUME NEW d \in Callers
               PROVE  /\ calls'[d].phase \in {"waiting", "taken", "unrouting", "deleting"} => daemon \in {"up", "stopping"}
                      /\ calls'[d].phase # "taken"
                      /\ calls'[d].phase \in {"new", "waiting"} \/ calls'[d].kind \in {"restart", "destroy"} => calls'[d].row = None
    BY <2>1 DEF CallInv
  <2>. QED
    BY <1>4, <2>1, ActorGoneCalls DEF ActorQuit, CallInv, Busy
<1>5. CASE Panic
  BY <1>5, AnswerKeepsCallInv DEF Panic, Reject, daemonVars
<1>6. ASSUME NEW i \in Insts, Die(i) \/ Report(i) \/ Retire(i)
      PROVE  CallInv'
  BY <1>6, CallFrame DEF Die, Report, Retire, jobVars, daemonVars, Busy
<1>7. CASE StartDaemon \/ SweptAdopt \/ AdoptFails \/ SweptRestart \/ ReconcileFails \/ Serve
  BY <1>7 DEF StartDaemon, SweptAdopt, AdoptFails, SweptRestart, ReconcileFails, Serve, ActorInv, CallInv, jobVars, Busy
<1>8. ASSUME NEW i, SweepKeep(i) \/ SweepRemove(i) \/ MarkCutOff(i)
      PROVE  CallInv'
  BY <1>8, CallFrame DEF SweepKeep, SweepRemove, MarkCutOff, jobVars, daemonVars, Busy
<1>9. CASE Interrupt \/ Shutdown
  <2>1. \A d \in Callers : calls'[d].phase = calls[d].phase /\ calls'[d].kind = calls[d].kind /\ calls'[d].row = calls[d].row
    BY <1>0, <1>9 DEF Interrupt, Shutdown, Call
  <2>. QED
    BY <1>9, <2>1 DEF Interrupt, Shutdown, CallInv, jobVars, Busy
<1>10. CASE Exit \/ Crash
  <2>1. \A d \in Callers :
          /\ calls'[d].kind = calls[d].kind /\ calls'[d].row = calls[d].row
          /\ calls'[d].phase = IF calls[d].phase \in {"waiting", "taken", "unrouting", "deleting"} THEN "broken" ELSE calls[d].phase
    BY <1>0, <1>10, ProcessGoneCalls DEF Exit, Crash
  <2>2. job'.by = Nobody
    BY <1>10 DEF Exit, Crash, ProcessGone, NoJob
  <2>. QED
    BY <2>1, <2>2, NobodyAssumption DEF CallInv
<1>11. CASE UNCHANGED vars
  BY <1>11, CallFrame DEF vars, jobVars, daemonVars, Busy
<1>. QED
  BY <1>1, <1>2, <1>3, <1>4, <1>5, <1>6, <1>7, <1>8, <1>9, <1>10, <1>11 DEF ReconcileStep

\* A deploy is its caller's, who waits for it; a row of its own is its caller's.
THEOREM DeployInvariant == Spec => [](DeployInv /\ CallInv)
<1>1. Init => DeployInv /\ CallInv
  BY NobodyAssumption DEF Init, NoJob, NoCall, DeployInv, CallInv, Busy, RowPcs, OwnPcs
<1>2. TypeInv /\ ActorInv /\ DeployInv /\ CallInv /\ [Next]_vars => DeployInv' /\ CallInv'
  BY DeployStepKeepsDeploy, OthersKeepDeploy, DeployStepKeepsCallInv, CallersKeepCallInv, OthersKeepCallInv DEF Next
<1>. QED
  BY <1>1, <1>2, TypeInvariant, ActorInvariant, PTL DEF Spec

-----------------------------------------------------------------------------
(* What ps shows *)

\* What StatusIsTrue says between events, carried through a deploy: while the
\* restart of a dead instance is under way nothing else is scheduled, and a
\* restart that a caller asks for forgets the failures before it is launched.
StatusInv ==
  /\ status = "running" => current # None /\ ~exited
  /\ status \in {"restarting", "crashed"} => current # None /\ exited
  /\ status = "restarting" => retry \/ job.by = "retry" \/ pc = "launch"
  /\ status = "crashed" => ~retry /\ (failures >= CrashThreshold \/ pc = "launch")
  /\ job.by = "retry" => ~retry

\* A step that leaves what ps reads alone, outside launch.
LEMMA StatusFrame ==
  ASSUME StatusInv, pc # "launch", UNCHANGED <<status, current, exited, retry, failures>>,
         job'.by = job.by
  PROVE  StatusInv'
BY DEF StatusInv

\* Counting a failure of an instance that is dead leaves a status that is true.
LEMMA CountIsTrue ==
  ASSUME TypeInv, ~retry, CountFailure, job'.by # "retry", current' # None, exited'
  PROVE  StatusInv'
<1>1. PICK n \in FailureCounts :
        /\ failures' = n
        /\ IF n >= CrashThreshold
           THEN status' = "crashed" /\ UNCHANGED retry
           ELSE status' = "restarting" /\ retry' = TRUE
  BY DEF CountFailure
<1>. QED
  BY <1>1 DEF StatusInv

\* A deploy that returns an error: a restart that failed is counted once more.
LEMMA RejectKeepsStatus ==
  ASSUME TypeInv, ActorInv, StatusInv, pc # "launch", Reject
  PROVE  StatusInv'
<1>1. job'.by = Nobody /\ Nobody # "retry" /\ UNCHANGED <<current, exited>>
  BY NobodyAssumption DEF Reject, Answer, NoJob
<1>2. CASE job.by = "retry"
  BY <1>1, <1>2, CountIsTrue DEF Reject, ActorInv, StatusInv
<1>3. CASE job.by # "retry"
  BY <1>1, <1>3 DEF Reject, failVars, StatusInv
<1>. QED
  BY <1>2, <1>3

\* A step of the deploy keeps the status explained.
LEMMA DeployStepKeepsStatus ==
  ASSUME Faults \cap {"panic", "parse"} = {}, TypeInv, ActorInv, DeployInv, StatusInv, DeployStep
  PROVE  StatusInv'
<1>0. job \in Job /\ ~LaunchRefused
  BY DEF TypeInv, JobPart, LaunchRefused, Fault
<1>1. CASE Reject
  BY <1>0, <1>1, RejectKeepsStatus DEF DeployStep, PrepareRefused, PrepareRestart, PrepareRelease, CreateRow, Build,
     RecordImage, FailRow, Launch, StartInstance, Healthy, Abandon, PassCheck, Swap, RecordLive, Reject, Answer
<1>2. CASE PrepareRestart
  <2>1. job'.by = job.by /\ pc' = "launch" /\ pc = "prepare" /\ UNCHANGED <<status, current, exited>>
    BY <1>0, <1>2 DEF PrepareRestart, Job
  <2>2. retry' => retry
    BY <1>2 DEF PrepareRestart
  <2>. QED
    BY <2>1, <2>2 DEF StatusInv
<1>3. ASSUME pc # "launch", UNCHANGED actorVars, job'.by = job.by
      PROVE  StatusInv'
  BY <1>3, StatusFrame DEF actorVars
<1>4. CASE PrepareRelease \/ RecordImage
  <2>1. job'.by = job.by
    BY <1>0, <1>4 DEF PrepareRelease, RecordImage, Job
  <2>. QED
    BY <1>3, <1>4, <2>1 DEF PrepareRelease, RecordImage
<1>5. ASSUME CreateRow, NEW i \in Ids, job' = [job EXCEPT !.row = i], UNCHANGED actorVars
      PROVE  StatusInv'
  BY <1>0, <1>3, <1>5 DEF CreateRow, Job
<1>6. CASE Build \/ Healthy \/ PassCheck
  BY <1>3, <1>6 DEF Build, Healthy, PassCheck
<1>7. CASE Launch
  <2>1. UNCHANGED <<job, current, exited, retry, failures>>
    BY <1>7 DEF Launch
  <2>2. CASE current = None \/ exited
    BY <1>7, <2>1, <2>2 DEF Launch, StatusInv
  <2>3. CASE current # None /\ ~exited
    BY <1>7, <2>1, <2>3 DEF Launch, StatusInv
  <2>. QED
    BY <2>2, <2>3
<1>8. ASSUME StartInstance, NEW i \in Insts, job' = [job EXCEPT !.cand = i], UNCHANGED actorVars
      PROVE  StatusInv'
  BY <1>0, <1>3, <1>8 DEF StartInstance, Job
<1>9. ASSUME StartInstance \/ Abandon, job' = [job EXCEPT !.cand = None], UNCHANGED actorVars
      PROVE  StatusInv'
  BY <1>0, <1>3, <1>9 DEF StartInstance, Abandon, Job
<1>10. CASE Swap
  BY <1>0, <1>10 DEF Swap, DropRetry, TypeInv, JobPart, StatusInv
<1>11. CASE RecordLive
  <2>1. job'.by # "retry" /\ pc = "setlive" /\ UNCHANGED <<status, current, exited, retry, failures>>
    BY <1>11, NobodyAssumption DEF RecordLive, Accept, Answer, NoJob, actorVars
  <2>2. job.by # "retry"
    BY <2>1, NobodyAssumption DEF DeployInv, Busy, OwnPcs
  <2>. QED
    BY <2>1, <2>2 DEF StatusInv
<1>. QED
  BY <1>0, <1>1, <1>2, <1>4, <1>5, <1>6, <1>7, <1>8, <1>9, <1>10, <1>11
     DEF DeployStep, PrepareRefused, CreateRow, FailRow, StartInstance, Abandon, GiveUp

\* So does every other step.
LEMMA OthersKeepStatus ==
  ASSUME Faults \cap {"panic", "parse"} = {}, TypeInv, ActorInv, DeployInv, StatusInv
  PROVE  /\ \A c \in Callers : CallerStep(c) \/ TakeCommand(c) \/ Destroy(c) => StatusInv'
         /\ TakeBoot \/ FireRetry \/ ExitStep \/ ActorQuit \/ Panic => StatusInv'
         /\ \A i \in Insts : Die(i) \/ Report(i) \/ Retire(i) => StatusInv'
         /\ StartDaemon \/ ReconcileStep \/ ReconcileFails => StatusInv'
         /\ Interrupt \/ Shutdown \/ Exit \/ Crash => StatusInv'
         /\ UNCHANGED vars => StatusInv'
<1>r. Retired /\ job'.by = Nobody => StatusInv'
  BY NobodyAssumption DEF Retired, StatusInv
<1>k. UNCHANGED <<pc, actorVars, job>> => StatusInv'
  BY DEF StatusInv, actorVars
<1>1. ASSUME NEW c \in Callers, CallerStep(c)
      PROVE  StatusInv'
  <2>1. CASE \E k \in Kinds : Request(c, k)
    BY <2>1 DEF Request, StatusInv, actorVars
  <2>. QED
    BY <1>1, <1>k, <2>1 DEF CallerStep, RequestDestroy, Cancel, Withdraw, RemoveRoute, DeleteRows, jobVars
<1>2. ASSUME NEW c \in Callers, TakeCommand(c)
      PROVE  StatusInv'
  <2>1. job'.by = c /\ pc = "idle" /\ job.by = Nobody
    BY <1>2 DEF TakeCommand, Take, NoJob, ActorInv
  <2>. QED
    BY <1>2, <2>1, NobodyAssumption DEF TakeCommand, StatusInv, actorVars
<1>3. ASSUME NEW c \in Callers, Destroy(c)
      PROVE  StatusInv'
  BY <1>3, <1>r DEF Destroy, ActorInv
<1>4. CASE TakeBoot
  <2>1. job'.by = "boot" /\ pc \in {"none", "idle"} /\ job.by = Nobody /\ UNCHANGED actorVars
    BY <1>4 DEF TakeBoot, NoJob, ActorInv
  <2>. QED
    BY <2>1, NobodyAssumption DEF StatusInv, actorVars
<1>5. CASE FireRetry
  <2>1. /\ job'.by = "retry" /\ pc = "idle" /\ pc' = "prepare" /\ retry /\ ~retry'
        /\ UNCHANGED <<current, exited, failures, status>>
    BY <1>5 DEF FireRetry, Take, NoJob
  <2>. QED
    BY <2>1 DEF StatusInv
<1>6. ASSUME NEW i \in Insts, OnExit(i)
      PROVE  StatusInv'
  <2>1. current' = current /\ current # None /\ ~exited /\ exited' /\ UNCHANGED job
    BY <1>6 DEF OnExit, IsCurrentExit, jobVars, Insts, None
  <2>2. job'.by # "retry" /\ ~retry
    BY <1>6, <2>1, NobodyAssumption DEF OnExit, ActorInv, RetryOnlyForDead
  <2>. QED
    BY <1>6, <2>1, <2>2, CountIsTrue DEF OnExit
<1>7. ASSUME NEW i \in Insts, IgnoreExit(i) \/ Die(i) \/ Report(i) \/ Retire(i)
      PROVE  StatusInv'
  BY <1>7, <1>k DEF IgnoreExit, Die, Report, Retire, jobVars
<1>8. CASE ActorQuit
  BY <1>8, <1>r DEF ActorQuit, MayQuit, ActorInv
<1>9. ~Panic
  BY DEF Panic, Fault
<1>10. CASE StartDaemon \/ AdoptFails \/ SweptRestart \/ ReconcileFails \/ Serve \/ Interrupt \/ Shutdown
  <2>1. CASE AdoptFails
    BY <2>1 DEF AdoptFails, StatusInv, ActorInv, actorVars
  <2>. QED
    BY <1>10, <1>k, <2>1 DEF StartDaemon, SweptRestart, ReconcileFails, Serve, Interrupt, Shutdown, jobVars
<1>11. ASSUME NEW i, SweepKeep(i) \/ SweepRemove(i) \/ MarkCutOff(i)
       PROVE  StatusInv'
  BY <1>11, <1>k DEF SweepKeep, SweepRemove, MarkCutOff, jobVars
<1>12. CASE SweptAdopt
  <2>1. job'.by = Nobody /\ status' = "running" /\ current' # None /\ ~exited'
    BY <1>12 DEF SweptAdopt, ActorInv
  <2>. QED
    BY <2>1, NobodyAssumption DEF StatusInv
<1>13. CASE Exit \/ Crash
  BY <1>13, <1>r DEF Exit, Crash, ProcessGone, NoJob
<1>14. CASE UNCHANGED vars
  BY <1>14, <1>k DEF vars, jobVars
<1>. QED
  BY <1>1, <1>2, <1>3, <1>4, <1>5, <1>6, <1>7, <1>8, <1>9, <1>10, <1>11, <1>12, <1>13, <1>14
     DEF ExitStep, ReconcileStep

\* Between events ps tells the truth, whatever fails outside and in whichever
\* order deaths, reports, restarts and callers come; only a restart that forgot
\* the failures for its caller and then panics, or finds that its release's
\* snapshots do not parse, leaves a status behind.
THEOREM StatusTruth ==
  ASSUME Faults \cap {"panic", "parse"} = {}
  PROVE  Spec => []StatusIsTrue
<1>1. Init => StatusInv
  BY NobodyAssumption DEF Init, NoJob, StatusInv
<1>2. TypeInv /\ ActorInv /\ DeployInv /\ StatusInv /\ [Next]_vars => StatusInv'
  BY DeployStepKeepsStatus, OthersKeepStatus DEF Next
<1>3. ActorInv /\ StatusInv => StatusIsTrue
  BY NobodyAssumption DEF ActorInv, StatusInv, StatusIsTrue
<1>. QED
  BY <1>1, <1>2, <1>3, TypeInvariant, ActorInvariant, DeployInvariant, PTL DEF Spec

-----------------------------------------------------------------------------
(* Nothing runs that nobody will stop *)

\* What the outside must do for that: stop what is to be stopped, list what
\* runs, answer from the store with manifests that parse; and no deploy panics.
SweepIsWhole == Faults \cap {"stop", "list", "store", "parse", "panic"} = {}

Owned == {current, job.cand} \cup draining

\* The sweep has still to handle what runs and is not kept, and an actor's dead
\* instance is stopped; of what a Reconcile that was cut off left, nobody knows.
RunsInv ==
  /\ exited /\ current # None => state[current] # "up"
  /\ daemon = "sweeping" /\ ~interrupted =>
       \A i \in Insts : state[i] = "up" => found[i] # "handled" \/ i = keep
  /\ (daemon \in {"marking", "up"} \/ pc # "none") /\ ~interrupted =>
       \A i \in Insts : state[i] = "up" => i \in Owned

\* A step that starts nothing and disowns nothing that runs.
LEMMA RunsFrame ==
  ASSUME TypeInv, RunsInv, UNCHANGED <<current, exited, daemon, interrupted>>,
         pc' # "none" => pc # "none" \/ daemon \in {"marking", "up"},
         \A i \in Insts : state'[i] = "up" =>
           /\ state[i] = "up" /\ (i \in Owned => i \in Owned')
           /\ daemon = "sweeping" /\ (found[i] # "handled" \/ i = keep) => found'[i] # "handled" \/ i = keep'
  PROVE  RunsInv'
<1>1. current \in Insts \cup {None}
  BY DEF TypeInv, ActorTypeOK
<1>. QED
  BY <1>1 DEF RunsInv

\* A Stop that does not fail ends the instance.
LEMMA StopEnds ==
  ASSUME TypeInv, "stop" \notin Faults, NEW j, Stop(j)
  PROVE  \A i \in Insts : state'[i] = "up" => state[i] = "up" /\ i # j
BY DEF Stop, Fault, TypeInv, RuntimeTypeOK

\* A step of the deploy: what it starts is its candidate, and what it gives up it stops.
LEMMA DeployStepKeepsRuns ==
  ASSUME SweepIsWhole, TypeInv, ActorInv, DeployInv, RunsInv, DeployStep
  PROVE  RunsInv'
<1>0. /\ job \in Job /\ pc \in Pcs /\ state \in [Insts -> {"none", "up", "dead"}]
      /\ current \in Insts \cup {None} /\ exited \in BOOLEAN /\ None \notin Insts
  BY DEF TypeInv, JobPart, RuntimeTypeOK, ActorTypeOK, None, Insts
<1>b. pc \notin {"none", "idle"} /\ daemon \notin {"down", "sweeping"}
  BY DEF DeployStep, PrepareRefused, PrepareRestart, PrepareRelease, CreateRow, Build, RecordImage,
     FailRow, Launch, LaunchRefused, StartInstance, Healthy, Abandon, PassCheck, Swap, RecordLive, ActorInv
<1>1. ASSUME UNCHANGED <<state, current, exited, daemon, interrupted, draining>>,
             pc \notin {"health", "check", "swap"}
      PROVE  RunsInv'
  <2>1. job.cand \in {None, current}
    BY <1>1 DEF DeployInv
  <2>2. \A i \in Insts : i \in Owned => i \in Owned'
    BY <1>0, <1>1, <2>1 DEF Owned
  <2>. QED
    BY <1>b, <1>1, <2>2, RunsFrame
<1>2. CASE PrepareRefused \/ PrepareRestart \/ PrepareRelease \/ CreateRow \/ Build \/ RecordImage
           \/ FailRow \/ Launch \/ LaunchRefused \/ RecordLive
  BY <1>1, <1>2 DEF PrepareRefused, PrepareRestart, PrepareRelease, CreateRow, Build, RecordImage,
     FailRow, Launch, LaunchRefused, RecordLive, GiveUp, Reject, runtimeVars, daemonVars, watchVars, actorVars
<1>3. CASE StartInstance
  <2>1. CASE GiveUp /\ UNCHANGED runtimeVars
    BY <1>1, <1>3, <2>1 DEF StartInstance, GiveUp, Reject, runtimeVars, daemonVars, watchVars, actorVars
  <2>2. ASSUME NEW i \in Insts, Fresh(i), state' = [state EXCEPT ![i] = "up"], job' = [job EXCEPT !.cand = i],
               UNCHANGED <<actorVars, calls>>
        PROVE  RunsInv'
    <3>1. job.cand = None /\ job'.cand = i /\ i # current
      BY <1>0, <1>3, <2>2 DEF StartInstance, DeployInv, Job, Fresh, Unused
    <3>2. UNCHANGED <<current, exited, daemon, interrupted, draining>>
      BY <1>3, <2>2 DEF StartInstance, daemonVars, watchVars, actorVars
    <3>3. \A j \in Insts : j # i => state'[j] = state[j]
      BY <1>0, <2>2
    <3>. QED
      BY <1>0, <1>b, <3>1, <3>2, <3>3 DEF RunsInv, Owned
  <2>. QED
    BY <1>3, <2>1, <2>2 DEF StartInstance
<1>4. CASE Healthy \/ PassCheck
  <2>1. UNCHANGED <<state, current, exited, daemon, interrupted, draining, job>>
    BY <1>4 DEF Healthy, PassCheck, runtimeVars, daemonVars, watchVars, actorVars
  <2>. QED
    BY <1>b, <2>1, RunsFrame DEF Owned
<1>5. CASE Abandon
  <2>1. UNCHANGED <<current, exited, daemon, interrupted, draining>>
    BY <1>5 DEF Abandon, GiveUp, Reject, daemonVars, watchVars, actorVars
  <2>2. \A i \in Insts : state'[i] = "up" => state[i] = "up" /\ i # job.cand
    BY <1>5, StopEnds DEF Abandon, SweepIsWhole
  <2>. QED
    BY <1>b, <2>1, <2>2, RunsFrame DEF Owned
<1>6. CASE Swap
  <2>1. /\ current' = job.cand /\ exited' = FALSE /\ UNCHANGED <<state, daemon, interrupted>>
        /\ draining' = IF current # None /\ ~exited THEN draining \cup {current} ELSE draining
    BY <1>6 DEF Swap, ToRetire, runtimeVars, daemonVars
  <2>2. ~interrupted => \A i \in Insts : state[i] = "up" => i \in Owned
    BY <1>b DEF RunsInv
  <2>3. ~interrupted => \A i \in Insts : state'[i] = "up" => i \in Owned'
    BY <1>0, <2>1, <2>2 DEF Owned, RunsInv
  <2>4. state[job.cand] # "up" \/ ~exited'
    BY <2>1
  <2>. QED
    BY <1>b, <2>1, <2>3 DEF RunsInv
<1>. QED
  BY <1>2, <1>3, <1>4, <1>5, <1>6 DEF DeployStep

\* Every other step: the sweep handles what it lists, a destroy stops what is current.
LEMMA OthersKeepRuns ==
  ASSUME SweepIsWhole, TypeInv, ActorInv, DeployInv, RunsInv
  PROVE  /\ \A c \in Callers : CallerStep(c) \/ TakeCommand(c) \/ Destroy(c) => RunsInv'
         /\ TakeBoot \/ FireRetry \/ ExitStep \/ ActorQuit \/ Panic => RunsInv'
         /\ \A i \in Insts : Die(i) \/ Report(i) \/ Retire(i) => RunsInv'
         /\ StartDaemon \/ ReconcileStep \/ ReconcileFails => RunsInv'
         /\ Interrupt \/ Shutdown \/ Exit \/ Crash => RunsInv'
         /\ UNCHANGED vars => RunsInv'
<1>0. /\ job \in Job /\ pc \in Pcs /\ state \in [Insts -> {"none", "up", "dead"}]
      /\ current \in Insts \cup {None} /\ exited \in BOOLEAN /\ None \notin Insts
      /\ found \in [Insts -> {"handled", "up", "dead"}]
  BY DEF TypeInv, JobPart, RuntimeTypeOK, ActorTypeOK, DaemonTypeOK, None, Insts
<1>i. pc \in {"none", "idle"} => job.cand = None
  BY DEF DeployInv
<1>k. UNCHANGED <<state, found, keep, job, current, exited, daemon, interrupted, draining>> /\ (pc' # "none" => pc # "none" \/ daemon \in {"marking", "up"})
      => RunsInv'
  BY RunsFrame DEF Owned
<1>1. ASSUME NEW c \in Callers, CallerStep(c)
      PROVE  RunsInv'
  <2>1. CASE \E k \in Kinds : Request(c, k)
    BY <1>k, <2>1 DEF Request, runtimeVars, daemonVars, actorVars, watchVars
  <2>. QED
    BY <1>1, <1>k, <2>1 DEF CallerStep, RequestDestroy, Cancel, Withdraw, RemoveRoute, DeleteRows,
       runtimeVars, daemonVars, actorVars, watchVars, jobVars
<1>2. ASSUME NEW c \in Callers, TakeCommand(c)
      PROVE  RunsInv'
  <2>1. pc = "idle" /\ job'.cand = None /\ UNCHANGED <<state, found, keep, current, exited, daemon, interrupted, draining>>
    BY <1>2 DEF TakeCommand, Take, NoJob, runtimeVars, daemonVars, actorVars, watchVars
  <2>. QED
    BY <1>i, <2>1, RunsFrame DEF Owned
<1>3. ASSUME NEW c \in Callers, Destroy(c)
      PROVE  RunsInv'
  <2>1. /\ pc = "idle" /\ current' = None /\ exited' = FALSE /\ pc' = "none"
        /\ UNCHANGED <<found, keep, job, daemon, interrupted, draining>>
    BY <1>3 DEF Destroy, Retired
  <2>2. state' = IF current # None /\ ~exited THEN [state EXCEPT ![current] = "none"] ELSE state
    BY <1>3 DEF Destroy, StopCurrent, Fault, SweepIsWhole
  <2>3. \A i \in Insts : state'[i] = "up" => state[i] = "up" /\ i # current
    BY <1>0, <2>2 DEF RunsInv
  <2>. QED
    BY <1>0, <1>i, <2>1, <2>3 DEF RunsInv, Owned, ActorInv
<1>4. CASE TakeBoot
  <2>1. /\ pc \in {"none", "idle"} /\ job'.cand = None /\ daemon \in {"marking", "up", "stopping"} /\ pc' = "prepare"
        /\ (pc = "none" => daemon # "stopping")
        /\ UNCHANGED <<state, found, keep, current, exited, daemon, interrupted, draining>>
    BY <1>4 DEF TakeBoot, NoJob, runtimeVars, actorVars, watchVars
  <2>. QED
    BY <1>i, <2>1, RunsFrame DEF Owned
<1>5. CASE FireRetry
  <2>1. pc = "idle" /\ job'.cand = None /\ UNCHANGED <<state, found, keep, current, exited, daemon, interrupted, draining>>
    BY <1>5 DEF FireRetry, Take, NoJob, runtimeVars, daemonVars, watchVars
  <2>. QED
    BY <1>i, <2>1, RunsFrame DEF Owned
<1>6. ASSUME NEW i \in Insts, OnExit(i)
      PROVE  RunsInv'
  <2>1. /\ current' = current /\ exited' = TRUE /\ pc = "idle"
        /\ UNCHANGED <<found, keep, job, daemon, interrupted, draining, pc>>
    BY <1>6 DEF OnExit, daemonVars, jobVars
  <2>2. \A j \in Insts : state'[j] = "up" => state[j] = "up" /\ j # current
    BY <1>6, StopEnds DEF OnExit, SweepIsWhole
  <2>3. daemon \notin {"down", "sweeping"}
    BY <2>1 DEF ActorInv
  <2>. QED
    BY <1>0, <2>1, <2>2, <2>3 DEF RunsInv, Owned
<1>7. ASSUME NEW i \in Insts, IgnoreExit(i) \/ Report(i)
      PROVE  RunsInv'
  BY <1>7, <1>k DEF IgnoreExit, Report, runtimeVars, daemonVars, actorVars, jobVars
<1>8. ASSUME NEW i \in Insts, Die(i)
      PROVE  RunsInv'
  <2>1. \A j \in Insts : state'[j] = "up" => state[j] = "up"
    BY <1>0, <1>8 DEF Die
  <2>. QED
    BY <1>8, <2>1, RunsFrame DEF Die, daemonVars, actorVars, jobVars, watchVars, Owned
<1>9. ASSUME NEW i \in Insts, Retire(i)
      PROVE  RunsInv'
  <2>1. \A j \in Insts : state'[j] = "up" => state[j] = "up" /\ j # i
    BY <1>9, StopEnds DEF Retire, SweepIsWhole
  <2>2. draining' = draining \ {i} /\ UNCHANGED <<found, keep, job, current, exited, daemon, interrupted, pc>>
    BY <1>9 DEF Retire, daemonVars, actorVars, jobVars
  <2>. QED
    BY <2>1, <2>2, RunsFrame DEF Owned
<1>10. CASE ActorQuit
  <2>1. daemon = "stopping" /\ daemon' = "stopping" /\ pc' = "none" /\ current' = None /\ exited' = FALSE
    BY <1>10 DEF ActorQuit, Retired, daemonVars
  <2>. QED
    BY <2>1 DEF RunsInv
<1>11. ~Panic
  BY DEF Panic, Fault, SweepIsWhole
<1>f. CASE ReconcileFails \/ AdoptFails
  <2>1. interrupted /\ interrupted' /\ UNCHANGED <<current, exited, state>>
    BY <1>f DEF ReconcileFails, AdoptFails, Fault, SweepIsWhole, actorVars, runtimeVars
  <2>. QED
    BY <2>1 DEF RunsInv
<1>12. CASE StartDaemon
  <2>1. daemon' = "sweeping" /\ UNCHANGED <<pc, current, exited, state, interrupted>> /\ pc = "none" /\ current = None
    BY <1>12 DEF StartDaemon, ActorInv, jobVars, actorVars, runtimeVars
  <2>2. \A i \in Insts : state[i] = "up" => found'[i] = "up"
    BY <1>0, <1>12 DEF StartDaemon
  <2>. QED
    BY <2>1, <2>2 DEF RunsInv
<1>13. ASSUME NEW i \in Insts, SweepKeep(i) \/ SweepRemove(i)
       PROVE  RunsInv'
  <2>1. /\ daemon = "sweeping" /\ pc = "none" /\ UNCHANGED <<pc, current, exited, daemon, interrupted, draining, job>>
        /\ found' = [found EXCEPT ![i] = "handled"]
    BY <1>13 DEF SweepKeep, SweepRemove, ActorInv, jobVars, actorVars, watchVars
  <2>2. \A j \in Insts : j # i => found'[j] = found[j]
    BY <1>0, <2>1
  <2>3. CASE SweepKeep(i)
    <3>1. keep = None /\ keep' = i /\ UNCHANGED state
      BY <2>3 DEF SweepKeep, Adoptable, runtimeVars
    <3>. QED
      BY <1>0, <2>1, <2>2, <3>1 DEF RunsInv
  <2>4. CASE SweepRemove(i)
    <3>1. keep' = keep /\ \A j \in Insts : state'[j] = "up" => state[j] = "up" /\ (j # i \/ interrupted)
      BY <2>4, StopEnds DEF SweepRemove, SweepIsWhole, runtimeVars
    <3>2. CASE interrupted
      BY <1>0, <2>1, <3>1, <3>2 DEF RunsInv
    <3>3. CASE ~interrupted
      BY <2>1, <2>2, <3>1, <3>3, RunsFrame DEF Owned
    <3>. QED
      BY <3>2, <3>3
  <2>. QED
    BY <1>13, <2>3, <2>4
<1>14. CASE SweptAdopt
  <2>1. daemon = "sweeping" /\ daemon' = "marking" /\ current' = keep /\ exited' = FALSE /\ UNCHANGED <<state, interrupted>>
    BY <1>14 DEF SweptAdopt, runtimeVars
  <2>2. \A i \in Insts : found[i] = "handled"
    BY <1>14 DEF SweptAdopt, AllHandled
  <2>. QED
    BY <2>1, <2>2 DEF RunsInv, Owned
<1>15. CASE SweptRestart
  <2>1. daemon = "sweeping" /\ daemon' = "marking" /\ keep = None /\ UNCHANGED <<pc, state, current, exited, interrupted>> /\ pc = "none" /\ current = None
    BY <1>15 DEF SweptRestart, runtimeVars, actorVars, jobVars, ActorInv
  <2>2. \A i \in Insts : found[i] = "handled"
    BY <1>15 DEF SweptRestart, AllHandled
  <2>. QED
    BY <1>0, <2>1, <2>2 DEF RunsInv
<1>16. ASSUME NEW i \in Ids, MarkCutOff(i)
       PROVE  RunsInv'
  BY <1>16, <1>k DEF MarkCutOff, runtimeVars, daemonVars, actorVars, jobVars, watchVars
<1>17. CASE Serve \/ Shutdown
  <2>1. /\ UNCHANGED <<pc, state, current, exited, job, draining, interrupted>>
        /\ daemon \in {"marking", "up"} /\ daemon' \in {"up", "stopping"}
    BY <1>17 DEF Serve, Shutdown, runtimeVars, actorVars, jobVars, watchVars
  <2>. QED
    BY <2>1 DEF RunsInv, Owned
<1>x. CASE Interrupt
  <2>1. interrupted' /\ UNCHANGED <<state, current, exited>>
    BY <1>x DEF Interrupt, runtimeVars, actorVars
  <2>. QED
    BY <2>1 DEF RunsInv
<1>18. CASE Exit \/ Crash
  <2>1. daemon' = "down" /\ pc' = "none" /\ current' = None /\ exited' = FALSE
    BY <1>18 DEF Exit, Crash, ProcessGone, Retired
  <2>. QED
    BY <2>1 DEF RunsInv
<1>19. CASE UNCHANGED vars
  BY <1>19, <1>k DEF vars, runtimeVars, daemonVars, actorVars, jobVars, watchVars
<1>. QED
  BY <1>1, <1>2, <1>3, <1>4, <1>5, <1>6, <1>7, <1>8, <1>9, <1>10, <1>11, <1>12, <1>13, <1>14, <1>15,
     <1>16, <1>17, <1>18, <1>19, <1>f, <1>x DEF ExitStep, ReconcileStep

\* What runs is owned, or the sweep has still to handle it.
THEOREM RunsInvariant ==
  ASSUME SweepIsWhole
  PROVE  Spec => []RunsInv
<1>1. Init => RunsInv
  BY DEF Init, RunsInv
<1>2. TypeInv /\ ActorInv /\ DeployInv /\ RunsInv /\ [Next]_vars => RunsInv'
  BY DeployStepKeepsRuns, OthersKeepRuns DEF Next
<1>. QED
  BY <1>1, <1>2, TypeInvariant, ActorInvariant, DeployInvariant, PTL DEF Spec

\* A deploy that is rejected, an exit, a restart and a crash at any point leave
\* nothing running that nobody will stop, once Reconcile has swept.
THEOREM NothingIsOrphaned ==
  ASSUME SweepIsWhole
  PROVE  Spec => []NoOrphan
<1>1. RunsInv => NoOrphan
  BY DEF RunsInv, NoOrphan, Owned
<1>. QED
  BY <1>1, RunsInvariant, PTL

\* Once an app is destroyed and its actor gone, nothing of it runs but what
\* drains, and nothing leads to it.
THEOREM DestroyLeavesNothing ==
  ASSUME SweepIsWhole
  PROVE  Spec => []DestroyedIsGone
<1>1. TypeInv /\ ActorInv /\ DeployInv /\ RunsInv => DestroyedIsGone
  <2>1. None \notin Insts
    BY DEF None, Insts
  <2>. QED
    BY <2>1 DEF ActorInv, DeployInv, RunsInv, Owned, DestroyedIsGone
<1>. QED
  BY <1>1, TypeInvariant, ActorInvariant, DeployInvariant, RunsInvariant, PTL

-----------------------------------------------------------------------------
(* What the store's calls do to one row *)

\* createRelease makes a row where there was none.
LEMMA CreatedRow ==
  ASSUME StorePart, NEW image \in {Image, NoImage}, NEW i \in Ids, Store!CreateRelease(App, image, i)
  PROVE  /\ ~Store!Exists(i) /\ live' = live
         /\ Store!HasStatus(i, {IF image = NoImage THEN "building" ELSE "starting"})'
         /\ \A j \in Ids : j # i => rows'[j] = rows[j]
<1>1. PICK v \in Store!Ids :
        rows' = [rows EXCEPT ![i] =
          [app |-> App, version |-> v, image |-> image,
           status |-> IF image = NoImage THEN "building" ELSE "starting"]]
  BY DEF Store!CreateRelease
<1>2. [app |-> App, version |-> v, image |-> image,
       status |-> IF image = NoImage THEN "building" ELSE "starting"] \in Store!Row
  BY DEF Store!Row, Store!Statuses
<1>3. rows \in [Ids -> Store!Row \cup {NoRow}]
  BY DEF StorePart, Store!TypeOK, Store!Ids, Ids
<1>4. ~Store!Exists(i)
  BY DEF Store!CreateRelease, Store!IsNextId, Store!Ids, Ids
<1>5. live' = live
  BY DEF Store!CreateRelease, live
<1>. QED
  BY <1>1, <1>2, <1>3, <1>4, <1>5, NoRowAssumption DEF Store!HasStatus, Store!Exists

\* markBuilt moves the row of a build, and no other.
LEMMA BuiltRow ==
  ASSUME StorePart, NEW i \in Ids, Store!MarkBuilt(i, Image)
  PROVE  /\ Store!HasStatus(i, {"building"}) /\ live' = live
         /\ Store!HasStatus(i, {"starting"})'
         /\ \A j \in Ids : j # i => rows'[j] = rows[j]
<1>1. rows \in [Ids -> Store!Row \cup {NoRow}] /\ Store!Exists(i)
  BY DEF StorePart, Store!TypeOK, Store!Ids, Ids, Store!MarkBuilt, Store!HasStatus
<1>2. rows[i] \in Store!Row
  BY <1>1, RowAt
<1>3. Store!Built(rows[i], Image) \in Store!Row /\ Store!Built(rows[i], Image).status = "starting"
  BY <1>2 DEF Store!Built, Store!Row, Store!Statuses
<1>4. rows' = [rows EXCEPT ![i] = Store!Built(rows[i], Image)] /\ live' = live
      /\ Store!HasStatus(i, {"building"})
  BY DEF Store!MarkBuilt, live
<1>. QED
  BY <1>1, <1>3, <1>4, NoRowAssumption DEF Store!HasStatus, Store!Exists

\* markFailed ends the row of a release that is not live yet, and no other.
LEMMA FailedRow ==
  ASSUME StorePart, NEW i \in Ids, Store!MarkFailed(i)
  PROVE  /\ Store!HasStatus(i, {"building", "starting"}) /\ live' = live
         /\ Store!HasStatus(i, {"failed"})'
         /\ \A j \in Ids : j # i => rows'[j] = rows[j]
<1>1. rows \in [Ids -> Store!Row \cup {NoRow}] /\ Store!Exists(i)
  BY DEF StorePart, Store!TypeOK, Store!Ids, Ids, Store!MarkFailed, Store!HasStatus
<1>2. rows[i] \in Store!Row
  BY <1>1, RowAt
<1>3. [rows[i] EXCEPT !.status = "failed"] \in Store!Row /\ [rows[i] EXCEPT !.status = "failed"].status = "failed"
  BY <1>2 DEF Store!Row, Store!Statuses
<1>4. rows' = [rows EXCEPT ![i] = [rows[i] EXCEPT !.status = "failed"]] /\ live' = live
      /\ Store!HasStatus(i, {"building", "starting"})
  BY DEF Store!MarkFailed, live
<1>. QED
  BY <1>1, <1>3, <1>4, NoRowAssumption DEF Store!HasStatus, Store!Exists

\* SetLive makes its row the live one; of the others it moves only what was.
LEMMA LiveRow ==
  ASSUME StorePart, NEW i \in Ids, Store!SetLive(App, i)
  PROVE  /\ Store!HasStatus(i, {"starting"}) /\ live' = i
         /\ Store!HasStatus(i, {"live"})'
         /\ \A j \in Ids : j # i =>
              \/ rows'[j] = rows[j]
              \/ Store!HasStatus(j, {"live"}) /\ Store!HasStatus(j, {"superseded"})'
<1>1. rows' = Store!LiveAndSuperseded(App, i) /\ liveRelease' = [liveRelease EXCEPT ![App] = i]
      /\ Store!HasStatus(i, {"starting"}) /\ Store!Exists(i)
  BY DEF Store!SetLive, Store!HasStatus
<1>2. live' = i
  BY <1>1 DEF StorePart, Store!TypeOK, live
<1>3. Store!HasStatus(i, {"live"})'
  <2>1. rows[i] \in Store!Row
    BY <1>1, RowAt
  <2>2. [rows[i] EXCEPT !.status = "live"] \in Store!Row /\ [rows[i] EXCEPT !.status = "live"].status = "live"
    BY <2>1 DEF Store!Row, Store!Statuses
  <2>3. rows'[i] = [rows[i] EXCEPT !.status = "live"]
    BY <1>1 DEF Store!LiveAndSuperseded, Store!Ids, Ids
  <2>. QED
    BY <2>2, <2>3, NoRowAssumption DEF Store!HasStatus, Store!Exists
<1>4. ASSUME NEW j \in Ids, j # i
      PROVE  \/ rows'[j] = rows[j]
             \/ Store!HasStatus(j, {"live"}) /\ Store!HasStatus(j, {"superseded"})'
  <2>1. CASE j \in Store!RowsOf(App) /\ rows[j].status = "live"
    <3>1. rows'[j] = [rows[j] EXCEPT !.status = "superseded"]
      BY <1>1, <1>4, <2>1 DEF Store!LiveAndSuperseded, Store!Ids, Ids
    <3>2. Store!Exists(j)
      BY <2>1 DEF Store!RowsOf
    <3>3. rows[j] \in Store!Row
      BY <3>2, RowAt
    <3>4. rows'[j] \in Store!Row /\ rows'[j].status = "superseded"
      BY <3>1, <3>3 DEF Store!Row, Store!Statuses
    <3>. QED
      BY <2>1, <3>2, <3>4, NoRowAssumption DEF Store!HasStatus, Store!Exists
  <2>2. CASE ~(j \in Store!RowsOf(App) /\ rows[j].status = "live")
    BY <1>1, <1>4, <2>2 DEF Store!LiveAndSuperseded, Store!Ids, Ids
  <2>. QED
    BY <2>1, <2>2
<1>. QED
  BY <1>1, <1>2, <1>3, <1>4

\* Deleting the app leaves no row: all are its own.
LEMMA DeletedRows ==
  ASSUME StorePart, Store!DeleteApp(App)
  PROVE  live' = None /\ \A j \in Ids : ~Store!Exists(j)'
<1>1. live' = None
  BY DEF StorePart, Store!TypeOK, Store!DeleteApp, live, Store!NoLive, None
<1>2. ASSUME NEW j \in Ids
      PROVE  ~Store!Exists(j)'
  <2>1. rows'[j] = IF j \in Store!RowsOf(App) THEN NoRow ELSE rows[j]
    BY DEF Store!DeleteApp, Store!Ids, Ids
  <2>2. Store!Exists(j) => rows[j].app = App
    BY RowAt DEF Store!Row
  <2>. QED
    BY <2>1, <2>2 DEF Store!Exists, Store!RowsOf, Store!Ids, Ids
<1>. QED
  BY <1>1, <1>2

-----------------------------------------------------------------------------
(* The supervisor goes by the store's rules *)

\* The calls of the store that a step of the daemon may make.
StoreCall ==
  \/ \E c \in Callers : DeleteRows(c) /\ Store!DeleteApp(App)
  \/ CreateRow /\ \E i \in Ids :
       /\ Store!CreateRelease(App, job.image, i)
       /\ job' = [job EXCEPT !.row = i]
       /\ calls' = [calls EXCEPT ![job.by].row = i]
       /\ pc' = IF job.image = NoImage THEN "build" ELSE "launch"
  \/ RecordImage /\ Store!MarkBuilt(job.row, Image) /\ pc' = "launch"
  \/ FailRow /\ Store!MarkFailed(job.row)
  \/ RecordLive /\ Store!SetLive(App, job.row)
  \/ \E i \in Ids : MarkCutOff(i) /\ Store!MarkFailed(i)

\* Nothing else the daemon does writes the store.
LEMMA StoreCalls ==
  ASSUME [Next]_vars
  PROVE  UNCHANGED storeVars \/ StoreCall
<1>1. ASSUME NEW c \in Callers, CallerStep(c) \/ TakeCommand(c) \/ Destroy(c)
      PROVE  UNCHANGED storeVars \/ StoreCall
  BY <1>1 DEF CallerStep, Request, RequestDestroy, Cancel, Withdraw, RemoveRoute, DeleteRows,
     TakeCommand, Destroy, StoreCall
<1>2. CASE DeployStep
  BY <1>2 DEF DeployStep, PrepareRefused, PrepareRestart, PrepareRelease, CreateRow, Build, RecordImage,
     FailRow, Launch, LaunchRefused, StartInstance, Healthy, Abandon, PassCheck, Swap, RecordLive, StoreCall
<1>3. CASE TakeBoot \/ FireRetry \/ ExitStep \/ ActorQuit \/ Panic
  BY <1>3 DEF TakeBoot, FireRetry, ExitStep, IgnoreExit, OnExit, ActorQuit, Panic
<1>4. ASSUME NEW i \in Insts, Die(i) \/ Report(i) \/ Retire(i)
      PROVE  UNCHANGED storeVars
  BY <1>4 DEF Die, Report, Retire
<1>5. CASE StartDaemon \/ ReconcileStep \/ ReconcileFails
  BY <1>5 DEF StartDaemon, ReconcileStep, SweepKeep, SweepRemove, SweptAdopt, AdoptFails, SweptRestart, MarkCutOff,
     Serve, ReconcileFails, StoreCall
<1>6. CASE Interrupt \/ Shutdown \/ Exit \/ Crash
  BY <1>6 DEF Interrupt, Shutdown, Exit, Crash, ProcessGone
<1>. QED
  BY <1>1, <1>2, <1>3, <1>4, <1>5, <1>6 DEF Next, vars

\* Every step of the daemon is one call of the store, or none: the detailed
\* model goes through the tables only by ReleaseStore's actions, on rows that
\* are there.
THEOREM StepsAreStoreCalls == Spec => [][Store!Next]_storeVars
<1>1. TypeInv /\ DeployInv /\ [Next]_vars => [Store!Next]_storeVars
  <2> SUFFICES ASSUME TypeInv, DeployInv, StoreCall
               PROVE  Store!Next
    BY StoreCalls DEF storeVars
  <2>1. job \in Job /\ job.image \in {Image} \cup {NoImage}
    BY DEF TypeInv, JobPart, Job
  <2>2. pc \in RowPcs => job.row \in Store!Ids
    BY <2>1 DEF DeployInv, Job, Store!Ids, Ids
  <2>3. ASSUME NEW c \in Callers, Store!DeleteApp(App)
        PROVE  Store!Next
    BY <2>3 DEF Store!Next
  <2>4. ASSUME NEW i \in Ids, Store!CreateRelease(App, job.image, i)
        PROVE  Store!Next
    BY <2>1, <2>4 DEF Store!Next, Store!Ids, Ids
  <2>5. CASE RecordImage /\ Store!MarkBuilt(job.row, Image)
    BY <2>2, <2>5 DEF RecordImage, RowPcs, Store!Next
  <2>6. CASE FailRow /\ Store!MarkFailed(job.row)
    BY <2>2, <2>6 DEF FailRow, RowPcs, Store!Next
  <2>7. CASE RecordLive /\ Store!SetLive(App, job.row)
    BY <2>2, <2>7 DEF RecordLive, RowPcs, Store!Next
  <2>8. ASSUME NEW i \in Ids, Store!MarkFailed(i)
        PROVE  Store!Next
    BY <2>8 DEF Store!Next, Store!Ids, Ids
  <2>. QED
    BY <2>3, <2>4, <2>5, <2>6, <2>7, <2>8 DEF StoreCall
<1>. QED
  BY <1>1, TypeInvariant, DeployInvariant, PTL DEF Spec

-----------------------------------------------------------------------------
(* An open release belongs to the deploy in progress *)

\* What the outside must do for that.
StoreAnswers == Faults \cap {"store", "list", "panic"} = {}

\* The daemon serves, after a Reconcile that nothing cut off.
Serving == daemon \in {"up", "stopping"} /\ ~interrupted

\* The only open release is the one the deploy in progress will end, and a
\* deploy that starts an instance has it built.
OpenInv ==
  /\ Serving =>
       \A i \in Ids : Store!HasStatus(i, {"building", "starting"}) =>
         pc \in RowPcs /\ job.kind # "restart" /\ job.row = i
  /\ pc \in {"launch", "start", "health", "check", "swap", "setlive"} /\ job.kind # "restart" =>
       ~Store!HasStatus(job.row, {"building"})

\* Where the deploy is past its build.
BuiltPcs == {"launch", "start", "health", "check", "swap", "setlive"}

\* A step that leaves the rows alone and does not part a deploy from its row.
LEMMA OpenFrame ==
  ASSUME OpenInv, UNCHANGED rows,
         Serving' => Serving,
         pc \in RowPcs /\ job.kind # "restart" /\ Serving' =>
           pc' \in RowPcs /\ job'.kind = job.kind /\ job'.row = job.row,
         pc' \in BuiltPcs /\ job'.kind # "restart" =>
           pc \in BuiltPcs /\ job.kind # "restart" /\ job'.row = job.row
  PROVE  OpenInv'
BY DEF OpenInv, Serving, BuiltPcs, Store!HasStatus, Store!Exists

\* The end of a deploy without an open row.
LEMMA OpenEnds ==
  ASSUME TypeInv, DeployInv, OpenInv, UNCHANGED <<rows, daemon, interrupted>>, pc' = "idle",
         pc \in RowPcs /\ job.kind # "restart" => ~Store!HasStatus(job.row, {"building", "starting"})
  PROVE  OpenInv'
BY DEF OpenInv, Serving, RowPcs, Store!HasStatus, Store!Exists

\* launchAndSwap giving up keeps the row for fail, unless it is a restart.
LEMMA GiveUpKeepsOpen ==
  ASSUME TypeInv, DeployInv, OpenInv, GiveUp, UNCHANGED <<rows, daemon, interrupted>>, pc \in RowPcs
  PROVE  OpenInv'
<1>1. CASE KeepsRow(job.kind) /\ Reject
  BY <1>1, OpenEnds DEF KeepsRow, Reject, Answer
<1>2. CASE pc' = "fail" /\ job' = [job EXCEPT !.cand = None]
  <2>1. job'.kind = job.kind /\ job'.row = job.row
    BY <1>2 DEF TypeInv, JobPart, Job
  <2>. QED
    BY <1>2, <2>1, OpenFrame DEF Serving, RowPcs, BuiltPcs
<1>. QED
  BY <1>1, <1>2 DEF GiveUp

\* A step of the deploy: it makes its row, moves it along, and ends it before
\* it ends.
LEMMA DeployStepKeepsOpen ==
  ASSUME StoreAnswers, TypeInv, ActorInv, DeployInv, OpenInv, DeployStep
  PROVE  OpenInv'
<1>0. /\ job \in Job /\ pc \in Pcs /\ StorePart /\ None \notin Ids
      /\ pc \in RowPcs => job.row \in Ids
      /\ ~Fault("store")
  BY DEF TypeInv, JobPart, DeployInv, Job, StoreAnswers, Fault, None, Ids
<1>1. CASE PrepareRefused
  BY <1>1, OpenEnds DEF PrepareRefused, Reject, Answer, RowPcs, storeVars, daemonVars
<1>2. CASE PrepareRestart
  <2>1. job'.kind = "restart" /\ pc = "prepare" /\ UNCHANGED <<rows, daemon, interrupted>>
    BY <1>0, <1>2 DEF PrepareRestart, Job, storeVars, daemonVars
  <2>. QED
    BY <2>1, OpenFrame DEF Serving, RowPcs
<1>3. CASE PrepareRelease
  <2>1. pc = "prepare" /\ pc' = "create" /\ UNCHANGED <<rows, daemon, interrupted>>
    BY <1>3 DEF PrepareRelease, storeVars, daemonVars
  <2>. QED
    BY <2>1, OpenFrame DEF Serving, RowPcs, BuiltPcs
<1>4. CASE CreateRow
  <2>1. CASE Reject /\ UNCHANGED storeVars
    BY <1>4, <2>1, OpenEnds DEF CreateRow, Reject, Answer, RowPcs, storeVars, daemonVars
  <2>2. ASSUME NEW i \in Ids, Store!CreateRelease(App, job.image, i), job' = [job EXCEPT !.row = i],
               pc' = IF job.image = NoImage THEN "build" ELSE "launch"
        PROVE  OpenInv'
    <3>1. job.image \in {Image, NoImage} /\ job'.row = i /\ job'.kind = job.kind /\ job.kind # "restart"
      BY <1>0, <1>4, <2>2 DEF Job, CreateRow, DeployInv, OwnPcs
    <3>2. /\ Store!HasStatus(i, {IF job.image = NoImage THEN "building" ELSE "starting"})'
          /\ \A j \in Ids : j # i => rows'[j] = rows[j]
      BY <1>0, <2>2, <3>1, CreatedRow
    <3>3. pc = "create" /\ UNCHANGED <<daemon, interrupted>>
      BY <1>4 DEF CreateRow, daemonVars
    <3>4. \A j \in Ids : Store!HasStatus(j, {"building", "starting"})' => j = i \/ Store!HasStatus(j, {"building", "starting"})
      BY <3>2 DEF Store!HasStatus, Store!Exists
    <3>5. pc' = "launch" => ~Store!HasStatus(i, {"building"})'
      BY <2>2, <3>2 DEF Store!HasStatus, Store!Exists
    <3>6. pc' \in {"build", "launch"}
      BY <2>2
    <3>. QED
      BY <3>1, <3>3, <3>4, <3>5, <3>6 DEF OpenInv, Serving, RowPcs
  <2>. QED
    BY <1>4, <2>1, <2>2 DEF CreateRow
<1>5. CASE Build
  <2>1. pc = "build" /\ pc' \in {"built", "fail"} /\ UNCHANGED <<rows, daemon, interrupted, job>>
    BY <1>5 DEF Build, storeVars, daemonVars
  <2>. QED
    BY <2>1, OpenFrame DEF Serving, RowPcs, BuiltPcs
<1>6. CASE RecordImage
  <2>1. CASE pc' = "fail" /\ UNCHANGED <<storeVars, job>>
    <3>1. pc = "built" /\ UNCHANGED <<rows, daemon, interrupted, job>>
      BY <1>6, <2>1 DEF RecordImage, storeVars, daemonVars
    <3>. QED
      BY <2>1, <3>1, OpenFrame DEF Serving, RowPcs, BuiltPcs
  <2>2. CASE Store!MarkBuilt(job.row, Image) /\ job' = [job EXCEPT !.image = Image] /\ pc' = "launch"
    <3>1. job'.row = job.row /\ job'.kind = job.kind /\ pc = "built" /\ job.row \in Ids /\ UNCHANGED <<daemon, interrupted>>
      BY <1>0, <1>6, <2>2 DEF Job, RecordImage, RowPcs, daemonVars
    <3>2. Store!HasStatus(job.row, {"starting"})' /\ \A j \in Ids : j # job.row => rows'[j] = rows[j]
      BY <1>0, <2>2, <3>1, BuiltRow
    <3>3. ~Store!HasStatus(job.row, {"building"})'
      BY <3>2 DEF Store!HasStatus, Store!Exists
    <3>4. \A j \in Ids : Store!HasStatus(j, {"building", "starting"})' => j = job.row \/ Store!HasStatus(j, {"building", "starting"})
      BY <3>2 DEF Store!HasStatus, Store!Exists
    <3>5. job.kind # "restart"
      BY <3>1 DEF DeployInv, OwnPcs
    <3>. QED
      BY <2>2, <3>1, <3>3, <3>4, <3>5 DEF OpenInv, Serving, RowPcs
  <2>. QED
    BY <1>6, <2>1, <2>2 DEF RecordImage
<1>7. CASE FailRow
  <2>1. pc = "fail" /\ pc' = "idle" /\ UNCHANGED <<daemon, interrupted>> /\ job.row \in Ids
    BY <1>0, <1>7 DEF FailRow, Reject, Answer, RowPcs, daemonVars
  <2>2. CASE Store!MarkFailed(job.row)
    <3>1. PICK r \in Ids : r = job.row
      BY <2>1
    <3>2. Store!HasStatus(r, {"failed"})' /\ \A j \in Ids : j # r => rows'[j] = rows[j]
      BY <1>0, <2>2, <3>1, FailedRow
    <3>. QED
      BY <2>1, <3>1, <3>2 DEF OpenInv, Serving, Store!HasStatus, Store!Exists
  <2>3. CASE UNCHANGED storeVars /\ ~Store!HasStatus(job.row, {"building", "starting"})
    BY <2>1, <2>3, OpenEnds DEF storeVars
  <2>. QED
    BY <1>0, <1>7, <2>2, <2>3 DEF FailRow
<1>8. CASE Launch \/ Healthy \/ PassCheck
  <2>1. pc \in BuiltPcs /\ pc' \in BuiltPcs /\ UNCHANGED <<rows, daemon, interrupted, job>>
    BY <1>8 DEF Launch, Healthy, PassCheck, BuiltPcs, storeVars, daemonVars
  <2>. QED
    BY <2>1, OpenFrame DEF Serving, RowPcs, BuiltPcs
<1>9. CASE StartInstance
  <2>1. pc = "start" /\ UNCHANGED <<rows, daemon, interrupted>>
    BY <1>9 DEF StartInstance, storeVars, daemonVars
  <2>2. CASE GiveUp
    BY <2>1, <2>2, GiveUpKeepsOpen DEF RowPcs
  <2>3. ASSUME NEW i \in Insts, job' = [job EXCEPT !.cand = i], pc' = "health"
        PROVE  OpenInv'
    <3>1. job'.row = job.row /\ job'.kind = job.kind
      BY <1>0, <2>3 DEF Job
    <3>. QED
      BY <2>1, <2>3, <3>1, OpenFrame DEF Serving, RowPcs, BuiltPcs
  <2>. QED
    BY <1>9, <2>2, <2>3 DEF StartInstance
<1>10. CASE Abandon \/ LaunchRefused
  BY <1>10, GiveUpKeepsOpen DEF Abandon, LaunchRefused, RowPcs, storeVars, daemonVars
<1>11. CASE Swap
  <2>1. pc = "swap" /\ UNCHANGED <<rows, daemon, interrupted>>
    BY <1>11 DEF Swap, storeVars, daemonVars
  <2>2. CASE KeepsRow(job.kind) /\ Accept
    BY <2>1, <2>2, OpenEnds DEF KeepsRow, Accept, Answer
  <2>3. CASE pc' = "setlive" /\ UNCHANGED <<job, calls>>
    BY <2>1, <2>3, OpenFrame DEF Serving, RowPcs, BuiltPcs
  <2>. QED
    BY <1>11, <2>2, <2>3 DEF Swap
<1>12. CASE RecordLive
  <2>1. pc = "setlive" /\ pc' = "idle" /\ UNCHANGED <<daemon, interrupted>> /\ job.row \in Ids /\ job.kind # "restart"
    BY <1>0, <1>12 DEF RecordLive, Accept, Answer, RowPcs, DeployInv, OwnPcs, daemonVars
  <2>2. CASE Store!SetLive(App, job.row)
    <3>1. PICK r \in Ids : r = job.row
      BY <2>1
    <3>2. /\ Store!HasStatus(r, {"live"})'
          /\ \A j \in Ids : j # r => rows'[j] = rows[j] \/ Store!HasStatus(j, {"superseded"})'
      BY <1>0, <2>2, <3>1, LiveRow
    <3>. QED
      BY <2>1, <3>1, <3>2 DEF OpenInv, Serving, Store!HasStatus, Store!Exists
  <2>3. CASE UNCHANGED storeVars /\ ~Store!HasStatus(job.row, {"starting"})
    <3>1. ~Store!HasStatus(job.row, {"building"})
      BY <2>1 DEF OpenInv, Serving
    <3>2. ~Store!HasStatus(job.row, {"building", "starting"})
      BY <2>3, <3>1 DEF Store!HasStatus
    <3>. QED
      BY <2>1, <2>3, <3>2, OpenEnds DEF storeVars
  <2>. QED
    BY <1>0, <1>12, <2>2, <2>3 DEF RecordLive
<1>. QED
  BY <1>1, <1>2, <1>3, <1>4, <1>5, <1>6, <1>7, <1>8, <1>9, <1>10, <1>11, <1>12 DEF DeployStep

\* Every other step: the actor is between deploys, or the daemon's state is
\* what keeps the open rows from mattering.
LEMMA OthersKeepOpen ==
  ASSUME StoreAnswers, TypeInv, ActorInv, DeployInv, OpenInv, [Next]_vars, ~DeployStep
  PROVE  OpenInv'
<1>0. ~Fault("store") /\ ~Fault("list") /\ ~Fault("panic") /\ StorePart
  BY DEF StoreAnswers, Fault, TypeInv
<1>1. ASSUME NEW c \in Callers, CallerStep(c), ~DeleteRows(c)
      PROVE  OpenInv'
  <2>0. ASSUME NEW k \in Kinds, Request(c, k)
        PROVE  UNCHANGED <<rows, daemon, interrupted, job>> /\ (pc' = pc \/ (pc = "none" /\ pc' = "idle"))
    BY <2>0 DEF Request, storeVars, daemonVars
  <2>1. UNCHANGED <<rows, daemon, interrupted, job>> /\ (pc' = pc \/ (pc = "none" /\ pc' = "idle"))
    BY <1>1, <2>0 DEF CallerStep, RequestDestroy, Cancel, Withdraw, RemoveRoute, storeVars, daemonVars, jobVars
  <2>. QED
    BY <2>1, OpenFrame DEF Serving, RowPcs, BuiltPcs
<1>2. ASSUME NEW c \in Callers, DeleteRows(c)
      PROVE  OpenInv'
  <2>0. UNCHANGED <<pc, job, daemon, interrupted>>
    BY <1>2 DEF DeleteRows, jobVars, daemonVars
  <2>1. CASE UNCHANGED storeVars
    BY <2>0, <2>1, OpenFrame DEF Serving, storeVars
  <2>2. CASE Store!DeleteApp(App)
    <3>1. \A j \in Ids : ~Store!Exists(j)'
      BY <1>0, <2>2, DeletedRows
    <3>2. pc \in BuiltPcs => job.row \in Ids
      BY DEF TypeInv, JobPart, Job, DeployInv, BuiltPcs, RowPcs
    <3>. QED
      BY <2>0, <3>1, <3>2 DEF OpenInv, Serving, BuiltPcs, Store!HasStatus
  <2>. QED
    BY <1>2, <2>1, <2>2 DEF DeleteRows
<1>3. CASE TakeBoot \/ FireRetry \/ ActorQuit \/ \E c \in Callers : TakeCommand(c) \/ Destroy(c)
  <2>1. UNCHANGED <<rows, daemon, interrupted>> /\ pc \in {"none", "idle"} /\ pc' \in {"prepare", "none"}
    BY <1>3 DEF TakeBoot, FireRetry, TakeCommand, Take, ActorQuit, MayQuit, Destroy, Retired, storeVars, daemonVars
  <2>. QED
    BY <2>1, OpenFrame DEF Serving, RowPcs, BuiltPcs
<1>4. CASE ExitStep
  <2>1. UNCHANGED <<rows, daemon, interrupted, pc, job>>
    BY <1>4 DEF ExitStep, IgnoreExit, OnExit, storeVars, daemonVars, jobVars
  <2>. QED
    BY <2>1, OpenFrame DEF Serving
<1>5. ~Panic
  BY <1>0 DEF Panic
<1>f. CASE ReconcileFails \/ Interrupt
  <2>1. interrupted' /\ UNCHANGED <<rows, pc, job>>
    BY <1>0, <1>f DEF ReconcileFails, Interrupt, storeVars, jobVars
  <2>. QED
    BY <2>1, OpenFrame DEF Serving
<1>6. ASSUME NEW i \in Insts, Die(i) \/ Report(i) \/ Retire(i)
      PROVE  OpenInv'
  <2>1. UNCHANGED <<rows, daemon, interrupted, pc, job>>
    BY <1>6 DEF Die, Report, Retire, storeVars, daemonVars, jobVars
  <2>. QED
    BY <2>1, OpenFrame DEF Serving
<1>7. CASE StartDaemon \/ SweptAdopt \/ AdoptFails \/ SweptRestart \/ \E i \in Insts : SweepKeep(i) \/ SweepRemove(i)
  <2>1. UNCHANGED rows /\ daemon' \in {"sweeping", "marking"} /\ pc' \in {"none", "idle"}
    BY <1>7 DEF StartDaemon, SweptAdopt, AdoptFails, SweptRestart, SweepKeep, SweepRemove, ActorInv, storeVars, jobVars
  <2>. QED
    BY <2>1, OpenFrame DEF Serving, BuiltPcs
<1>8. ASSUME NEW i \in Ids, MarkCutOff(i)
      PROVE  OpenInv'
  \* Before the listeners open, what an actor runs is a restart.
  <2>1. UNCHANGED <<daemon, interrupted, pc, job>> /\ daemon = "marking"
    BY <1>8 DEF MarkCutOff, daemonVars, jobVars
  <2>2. pc \in BuiltPcs => job.kind = "restart"
    BY <2>1 DEF DeployInv, Busy, BuiltPcs
  <2>. QED
    BY <2>1, <2>2 DEF OpenInv, Serving, BuiltPcs
<1>9. CASE Serve
  <2>1. /\ Store!OpenReleases = {} \/ interrupted
        /\ UNCHANGED <<rows, pc, job, interrupted>> /\ daemon = "marking"
    BY <1>0, <1>9 DEF Serve, MarkedAll, storeVars, jobVars
  <2>2. ~interrupted => \A i \in Ids : ~Store!HasStatus(i, {"building", "starting"})
    BY <2>1 DEF Store!OpenReleases, Store!Ids, Ids
  <2>3. pc \in BuiltPcs => job.kind = "restart"
    BY <2>1 DEF DeployInv, Busy, BuiltPcs
  <2>. QED
    BY <2>1, <2>2, <2>3 DEF OpenInv, Serving, BuiltPcs, Store!HasStatus, Store!Exists
<1>10. CASE Shutdown
  <2>1. UNCHANGED <<rows, pc, job, interrupted>> /\ daemon = "up"
    BY <1>10 DEF Shutdown, storeVars, jobVars
  <2>. QED
    BY <2>1, OpenFrame DEF Serving
<1>11. CASE Exit \/ Crash
  <2>1. daemon' = "down" /\ pc' = "none"
    BY <1>11 DEF Exit, Crash, ProcessGone, Retired
  <2>. QED
    BY <2>1 DEF OpenInv, Serving
<1>12. CASE UNCHANGED vars
  <2>1. UNCHANGED <<rows, daemon, interrupted, pc, job>>
    BY <1>12 DEF vars, storeVars, daemonVars, jobVars
  <2>. QED
    BY <2>1, OpenFrame DEF Serving
<1>. QED
  BY <1>1, <1>2, <1>3, <1>4, <1>5, <1>6, <1>7, <1>8, <1>9, <1>10, <1>11, <1>12, <1>f DEF Next, ReconcileStep

\* The open releases are the deploy's own, from the moment the listeners open.
THEOREM OpenInvariant ==
  ASSUME StoreAnswers
  PROVE  Spec => []OpenInv
<1>1. Init => OpenInv
  BY DEF Init, OpenInv, Serving
<1>2. TypeInv /\ ActorInv /\ DeployInv /\ OpenInv /\ [Next]_vars => OpenInv'
  BY DeployStepKeepsOpen, OthersKeepOpen
<1>. QED
  BY <1>1, <1>2, TypeInvariant, ActorInvariant, DeployInvariant, PTL DEF Spec

\* A release that is building or starting belongs to the deploy in progress,
\* whoever gives up and whenever the daemon crashed, once a Reconcile that no
\* shutdown cut off has gone through them.
THEOREM OpenRowsAreOwned ==
  ASSUME StoreAnswers
  PROVE  Spec => []OpenRowIsOwned
<1>1. OpenInv => OpenRowIsOwned
  BY DEF OpenInv, Serving, OpenRowIsOwned, RowPcs, Store!OpenReleases, Store!Ids, Ids
<1>. QED
  BY <1>1, OpenInvariant, PTL

-----------------------------------------------------------------------------
(* The verdict a caller gets is the store's *)

\* What must not happen for that: a statement that fails, a panic, and a
\* destroy, which takes the rows that verdicts are about.
RowsAreKept == Faults \cap {"store", "panic"} = {} /\ "destroy" \notin Kinds

\* Nobody asks for a destroy, so nobody is on the way to the rows.
NoDestroyer ==
  \A c \in Callers : calls[c].kind # "destroy" /\ calls[c].phase \notin {"unrouting", "deleting"}

\* The steps that answer or lose callers change no kind.
THEOREM NobodyDestroys ==
  ASSUME RowsAreKept
  PROVE  Spec => []NoDestroyer
<1> DEFINE Inv == \A c \in Callers : calls[c].kind # "destroy"
<1>1. Init => Inv
  BY DEF Init, NoCall
<1>2. TypeInv /\ Inv /\ [Next]_vars => Inv'
  <2> SUFFICES ASSUME TypeInv, Inv, [Next]_vars, NEW d \in Callers
               PROVE  calls'[d].kind # "destroy"
    OBVIOUS
  <2>0. calls \in [Callers -> Call] /\ calls[d] \in Call /\ calls[d].kind # "destroy"
    BY DEF TypeInv, CallsPart
  <2>1. ASSUME NEW c \in Callers, CallerStep(c) \/ TakeCommand(c) \/ Destroy(c)
        PROVE  calls'[d].kind # "destroy"
    <3>1. ASSUME NEW k \in Kinds, Request(c, k)
          PROVE  calls'[d].kind # "destroy"
      BY <2>0, <3>1 DEF Request, Call
    <3>2. ~(("destroy" \in Kinds) /\ RequestDestroy(c)) /\ ~Destroy(c)
      BY DEF RowsAreKept, Destroy
    <3>3. CASE Cancel(c) \/ Withdraw(c) \/ RemoveRoute(c) \/ DeleteRows(c) \/ TakeCommand(c)
      BY <2>0, <3>3 DEF Cancel, Withdraw, RemoveRoute, DeleteRows, TakeCommand, Call
    <3>. QED
      BY <2>1, <3>1, <3>2, <3>3 DEF CallerStep
  <2>2. CASE DeployStep
    <3>1. ASSUME NEW verdict \in {"accepted", "rejected"}, Answer(verdict)
          PROVE  calls'[d].kind # "destroy"
      BY <2>0, <3>1, AnswerCalls DEF Phases
    <3>2. ASSUME NEW i \in Ids, calls' = [calls EXCEPT ![job.by].row = i]
          PROVE  calls'[d].kind # "destroy"
      BY <2>0, <3>2 DEF Call
    <3>. QED
      BY <2>0, <2>2, <3>1, <3>2 DEF DeployStep, PrepareRefused, PrepareRestart, PrepareRelease, CreateRow,
         Build, RecordImage, FailRow, Launch, LaunchRefused, StartInstance, GiveUp, Healthy, Abandon, PassCheck, Swap,
         RecordLive, Reject, Accept
  <2>3. CASE ActorQuit
    BY <2>0, <2>3, ActorGoneCalls DEF ActorQuit
  <2>4. CASE Panic
    BY <2>0, <2>4, AnswerCalls DEF Panic, Reject, Phases
  <2>5. CASE Interrupt \/ Shutdown \/ Exit \/ Crash
    BY <2>0, <2>5, ProcessGoneCalls DEF Interrupt, Shutdown, Exit, Crash, Call
  <2>6. CASE UNCHANGED calls
    BY <2>0, <2>6
  <2>7. CASE TakeBoot \/ FireRetry \/ ExitStep \/ \E i \in Insts : Die(i) \/ Report(i) \/ Retire(i)
    BY <2>6, <2>7 DEF TakeBoot, FireRetry, ExitStep, IgnoreExit, OnExit, Die, Report, Retire
  <2>8. CASE StartDaemon \/ ReconcileStep \/ ReconcileFails
    BY <2>6, <2>8 DEF StartDaemon, ReconcileStep, SweepKeep, SweepRemove, SweptAdopt, AdoptFails, SweptRestart,
       MarkCutOff, Serve, ReconcileFails
  <2>. QED
    BY <2>1, <2>2, <2>3, <2>4, <2>5, <2>6, <2>7, <2>8 DEF Next, vars
<1>3. Inv /\ OnlyDestroyUnroutes => NoDestroyer
  BY DEF OnlyDestroyUnroutes, NoDestroyer
<1>. QED
  BY <1>1, <1>2, <1>3, TypeInvariant, OnlyDestroyUnroutesInvariant, PTL DEF Spec

\* The status of a deploy's own row, by where the deploy is.
RowStatus ==
  IF pc \in {"build", "built"} THEN {"building"}
  ELSE IF pc = "fail" THEN {"building", "starting"} ELSE {"starting"}

RowInv == pc \in RowPcs /\ job.kind # "restart" => Store!HasStatus(job.row, RowStatus)

\* A step that leaves the rows and the deploy's row alone.
LEMMA RowFrame ==
  ASSUME RowInv, UNCHANGED rows,
         pc' \in RowPcs /\ job'.kind # "restart" =>
           pc \in RowPcs /\ job.kind # "restart" /\ job'.row = job.row /\ RowStatus \subseteq RowStatus'
  PROVE  RowInv'
BY DEF RowInv, Store!HasStatus, Store!Exists

\* A step of the deploy moves its row along with itself.
LEMMA DeployStepKeepsRow ==
  ASSUME TypeInv, DeployInv, RowInv, DeployStep
  PROVE  RowInv'
<1>0. job \in Job /\ StorePart /\ (pc \in RowPcs => job.row \in Ids)
  BY DEF TypeInv, JobPart, DeployInv, Job
<1>1. CASE pc' = "idle"
  BY <1>1 DEF RowInv, RowPcs
<1>2. CASE PrepareRestart
  BY <1>0, <1>2 DEF PrepareRestart, Job, RowInv
<1>3. CASE PrepareRelease
  BY <1>3 DEF PrepareRelease, RowInv, RowPcs
<1>4. ASSUME CreateRow, NEW i \in Ids, Store!CreateRelease(App, job.image, i), job' = [job EXCEPT !.row = i],
             pc' = IF job.image = NoImage THEN "build" ELSE "launch"
      PROVE  RowInv'
  <2>1. job.image \in {Image, NoImage} /\ job'.row = i
    BY <1>0, <1>4 DEF Job
  <2>2. Store!HasStatus(i, {IF job.image = NoImage THEN "building" ELSE "starting"})'
    BY <1>0, <1>4, <2>1, CreatedRow
  <2>. QED
    BY <1>4, <2>1, <2>2 DEF RowInv, RowStatus, Store!HasStatus, Store!Exists
<1>5. CASE Build \/ (RecordImage /\ UNCHANGED <<storeVars, job>> /\ pc' = "fail") \/ Launch \/ Healthy \/ PassCheck
           \/ (Swap /\ UNCHANGED job)
  <2>1. UNCHANGED <<rows, job>> /\ pc \in RowPcs
    BY <1>5 DEF Build, RecordImage, Launch, Healthy, PassCheck, Swap, RowPcs, storeVars
  <2>2. RowStatus \subseteq RowStatus' \/ pc' = "idle"
    BY <1>5 DEF Build, RecordImage, Launch, Healthy, PassCheck, Swap, Accept, Answer, RowStatus
  <2>. QED
    BY <1>1, <2>1, <2>2, RowFrame
<1>6. CASE RecordImage /\ Store!MarkBuilt(job.row, Image) /\ job' = [job EXCEPT !.image = Image] /\ pc' = "launch"
  <2>1. PICK r \in Ids : r = job.row
    BY <1>0, <1>6 DEF RecordImage, RowPcs
  <2>2. job'.row = r
    BY <1>0, <1>6, <2>1 DEF Job
  <2>3. Store!HasStatus(r, {"starting"})'
    BY <1>0, <1>6, <2>1, BuiltRow
  <2>. QED
    BY <1>6, <2>2, <2>3 DEF RowInv, RowStatus, Store!HasStatus, Store!Exists
<1>7. CASE StartInstance \/ Abandon \/ LaunchRefused
  <2>1. UNCHANGED rows /\ pc \in {"launch", "start", "health", "check"} /\ (pc' \in {"idle", "fail"} \/ pc' = "health")
        /\ (pc' # "idle" => job'.row = job.row /\ job'.kind = job.kind)
    BY <1>0, <1>7 DEF StartInstance, Abandon, LaunchRefused, GiveUp, Reject, Answer, Job, storeVars
  <2>. QED
    BY <1>1, <2>1, RowFrame DEF RowPcs, RowStatus
<1>. QED
  BY <1>1, <1>2, <1>3, <1>4, <1>5, <1>6, <1>7 DEF DeployStep, PrepareRefused, CreateRow, RecordImage, FailRow,
     Swap, RecordLive, Reject, Accept, Answer

\* The other steps find no deploy with a row of its own, or leave it alone.
LEMMA OthersKeepRow ==
  ASSUME RowsAreKept, TypeInv, ActorInv, DeployInv, NoDestroyer, RowInv, [Next]_vars, ~DeployStep
  PROVE  RowInv'
<1>1. ASSUME NEW i \in Ids, MarkCutOff(i)
      PROVE  RowInv'
  <2>1. UNCHANGED <<pc, job>> /\ daemon = "marking"
    BY <1>1 DEF MarkCutOff, jobVars
  <2>. QED
    BY <2>1 DEF RowInv, DeployInv, Busy, RowPcs
<1>2. CASE UNCHANGED rows /\ pc' \notin RowPcs
  BY <1>2 DEF RowInv
<1>3. CASE UNCHANGED <<rows, pc, job>>
  BY <1>3, RowFrame DEF RowStatus
<1>4. ASSUME NEW c \in Callers, CallerStep(c) \/ TakeCommand(c) \/ Destroy(c)
      PROVE  RowInv'
  <2>1. ASSUME NEW k \in Kinds, Request(c, k)
        PROVE  UNCHANGED <<rows, job>> /\ (pc' = pc \/ pc' = "idle")
    BY <2>1 DEF Request, storeVars
  <2>2. ~DeleteRows(c) /\ ~RemoveRoute(c) /\ ~Destroy(c)
    BY DEF DeleteRows, RemoveRoute, Destroy, NoDestroyer
  <2>3. CASE RequestDestroy(c) \/ Cancel(c) \/ Withdraw(c)
    BY <1>3, <2>3 DEF RequestDestroy, Cancel, Withdraw, storeVars, jobVars
  <2>4. CASE TakeCommand(c)
    BY <1>2, <2>4 DEF TakeCommand, Take, RowPcs, storeVars
  <2>. QED
    BY <1>2, <1>3, <1>4, <2>1, <2>2, <2>3, <2>4 DEF CallerStep, RowPcs
<1>5. CASE TakeBoot \/ FireRetry \/ ActorQuit
  BY <1>2, <1>5 DEF TakeBoot, FireRetry, Take, ActorQuit, Retired, RowPcs, storeVars
<1>6. CASE ExitStep \/ \E i \in Insts : Die(i) \/ Report(i) \/ Retire(i)
  BY <1>3, <1>6 DEF ExitStep, IgnoreExit, OnExit, Die, Report, Retire, storeVars, jobVars
<1>7. ~Panic
  BY DEF Panic, Fault, RowsAreKept
<1>8. CASE StartDaemon \/ ReconcileFails \/ SweptRestart \/ Serve \/ Interrupt \/ Shutdown
           \/ \E i \in Insts : SweepKeep(i) \/ SweepRemove(i)
  BY <1>3, <1>8 DEF StartDaemon, ReconcileFails, SweptRestart, Serve, Interrupt, Shutdown, SweepKeep, SweepRemove,
     storeVars, jobVars
<1>9. CASE SweptAdopt \/ AdoptFails \/ Exit \/ Crash
  BY <1>2, <1>9 DEF SweptAdopt, AdoptFails, Exit, Crash, ProcessGone, Retired, RowPcs, storeVars
<1>10. CASE UNCHANGED vars
  BY <1>3, <1>10 DEF vars, storeVars, jobVars
<1>. QED
  BY <1>1, <1>4, <1>5, <1>6, <1>7, <1>8, <1>9, <1>10 DEF Next, ReconcileStep

\* The row of a deploy is where the deploy is.
THEOREM RowInvariant ==
  ASSUME RowsAreKept
  PROVE  Spec => []RowInv
<1>1. Init => RowInv
  BY DEF Init, RowInv, RowPcs
<1>2. TypeInv /\ ActorInv /\ DeployInv /\ NoDestroyer /\ RowInv /\ [Next]_vars => RowInv'
  BY DeployStepKeepsRow, OthersKeepRow
<1>. QED
  BY <1>1, <1>2, TypeInvariant, ActorInvariant, DeployInvariant, NobodyDestroys, PTL DEF Spec

\* Rows that are live, superseded or failed for good.
Decided(r)   == Store!HasStatus(r, {"live", "superseded"})
Ended(r)     == Store!HasStatus(r, {"failed"})

\* What was decided of a release stays decided: the store's calls move only
\* rows that are building or starting, or the live one to superseded.
LEMMA DecidedStays ==
  ASSUME TypeInv, DeployInv, NoDestroyer, [Next]_vars, NEW r \in Ids
  PROVE  (Decided(r) => Decided(r)') /\ (Ended(r) => Ended(r)')
<1>0. StorePart /\ job \in Job /\ (pc \in RowPcs => job.row \in Ids) /\ job.image \in {Image, NoImage}
  BY DEF TypeInv, JobPart, DeployInv, Job
<1>1. CASE rows'[r] = rows[r]
  BY <1>1 DEF Decided, Ended, Store!HasStatus, Store!Exists
<1>2. ~\E c \in Callers : DeleteRows(c)
  BY DEF DeleteRows, NoDestroyer
<1>3. ASSUME NEW i \in Ids, Store!CreateRelease(App, job.image, i)
      PROVE  (Decided(r) => Decided(r)') /\ (Ended(r) => Ended(r)')
  <2>1. ~Store!Exists(i) /\ (r # i => rows'[r] = rows[r])
    BY <1>0, <1>3, CreatedRow
  <2>. QED
    BY <1>1, <2>1 DEF Decided, Ended, Store!HasStatus
<1>4. ASSUME NEW i \in Ids, Store!MarkBuilt(i, Image) \/ Store!MarkFailed(i)
      PROVE  (Decided(r) => Decided(r)') /\ (Ended(r) => Ended(r)')
  <2>1. Store!HasStatus(i, {"building", "starting"}) /\ (r # i => rows'[r] = rows[r])
    <3>1. CASE Store!MarkBuilt(i, Image)
      BY <1>0, <3>1, BuiltRow DEF Store!HasStatus
    <3>2. CASE Store!MarkFailed(i)
      BY <1>0, <3>2, FailedRow
    <3>. QED
      BY <1>4, <3>1, <3>2
  <2>. QED
    BY <1>1, <2>1 DEF Decided, Ended, Store!HasStatus
<1>5. ASSUME NEW i \in Ids, Store!SetLive(App, i)
      PROVE  (Decided(r) => Decided(r)') /\ (Ended(r) => Ended(r)')
  <2>1. /\ Store!HasStatus(i, {"starting"})
        /\ r # i => rows'[r] = rows[r] \/ (Store!HasStatus(r, {"live"}) /\ Store!HasStatus(r, {"superseded"})')
    BY <1>0, <1>5, LiveRow
  <2>. QED
    BY <1>1, <2>1 DEF Decided, Ended, Store!HasStatus
<1>6. ASSUME StoreCall
      PROVE  (Decided(r) => Decided(r)') /\ (Ended(r) => Ended(r)')
  BY <1>0, <1>2, <1>3, <1>4, <1>5, <1>6 DEF StoreCall, RecordImage, FailRow, RecordLive, RowPcs
<1>. QED
  BY <1>1, <1>6, StoreCalls DEF storeVars

\* What VerdictMatchesRow asks of one caller.
VerdictOf(c) ==
  /\ calls[c].phase = "accepted" /\ calls[c].kind \in {"push", "redeploy", "rollback"} =>
       calls[c].row # None /\ Decided(calls[c].row)
  /\ calls[c].phase = "rejected" /\ calls[c].row # None => Ended(calls[c].row)

\* A caller that gets no verdict in this step.
LEMMA VerdictStays ==
  ASSUME TypeInv, DeployInv, NoDestroyer, [Next]_vars, NEW c \in Callers, VerdictOf(c),
         calls'[c].kind = calls[c].kind,
         calls'[c].phase \in {"accepted", "rejected"} =>
           calls'[c].phase = calls[c].phase /\ calls'[c].row = calls[c].row
  PROVE  VerdictOf(c)'
<1>1. CASE calls'[c].phase \notin {"accepted", "rejected"}
  BY <1>1 DEF VerdictOf
<1>2. CASE calls'[c].phase = calls[c].phase /\ calls'[c].row = calls[c].row
  <2>1. CASE calls[c].row = None
    BY <1>2, <2>1 DEF VerdictOf
  <2>2. CASE calls[c].row # None
    <3>1. PICK r \in Ids : r = calls[c].row
      BY <2>2 DEF TypeInv, CallsPart, Call
    <3>2. (Decided(r) => Decided(r)') /\ (Ended(r) => Ended(r)')
      BY DecidedStays
    <3>3. Decided(r)' => Decided(calls[c].row)'
      BY <1>2, <3>1 DEF Decided, Store!HasStatus, Store!Exists
    <3>4. Ended(r)' => Ended(calls[c].row)'
      BY <1>2, <3>1 DEF Ended, Store!HasStatus, Store!Exists
    <3>. QED
      BY <1>2, <2>2, <3>1, <3>2, <3>3, <3>4 DEF VerdictOf
  <2>. QED
    BY <2>1, <2>2
<1>. QED
  BY <1>1, <1>2

\* The reply to the caller of a deploy, when the store agrees with it.
LEMMA VerdictGiven ==
  ASSUME TypeInv, DeployInv, CallInv, NoDestroyer, [Next]_vars, NEW verdict \in {"accepted", "rejected"},
         Answer(verdict), NEW c \in Callers, VerdictOf(c),
         verdict = "rejected" /\ job.kind # "restart" /\ job.row # None =>
           \E r \in Ids : r = job.row /\ Ended(r)',
         verdict = "accepted" /\ job.kind # "restart" =>
           \E r \in Ids : r = job.row /\ Decided(r)'
  PROVE  VerdictOf(c)'
<1>1. /\ calls'[c].kind = calls[c].kind /\ calls'[c].row = calls[c].row
      /\ calls'[c].phase = IF c = job.by THEN verdict ELSE calls[c].phase
  BY AnswerCalls DEF Phases
<1>2. CASE c # job.by
  BY <1>1, <1>2, VerdictStays
<1>3. CASE c = job.by
  <2>1. calls[c].phase = "taken" /\ calls[c].kind = job.kind
        /\ calls[c].row = IF job.kind = "restart" THEN None ELSE job.row
    BY <1>3 DEF CallInv
  <2>2. None \notin Ids
    BY DEF None, Ids
  <2>3. CASE job.kind = "restart"
    BY <1>1, <1>3, <2>1, <2>3 DEF VerdictOf
  <2>4. CASE job.kind # "restart" /\ verdict = "rejected"
    BY <1>1, <1>3, <2>1, <2>2, <2>4 DEF VerdictOf, Ended, Store!HasStatus, Store!Exists
  <2>5. CASE job.kind # "restart" /\ verdict = "accepted"
    BY <1>1, <1>3, <2>1, <2>2, <2>5 DEF VerdictOf, Decided, Store!HasStatus, Store!Exists
  <2>. QED
    BY <2>3, <2>4, <2>5
<1>. QED
  BY <1>2, <1>3

\* A deploy answers with what it has done to its row.
LEMMA DeployStepKeepsVerdict ==
  ASSUME RowsAreKept, TypeInv, DeployInv, CallInv, NoDestroyer, RowInv, [Next]_vars, DeployStep,
         NEW c \in Callers, VerdictOf(c)
  PROVE  VerdictOf(c)'
<1>0. /\ job \in Job /\ StorePart /\ (pc \in RowPcs => job.row \in Ids) /\ ~Fault("store")
      /\ calls \in [Callers -> Call] /\ calls[c] \in Call
  BY DEF TypeInv, JobPart, DeployInv, Job, RowsAreKept, Fault, CallsPart
<1>1. CASE UNCHANGED calls
  BY <1>1, VerdictStays
<1>2. ASSUME Reject, pc \notin RowPcs \/ KeepsRow(job.kind)
      PROVE  VerdictOf(c)'
  <2>1. job.kind = "restart" \/ job.row = None
    BY <1>2 DEF DeployInv, KeepsRow
  <2>. QED
    BY <1>2, <2>1, VerdictGiven DEF Reject
<1>3. CASE PrepareRefused
  BY <1>2, <1>3 DEF PrepareRefused, RowPcs
<1>4. CASE CreateRow
  <2>1. CASE Reject
    BY <1>2, <1>4, <2>1 DEF CreateRow, RowPcs
  <2>2. ASSUME NEW i \in Ids, calls' = [calls EXCEPT ![job.by].row = i]
        PROVE  VerdictOf(c)'
    <3>1. calls'[c].kind = calls[c].kind /\ calls'[c].phase = calls[c].phase
          /\ (c # job.by => calls'[c] = calls[c])
      BY <1>0, <2>2 DEF Call
    <3>2. c = job.by => calls[c].phase = "taken"
      BY DEF CallInv
    <3>. QED
      BY <3>1, <3>2, VerdictStays
  <2>. QED
    BY <1>4, <2>1, <2>2 DEF CreateRow
<1>5. CASE FailRow
  <2>1. pc = "fail" /\ job.kind # "restart" /\ Reject
    BY <1>5 DEF FailRow, DeployInv, OwnPcs
  <2>2. PICK r \in Ids : r = job.row
    BY <1>0, <2>1 DEF RowPcs
  <2>3. Store!MarkFailed(r)
    BY <1>0, <1>5, <2>1, <2>2 DEF FailRow, RowInv, RowStatus, RowPcs
  <2>4. Ended(r)'
    BY <1>0, <2>3, FailedRow DEF Ended
  <2>. QED
    BY <2>1, <2>2, <2>4, VerdictGiven DEF Reject
<1>6. CASE StartInstance \/ Abandon \/ LaunchRefused
  BY <1>1, <1>2, <1>6 DEF StartInstance, Abandon, LaunchRefused, GiveUp
<1>7. CASE Swap
  <2>1. CASE KeepsRow(job.kind) /\ Accept
    BY <2>1, VerdictGiven DEF Accept, KeepsRow
  <2>. QED
    BY <1>1, <1>7, <2>1 DEF Swap
<1>8. CASE RecordLive
  <2>1. pc = "setlive" /\ job.kind # "restart" /\ Accept
    BY <1>8 DEF RecordLive, DeployInv, OwnPcs
  <2>2. PICK r \in Ids : r = job.row
    BY <1>0, <2>1 DEF RowPcs
  <2>3. Store!SetLive(App, r)
    BY <1>0, <1>8, <2>1, <2>2 DEF RecordLive, RowInv, RowStatus, RowPcs
  <2>4. Decided(r)'
    BY <1>0, <2>3, LiveRow DEF Decided, Store!HasStatus
  <2>. QED
    BY <2>1, <2>2, <2>4, VerdictGiven DEF Accept
<1>. QED
  BY <1>1, <1>3, <1>4, <1>5, <1>6, <1>7, <1>8 DEF DeployStep, PrepareRestart, PrepareRelease, Build,
     RecordImage, Launch, Healthy, PassCheck

\* Who is rejected without a deploy has no row.
LEMMA OthersKeepVerdict ==
  ASSUME RowsAreKept, TypeInv, DeployInv, CallInv, NoDestroyer, [Next]_vars, ~DeployStep,
         NEW d \in Callers, VerdictOf(d)
  PROVE  VerdictOf(d)'
<1>0. calls \in [Callers -> Call] /\ calls[d] \in Call
  BY DEF TypeInv, CallsPart
<1>w. calls[d].phase = "waiting" => calls[d].row = None
  BY DEF CallInv
<1>1. ASSUME NEW c \in Callers, CallerStep(c) \/ TakeCommand(c) \/ Destroy(c)
      PROVE  VerdictOf(d)'
  <2>1. ~RequestDestroy(c) \/ "destroy" \notin Kinds
    BY DEF RowsAreKept
  <2>2. ~Destroy(c) /\ ~RemoveRoute(c) /\ ~DeleteRows(c)
    BY DEF Destroy, RemoveRoute, DeleteRows, NoDestroyer
  <2>3. ASSUME NEW k \in Kinds, Request(c, k)
        PROVE  VerdictOf(d)'
    <3>1. CASE c = d
      BY <1>0, <2>3, <3>1 DEF Request, Call, VerdictOf
    <3>2. CASE c # d
      BY <1>0, <2>3, <3>2, VerdictStays DEF Request
    <3>. QED
      BY <3>1, <3>2
  <2>4. CASE Cancel(c) \/ TakeCommand(c)
    <3>1. calls'[d].kind = calls[d].kind /\ calls'[d].row = calls[d].row
          /\ (calls'[d].phase = calls[d].phase \/ calls'[d].phase = "taken")
      BY <1>0, <2>4 DEF Cancel, TakeCommand, Call
    <3>. QED
      BY <3>1, VerdictStays
  <2>5. CASE Withdraw(c)
    <3>1. CASE c = d
      BY <1>0, <1>w, <2>5, <3>1 DEF Withdraw, Call, VerdictOf
    <3>2. CASE c # d
      BY <1>0, <2>5, <3>2, VerdictStays DEF Withdraw
    <3>. QED
      BY <3>1, <3>2
  <2>. QED
    BY <1>1, <2>1, <2>2, <2>3, <2>4, <2>5 DEF CallerStep, RowsAreKept
<1>2. CASE ActorQuit
  <2>1. /\ calls'[d].kind = calls[d].kind /\ calls'[d].row = calls[d].row
        /\ calls'[d].phase = IF calls[d].phase # "waiting" THEN calls[d].phase ELSE "rejected"
    BY <1>2, ActorGoneCalls DEF ActorQuit, NoDestroyer
  <2>2. CASE calls[d].phase = "waiting"
    BY <1>w, <2>1, <2>2 DEF VerdictOf
  <2>. QED
    BY <2>1, <2>2, VerdictStays
<1>3. ~Panic
  BY DEF Panic, Fault, RowsAreKept
<1>4. CASE Interrupt \/ Shutdown \/ Exit \/ Crash
  <2>1. /\ calls'[d].kind = calls[d].kind /\ calls'[d].row = calls[d].row
        /\ calls'[d].phase = calls[d].phase \/ calls'[d].phase = "broken"
    BY <1>0, <1>4, ProcessGoneCalls DEF Interrupt, Shutdown, Exit, Crash, Call
  <2>. QED
    BY <2>1, VerdictStays
<1>5. CASE UNCHANGED calls
  BY <1>5, VerdictStays
<1>6. CASE TakeBoot \/ FireRetry \/ ExitStep \/ \E i \in Insts : Die(i) \/ Report(i) \/ Retire(i)
  BY <1>5, <1>6 DEF TakeBoot, FireRetry, ExitStep, IgnoreExit, OnExit, Die, Report, Retire
<1>7. CASE StartDaemon \/ ReconcileStep \/ ReconcileFails
  BY <1>5, <1>7 DEF StartDaemon, ReconcileStep, SweepKeep, SweepRemove, SweptAdopt, AdoptFails, SweptRestart,
     MarkCutOff, Serve, ReconcileFails
<1>. QED
  BY <1>1, <1>2, <1>3, <1>4, <1>5, <1>6, <1>7 DEF Next, vars

\* Accepted means that the release went live, rejected that it failed, and
\* neither is taken back.
THEOREM VerdictsAreTrue ==
  ASSUME RowsAreKept
  PROVE  Spec => []VerdictMatchesRow
<1> DEFINE Inv == \A c \in Callers : VerdictOf(c)
<1>1. Init => Inv
  BY DEF Init, NoCall, VerdictOf
<1>2. TypeInv /\ DeployInv /\ CallInv /\ NoDestroyer /\ RowInv /\ Inv /\ [Next]_vars => Inv'
  BY DeployStepKeepsVerdict, OthersKeepVerdict
<1>3. Inv => VerdictMatchesRow
  BY DEF VerdictOf, VerdictMatchesRow, Decided, Ended
<1>. QED
  BY <1>1, <1>2, <1>3, TypeInvariant, DeployInvariant, NobodyDestroys, RowInvariant, PTL DEF Spec

-----------------------------------------------------------------------------
(* What is served is what is live *)

\* The current instance is the routed one and runs the live release, except
\* between the swap and SetLive, when it runs the release that goes live next.
\* A restart runs the live row, a candidate its deploy's row, and what the
\* sweep keeps the live release.
ServeInv ==
  /\ current # None => route = current
  /\ current # None => release[current] = IF pc = "setlive" THEN job.row ELSE live
  /\ current = None /\ pc # "none" => route = None
  /\ pc \in RowPcs /\ job.kind = "restart" => job.row = live
  /\ pc \in {"health", "check", "swap"} => release[job.cand] = job.row
  /\ keep # None => release[keep] = live /\ daemon = "sweeping"

\* A step that moves neither what is served nor what is about to be.
LEMMA ServeFrame ==
  ASSUME ServeInv, UNCHANGED <<current, route, release, keep, daemon>>, live' = live,
         pc # "none" \/ route = None \/ pc' = "none",
         pc = "setlive" <=> pc' = "setlive", pc = "setlive" => job'.row = job.row,
         pc' \in RowPcs /\ job'.kind = "restart" => job'.row = live,
         pc' \in {"health", "check", "swap"} =>
           pc \in {"health", "check", "swap"} /\ job'.cand = job.cand /\ job'.row = job.row
  PROVE  ServeInv'
BY DEF ServeInv

\* The live pointer moves with SetLive only: nobody destroys.
LEMMA LiveMoves ==
  ASSUME TypeInv, DeployInv, NoDestroyer, [Next]_vars
  PROVE  live' = live \/ (RecordLive /\ Store!SetLive(App, job.row))
<1>1. StorePart /\ job.image \in {Image, NoImage} /\ (pc \in RowPcs => job.row \in Ids)
  BY DEF TypeInv, JobPart, DeployInv, Job
<1>2. UNCHANGED storeVars => live' = live
  BY DEF storeVars, live
<1>3. ~\E c \in Callers : DeleteRows(c)
  BY DEF DeleteRows, NoDestroyer
<1>. QED
  BY <1>1, <1>2, <1>3, StoreCalls, CreatedRow, BuiltRow, FailedRow DEF StoreCall, RecordImage, FailRow, RowPcs

\* A step of the deploy: the candidate runs the deploy's row, the swap makes it
\* what is served, and SetLive makes its row the live one.
LEMMA DeployStepKeepsServe ==
  ASSUME RowsAreKept, TypeInv, ActorInv, DeployInv, NoDestroyer, RowInv, ServeInv, [Next]_vars, DeployStep
  PROVE  ServeInv'
<1>0. /\ job \in Job /\ StorePart /\ (pc \in RowPcs => job.row \in Ids) /\ ~Fault("store")
      /\ current \in Insts \cup {None} /\ None \notin Insts /\ release \in [Insts -> Ids \cup {None}]
      /\ keep \in Insts \cup {None}
      /\ pc \in {"health", "check", "swap"} => job.cand # None
  BY DEF TypeInv, JobPart, DeployInv, Job, RowsAreKept, Fault, ActorTypeOK, RuntimeTypeOK, DaemonTypeOK, None, Insts
<1>b. pc \notin {"none", "idle"} /\ pc' # "none" /\ UNCHANGED <<daemon, keep>>
  BY DEF DeployStep, PrepareRefused, PrepareRestart, PrepareRelease, CreateRow, Build, RecordImage, FailRow,
     Launch, LaunchRefused, StartInstance, Healthy, Abandon, PassCheck, Swap, RecordLive, Reject, Accept, Answer, GiveUp,
     daemonVars
<1>1. CASE ~RecordLive /\ ~Swap /\ ~StartInstance
  <2>1. live' = live
    BY <1>1, LiveMoves
  <2>2. UNCHANGED <<current, route, release>> /\ pc # "setlive" /\ pc' # "setlive"
    BY <1>1 DEF DeployStep, PrepareRefused, PrepareRestart, PrepareRelease, CreateRow, Build, RecordImage,
       FailRow, Launch, LaunchRefused, Healthy, Abandon, PassCheck, Reject, Answer, GiveUp, actorVars, runtimeVars, Stop
  <2>3. CASE PrepareRestart
    <3>1. job'.row = live /\ pc' = "launch"
      BY <1>0, <2>3 DEF PrepareRestart, Job
    <3>. QED
      BY <1>b, <2>1, <2>2, <3>1, ServeFrame
  <2>4. CASE pc' = "idle"
    BY <1>b, <2>1, <2>2, <2>4, ServeFrame DEF RowPcs
  <2>5. CASE PrepareRelease
    BY <1>b, <2>1, <2>2, <2>5, ServeFrame DEF PrepareRelease, RowPcs
  <2>6. ASSUME CreateRow, NEW i \in Ids, job' = [job EXCEPT !.row = i], pc' \in {"build", "launch"}
        PROVE  ServeInv'
    <3>1. job'.kind # "restart"
      BY <1>0, <2>6 DEF CreateRow, DeployInv, OwnPcs, Job
    <3>. QED
      BY <1>b, <2>1, <2>2, <2>6, <3>1, ServeFrame
  <2>7. CASE Build \/ Launch \/ Healthy \/ PassCheck
    <3>1. UNCHANGED job /\ pc \in RowPcs
          /\ (pc' \in {"health", "check", "swap"} => pc \in {"health", "check", "swap"})
      BY <2>7 DEF Build, Launch, Healthy, PassCheck, RowPcs
    <3>2. job.kind = "restart" => job.row = live
      BY <3>1 DEF ServeInv
    <3>. QED
      BY <1>b, <2>1, <2>2, <3>1, <3>2, ServeFrame
  <2>8. CASE RecordImage
    <3>1. pc' \in {"fail", "launch"} /\ job'.kind # "restart"
      BY <1>0, <2>8 DEF RecordImage, DeployInv, OwnPcs, Job
    <3>. QED
      BY <1>b, <2>1, <2>2, <3>1, ServeFrame
  <2>9. CASE (Abandon \/ LaunchRefused) /\ pc' = "fail" /\ job' = [job EXCEPT !.cand = None] /\ ~KeepsRow(job.kind)
    <3>1. job'.kind # "restart"
      BY <1>0, <2>9 DEF KeepsRow, Job
    <3>. QED
      BY <1>b, <2>1, <2>2, <2>9, <3>1, ServeFrame
  <2>. QED
    BY <1>1, <2>3, <2>4, <2>5, <2>6, <2>7, <2>8, <2>9 DEF DeployStep, PrepareRefused, CreateRow, FailRow,
       Abandon, LaunchRefused, GiveUp, Reject, Answer
<1>2. CASE StartInstance
  <2>1. live' = live /\ UNCHANGED <<current, route>> /\ pc = "start"
    BY <1>2, LiveMoves DEF StartInstance, RecordLive, GiveUp, Reject, actorVars
  <2>2. CASE GiveUp /\ UNCHANGED runtimeVars
    <3>1. pc' = "idle" \/ (pc' = "fail" /\ job'.kind # "restart")
      BY <1>0, <2>2 DEF GiveUp, Reject, Answer, KeepsRow, Job
    <3>. QED
      BY <1>b, <2>1, <2>2, <3>1, ServeFrame DEF RowPcs, runtimeVars
  <2>3. ASSUME NEW i \in Insts, Fresh(i), release' = [release EXCEPT ![i] = job.row],
               job' = [job EXCEPT !.cand = i], pc' = "health"
        PROVE  ServeInv'
    <3>1. i # current /\ i # keep
      BY <2>3 DEF Fresh, Unused
    <3>2. job'.cand = i /\ job'.row = job.row /\ job'.kind = job.kind
      BY <1>0, <2>3 DEF Job
    <3>3. release'[i] = job.row /\ \A j \in Insts : j # i => release'[j] = release[j]
      BY <1>0, <2>3
    <3>. QED
      BY <1>0, <1>b, <2>1, <2>3, <3>1, <3>2, <3>3 DEF ServeInv, RowPcs
  <2>. QED
    BY <1>2, <2>2, <2>3 DEF StartInstance
<1>3. CASE Swap
  <2>1. /\ live' = live /\ pc = "swap" /\ release' = release
        /\ route' = job.cand /\ current' = job.cand
    BY <1>3, LiveMoves DEF Swap, RecordLive, runtimeVars
  <2>2. CASE KeepsRow(job.kind) /\ Accept
    <3>1. pc' = "idle" /\ job.row = live
      BY <2>1, <2>2 DEF Accept, Answer, KeepsRow, ServeInv, RowPcs
    <3>. QED
      BY <1>0, <1>b, <2>1, <3>1 DEF ServeInv, RowPcs
  <2>3. CASE pc' = "setlive" /\ UNCHANGED <<job, calls>> /\ ~KeepsRow(job.kind)
    BY <1>0, <1>b, <2>1, <2>3 DEF ServeInv, KeepsRow
  <2>. QED
    BY <1>3, <2>2, <2>3 DEF Swap
<1>4. CASE RecordLive
  <2>1. pc = "setlive" /\ pc' = "idle" /\ UNCHANGED <<current, route, release>>
    BY <1>4 DEF RecordLive, Accept, Answer, actorVars, runtimeVars
  <2>2. PICK r \in Ids : r = job.row
    BY <1>0, <2>1 DEF RowPcs
  <2>3. Store!SetLive(App, r)
    BY <1>0, <1>4, <2>1, <2>2 DEF RecordLive, RowInv, RowStatus, RowPcs, DeployInv, OwnPcs
  <2>4. live' = r
    BY <1>0, <2>3, LiveRow
  <2>5. keep = None
    BY <2>1 DEF ServeInv, ActorInv
  <2>. QED
    BY <1>b, <2>1, <2>2, <2>4, <2>5 DEF ServeInv, RowPcs
<1>. QED
  BY <1>1, <1>2, <1>3, <1>4

\* The other steps move what is served only when there is nothing to serve, or
\* to what the sweep kept.
LEMMA OthersKeepServe ==
  ASSUME RowsAreKept, TypeInv, ActorInv, DeployInv, NoDestroyer, ServeInv, [Next]_vars, ~DeployStep
  PROVE  ServeInv'
<1>0. live' = live /\ None \notin Insts /\ keep \in Insts \cup {None} /\ current \in Insts \cup {None}
  BY LiveMoves DEF DeployStep, TypeInv, DaemonTypeOK, ActorTypeOK, None, Insts
<1>1. CASE UNCHANGED <<current, route, release, keep, daemon, pc, job>>
  BY <1>0, <1>1 DEF ServeInv
<1>2. ASSUME NEW c \in Callers, CallerStep(c) \/ TakeCommand(c) \/ Destroy(c)
      PROVE  ServeInv'
  <2>1. ASSUME NEW k \in Kinds, Request(c, k)
        PROVE  ServeInv'
    <3>1. /\ UNCHANGED <<current, route, release, keep, daemon, job>>
          /\ pc' = IF pc = "none" THEN "idle" ELSE pc
          /\ daemon = "up"
      BY <2>1 DEF Request, runtimeVars, daemonVars, actorVars
    <3>2. pc = "none" => route = None
      BY <3>1 DEF DeployInv
    <3>. QED
      BY <1>0, <3>1, <3>2 DEF ServeInv, RowPcs
  <2>2. ~DeleteRows(c) /\ ~RemoveRoute(c) /\ ~Destroy(c)
    BY DEF DeleteRows, RemoveRoute, Destroy, NoDestroyer
  <2>3. CASE RequestDestroy(c) \/ Cancel(c) \/ Withdraw(c)
    BY <1>1, <2>3 DEF RequestDestroy, Cancel, Withdraw, runtimeVars, daemonVars, actorVars, jobVars
  <2>4. CASE TakeCommand(c)
    <3>1. UNCHANGED <<current, route, release, keep, daemon>> /\ pc = "idle" /\ pc' = "prepare"
      BY <2>4 DEF TakeCommand, Take, runtimeVars, daemonVars, actorVars
    <3>. QED
      BY <1>0, <3>1, ServeFrame DEF RowPcs
  <2>. QED
    BY <1>2, <2>1, <2>2, <2>3, <2>4 DEF CallerStep
<1>3. CASE TakeBoot \/ FireRetry
  <2>1. /\ UNCHANGED <<current, route, release, keep, daemon>> /\ pc \in {"none", "idle"} /\ pc' = "prepare"
        /\ pc = "none" => daemon # "stopping"
    BY <1>3 DEF TakeBoot, FireRetry, Take, runtimeVars, daemonVars, actorVars
  <2>2. pc = "none" => route = None
    BY <2>1 DEF DeployInv
  <2>. QED
    BY <1>0, <2>1, <2>2, ServeFrame DEF RowPcs
<1>4. CASE ExitStep \/ \E i \in Insts : Die(i) \/ Report(i) \/ Retire(i)
  BY <1>1, <1>4 DEF ExitStep, IgnoreExit, OnExit, LeaveRoute, Stop, Die, Report, Retire, runtimeVars,
     daemonVars, actorVars, jobVars
<1>5. CASE ActorQuit \/ Exit \/ Crash
  <2>1. pc' = "none" /\ current' = None
        /\ (keep' = None \/ (UNCHANGED <<keep, release, daemon>>))
    BY <1>5 DEF ActorQuit, Exit, Crash, ProcessGone, Retired, runtimeVars, daemonVars
  <2>. QED
    BY <1>0, <2>1 DEF ServeInv, RowPcs
<1>6. ~Panic
  BY DEF Panic, Fault, RowsAreKept
<1>7. CASE StartDaemon \/ SweptRestart \/ ReconcileFails \/ Serve \/ Interrupt \/ Shutdown
  <2>1. UNCHANGED <<current, route, release, pc, job>> /\ (keep' = None \/ UNCHANGED <<keep, daemon>> \/ keep = None)
        /\ (keep' = keep \/ keep' = None)
    BY <1>7 DEF StartDaemon, SweptRestart, ReconcileFails, Serve, Interrupt, Shutdown, ServeInv, runtimeVars, actorVars, jobVars
  <2>. QED
    BY <1>0, <2>1 DEF ServeInv
<1>8. ASSUME NEW i \in Insts, SweepKeep(i) \/ SweepRemove(i)
      PROVE  ServeInv'
  <2>1. /\ UNCHANGED <<current, route, release, pc, job, daemon>> /\ daemon = "sweeping"
        /\ keep' = keep \/ (keep' = i /\ release[i] = live)
    BY <1>8 DEF SweepKeep, SweepRemove, Adoptable, Stop, runtimeVars, actorVars, jobVars
  <2>. QED
    BY <1>0, <2>1 DEF ServeInv
<1>9. ASSUME NEW i \in Ids, MarkCutOff(i)
      PROVE  ServeInv'
  BY <1>1, <1>9 DEF MarkCutOff, runtimeVars, daemonVars, actorVars, jobVars
<1>10. CASE SweptAdopt
  <2>1. /\ keep # None /\ keep' = None /\ current' = keep /\ route' = keep /\ pc' = "idle" /\ release' = release
    BY <1>10 DEF SweptAdopt, runtimeVars
  <2>. QED
    BY <1>0, <2>1 DEF ServeInv, RowPcs
<1>f. CASE AdoptFails
  <2>1. /\ UNCHANGED <<current, route, release, job>> /\ keep' = None /\ pc = "none" /\ pc' \in {"none", "idle"}
        /\ daemon = "sweeping"
    BY <1>f DEF AdoptFails, ActorInv, runtimeVars, actorVars
  <2>2. current = None /\ route = None
    BY <2>1 DEF ActorInv, DeployInv
  <2>. QED
    BY <1>0, <2>1, <2>2 DEF ServeInv, RowPcs
<1>11. CASE UNCHANGED vars
  BY <1>1, <1>11 DEF vars, runtimeVars, daemonVars, actorVars, jobVars
<1>. QED
  BY <1>2, <1>3, <1>4, <1>5, <1>6, <1>7, <1>8, <1>9, <1>10, <1>11, <1>f DEF Next, ReconcileStep

\* The route, the current instance, its release and the live pointer agree, but
\* for the step between the swap and SetLive.
THEOREM ServeInvariant ==
  ASSUME RowsAreKept
  PROVE  Spec => []ServeInv
<1>1. Init => ServeInv
  BY DEF Init, ServeInv, RowPcs
<1>2. TypeInv /\ ActorInv /\ DeployInv /\ NoDestroyer /\ RowInv /\ ServeInv /\ [Next]_vars => ServeInv'
  BY DeployStepKeepsServe, OthersKeepServe
<1>. QED
  BY <1>1, <1>2, TypeInvariant, ActorInvariant, DeployInvariant, NobodyDestroys, RowInvariant, PTL DEF Spec

\* Between events what an app's host leads to is the actor's instance, running
\* the release the store calls live, whatever failed before.
THEOREM WhatIsServedIsLive ==
  ASSUME RowsAreKept
  PROVE  Spec => []ServesLive
<1>1. ServeInv => ServesLive
  BY DEF ServeInv, ServesLive
<1>. QED
  BY <1>1, ServeInvariant, PTL

-----------------------------------------------------------------------------
(* A shutdown leaves nothing half done *)

\* While the daemon stops and its actor has returned, what still runs drains or
\* is what the route led to, which runs the live release, unless the shutdown
\* was asked for during Reconcile.
QuitInv ==
  daemon = "stopping" /\ pc = "none" /\ ~interrupted =>
    /\ route # None => release[route] = live
    /\ \A i \in Insts : state[i] = "up" => i \in draining \cup {route}

\* A stopping daemon without an actor: only drains and deaths are left.
LEMMA StepKeepsQuit ==
  ASSUME RowsAreKept, SweepIsWhole, TypeInv, ActorInv, DeployInv, NoDestroyer, RunsInv, ServeInv, QuitInv, [Next]_vars
  PROVE  QuitInv'
<1>0. None \notin Insts /\ state \in [Insts -> {"none", "up", "dead"}] /\ current \in Insts \cup {None}
  BY DEF None, Insts, TypeInv, RuntimeTypeOK, ActorTypeOK
<1>1. CASE pc' # "none" \/ daemon' # "stopping" \/ interrupted'
  BY <1>1 DEF QuitInv
<1>2. CASE ActorQuit
  <2>1. /\ pc = "idle" /\ UNCHANGED <<route, state, release, draining, job, interrupted>> /\ live' = live
    BY <1>2 DEF ActorQuit, MayQuit, runtimeVars, storeVars, daemonVars, live
  <2>2. job.cand = None /\ (~interrupted => \A i \in Insts : state[i] = "up" => i \in Owned)
    BY <2>1 DEF DeployInv, RunsInv
  <2>3. /\ current # None => route = current /\ release[current] = live
        /\ current = None => route = None
    BY <2>1 DEF ServeInv
  <2>. QED
    BY <1>0, <2>1, <2>2, <2>3 DEF QuitInv, Owned
<1>3. CASE Shutdown
  <2>1. /\ daemon = "up" /\ UNCHANGED <<pc, route, state, draining, interrupted>>
    BY <1>3 DEF Shutdown, jobVars, runtimeVars, watchVars
  <2>2. CASE pc = "none"
    <3>1. route = None /\ current = None /\ job.cand = None
      BY <2>1, <2>2 DEF DeployInv, ActorInv
    <3>2. ~interrupted => \A i \in Insts : state[i] = "up" => i \in draining
      BY <1>0, <2>1, <3>1 DEF RunsInv, Owned
    <3>. QED
      BY <2>1, <3>1, <3>2 DEF QuitInv
  <2>. QED
    BY <1>1, <2>1, <2>2
<1>4. ASSUME NEW i \in Insts, Retire(i), pc = "none"
      PROVE  QuitInv'
  <2>1. UNCHANGED <<daemon, interrupted, pc, route, release>> /\ draining' = draining \ {i} /\ live' = live
    BY <1>4 DEF Retire, Stop, daemonVars, jobVars, storeVars, live
  <2>2. \A j \in Insts : state'[j] = "up" => state[j] = "up" /\ j # i
    BY <1>4, StopEnds DEF Retire, SweepIsWhole
  <2>. QED
    BY <2>1, <2>2 DEF QuitInv
<1>5. ASSUME NEW i \in Insts, Die(i)
      PROVE  QuitInv'
  <2>1. UNCHANGED <<daemon, interrupted, pc, route, release, draining>> /\ live' = live
    BY <1>5 DEF Die, daemonVars, jobVars, watchVars, storeVars, live
  <2>2. \A j \in Insts : state'[j] = "up" => state[j] = "up"
    BY <1>0, <1>5 DEF Die
  <2>. QED
    BY <2>1, <2>2 DEF QuitInv
<1>6. CASE UNCHANGED <<daemon, interrupted, pc, route, release, state, draining, liveRelease>>
  BY <1>6 DEF QuitInv, live
<1>7. ASSUME NEW c \in Callers, CallerStep(c) \/ TakeCommand(c) \/ Destroy(c)
      PROVE  QuitInv'
  <2>1. ASSUME NEW k \in Kinds, Request(c, k)
        PROVE  QuitInv'
    BY <1>1, <2>1 DEF Request, daemonVars
  <2>2. ~DeleteRows(c) /\ ~RemoveRoute(c) /\ ~Destroy(c)
    BY DEF DeleteRows, RemoveRoute, Destroy, NoDestroyer
  <2>3. CASE RequestDestroy(c) \/ Cancel(c) \/ Withdraw(c)
    BY <1>6, <2>3 DEF RequestDestroy, Cancel, Withdraw, storeVars, runtimeVars, daemonVars, jobVars, watchVars
  <2>4. CASE TakeCommand(c)
    BY <1>1, <2>4 DEF TakeCommand, Take
  <2>. QED
    BY <1>7, <2>1, <2>2, <2>3, <2>4 DEF CallerStep
<1>8. CASE TakeBoot \/ FireRetry \/ DeployStep \/ Panic
  <2>1. pc' # "none"
    BY <1>8 DEF TakeBoot, FireRetry, Take, Panic, DeployStep, PrepareRefused, PrepareRestart, PrepareRelease,
       CreateRow, Build, RecordImage, FailRow, Launch, LaunchRefused, StartInstance, Healthy, Abandon, PassCheck, Swap,
       RecordLive, Reject, Accept, Answer, GiveUp
  <2>. QED
    BY <1>1, <2>1
<1>9. ASSUME NEW i \in Insts, IgnoreExit(i) \/ OnExit(i) \/ (Retire(i) /\ pc # "none")
      PROVE  QuitInv'
  <2>1. pc' # "none"
    BY <1>9 DEF IgnoreExit, OnExit, Retire, jobVars
  <2>. QED
    BY <1>1, <2>1
<1>10. ASSUME NEW i \in Insts, Report(i)
       PROVE  QuitInv'
  BY <1>6, <1>10 DEF Report, storeVars, runtimeVars, daemonVars, jobVars
<1>11. CASE StartDaemon \/ ReconcileStep \/ ReconcileFails \/ Interrupt \/ Exit \/ Crash
  <2>1. daemon' # "stopping"
    BY <1>11 DEF StartDaemon, ReconcileStep, SweepKeep, SweepRemove, SweptAdopt, AdoptFails, SweptRestart, MarkCutOff,
       Serve, ReconcileFails, Interrupt, Exit, Crash, ProcessGone, daemonVars
  <2>. QED
    BY <1>1, <2>1
<1>12. CASE UNCHANGED vars
  BY <1>6, <1>12 DEF vars, storeVars, runtimeVars, daemonVars, jobVars, watchVars
<1>. QED
  BY <1>2, <1>3, <1>4, <1>5, <1>7, <1>8, <1>9, <1>10, <1>11, <1>12 DEF Next, ExitStep

\* What a daemon that stops leaves running is known until it exits.
THEOREM QuitInvariant ==
  ASSUME RowsAreKept, SweepIsWhole
  PROVE  Spec => []QuitInv
<1>1. Init => QuitInv
  BY DEF Init, QuitInv
<1>2. /\ TypeInv /\ ActorInv /\ DeployInv /\ NoDestroyer /\ RunsInv /\ ServeInv /\ QuitInv /\ [Next]_vars
      => QuitInv'
  BY StepKeepsQuit
<1>. QED
  BY <1>1, <1>2, TypeInvariant, ActorInvariant, DeployInvariant, NobodyDestroys, RunsInvariant,
     ServeInvariant, PTL DEF Spec

\* A daemon that shuts down on request, after a Reconcile that was not cut off,
\* exits with at most one instance running, of the live release, and no release
\* open.
THEOREM ShutdownIsClean ==
  ASSUME RowsAreKept, SweepIsWhole
  PROVE  Spec => CleanExit
<1>1. TypeInv /\ OpenInv /\ QuitInv /\ [Next]_vars
      => [Exit /\ ~interrupted =>
            /\ Store!OpenReleases = {}
            /\ \A i, j \in Insts : state[i] = "up" /\ state[j] = "up" => i = j /\ release[i] = live]_vars
  <2> SUFFICES ASSUME TypeInv, OpenInv, QuitInv, Exit, ~interrupted
               PROVE  /\ Store!OpenReleases = {}
                      /\ \A i, j \in Insts : state[i] = "up" /\ state[j] = "up" => i = j /\ release[i] = live
    OBVIOUS
  <2>1. daemon = "stopping" /\ pc = "none" /\ draining = {}
    BY DEF Exit, AllGone
  <2>2. \A i \in Ids : ~Store!HasStatus(i, {"building", "starting"})
    BY <2>1 DEF OpenInv, Serving, RowPcs
  <2>3. Store!OpenReleases = {}
    BY <2>2 DEF Store!OpenReleases, Store!Ids, Ids
  <2>4. \A i \in Insts : state[i] = "up" => i = route /\ release[i] = live
    <3>1. None \notin Insts
      BY DEF None, Insts
    <3>. QED
      BY <2>1, <3>1 DEF QuitInv
  <2>. QED
    BY <2>3, <2>4
<1>2. StoreAnswers
  BY DEF StoreAnswers, SweepIsWhole
<1>. QED
  BY <1>1, <1>2, TypeInvariant, OpenInvariant, QuitInvariant, PTL DEF Spec, CleanExit

=============================================================================
