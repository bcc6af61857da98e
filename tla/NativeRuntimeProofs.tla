------------------------ MODULE NativeRuntimeProofs ------------------------
(***************************************************************************)
(* What the native runtime promises, proved for any number of instances,   *)
(* images, pids and restarts.                                              *)
(***************************************************************************)
EXTENDS NativeRuntime, TLAPS

\* One export per image at a time, and none of an image that is there; who is
\* past Prepare has an image that is there, and stays there.
ExportInv ==
  /\ \A i, j \in Instances : Exporting(i) /\ Exporting(j) /\ ImageOf[i] = ImageOf[j] => i = j
  /\ \A i \in Instances : Exporting(i) => rootfs[ImageOf[i]] # "done"
  /\ \A i \in Instances : prep[i] = "ready" => rootfs[ImageOf[i]] = "done"
  /\ \A i \in Instances : start[i] \in {"dirs", "placed"} \/ proc[i] # "none" => prep[i] = "ready"

\* A pid is one process's at a time.
PidInv ==
  /\ \A i \in Instances : proc[i] # "none" => pid[i] \in Pids
  /\ \A i, j \in Instances : Present(i) /\ Present(j) /\ pid[i] = pid[j] => i = j

\* What exists of an instance, by where its Start is.
Exists(i) ==
  /\ start[i] \in {"new", "preparing", "dirs", "placed"} => proc[i] = "none"
  /\ start[i] \in {"forked", "sent", "started", "killing", "reaping", "written", "returned"} => proc[i] # "none"
  /\ start[i] = "reaping" => proc[i] \in {"zombie", "gone"}
  /\ start[i] \in {"failed", "leaked"} => proc[i] \in {"none", "gone"}
  /\ start[i] \in {"new", "preparing", "dirs", "failed"} => i \notin cgroups
  /\ i \in listed => start[i] \in {"written", "returned", "cut"}
  /\ i \in procs => start[i] = "returned"
  /\ stop[i] # "none" \/ follow[i].phase # "none" => start[i] \in {"returned", "cut"}
  /\ start[i] = "written" => i \in listed
  /\ start[i] = "returned" /\ i \notin listed /\ i \notin misread => proc[i] = "gone"

\* A state file names a process that ran; the one it is of, while that is there.
Stamped(i) ==
  st[i].pid # NoPid =>
    /\ proc[i] # "none"
    /\ st[i].pid = pid[i]
    /\ Present(i) => st[i].time \in {Unknown, i}

Recorded(i) ==
  i \in listed \/ stop[i] # "none" \/ follow[i].phase # "none" => st[i].pid # NoPid

\* Who is past the look at the process has seen it gone, or misread it.
Seen(i) == i \notin misread =>
  /\ follow[i].phase \in {"last", "ended", "copied"} \/ stop[i] \in {"clean", "done"} => proc[i] = "gone"
  /\ follow[i].phase = "copied" => follow[i].at = written[i]

Inv ==
  /\ TypeOK
  /\ ExportInv
  /\ PidInv
  /\ \A i \in Instances : Exists(i) /\ Stamped(i) /\ Recorded(i) /\ Seen(i)

-----------------------------------------------------------------------------
(* Each action preserves the invariant *)

\* What the host does: children get to their exec or their error, end, and are
\* reaped.
LEMMA HostInv ==
  ASSUME Inv, NEW i \in Instances, HostStep(i)
  PROVE  Inv'
<1> USE BoundAssumption, PidsAssumption, UnknownAssumption
    DEF Inv, HostStep, Reap, Ends, InitExecs, InitFails, WriteOutput, Runs, Present,
        Exporting, exportVars, hostVars, childVars, diskVars, callVars
<1>1. TypeOK'
  <2>1. proc' \in [Instances -> {"none", "init", "app", "zombie", "gone"}] /\ errmsg' \subseteq Instances
    BY DEF TypeOK, HostTypeOK
  <2>2. written' \in [Instances -> 0 .. MaxOutput]
    BY DEF TypeOK
  <2>. QED
    BY <2>1, <2>2 DEF TypeOK, ExportTypeOK, HostTypeOK, DiskTypeOK, CallTypeOK, Starts
<1> USE DEF TypeOK, ExportTypeOK, HostTypeOK, DiskTypeOK, CallTypeOK
<1>2. ExportInv'
  BY DEF ExportInv, Exists
<1>3. PidInv'
  BY DEF PidInv, Exists
<1>. SUFFICES ASSUME NEW j \in Instances
              PROVE  (Exists(j) /\ Stamped(j) /\ Recorded(j) /\ Seen(j))'
  BY <1>1, <1>2, <1>3
<1>4. Exists(j)'
  BY DEF Exists, Stamped, Recorded, Seen
<1>5. Stamped(j)'
  BY DEF Exists, Stamped, Recorded, PidInv
<1>6. Recorded(j)'
  BY DEF Exists, Stamped, Recorded, PidInv
<1>7. Seen(j)'
  BY DEF Exists, Stamped, Recorded, Seen
<1>. QED
  BY <1>4, <1>5, <1>6, <1>7

\* A start up to the child: nothing exists but a cgroup.
LEMMA EarlyInv ==
  ASSUME Inv, NEW i \in Instances, NotPrepared(i) \/ MakeDirs(i) \/ Place(i) \/ ForkFails(i)
  PROVE  Inv'
<1> USE BoundAssumption, PidsAssumption, UnknownAssumption
    DEF Inv, NotPrepared, MakeDirs, Place, ForkFails, Unplace, At, To, Present,
        Exporting, exportVars, hostVars, childVars, diskVars, callVars
<1>1. TypeOK'
  BY DEF TypeOK, ExportTypeOK, HostTypeOK, DiskTypeOK, CallTypeOK, Starts
<1> USE DEF TypeOK, ExportTypeOK, HostTypeOK, DiskTypeOK, CallTypeOK
<1>2. ExportInv'
  BY DEF ExportInv, Exists
<1>3. PidInv'
  BY DEF PidInv, Exists
<1>. SUFFICES ASSUME NEW j \in Instances
              PROVE  (Exists(j) /\ Stamped(j) /\ Recorded(j) /\ Seen(j))'
  BY <1>1, <1>2, <1>3
<1>4. Exists(j)'
  BY DEF Exists, Stamped, Recorded, Seen
<1>5. Stamped(j)'
  BY DEF Exists, Stamped, Recorded, PidInv
<1>6. Recorded(j)'
  BY DEF Exists, Stamped, Recorded, PidInv
<1>7. Seen(j)'
  BY DEF Exists, Stamped, Recorded, Seen
<1>. QED
  BY <1>4, <1>5, <1>6, <1>7

\* The child is forked with a pid nobody has.
LEMMA ForkInv ==
  ASSUME Inv, NEW i \in Instances, Fork(i)
  PROVE  Inv'
<1> USE BoundAssumption, PidsAssumption, UnknownAssumption
    DEF Inv, Fork, At, To, HasPid, Present, Exporting, exportVars, hostVars,
        childVars, diskVars, callVars
<1>1. TypeOK'
  BY DEF TypeOK, ExportTypeOK, HostTypeOK, DiskTypeOK, CallTypeOK, Starts
<1> USE DEF TypeOK, ExportTypeOK, HostTypeOK, DiskTypeOK, CallTypeOK
<1>2. ExportInv'
  BY DEF ExportInv, Exists
<1>3. PidInv'
  BY DEF PidInv, Exists
<1>. SUFFICES ASSUME NEW j \in Instances
              PROVE  (Exists(j) /\ Stamped(j) /\ Recorded(j) /\ Seen(j))'
  BY <1>1, <1>2, <1>3
<1>4. Exists(j)'
  BY DEF Exists, Stamped, Recorded, Seen
<1>5. Stamped(j)'
  BY DEF Exists, Stamped, Recorded, PidInv
<1>6. Recorded(j)'
  BY DEF Exists, Stamped, Recorded, PidInv
<1>7. Seen(j)'
  BY DEF Exists, Stamped, Recorded, Seen
<1>. QED
  BY <1>4, <1>5, <1>6, <1>7

\* The daemon and its child: the spec, the verdict, the way back.
LEMMA SpawnInv ==
  ASSUME Inv, NEW i \in Instances, SendSpec(i) \/ ReadVerdict(i) \/ KillChild(i) \/ Reaped(i) \/ Register(i)
  PROVE  Inv'
<1> USE BoundAssumption, PidsAssumption, UnknownAssumption
    DEF Inv, SendSpec, ReadVerdict, KillChild, Reaped, Register, Unplace, At, To,
        Ended, Runs, Present, Exporting, exportVars, hostVars, childVars, diskVars,
        callVars
<1>1. TypeOK'
  <2>1. start' \in [Instances -> Starts]
    BY DEF TypeOK, Starts
  <2>2. proc' \in [Instances -> {"none", "init", "app", "zombie", "gone"}]
    BY DEF TypeOK, HostTypeOK
  <2>3. cgroups' \subseteq Instances /\ procs' \subseteq Instances /\ spec' \subseteq Instances
    BY DEF TypeOK, HostTypeOK, DiskTypeOK
  <2>. QED
    BY <2>1, <2>2, <2>3 DEF TypeOK, ExportTypeOK, HostTypeOK, DiskTypeOK, CallTypeOK
<1> USE DEF TypeOK, ExportTypeOK, HostTypeOK, DiskTypeOK, CallTypeOK
<1>2. ExportInv'
  BY DEF ExportInv, Exists
<1>3. PidInv'
  BY DEF PidInv, Exists
<1>. SUFFICES ASSUME NEW j \in Instances
              PROVE  (Exists(j) /\ Stamped(j) /\ Recorded(j) /\ Seen(j))'
  BY <1>1, <1>2, <1>3
<1>4. Exists(j)'
  BY DEF Exists, Stamped, Recorded, Seen
<1>5. Stamped(j)'
  BY DEF Exists, Stamped, Recorded, PidInv
<1>6. Recorded(j)'
  BY DEF Exists, Stamped, Recorded, PidInv
<1>7. Seen(j)'
  BY DEF Exists, Stamped, Recorded, Seen
<1>. QED
  BY <1>4, <1>5, <1>6, <1>7

\* Stop looks whether the instance is there.
LEMMA StopLooksInv ==
  ASSUME Inv, NEW i \in Instances, StopBegins(i) \/ StopSeesEnd(i) \/ StopAims(i)
  PROVE  Inv'
<1> USE BoundAssumption, PidsAssumption, UnknownAssumption
    DEF Inv, StopBegins, StopSeesEnd, StopAims, StopTo, Known, Sees, Running, Alive,
        HasPid, Runs, Present, Exporting, exportVars, hostVars, childVars, diskVars,
        callVars
<1>1. TypeOK'
  <2>1. stop' \in [Instances -> {"none", "grace", "kill", "aim", "clean", "done"}]
    BY DEF TypeOK, CallTypeOK
  <2>2. procs' \subseteq Instances
    BY DEF TypeOK
  <2>. QED
    BY <2>1, <2>2 DEF TypeOK, ExportTypeOK, HostTypeOK, DiskTypeOK, CallTypeOK, Starts
<1> USE DEF TypeOK, ExportTypeOK, HostTypeOK, DiskTypeOK, CallTypeOK
<1>2. ExportInv'
  BY DEF ExportInv, Exists
<1>3. PidInv'
  BY DEF PidInv, Exists
<1>. SUFFICES ASSUME NEW j \in Instances
              PROVE  (Exists(j) /\ Stamped(j) /\ Recorded(j) /\ Seen(j))'
  BY <1>1, <1>2, <1>3
<1>4. Exists(j)'
  BY DEF Exists, Stamped, Recorded, Seen
<1>5. Stamped(j)'
  BY DEF Exists, Stamped, Recorded, PidInv
<1>6. Recorded(j)'
  BY DEF Exists, Stamped, Recorded, PidInv
<1>7. Seen(j)'
  BY DEF Exists, Stamped, Recorded, Seen
<1>. QED
  BY <1>4, <1>5, <1>6, <1>7

\* Stop kills a child, or who has the pid of the adopted instance.
LEMMA StopKillsInv ==
  ASSUME Inv, NEW i \in Instances, StopKillsChild(i) \/ StopShoots(i)
  PROVE  Inv'
<1> USE BoundAssumption, PidsAssumption, UnknownAssumption
    DEF Inv, StopKillsChild, StopShoots, StopTo, SigKill, HasPid, Ended, Runs,
        Present, Exporting, exportVars, hostVars, childVars, diskVars, callVars
<1>1. TypeOK'
  <2>1. stop' \in [Instances -> {"none", "grace", "kill", "aim", "clean", "done"}]
    BY DEF TypeOK, CallTypeOK
  <2>2. proc' \in [Instances -> {"none", "init", "app", "zombie", "gone"}]
    BY DEF TypeOK, HostTypeOK
  <2>. QED
    BY <2>1, <2>2 DEF TypeOK, ExportTypeOK, HostTypeOK, DiskTypeOK, CallTypeOK, Starts
<1> USE DEF TypeOK, ExportTypeOK, HostTypeOK, DiskTypeOK, CallTypeOK
<1>2. ExportInv'
  BY DEF ExportInv, Exists
<1>3. PidInv'
  BY DEF PidInv, Exists
<1>. SUFFICES ASSUME NEW j \in Instances
              PROVE  (Exists(j) /\ Stamped(j) /\ Recorded(j) /\ Seen(j))'
  BY <1>1, <1>2, <1>3
<1>4. Exists(j)'
  BY DEF Exists, Stamped, Recorded, Seen
<1>5. Stamped(j)'
  BY DEF Exists, Stamped, Recorded, PidInv
<1>6. Recorded(j)'
  BY DEF Exists, Stamped, Recorded, PidInv
<1>7. Seen(j)'
  BY DEF Exists, Stamped, Recorded, Seen
<1>. QED
  BY <1>4, <1>5, <1>6, <1>7

\* Stop removes what it has seen gone.
LEMMA StopCleansInv ==
  ASSUME Inv, NEW i \in Instances, StopCleans(i)
  PROVE  Inv'
<1> USE BoundAssumption, PidsAssumption, UnknownAssumption
    DEF Inv, StopCleans, StopTo, Runs, Present, Exporting, exportVars, hostVars,
        childVars, diskVars, callVars
<1>1. TypeOK'
  BY DEF TypeOK, ExportTypeOK, HostTypeOK, DiskTypeOK, CallTypeOK, Starts
<1> USE DEF TypeOK, ExportTypeOK, HostTypeOK, DiskTypeOK, CallTypeOK
<1>2. ExportInv'
  BY DEF ExportInv, Exists
<1>3. PidInv'
  BY DEF PidInv, Exists
<1>. SUFFICES ASSUME NEW j \in Instances
              PROVE  (Exists(j) /\ Stamped(j) /\ Recorded(j) /\ Seen(j))'
  BY <1>1, <1>2, <1>3
<1>4. Exists(j)'
  BY DEF Exists, Stamped, Recorded, Seen
<1>5. Stamped(j)'
  BY DEF Exists, Stamped, Recorded, PidInv
<1>6. Recorded(j)'
  BY DEF Exists, Stamped, Recorded, PidInv
<1>7. Seen(j)'
  BY DEF Exists, Stamped, Recorded, Seen
<1>. QED
  BY <1>4, <1>5, <1>6, <1>7

\* A caller of Wait begins.
LEMMA WaitBeginsInv ==
  ASSUME Inv, NEW i \in Instances, WaitBegins(i)
  PROVE  Inv'
<1> USE BoundAssumption, PidsAssumption, UnknownAssumption
    DEF Inv, WaitBegins, Follow, allButFollow, Known, Present, Exporting,
        exportVars, hostVars, childVars, diskVars, callVars
<1>1. TypeOK'
  BY DEF TypeOK, ExportTypeOK, HostTypeOK, DiskTypeOK, CallTypeOK, Starts
<1> USE DEF TypeOK, ExportTypeOK, HostTypeOK, DiskTypeOK, CallTypeOK
<1>2. ExportInv'
  BY DEF ExportInv, Exists
<1>3. PidInv'
  BY DEF PidInv, Exists
<1>. SUFFICES ASSUME NEW j \in Instances
              PROVE  (Exists(j) /\ Stamped(j) /\ Recorded(j) /\ Seen(j))'
  BY <1>1, <1>2, <1>3
<1>4. Exists(j)'
  BY DEF Exists, Stamped, Recorded, Seen
<1>5. Stamped(j)'
  BY DEF Exists, Stamped, Recorded, PidInv
<1>6. Recorded(j)'
  BY DEF Exists, Stamped, Recorded, PidInv
<1>7. Seen(j)'
  BY DEF Exists, Stamped, Recorded, Seen
<1>. QED
  BY <1>4, <1>5, <1>6, <1>7

\* Wait returns when the process is gone.
LEMMA WaitReturnsInv ==
  ASSUME Inv, NEW i \in Instances, WaitReturns(i)
  PROVE  Inv'
<1> USE BoundAssumption, PidsAssumption, UnknownAssumption
    DEF Inv, WaitReturns, Follow, allButFollow, Sees, Running, Alive, HasPid, Present, Exporting,
        exportVars, hostVars, childVars, diskVars, callVars
<1>1. TypeOK'
  BY DEF TypeOK, ExportTypeOK, HostTypeOK, DiskTypeOK, CallTypeOK, Starts
<1> USE DEF TypeOK, ExportTypeOK, HostTypeOK, DiskTypeOK, CallTypeOK
<1>2. ExportInv'
  BY DEF ExportInv, Exists
<1>3. PidInv'
  BY DEF PidInv, Exists
<1>. SUFFICES ASSUME NEW j \in Instances
              PROVE  (Exists(j) /\ Stamped(j) /\ Recorded(j) /\ Seen(j))'
  BY <1>1, <1>2, <1>3
<1>4. Exists(j)'
  BY DEF Exists, Stamped, Recorded, Seen
<1>5. Stamped(j)'
  BY DEF Exists, Stamped, Recorded, PidInv
<1>6. Recorded(j)'
  BY DEF Recorded
<1>7. Seen(j)'
  BY DEF Exists, Stamped, Recorded, Seen
<1>. QED
  BY <1>4, <1>5, <1>6, <1>7

\* A caller of Logs begins.
LEMMA LogsBeginsInv ==
  ASSUME Inv, NEW i \in Instances, LogsBegins(i)
  PROVE  Inv'
<1> USE BoundAssumption, PidsAssumption, UnknownAssumption
    DEF Inv, LogsBegins, Follow, allButFollow, Known, Present, Exporting,
        exportVars, hostVars, childVars, diskVars, callVars
<1>1. TypeOK'
  BY DEF TypeOK, ExportTypeOK, HostTypeOK, DiskTypeOK, CallTypeOK, Starts
<1> USE DEF TypeOK, ExportTypeOK, HostTypeOK, DiskTypeOK, CallTypeOK
<1>2. ExportInv'
  BY DEF ExportInv, Exists
<1>3. PidInv'
  BY DEF PidInv, Exists
<1>. SUFFICES ASSUME NEW j \in Instances
              PROVE  (Exists(j) /\ Stamped(j) /\ Recorded(j) /\ Seen(j))'
  BY <1>1, <1>2, <1>3
<1>4. Exists(j)'
  BY DEF Exists, Stamped, Recorded, Seen
<1>5. Stamped(j)'
  BY DEF Exists, Stamped, Recorded, PidInv
<1>6. Recorded(j)'
  BY DEF Exists, Stamped, Recorded, PidInv
<1>7. Seen(j)'
  BY DEF Exists, Stamped, Recorded, Seen
<1>. QED
  BY <1>4, <1>5, <1>6, <1>7

\* Logs copies what there is.
LEMMA LogsCopiesInv ==
  ASSUME Inv, NEW i \in Instances, LogsDrains(i) \/ LogsEnds(i)
  PROVE  Inv'
<1> USE BoundAssumption, PidsAssumption, UnknownAssumption
    DEF Inv, LogsDrains, LogsEnds, Follow, allButFollow, Present, Exporting,
        exportVars, hostVars, childVars, diskVars, callVars
<1>1. TypeOK'
  <2>1. follow' \in [Instances -> [phase: {"none", "child", "adopted", "ended", "drain", "look", "last", "copied"},
                                  at: 0 .. MaxOutput]]
    BY DEF TypeOK, CallTypeOK
  <2>2. misread' \subseteq Instances
    BY DEF TypeOK
  <2>. QED
    BY <2>1, <2>2 DEF TypeOK, ExportTypeOK, HostTypeOK, DiskTypeOK, CallTypeOK, Starts
<1> USE DEF TypeOK, ExportTypeOK, HostTypeOK, DiskTypeOK, CallTypeOK
<1>2. ExportInv'
  BY DEF ExportInv, Exists
<1>3. PidInv'
  BY DEF PidInv, Exists
<1>. SUFFICES ASSUME NEW j \in Instances
              PROVE  (Exists(j) /\ Stamped(j) /\ Recorded(j) /\ Seen(j))'
  BY <1>1, <1>2, <1>3
<1>4. Exists(j)'
  BY DEF Exists
<1>5. Stamped(j)'
  BY DEF Exists, Stamped, Recorded, PidInv
<1>6. Recorded(j)'
  BY DEF Recorded
<1>7. Seen(j)'
  BY DEF Exists, Stamped, Recorded, Seen
<1>. QED
  BY <1>4, <1>5, <1>6, <1>7

\* Logs looks whether the instance still runs.
LEMMA LogsLooksInv ==
  ASSUME Inv, NEW i \in Instances, LogsLooks(i)
  PROVE  Inv'
<1> USE BoundAssumption, PidsAssumption, UnknownAssumption
    DEF Inv, LogsLooks, Follow, allButFollow, Sees, Running, Alive, HasPid, Present,
        Exporting, exportVars, hostVars, childVars, diskVars, callVars
<1>1. TypeOK'
  <2>1. follow' \in [Instances -> [phase: {"none", "child", "adopted", "ended", "drain", "look", "last", "copied"},
                                  at: 0 .. MaxOutput]]
    BY DEF TypeOK, CallTypeOK
  <2>2. misread' \subseteq Instances
    BY DEF TypeOK
  <2>. QED
    BY <2>1, <2>2 DEF TypeOK, ExportTypeOK, HostTypeOK, DiskTypeOK, CallTypeOK, Starts
<1> USE DEF TypeOK, ExportTypeOK, HostTypeOK, DiskTypeOK, CallTypeOK
<1>2. ExportInv'
  BY DEF ExportInv, Exists
<1>3. PidInv'
  BY DEF PidInv, Exists
<1>. SUFFICES ASSUME NEW j \in Instances
              PROVE  (Exists(j) /\ Stamped(j) /\ Recorded(j) /\ Seen(j))'
  BY <1>1, <1>2, <1>3
<1>4. Exists(j)'
  <2>1. UNCHANGED <<start, proc, cgroups, listed, procs, stop>> /\ misread \subseteq misread'
    OBVIOUS
  <2>2. follow'[j].phase # "none" => follow[j].phase # "none"
    OBVIOUS
  <2>. QED
    BY <2>1, <2>2 DEF Exists
<1>5. Stamped(j)'
  BY DEF Exists, Stamped, Recorded, PidInv
<1>6. Recorded(j)'
  BY DEF Recorded
<1>7. Seen(j)'
  BY DEF Exists, Stamped, Recorded, Seen
<1>. QED
  BY <1>4, <1>5, <1>6, <1>7

\* A caller of Wait or Logs gives up.
LEMMA GiveUpInv ==
  ASSUME Inv, NEW i \in Instances, GiveUp(i)
  PROVE  Inv'
<1> USE BoundAssumption, PidsAssumption, UnknownAssumption
    DEF Inv, GiveUp, Follow, allButFollow, Present, Exporting, exportVars, hostVars,
        childVars, diskVars, callVars
<1>1. TypeOK'
  BY DEF TypeOK, ExportTypeOK, HostTypeOK, DiskTypeOK, CallTypeOK, Starts
<1> USE DEF TypeOK, ExportTypeOK, HostTypeOK, DiskTypeOK, CallTypeOK
<1>2. ExportInv'
  BY DEF ExportInv, Exists
<1>3. PidInv'
  BY DEF PidInv, Exists
<1>. SUFFICES ASSUME NEW j \in Instances
              PROVE  (Exists(j) /\ Stamped(j) /\ Recorded(j) /\ Seen(j))'
  BY <1>1, <1>2, <1>3
<1>4. Exists(j)'
  BY DEF Exists, Stamped, Recorded, Seen
<1>5. Stamped(j)'
  BY DEF Exists, Stamped, Recorded, PidInv
<1>6. Recorded(j)'
  BY DEF Exists, Stamped, Recorded, PidInv
<1>7. Seen(j)'
  BY DEF Exists, Stamped, Recorded, Seen
<1>. QED
  BY <1>4, <1>5, <1>6, <1>7

\* The state file names the child.
LEMMA WriteStateInv ==
  ASSUME Inv, NEW i \in Instances, WriteState(i)
  PROVE  Inv'
<1> USE BoundAssumption, PidsAssumption, UnknownAssumption
    DEF Inv, WriteState, At, To, StartTimes, HasPid, Present, Exporting, exportVars,
        hostVars, childVars, diskVars, callVars
<1>1. TypeOK'
  <2>1. pid[i] \in Pids
    BY DEF PidInv, Exists
  <2>2. st' \in [Instances -> [pid: Pids \cup {NoPid}, time: Instances \cup {Unknown}]]
    BY <2>1 DEF TypeOK, DiskTypeOK
  <2>. QED
    BY <2>2 DEF TypeOK, ExportTypeOK, HostTypeOK, DiskTypeOK, CallTypeOK, Starts
<1> USE DEF TypeOK, ExportTypeOK, HostTypeOK, DiskTypeOK, CallTypeOK
<1>2. ExportInv'
  BY DEF ExportInv, Exists
<1>3. PidInv'
  BY DEF PidInv, Exists
<1>. SUFFICES ASSUME NEW j \in Instances
              PROVE  (Exists(j) /\ Stamped(j) /\ Recorded(j) /\ Seen(j))'
  BY <1>1, <1>2, <1>3
<1>4. Exists(j)'
  BY DEF Exists, Stamped, Recorded, Seen
<1>5. Stamped(j)'
  <2>1. CASE j # i
    BY <2>1 DEF Stamped
  <2>2. CASE j = i
    BY <2>2 DEF Exists, Stamped, PidInv
  <2>. QED
    BY <2>1, <2>2
<1>6. Recorded(j)'
  BY DEF Exists, Stamped, Recorded, PidInv
<1>7. Seen(j)'
  BY DEF Exists, Stamped, Recorded, Seen
<1>. QED
  BY <1>4, <1>5, <1>6, <1>7

\* A start begins with Prepare.
LEMMA EnterInv ==
  ASSUME Inv, NEW i \in Instances, Enter(i)
  PROVE  Inv'
<1> USE BoundAssumption, PidsAssumption, UnknownAssumption
    DEF Inv, Enter, Inspect, Phase, At, To, Present, Exporting, exportVars,
        hostVars, childVars, diskVars, callVars
<1>1. TypeOK'
  BY DEF TypeOK, ExportTypeOK, HostTypeOK, DiskTypeOK, CallTypeOK, Starts
<1> USE DEF TypeOK, ExportTypeOK, HostTypeOK, DiskTypeOK, CallTypeOK
<1>2. ExportInv'
  <2>1. \A a, b \in Instances : (Exporting(a) /\ Exporting(b) /\ ImageOf[a] = ImageOf[b] => a = b)'
    BY DEF ExportInv
  <2>2. \A a \in Instances : (Exporting(a) => rootfs[ImageOf[a]] # "done")'
    BY ImageOfAssumption DEF ExportInv
  <2>3. \A a \in Instances : (prep[a] = "ready" => rootfs[ImageOf[a]] = "done")'
    BY ImageOfAssumption DEF ExportInv
  <2>4. \A a \in Instances : (start[a] \in {"dirs", "placed"} \/ proc[a] # "none" => prep[a] = "ready")'
    BY DEF ExportInv, Exists
  <2>. QED
    BY <2>1, <2>2, <2>3, <2>4 DEF ExportInv
<1>3. PidInv'
  BY DEF PidInv, Exists
<1>. SUFFICES ASSUME NEW j \in Instances
              PROVE  (Exists(j) /\ Stamped(j) /\ Recorded(j) /\ Seen(j))'
  BY <1>1, <1>2, <1>3
<1>4. Exists(j)'
  BY DEF Exists, Stamped, Recorded, Seen
<1>5. Stamped(j)'
  BY DEF Exists, Stamped, Recorded, PidInv
<1>6. Recorded(j)'
  BY DEF Exists, Stamped, Recorded, PidInv
<1>7. Seen(j)'
  BY DEF Exists, Stamped, Recorded, Seen
<1>. QED
  BY <1>4, <1>5, <1>6, <1>7

\* Prepare, but for the beginning of an export and its mark.
LEMMA ExportMovesInv ==
  ASSUME Inv, NEW i \in Instances, At(i, "preparing"), FindExported(i) \/ Unpack(i) \/ ExportFails(i),
         UNCHANGED <<hostVars, childVars, start, diskVars, procs, callVars, written, misread, restarts>>
  PROVE  Inv'
<1> USE BoundAssumption, PidsAssumption, UnknownAssumption
    DEF Inv, At, FindExported, Unpack, ExportFails, Phase, Locked, IsDone, Present,
        Exporting, exportVars, hostVars, childVars, diskVars, callVars
<1>1. TypeOK'
  BY DEF TypeOK, ExportTypeOK, HostTypeOK, DiskTypeOK, CallTypeOK, Starts
<1> USE DEF TypeOK, ExportTypeOK, HostTypeOK, DiskTypeOK, CallTypeOK
<1>2. ExportInv'
  <2>1. \A a, b \in Instances : (Exporting(a) /\ Exporting(b) /\ ImageOf[a] = ImageOf[b] => a = b)'
    BY DEF ExportInv
  <2>2. \A a \in Instances : (Exporting(a) => rootfs[ImageOf[a]] # "done")'
    BY ImageOfAssumption DEF ExportInv
  <2>3. \A a \in Instances : (prep[a] = "ready" => rootfs[ImageOf[a]] = "done")'
    BY ImageOfAssumption DEF ExportInv
  <2>4. \A a \in Instances : (start[a] \in {"dirs", "placed"} \/ proc[a] # "none" => prep[a] = "ready")'
    BY DEF ExportInv, Exists
  <2>. QED
    BY <2>1, <2>2, <2>3, <2>4 DEF ExportInv
<1>3. PidInv'
  BY DEF PidInv, Exists
<1>. SUFFICES ASSUME NEW j \in Instances
              PROVE  (Exists(j) /\ Stamped(j) /\ Recorded(j) /\ Seen(j))'
  BY <1>1, <1>2, <1>3
<1>4. Exists(j)'
  BY DEF Exists, Stamped, Recorded, Seen
<1>5. Stamped(j)'
  BY DEF Exists, Stamped, Recorded, PidInv
<1>6. Recorded(j)'
  BY DEF Exists, Stamped, Recorded, PidInv
<1>7. Seen(j)'
  BY DEF Exists, Stamped, Recorded, Seen
<1>. QED
  BY <1>4, <1>5, <1>6, <1>7

\* An export begins where none is in progress.
LEMMA BeginExportInv ==
  ASSUME Inv, NEW i \in Instances, At(i, "preparing"), BeginExport(i),
         UNCHANGED <<hostVars, childVars, start, diskVars, procs, callVars, written, misread, restarts>>
  PROVE  Inv'
<1> USE BoundAssumption, PidsAssumption, UnknownAssumption
    DEF Inv, At, BeginExport, Phase, Locked, IsDone, Present, Exporting, exportVars,
        hostVars, childVars, diskVars, callVars
<1>1. TypeOK'
  BY DEF TypeOK, ExportTypeOK, HostTypeOK, DiskTypeOK, CallTypeOK, Starts
<1> USE DEF TypeOK, ExportTypeOK, HostTypeOK, DiskTypeOK, CallTypeOK
<1>2. ExportInv'
  BY DEF ExportInv, Exists
<1>3. PidInv'
  BY DEF PidInv, Exists
<1>. SUFFICES ASSUME NEW j \in Instances
              PROVE  (Exists(j) /\ Stamped(j) /\ Recorded(j) /\ Seen(j))'
  BY <1>1, <1>2, <1>3
<1>4. Exists(j)'
  BY DEF Exists, Stamped, Recorded, Seen
<1>5. Stamped(j)'
  BY DEF Exists, Stamped, Recorded, PidInv
<1>6. Recorded(j)'
  BY DEF Exists, Stamped, Recorded, PidInv
<1>7. Seen(j)'
  BY DEF Exists, Stamped, Recorded, Seen
<1>. QED
  BY <1>4, <1>5, <1>6, <1>7

\* The marker is written by the one that holds the lock.
LEMMA MarkInv ==
  ASSUME Inv, NEW i \in Instances, At(i, "preparing"), Mark(i),
         UNCHANGED <<hostVars, childVars, start, diskVars, procs, callVars, written, misread, restarts>>
  PROVE  Inv'
<1> USE BoundAssumption, PidsAssumption, UnknownAssumption
    DEF Inv, At, Mark, Phase, Present, Exporting, exportVars, hostVars, childVars,
        diskVars, callVars
<1>1. TypeOK'
  BY DEF TypeOK, ExportTypeOK, HostTypeOK, DiskTypeOK, CallTypeOK, Starts
<1> USE DEF TypeOK, ExportTypeOK, HostTypeOK, DiskTypeOK, CallTypeOK
<1>2. ExportInv'
  <2>1. \A a, b \in Instances : (Exporting(a) /\ Exporting(b) /\ ImageOf[a] = ImageOf[b] => a = b)'
    BY DEF ExportInv
  <2>2. \A a \in Instances : (Exporting(a) => rootfs[ImageOf[a]] # "done")'
    BY ImageOfAssumption DEF ExportInv
  <2>3. \A a \in Instances : (prep[a] = "ready" => rootfs[ImageOf[a]] = "done")'
    BY ImageOfAssumption DEF ExportInv
  <2>4. \A a \in Instances : (start[a] \in {"dirs", "placed"} \/ proc[a] # "none" => prep[a] = "ready")'
    BY DEF ExportInv, Exists
  <2>. QED
    BY <2>1, <2>2, <2>3, <2>4 DEF ExportInv
<1>3. PidInv'
  BY DEF PidInv, Exists
<1>. SUFFICES ASSUME NEW j \in Instances
              PROVE  (Exists(j) /\ Stamped(j) /\ Recorded(j) /\ Seen(j))'
  BY <1>1, <1>2, <1>3
<1>4. Exists(j)'
  BY DEF Exists, Stamped, Recorded, Seen
<1>5. Stamped(j)'
  BY DEF Exists, Stamped, Recorded, PidInv
<1>6. Recorded(j)'
  BY DEF Exists, Stamped, Recorded, PidInv
<1>7. Seen(j)'
  BY DEF Exists, Stamped, Recorded, Seen
<1>. QED
  BY <1>4, <1>5, <1>6, <1>7

\* The daemon dies and another one starts.
LEMMA RestartInv ==
  ASSUME Inv, Restart
  PROVE  Inv'
<1> USE BoundAssumption, PidsAssumption, UnknownAssumption
    DEF Inv, Restart, ExportCutOff, NoOne, Present, Exporting, exportVars, hostVars,
        childVars, diskVars, callVars
<1>1. TypeOK'
  BY DEF TypeOK, ExportTypeOK, HostTypeOK, DiskTypeOK, CallTypeOK, Starts
<1> USE DEF TypeOK, ExportTypeOK, HostTypeOK, DiskTypeOK, CallTypeOK
<1>2. ExportInv'
  BY DEF ExportInv, Exists
<1>3. PidInv'
  BY DEF PidInv, Exists
<1>. SUFFICES ASSUME NEW j \in Instances
              PROVE  (Exists(j) /\ Stamped(j) /\ Recorded(j) /\ Seen(j))'
  BY <1>1, <1>2, <1>3
<1>4. Exists(j)'
  BY DEF Exists, Stamped, Recorded, Seen
<1>5. Stamped(j)'
  BY DEF Exists, Stamped, Recorded, PidInv
<1>6. Recorded(j)'
  BY DEF Exists, Stamped, Recorded, PidInv
<1>7. Seen(j)'
  BY DEF Exists, Stamped, Recorded, Seen
<1>. QED
  BY <1>4, <1>5, <1>6, <1>7

-----------------------------------------------------------------------------
(* The invariant, and what follows *)

LEMMA InitInv == Init => Inv
<1> SUFFICES ASSUME Init PROVE Inv
  OBVIOUS
<1> USE BoundAssumption DEF Init, ExportInit, NoState, NoOne
<1>1. TypeOK
  BY DEF TypeOK, ExportTypeOK, HostTypeOK, DiskTypeOK, CallTypeOK, Starts
<1>2. ExportInv /\ PidInv
  BY DEF ExportInv, PidInv, Exporting, Present
<1>3. ASSUME NEW i \in Instances
      PROVE  Exists(i) /\ Stamped(i) /\ Recorded(i) /\ Seen(i)
  BY DEF Exists, Stamped, Recorded, Seen, Present
<1>. QED
  BY <1>1, <1>2, <1>3 DEF Inv

\* An action outside of the export leaves rootfs and prep alone; what Prepare
\* does it does while nothing else of the start is in progress.
LEMMA PrepareStepInv ==
  ASSUME Inv, NEW i \in Instances, PrepareStep(i)
  PROVE  Inv'
<1> USE DEF PrepareStep
<1>1. CASE FindExported(i) \/ Unpack(i) \/ ExportFails(i)
  BY <1>1, ExportMovesInv
<1>2. CASE BeginExport(i)
  BY <1>2, BeginExportInv
<1>3. CASE Mark(i)
  BY <1>3, MarkInv
<1>. QED
  BY <1>1, <1>2, <1>3 DEF Prepare

LEMMA StartStepInv ==
  ASSUME Inv, NEW i \in Instances, StartStep(i)
  PROVE  Inv'
<1>1. CASE Enter(i)
  BY <1>1, EnterInv
<1>2. CASE PrepareStep(i)
  BY <1>2, PrepareStepInv
<1>3. CASE NotPrepared(i) \/ MakeDirs(i) \/ Place(i) \/ ForkFails(i)
  BY <1>3, EarlyInv
<1>4. CASE Fork(i)
  BY <1>4, ForkInv
<1>5. CASE SendSpec(i) \/ ReadVerdict(i) \/ KillChild(i) \/ Reaped(i) \/ Register(i)
  BY <1>5, SpawnInv
<1>6. CASE WriteState(i)
  BY <1>6, WriteStateInv
<1>. QED
  BY <1>1, <1>2, <1>3, <1>4, <1>5, <1>6 DEF StartStep

LEMMA CallStepInv ==
  ASSUME Inv, NEW i \in Instances, CallStep(i)
  PROVE  Inv'
<1>1. CASE StopBegins(i) \/ StopSeesEnd(i) \/ StopAims(i)
  BY <1>1, StopLooksInv
<1>2. CASE StopKillsChild(i) \/ StopShoots(i)
  BY <1>2, StopKillsInv
<1>3. CASE StopCleans(i)
  BY <1>3, StopCleansInv
<1>4. CASE WaitBegins(i)
  BY <1>4, WaitBeginsInv
<1>5. CASE WaitReturns(i)
  BY <1>5, WaitReturnsInv
<1>6. CASE LogsBegins(i)
  BY <1>6, LogsBeginsInv
<1>7. CASE LogsDrains(i) \/ LogsEnds(i)
  BY <1>7, LogsCopiesInv
<1>8. CASE LogsLooks(i)
  BY <1>8, LogsLooksInv
<1>9. CASE GiveUp(i)
  BY <1>9, GiveUpInv
<1>. QED
  BY <1>1, <1>2, <1>3, <1>4, <1>5, <1>6, <1>7, <1>8, <1>9 DEF CallStep, StopStep

LEMMA StutterInv ==
  ASSUME Inv, UNCHANGED vars
  PROVE  Inv'
<1> USE DEF vars, exportVars, hostVars, childVars, diskVars, callVars
<1>1. TypeOK'
  BY DEF Inv, TypeOK, ExportTypeOK, HostTypeOK, DiskTypeOK, CallTypeOK
<1>2. ExportInv' /\ PidInv'
  BY DEF Inv, ExportInv, PidInv, Exporting, Present
<1>3. ASSUME NEW i \in Instances
      PROVE  (Exists(i) /\ Stamped(i) /\ Recorded(i) /\ Seen(i))'
  BY DEF Inv, Exists, Stamped, Recorded, Seen, Present
<1>. QED
  BY <1>1, <1>2, <1>3 DEF Inv

\* The inductive invariant holds of every reachable state.
THEOREM Invariance == Spec => []Inv
<1>1. Init => Inv
  BY InitInv
<1>2. Inv /\ [Next]_vars => Inv'
  <2> SUFFICES ASSUME Inv, [Next]_vars PROVE Inv'
    OBVIOUS
  <2>1. ASSUME NEW i \in Instances, HostStep(i) \/ StartStep(i) PROVE Inv'
    BY <2>1, HostInv, StartStepInv
  <2>2. ASSUME NEW i \in Called, CallStep(i) PROVE Inv'
    BY <2>2, CallStepInv, CalledAssumption
  <2>3. CASE Restart
    BY <2>3, RestartInv
  <2>4. CASE UNCHANGED vars
    BY <2>4, StutterInv
  <2>. QED
    BY <2>1, <2>2, <2>3, <2>4 DEF Next
<1>. QED
  BY <1>1, <1>2, PTL DEF Spec

\* Every variable keeps its type.
THEOREM NativeTypeCorrect == Spec => []TypeOK
<1>1. Inv => TypeOK
  BY DEF Inv
<1>. QED
  BY <1>1, Invariance, PTL

\* What a process has mounted is a whole filesystem (rootfs.go:76-79).
THEOREM RootfsStaysWhole == Spec => []RootfsIsWhole
<1>1. Inv => RootfsIsWhole
  BY DEF Inv, ExportInv, RootfsIsWhole, Runs
<1>. QED
  BY <1>1, Invariance, PTL

\* A Start that failed left no process and no state file, and no cgroup that
\* could be removed (spawn.go:93-98, 134-138).
THEOREM FailedStartIsUndone == Spec => []FailedStartLeavesNothing
<1>1. Inv => FailedStartLeavesNothing
  BY DEF Inv, Exists, FailedStartLeavesNothing
<1>. QED
  BY <1>1, Invariance, PTL

\* No instance that was reported started is lost to later daemons while it runs
\* (process.go:136-162), unless a read of /proc that failed made it seem gone.
THEOREM ReturnedStaysListed == Spec => []ReturnedIsListed
<1>1. Inv => ReturnedIsListed
  BY DEF Inv, Exists, ReturnedIsListed
<1>. QED
  BY <1>1, Invariance, PTL

\* Who was told that an instance ended was told the truth (process.go:21-24): of a
\* child always, of an adopted one unless the read of /proc failed.
THEOREM EndStaysTrue == Spec => []EndIsTrue
<1>1. Inv => EndIsTrue
  BY DEF Inv, Seen, EndIsTrue
<1>. QED
  BY <1>1, Invariance, PTL

\* Logs that ended with the instance copied all of it (process.go:101-103), unless
\* a read of /proc that failed ended them.
THEOREM LogsStayComplete == Spec => []LogsAreComplete
<1>1. Inv => LogsAreComplete
  BY DEF Inv, Seen, LogsAreComplete
<1>. QED
  BY <1>1, Invariance, PTL
=============================================================================
