--------------------------- MODULE NativeRuntime ---------------------------
(***************************************************************************)
(* internal/runtime/native: instances as re-executed children of the       *)
(* daemon.  Start puts the image on disk (ImageExport), makes the          *)
(* instance's directory and cgroup, forks a child that becomes the app,    *)
(* waits for its verdict and writes a state file; Wait, Logs, Stop and     *)
(* List live with what was started, by this daemon (a child, which it      *)
(* reaps) or by one before it (adopted: only /proc and the state file say  *)
(* what became of it).                                                     *)
(*                                                                         *)
(* The host is part of the model: processes come and go, a pid is free     *)
(* once its process has been reaped and may then be anybody's, and the     *)
(* daemon may crash and start again between any two steps.                 *)
(*                                                                         *)
(* An instance's process is named by the instance, which is what its start *)
(* time in /proc/<pid>/stat stands for: two processes that had one pid     *)
(* differ in it.  Somebody else's process that is given a pid is one more  *)
(* instance here: neither a look at /proc nor a signal asks whose it is.   *)
(***************************************************************************)
EXTENDS ImageExport, Naturals

CONSTANTS
  Pids,        \* process ids
  NoPid,       \* the pid of a process that has not started
  Unknown,     \* StartTime 0: it could not be read
  BigSpec,     \* TRUE: an initSpec does not fit a pipe's buffer
  Called,      \* bound: the instances somebody stops, waits for or reads
  MaxOutput,   \* bound: writes of an instance to its output
  MaxRestarts  \* bound: daemons after the first

ASSUME UnknownAssumption == Unknown \notin Instances
ASSUME PidsAssumption == NoPid \notin Pids
ASSUME BoundAssumption == MaxOutput \in Nat /\ MaxRestarts \in Nat /\ BigSpec \in BOOLEAN
ASSUME CalledAssumption == Called \subseteq Instances

VARIABLES
  pid, proc,      \* the host: a process's pid and phase
  spec, errmsg,   \* children whose spec is in the pipe; that wrote an error
  start,          \* Start's place in its code, for each instance
  cgroups,        \* instances with a cgroup
  listed, st,     \* instances with a state.json in their directory, and what it says
  procs,          \* Runtime.procs: the children of this daemon that started
  stop,           \* the caller of Stop: its place
  follow,         \* the caller of Wait or of Logs: its place, how far Logs has copied
  written,        \* the instance's output so far
  misread,        \* adopted instances taken for gone because /proc could not be read
  restarts        \* daemons so far

hostVars  == <<pid, proc>>
childVars == <<spec, errmsg>>
diskVars  == <<cgroups, listed, st>>
callVars  == <<stop, follow>>
vars == <<exportVars, hostVars, childVars, start, diskVars, procs, callVars, written, misread, restarts>>

NoState  == [pid |-> NoPid, time |-> Unknown]
NoOne    == [phase |-> "none", at |-> 0]

-----------------------------------------------------------------------------
(* The host *)

\* A zombie keeps its pid and its /proc entry until it is reaped.
Present(q) == proc[q] \in {"init", "app", "zombie"}
Runs(q)    == proc[q] \in {"init", "app"}
HasPid(p)  == {q \in Instances : Present(q) /\ pid[q] = p}

Ended(q) == IF Runs(q) THEN "zombie" ELSE proc[q]

\* Whoever has the pid gets the signal, if anybody.  Mutant: a SIGTERM, which it
\* need not heed.
SigTerm(p) == UNCHANGED proc

SigKill(p) == proc' = [q \in Instances |-> IF q \in HasPid(p) THEN Ended(q) ELSE proc[q]]

\* Mutant: a state without a start time is of a process that is gone.
AliveIfTimed(s) == s.time \in HasPid(s.pid)

Alive(s) == \E q \in HasPid(s.pid) : s.time \in {Unknown, q}

\* running: the reaper of a child knows; of the others /proc does.
Running(i) == IF i \in procs THEN proc[i] # "gone" ELSE Alive(st[i])

\* What a look at the instance says.  A read of /proc that fails says, of an
\* adopted one, that it is gone.
Sees(i, up) ==
  \/ up = Running(i) /\ UNCHANGED misread
  \/ ~up /\ i \notin procs /\ Running(i) /\ misread' = misread \cup {i}

Reap(i) ==
  /\ proc[i] = "zombie"
  /\ proc' = [proc EXCEPT ![i] = "gone"]
  /\ UNCHANGED <<exportVars, pid, childVars, start, diskVars, procs, callVars, written, misread, restarts>>

\* The app exits, or something kills it or the child before it.
Ends(i) ==
  /\ Runs(i)
  /\ proc' = [proc EXCEPT ![i] = "zombie"]
  /\ UNCHANGED <<exportVars, pid, childVars, start, diskVars, procs, callVars, written, misread, restarts>>

\* Init, the child's side: with the spec it builds the container's world, drops
\* what it was given and execs the app, which closes the error pipe.
InitExecs(i) ==
  /\ proc[i] = "init" /\ i \in spec
  /\ proc' = [proc EXCEPT ![i] = "app"]
  /\ UNCHANGED <<exportVars, pid, childVars, start, diskVars, procs, callVars, written, misread, restarts>>

\* Any step of Init fails, reading a spec that will not come among them.
InitFails(i) ==
  /\ proc[i] = "init"
  /\ proc' = [proc EXCEPT ![i] = "zombie"]
  /\ errmsg' = errmsg \cup {i}
  /\ UNCHANGED <<exportVars, pid, spec, start, diskVars, procs, callVars, written, misread, restarts>>

\* What an instance writes that nobody may read is left out.
WriteOutput(i) ==
  /\ proc[i] = "app" /\ i \in Called /\ written[i] < MaxOutput
  /\ written' = [written EXCEPT ![i] = @ + 1]
  /\ UNCHANGED <<exportVars, hostVars, childVars, start, diskVars, procs, callVars, misread, restarts>>

-----------------------------------------------------------------------------
(* Start *)

At(i, pc) == start[i] = pc
To(i, pc) == start' = [start EXCEPT ![i] = pc]

Enter(i) ==
  /\ At(i, "new") /\ To(i, "preparing") /\ Inspect(i)
  /\ UNCHANGED <<hostVars, childVars, diskVars, procs, callVars, written, misread, restarts>>

PrepareStep(i) ==
  /\ At(i, "preparing") /\ Prepare(i)
  /\ UNCHANGED <<hostVars, childVars, start, diskVars, procs, callVars, written, misread, restarts>>

NotPrepared(i) ==
  /\ At(i, "preparing") /\ prep[i] = "failed" /\ To(i, "failed")
  /\ UNCHANGED <<exportVars, hostVars, childVars, diskVars, procs, callVars, written, misread, restarts>>

\* What follows on a start that fails is removed with the instance's directory,
\* which nobody looks at as long as it has no state file.
MakeDirs(i) ==
  /\ At(i, "preparing") /\ prep[i] = "ready"
  /\ To(i, "dirs") \/ To(i, "failed")
  /\ UNCHANGED <<exportVars, hostVars, childVars, diskVars, procs, callVars, written, misread, restarts>>

\* spawn up to the child: log files, pipes, and place, which makes the cgroup
\* the child is cloned into, or fails, and may not be able to take it back.
Place(i) ==
  /\ At(i, "dirs")
  /\ \/ To(i, "placed") /\ cgroups' = cgroups \cup {i}
     \/ To(i, "failed") /\ UNCHANGED cgroups
     \/ To(i, "leaked") /\ cgroups' = cgroups \cup {i}
  /\ UNCHANGED <<exportVars, hostVars, childVars, listed, st, procs, callVars, written, misread, restarts>>

\* The cgroup of a child that did not get going is removed.  When it cannot be,
\* nobody is told: the start has failed either way.  Mutant: it is forgotten.
Forget(i) == To(i, "failed") /\ UNCHANGED cgroups

Unplace(i) ==
  \/ To(i, "failed") /\ cgroups' = cgroups \ {i}
  \/ To(i, "leaked") /\ UNCHANGED cgroups

Fork(i) ==
  /\ At(i, "placed") /\ To(i, "forked")
  /\ \E p \in Pids : HasPid(p) = {} /\ pid' = [pid EXCEPT ![i] = p]
  /\ proc' = [proc EXCEPT ![i] = "init"]
  /\ UNCHANGED <<exportVars, childVars, diskVars, procs, callVars, written, misread, restarts>>

ForkFails(i) ==
  /\ At(i, "placed") /\ Unplace(i)
  /\ UNCHANGED <<exportVars, hostVars, childVars, listed, st, procs, callVars, written, misread, restarts>>

\* Encode returns when the pipe has it all.  The daemon holds the read end
\* itself until spawn returns, so a write to a child that is gone is no error;
\* what exceeds the buffer waits for the child to read.
SendSpec(i) ==
  /\ At(i, "forked") /\ To(i, "sent")
  /\ BigSpec => proc[i] = "init"
  /\ spec' = spec \cup {i}
  /\ UNCHANGED <<exportVars, hostVars, errmsg, diskVars, procs, callVars, written, misread, restarts>>

\* readError returns at the end of file, when the child has exec'd or is gone.
\* The child's own error, or a context that has ended, undoes the start.
ReadVerdict(i) ==
  /\ At(i, "sent") /\ proc[i] # "init"
  /\ IF i \in errmsg THEN To(i, "killing") ELSE To(i, "started") \/ To(i, "killing")
  /\ UNCHANGED <<exportVars, hostVars, childVars, diskVars, procs, callVars, written, misread, restarts>>

KillChild(i) ==
  /\ At(i, "killing") /\ To(i, "reaping")
  /\ proc' = [proc EXCEPT ![i] = Ended(i)]
  /\ UNCHANGED <<exportVars, pid, childVars, diskVars, procs, callVars, written, misread, restarts>>

Reaped(i) ==
  /\ At(i, "reaping") /\ proc[i] = "gone" /\ Unplace(i)
  /\ UNCHANGED <<exportVars, hostVars, childVars, listed, st, procs, callVars, written, misread, restarts>>

\* startTime reads what /proc has at that pid: the child, nothing if it has
\* been reaped, or whoever has its pid by then.  An error is ignored.
StartTimes(i) == HasPid(pid[i]) \cup {Unknown}

\* writeState: a file renamed into place is there in full or not at all.
WriteState(i) ==
  /\ At(i, "started")
  /\ \/ /\ To(i, "written") /\ listed' = listed \cup {i}
        /\ \E t \in StartTimes(i) : st' = [st EXCEPT ![i] = [pid |-> pid[i], time |-> t]]
     \/ To(i, "killing") /\ UNCHANGED <<listed, st>>
  /\ UNCHANGED <<exportVars, hostVars, childVars, cgroups, procs, callVars, written, misread, restarts>>

Register(i) ==
  /\ At(i, "written") /\ To(i, "returned") /\ procs' = procs \cup {i}
  /\ UNCHANGED <<exportVars, hostVars, childVars, diskVars, callVars, written, misread, restarts>>

StartStep(i) ==
  \/ Enter(i) \/ PrepareStep(i) \/ NotPrepared(i) \/ MakeDirs(i) \/ Place(i)
  \/ Fork(i) \/ ForkFails(i) \/ SendSpec(i) \/ ReadVerdict(i)
  \/ KillChild(i) \/ Reaped(i) \/ WriteState(i) \/ Register(i)

-----------------------------------------------------------------------------
(* Stop *)

\* An id is known from Start, or from the List a later daemon begins with.  A
\* call about one that is not listed returns at once and changes nothing.
Known(i) == start[i] \in {"returned", "cut"} /\ i \in listed

StopTo(i, pc) == stop' = [stop EXCEPT ![i] = pc]

\* SIGTERM is only a request: what an app does about it is Ends.  There is
\* none, and no grace, for an instance that is found gone.
StopBegins(i) ==
  /\ Known(i) /\ stop[i] = "none"
  /\ \/ Sees(i, TRUE) /\ StopTo(i, "grace") /\ UNCHANGED procs
     \/ Sees(i, FALSE) /\ StopTo(i, "clean") /\ procs' = procs \ {i}
  /\ UNCHANGED <<exportVars, hostVars, childVars, start, diskVars, follow, written, restarts>>

\* The instance is seen to be gone, in the grace or after the SIGKILL.
StopSeesEnd(i) ==
  /\ stop[i] \in {"grace", "kill"} /\ Sees(i, FALSE)
  /\ StopTo(i, "clean") /\ procs' = procs \ {i}
  /\ UNCHANGED <<exportVars, hostVars, childVars, start, diskVars, follow, written, restarts>>

\* Grace is over, or cut short by the context: a child is killed and waited for.
StopKillsChild(i) ==
  /\ i \in procs /\ stop[i] = "grace" /\ StopTo(i, "kill")
  /\ proc' = [proc EXCEPT ![i] = Ended(i)]
  /\ UNCHANGED <<exportVars, pid, childVars, start, diskVars, procs, follow, written, misread, restarts>>

\* An adopted one is killed by its pid as often as it is seen alive; between
\* the look and the signal the pid may change hands.  Mutant: when the grace is
\* over the instance is taken for gone.
StopGivesUp(i) ==
  /\ i \notin procs /\ stop[i] = "grace" /\ StopTo(i, "clean")
  /\ UNCHANGED <<exportVars, hostVars, childVars, start, diskVars, procs, follow, written, misread, restarts>>

StopAims(i) ==
  /\ i \notin procs /\ stop[i] \in {"grace", "kill"} /\ Sees(i, TRUE) /\ StopTo(i, "aim")
  /\ UNCHANGED <<exportVars, hostVars, childVars, start, diskVars, procs, follow, written, restarts>>

StopShoots(i) ==
  /\ stop[i] = "aim" /\ StopTo(i, "kill") /\ SigKill(st[i].pid)
  /\ UNCHANGED <<exportVars, pid, childVars, start, diskVars, procs, follow, written, misread, restarts>>

\* The cgroup, which may stay with a warning, then the directory, which may not
\* go: Stop returns that error.
StopCleans(i) ==
  /\ stop[i] = "clean" /\ cgroups' \in {cgroups, cgroups \ {i}}
  /\ \/ StopTo(i, "done") /\ listed' = listed \ {i}
     \/ StopTo(i, "none") /\ UNCHANGED listed
  /\ UNCHANGED <<exportVars, hostVars, childVars, start, st, procs, follow, written, misread, restarts>>

StopStep(i) ==
  \/ StopSeesEnd(i) \/ StopKillsChild(i) \/ StopAims(i) \/ StopShoots(i) \/ StopCleans(i)

-----------------------------------------------------------------------------
(* Wait and Logs *)

\* They change nothing that anybody else reads, so one caller of either is as
\* good as several.
Follow(i, from, to, at) == follow[i].phase = from /\ follow' = [follow EXCEPT ![i] = [phase |-> to, at |-> at]]

allButFollow == <<exportVars, hostVars, childVars, start, diskVars, procs, stop, written, restarts>>

\* A child is waited for by its channel, which Stop does not take away.
WaitBegins(i) ==
  /\ Known(i) /\ Follow(i, "none", IF i \in procs THEN "child" ELSE "adopted", 0)
  /\ UNCHANGED <<allButFollow, misread>>

WaitReturns(i) ==
  /\ \/ proc[i] = "gone" /\ Follow(i, "child", "ended", 0) /\ UNCHANGED misread
     \/ Sees(i, FALSE) /\ Follow(i, "adopted", "ended", 0)
  /\ UNCHANGED allButFollow

\* The files stay readable to who has them open when Stop unlinks them.  Since
\* zero begins at the start, any other at the current end.
LogsBegins(i) ==
  /\ Known(i) /\ \E at \in {0, written[i]} : Follow(i, "none", "drain", at)
  /\ UNCHANGED <<allButFollow, misread>>

LogsDrains(i) ==
  /\ Follow(i, "drain", "look", written[i])
  /\ UNCHANGED <<allButFollow, misread>>

\* Mutant: an instance that is gone has nothing more to say.
LogsStopsShort(i) ==
  /\ \/ Sees(i, TRUE) /\ Follow(i, "look", "drain", follow[i].at)
     \/ Sees(i, FALSE) /\ Follow(i, "look", "copied", follow[i].at)
  /\ UNCHANGED allButFollow

LogsLooks(i) ==
  /\ \/ Sees(i, TRUE) /\ Follow(i, "look", "drain", follow[i].at)
     \/ Sees(i, FALSE) /\ Follow(i, "look", "last", follow[i].at)
  /\ UNCHANGED allButFollow

\* Whatever was written between the last read and the exit.
LogsEnds(i) ==
  /\ Follow(i, "last", "copied", written[i])
  /\ UNCHANGED <<allButFollow, misread>>

\* The context of a caller of Wait or Logs ends.
GiveUp(i) ==
  /\ \E phase \in {"child", "adopted", "drain", "look"} : Follow(i, phase, "none", 0)
  /\ UNCHANGED <<allButFollow, misread>>

CallStep(i) ==
  \/ StopBegins(i) \/ StopStep(i)
  \/ WaitBegins(i) \/ WaitReturns(i)
  \/ LogsBegins(i) \/ LogsDrains(i) \/ LogsLooks(i) \/ LogsEnds(i) \/ GiveUp(i)

-----------------------------------------------------------------------------

\* The daemon dies and another one starts.  The children live on, in sessions
\* of their own, and are reaped by the host; what was in progress is cut off.
\* What a caller was told stays told.
Restart ==
  /\ restarts < MaxRestarts /\ restarts' = restarts + 1
  /\ ExportCutOff
  /\ start' = [i \in Instances |-> IF start[i] \in {"new", "returned", "failed", "leaked"} THEN start[i] ELSE "cut"]
  /\ procs' = {}
  /\ stop' = [i \in Instances |-> IF stop[i] = "done" THEN "done" ELSE "none"]
  /\ follow' = [i \in Instances |-> IF follow[i].phase \in {"ended", "copied"} THEN follow[i] ELSE NoOne]
  /\ UNCHANGED <<hostVars, childVars, diskVars, written, misread>>

Init ==
  /\ ExportInit
  /\ pid = [q \in Instances |-> NoPid] /\ proc = [q \in Instances |-> "none"]
  /\ spec = {} /\ errmsg = {}
  /\ start = [i \in Instances |-> "new"]
  /\ cgroups = {} /\ listed = {}
  /\ st = [i \in Instances |-> NoState]
  /\ procs = {}
  /\ stop = [i \in Instances |-> "none"] /\ follow = [i \in Instances |-> NoOne]
  /\ written = [i \in Instances |-> 0] /\ misread = {}
  /\ restarts = 0

HostStep(i) == Reap(i) \/ Ends(i) \/ InitExecs(i) \/ InitFails(i) \/ WriteOutput(i)

Next ==
  \/ \E i \in Instances : HostStep(i) \/ StartStep(i)
  \/ \E i \in Called : CallStep(i)
  \/ Restart

Spec == Init /\ [][Next]_vars

\* Goroutines that can go on do, init gets to its exec or its error, and what
\* has ended is reaped.  No app is obliged to end, or to heed a SIGTERM.  Start
\* and Stop of one instance are never both in progress, nor are its init and its
\* reaping, so fairness of the disjunction is fairness of each.
Fairness ==
  \A i \in Instances :
    /\ WF_vars(StartStep(i) \/ StopStep(i))
    /\ WF_vars(InitExecs(i) \/ InitFails(i) \/ Reap(i))

FairSpec == Spec /\ Fairness

-----------------------------------------------------------------------------
(* Properties *)

Starts == {"new", "preparing", "dirs", "placed", "forked", "sent", "started",
           "killing", "reaping", "written", "returned", "failed", "leaked", "cut"}

HostTypeOK ==
  /\ pid \in [Instances -> Pids \cup {NoPid}]
  /\ proc \in [Instances -> {"none", "init", "app", "zombie", "gone"}]
  /\ spec \subseteq Instances /\ errmsg \subseteq Instances

DiskTypeOK ==
  /\ cgroups \subseteq Instances /\ listed \subseteq Instances
  /\ st \in [Instances -> [pid: Pids \cup {NoPid}, time: Instances \cup {Unknown}]]

CallTypeOK ==
  /\ stop \in [Instances -> {"none", "grace", "kill", "aim", "clean", "done"}]
  /\ follow \in [Instances -> [phase: {"none", "child", "adopted", "ended", "drain", "look", "last", "copied"},
                                at: 0 .. MaxOutput]]

\* The type invariant.
TypeOK ==
  /\ ExportTypeOK /\ HostTypeOK /\ DiskTypeOK /\ CallTypeOK
  /\ start \in [Instances -> Starts] /\ procs \subseteq Instances
  /\ written \in [Instances -> 0 .. MaxOutput] /\ misread \subseteq Instances /\ restarts \in 0 .. MaxRestarts

\* The lower layer of a process that has mounted it, or may, is whole, and no
\* start of another instance of the image and no crash takes it away
\* (rootfs.go:78-79 "An export that was cut off is redone from scratch").
RootfsIsWhole == \A i \in Instances : Runs(i) => rootfs[ImageOf[i]] = "done"

\* A Start that returned an error left no process and nothing that List would
\* show, and no cgroup but one that could not be removed, which the code lets be
\* (spawn.go:93-98, 134-138, native.go:112-116).
FailedStartLeavesNothing ==
  \A i \in Instances :
    start[i] \in {"failed", "leaked"} =>
      /\ proc[i] \in {"none", "gone"} /\ i \notin listed
      /\ i \in cgroups => start[i] = "leaked"

\* What Start has returned can be found by every later daemon for as long as it
\* runs: its state file outlives its process, whatever stops it, is cut off
\* stopping it, or reads it (process.go:136-162, state.go:15-16); unless a failed
\* read of /proc had a later daemon take it for gone.
ReturnedIsListed ==
  \A i \in Instances \ misread : start[i] = "returned" /\ proc[i] # "gone" => i \in listed

\* Nobody is told that an instance has ended while it may still run: neither by
\* Wait, nor by Logs, nor by Stop, whether it is a child or adopted
\* (process.go:21-24, 51-54, 130-135); but of an adopted one by a read of /proc
\* that failed, which counts as an end (state.go:77-82).
EndIsTrue ==
  \A i \in Instances \ misread :
    follow[i].phase \in {"ended", "copied"} \/ stop[i] \in {"clean", "done"} => proc[i] = "gone"

\* Logs that ended with the instance has copied all it wrote (process.go:101-103),
\* unless it was a failed read that ended them.
LogsAreComplete ==
  \A i \in Instances \ misread : follow[i].phase = "copied" => follow[i].at = written[i]

Busy(i) == start[i] \notin {"new", "returned", "failed", "leaked", "cut"} \/ stop[i] \notin {"none", "done"}

\* Every Start and every Stop returns, or is cut off with the daemon
\* (native.go:75-76 "It returns once the child has exec'd the app, or with the
\* child's reason when it could not").
EveryCallReturns ==
  \A i \in Called : Busy(i) ~> ~Busy(i)
=============================================================================
