--------------------------- MODULE HookPushProofs ---------------------------
(***************************************************************************)
(* What a push is worth, proved for any number of pushes and stops: git    *)
(* records only what went live, verdicts are true, nonces are for sessions *)
(* that are there, and what went live unrecorded is explained.             *)
(***************************************************************************)
EXTENDS HookPush, TLAPS

\* What holds of each push.  The order in which its parts come to life ties
\* them together: git before the hook before the connection before the deploy.
Order(p) ==
  /\ client[p] = "new" => git[p] = "none"
  /\ git[p] \in {"none", "receiving"} => hook[p] = "none"
  /\ hook[p] \in {"none", "started"} => conn[p] = "none"
  /\ hook[p] \in {"started", "waiting"} => git[p] \in {"hook", "killed"}
  /\ hook[p] = "nonzero" => conn[p] \in {"none", "one", "broken"}
  /\ hook[p] = "zero" => conn[p] = "zero"
  /\ git[p] \in {"updating", "accepted"} => hook[p] = "zero"
  /\ git[p] = "rejected" => conn[p] \in {"none", "one", "broken", "zero"}

\* Whether it went live, by where its connection is.
Went(p) ==
  /\ conn[p] \in {"none", "sent", "waiting", "taken", "failed", "one"} => p \notin wentLive
  /\ conn[p] \in {"live", "zero"} => p \in wentLive
  /\ actor.push = p => conn[p] = "taken"

\* A nonce is for a session; what broke off did so with the daemon.
Admitted(p) ==
  /\ p \in nonces => session[p] = "open"
  /\ conn[p] = "broken" => stops > 0
  /\ session[p] = "ended" /\ git[p] \in {"receiving", "hook", "updating"} => stops > 0
  /\ git[p] = "killed" => stops > 0 \/ client[p] = "gone"

\* The ref, and what a pusher was shown of it, are commits git accepted; so a
\* ref that has moved on never comes back.
Recorded(p) ==
  /\ ref = p => git[p] = "accepted"
  /\ \A q \in Pushes : seen[q] = p => git[p] = "accepted"
  /\ git[p] = "rejected" /\ p \in wentLive => stops > 0 \/ ref # seen[p]

PushInv == \A p \in Pushes : Order(p) /\ Went(p) /\ Admitted(p) /\ Recorded(p)

Inv == TypeOK /\ (daemon # "up" => stops > 0) /\ PushInv

-----------------------------------------------------------------------------
(* Types *)

\* The variables keep their types: in particular a connection is never in a
\* state handle does not know, and the live release is one that went live.
THEOREM TypeInvariant == Spec => []TypeOK
<1>1. Init => TypeOK
  BY StopsAssumption DEF Init, TypeOK, Idle, InProgress
<1>2. TypeOK /\ [Next]_vars => TypeOK'
  <2> SUFFICES ASSUME TypeOK, [Next]_vars PROVE TypeOK'
    OBVIOUS
  <2> USE StopsAssumption DEF TypeOK, InProgress, sessionVars, gitVars, connVars, actorVars
  <2>1. ASSUME NEW p \in Pushes, Connect(p) \/ HangUp(p) \/ GitKilled(p) \/ SessionEnds(p)
        PROVE  TypeOK'
    BY <2>1 DEF Connect, HangUp, GitKilled, SessionEnds, Revoke
  <2>2. ASSUME NEW p \in Pushes, GitStep(p)
        PROVE  TypeOK'
    BY <2>2 DEF GitStep, Receive, Verdict, UpdateRef
  <2>3. ASSUME NEW p \in Pushes, HookStep(p) \/ HookDies(p)
        PROVE  TypeOK'
    BY <2>3 DEF HookStep, HookRefuses, HookCalls, HookReads, HookDies, Code, Answered
  <2>4. ASSUME NEW p \in Pushes, HandleStep(p) \/ TakePush(p)
        PROVE  TypeOK'
    <3>1. CASE Check(p)
      BY <3>1 DEF Check
    <3>2. CASE NoticeGone(p)
      BY <3>2 DEF NoticeGone
    <3>3. CASE Withdraw(p) \/ WriteStatus(p) \/ TakePush(p)
      BY <3>3 DEF Withdraw, MayLeave, WriteStatus, TakePush
    <3>. QED
      BY <2>4, <3>1, <3>2, <3>3 DEF HandleStep
  <2>5. CASE DeployStep
    BY <2>5, NoCommitAssumption DEF DeployStep, DeployFails, PassCheck, GoLive, Reply, Idle
  <2>6. CASE Shutdown \/ Exit \/ Crash \/ Start
    <3>1. CASE Shutdown
      <4>1. cancelled' \in [Pushes -> BOOLEAN]
        BY <3>1, Zenon DEF Shutdown
      <4>2. daemon' \in {"up", "stopping", "down"} /\ stops' \in 0 .. MaxStops
        BY <3>1 DEF Shutdown
      <4>. QED
        BY <3>1, <4>1, <4>2 DEF Shutdown
    <3>2. CASE Exit \/ Crash
      BY <3>2 DEF Exit, Crash, ProcessGone
    <3>3. CASE Start
      BY <3>3 DEF Start
    <3>. QED
      BY <2>6, <3>1, <3>2, <3>3
  <2>7. CASE UNCHANGED vars
    BY <2>7 DEF vars
  <2>. QED
    BY <2>1, <2>2, <2>3, <2>4, <2>5, <2>6, <2>7 DEF Next
<1>. QED
  BY <1>1, <1>2, PTL DEF Spec

-----------------------------------------------------------------------------
(* Each action preserves the invariant *)

\* It holds before the first push.
LEMMA InitInv == Init => Inv
BY NoCommitAssumption, StopsAssumption
DEF Init, Inv, TypeOK, PushInv, Order, Went, Admitted, Recorded, Idle, InProgress

\* What the session does: connect, hang up, kill git, end.
LEMMA SessionInv ==
  ASSUME Inv, TypeOK', NEW p \in Pushes,
         Connect(p) \/ HangUp(p) \/ GitKilled(p) \/ SessionEnds(p)
  PROVE  Inv'
<1> SUFFICES ASSUME NEW q \in Pushes
             PROVE  (Order(q) /\ Went(q) /\ Admitted(q) /\ Recorded(q))' /\ (daemon' # "up" => stops' > 0)
  BY DEF Inv, PushInv, Connect, HangUp, GitKilled, SessionEnds
<1> USE StopsAssumption, NoCommitAssumption
    DEF Inv, PushInv, TypeOK, Order, Went, Admitted, Recorded, connVars, actorVars, gitVars, sessionVars
<1>1. CASE Connect(p)
  BY <1>1 DEF Connect
<1>2. CASE HangUp(p)
  BY <1>2 DEF HangUp
<1>3. CASE GitKilled(p)
  BY <1>3 DEF GitKilled, Told
<1>4. CASE SessionEnds(p)
  BY <1>4 DEF SessionEnds, Revoke
<1>. QED
  BY <1>1, <1>2, <1>3, <1>4

\* What git does.  The ref moves to a commit no pusher was shown before: one
\* it was shown is accepted, this one was not.
LEMMA GitInv ==
  ASSUME Inv, TypeOK', NEW p \in Pushes, GitStep(p)
  PROVE  Inv'
<1> SUFFICES ASSUME NEW q \in Pushes
             PROVE  (Order(q) /\ Went(q) /\ Admitted(q) /\ Recorded(q))' /\ (daemon' # "up" => stops' > 0)
  BY DEF Inv, PushInv, GitStep, Receive, Verdict, UpdateRef
<1> USE StopsAssumption, NoCommitAssumption
    DEF Inv, PushInv, TypeOK, Order, Went, Admitted, Recorded, connVars, actorVars, gitVars, sessionVars
<1>1. CASE Receive(p)
  BY <1>1 DEF Receive
<1>2. CASE Verdict(p)
  BY <1>2 DEF Verdict
<1>3. CASE UpdateRef(p)
  BY <1>3 DEF UpdateRef
<1>. QED
  BY <1>1, <1>2, <1>3 DEF GitStep

\* What the hook process does.
LEMMA HookInv ==
  ASSUME Inv, TypeOK', NEW p \in Pushes, HookStep(p) \/ HookDies(p)
  PROVE  Inv'
<1> SUFFICES ASSUME NEW q \in Pushes
             PROVE  (Order(q) /\ Went(q) /\ Admitted(q) /\ Recorded(q))' /\ (daemon' # "up" => stops' > 0)
  BY DEF Inv, PushInv, HookStep, HookRefuses, HookCalls, HookReads, HookDies
<1> USE StopsAssumption, NoCommitAssumption
    DEF Inv, PushInv, TypeOK, Order, Went, Admitted, Recorded, connVars, actorVars, gitVars, sessionVars
<1>1. CASE HookRefuses(p)
  BY <1>1 DEF HookRefuses
<1>2. CASE HookCalls(p)
  BY <1>2 DEF HookCalls
<1>3. CASE HookReads(p)
  BY <1>3 DEF HookReads, Answered, Code
<1>4. CASE HookDies(p)
  BY <1>4 DEF HookDies
<1>. QED
  BY <1>1, <1>2, <1>3, <1>4 DEF HookStep

\* What handle does with a connection, and the actor's taking of a push.
LEMMA HandleInv ==
  ASSUME Inv, TypeOK', NEW p \in Pushes, HandleStep(p) \/ TakePush(p)
  PROVE  Inv'
<1> SUFFICES ASSUME NEW q \in Pushes
             PROVE  (Order(q) /\ Went(q) /\ Admitted(q) /\ Recorded(q))' /\ (daemon' # "up" => stops' > 0)
  BY DEF Inv, PushInv, HandleStep, Check, NoticeGone, Withdraw, WriteStatus, TakePush
<1> USE StopsAssumption, NoCommitAssumption
    DEF Inv, PushInv, TypeOK, Order, Went, Admitted, Recorded, connVars, actorVars, gitVars, sessionVars
<1>1. CASE Check(p)
  BY <1>1 DEF Check
<1>2. CASE NoticeGone(p)
  BY <1>2 DEF NoticeGone
<1>3. CASE Withdraw(p)
  BY <1>3 DEF Withdraw, MayLeave
<1>4. CASE WriteStatus(p)
  BY <1>4 DEF WriteStatus
<1>5. CASE TakePush(p)
  BY <1>5 DEF TakePush
<1>. QED
  BY <1>1, <1>2, <1>3, <1>4, <1>5 DEF HandleStep

\* What the actor does: the push it works on still waits for its verdict, so
\* git has not decided about it.
LEMMA DeployInv ==
  ASSUME Inv, TypeOK', DeployStep
  PROVE  Inv'
<1> SUFFICES ASSUME NEW q \in Pushes
             PROVE  (Order(q) /\ Went(q) /\ Admitted(q) /\ Recorded(q))' /\ (daemon' # "up" => stops' > 0)
  BY DEF Inv, PushInv, DeployStep, DeployFails, PassCheck, GoLive
<1> USE StopsAssumption, NoCommitAssumption
    DEF Inv, PushInv, TypeOK, Order, Went, Admitted, Recorded, Idle, Reply,
        connVars, actorVars, gitVars, sessionVars
<1>1. CASE DeployFails
  BY <1>1 DEF DeployFails
<1>2. CASE PassCheck
  BY <1>2 DEF PassCheck
<1>3. CASE GoLive
  BY <1>3 DEF GoLive
<1>. QED
  BY <1>1, <1>2, <1>3 DEF DeployStep

\* What the daemon does: after a stop, whatever broke off is explained.
LEMMA DaemonInv ==
  ASSUME Inv, TypeOK', Shutdown \/ Exit \/ Crash \/ Start
  PROVE  Inv'
<1>1. daemon' # "up" => stops' > 0
  BY StopsAssumption DEF Inv, TypeOK, Shutdown, Exit, Crash, Start, ProcessGone
<1> SUFFICES ASSUME NEW q \in Pushes
             PROVE  (Order(q) /\ Went(q) /\ Admitted(q) /\ Recorded(q))'
  BY <1>1 DEF Inv, PushInv
<1> USE StopsAssumption, NoCommitAssumption
    DEF Inv, PushInv, TypeOK, Order, Went, Admitted, Recorded, Idle, InProgress, ProcessGone,
        connVars, actorVars, gitVars, sessionVars
<1>2. CASE Shutdown
  BY <1>2 DEF Shutdown
<1>3. CASE Exit
  BY <1>3 DEF Exit
<1>4. CASE Crash
  BY <1>4 DEF Crash
<1>5. CASE Start
  BY <1>5 DEF Start
<1>. QED
  BY <1>2, <1>3, <1>4, <1>5

-----------------------------------------------------------------------------
(* Theorems *)

\* The inductive invariant holds.
THEOREM Invariant == Spec => []Inv
<1>1. Inv /\ TypeOK' /\ [Next]_vars => Inv'
  <2> SUFFICES ASSUME Inv, TypeOK', [Next]_vars PROVE Inv'
    OBVIOUS
  <2>1. CASE UNCHANGED vars
    BY <2>1 DEF vars, sessionVars, gitVars, connVars, actorVars,
                Inv, PushInv, TypeOK, Order, Went, Admitted, Recorded
  <2>. QED
    BY <2>1, SessionInv, GitInv, HookInv, HandleInv, DeployInv, DaemonInv DEF Next
<1>. QED
  BY <1>1, InitInv, TypeInvariant, PTL DEF Spec

\* git records only what went live (client.go:99-102): a ref that moved had a
\* hook that exited with 0, a status line 0, and a swap before it.
THEOREM RefTheorem == Spec => []RefWasLive
<1>1. Inv => RefWasLive
  BY DEF Inv, TypeOK, PushInv, Order, Went, Recorded, RefWasLive
<1>. QED
  BY <1>1, Invariant, PTL

\* The verdict a push gets is what became of it, also when it was cancelled or
\* the daemon was stopping (supervisor.go:242-249).
THEOREM VerdictTheorem == Spec => []VerdictIsTrue
<1>1. Inv => VerdictIsTrue
  BY DEF Inv, PushInv, Went, VerdictIsTrue
<1>. QED
  BY <1>1, Invariant, PTL

\* A live commit git does not have is explained: only a stop of the daemon, a
\* pusher that left or a ref that moved on comes between the swap and the ref.
THEOREM ExplainedTheorem == Spec => []UnrecordedIsExplained
<1>1. Inv => UnrecordedIsExplained
  BY DEF Inv, TypeOK, PushInv, Admitted, Recorded, UnrecordedIsExplained
<1>. QED
  BY <1>1, Invariant, PTL

\* No deploy is started for a session that has ended (gitserver/server.go:40).
THEOREM AdmittedTheorem == Spec => DeployIsAdmitted
<1> DEFINE Admission ==
      \A p \in Pushes : conn[p] = "sent" /\ conn'[p] = "waiting" => session[p] = "open"
<1>1. Inv /\ [Next]_vars => [Admission]_vars
  <2> SUFFICES ASSUME Inv, Next, NEW q \in Pushes, conn[q] = "sent", conn'[q] = "waiting"
               PROVE  session[q] = "open"
    BY DEF vars
  <2> USE DEF Inv, TypeOK, PushInv, connVars, actorVars, gitVars, sessionVars
  <2>1. ASSUME NEW p \in Pushes, HandleStep(p) PROVE session[q] = "open"
    BY <2>1 DEF HandleStep, Check, NoticeGone, Withdraw, WriteStatus, MayLeave, Admitted
  <2>2. ASSUME NEW p \in Pushes,
               Connect(p) \/ HangUp(p) \/ GitKilled(p) \/ SessionEnds(p) \/ GitStep(p)
        PROVE  FALSE
    BY <2>2 DEF Connect, HangUp, GitKilled, SessionEnds, GitStep, Receive, Verdict, UpdateRef
  <2>3. ASSUME NEW p \in Pushes, HookStep(p) \/ HookDies(p) \/ TakePush(p)
        PROVE  FALSE
    BY <2>3 DEF HookStep, HookRefuses, HookCalls, HookReads, HookDies, TakePush
  <2>4. CASE DeployStep
    BY <2>4 DEF DeployStep, DeployFails, PassCheck, GoLive, Reply
  <2>5. CASE Shutdown \/ Exit \/ Crash \/ Start
    BY <2>5 DEF Shutdown, Exit, Crash, Start, ProcessGone
  <2>. QED
    BY <2>1, <2>2, <2>3, <2>4, <2>5 DEF Next
<1>. QED
  BY <1>1, Invariant, PTL DEF Spec, DeployIsAdmitted
=============================================================================
