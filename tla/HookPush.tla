------------------------------ MODULE HookPush ------------------------------
(***************************************************************************)
(* A git push of one app from the SSH session to the ref: internal/        *)
(* gitserver's session, git's receive-pack, its pre-receive hook,          *)
(* internal/hook's socket and nonces, and what the supervisor does with    *)
(* the pushes, one at a time.  Each push is a commit of its own.           *)
(*                                                                         *)
(*   session -> git -> hook process -> handle -> the app's actor           *)
(*                                                                         *)
(* git is external.  What it does is what the code relies on: it runs the  *)
(* hook, takes its exit code for the verdict, and moves the ref only if it *)
(* still is what the pusher was shown.  A SIGTERM ends git at any moment   *)
(* before the ref has moved, and not the hook, which goes on until it      *)
(* writes.                                                                 *)
(***************************************************************************)
EXTENDS Naturals, FiniteSets

CONSTANTS
  Pushes,    \* the pushes, each made once
  NoCommit,  \* the ref of a new repository
  Nobody,    \* the actor is idle
  MaxStops   \* bound: shutdowns and crashes of the daemon

ASSUME NoCommitAssumption == NoCommit \notin Pushes /\ Nobody \notin Pushes
ASSUME StopsAssumption == MaxStops \in Nat

VARIABLES
  daemon, stops,    \* up, stopping, down; how often it stopped
  client,           \* the pusher: new, connected, gone, done
  session, nonces,  \* run of a session: none, open, ended; the nonces that can be redeemed
  git, seen,        \* receive-pack; the ref it showed the pusher
  hook,             \* the hook process
  conn, cancelled,  \* handle of the hook's connection; its context
  actor,            \* the push the app's actor works on, and how far it is
  live, wentLive,   \* the commit of the live release; of all that ever were
  ref               \* refs/heads/main

sessionVars == <<client, session, nonces>>
gitVars     == <<git, seen, ref>>
connVars    == <<conn, cancelled>>
actorVars   == <<actor, live, wentLive>>
vars == <<daemon, stops, sessionVars, gitVars, hook, connVars, actorVars>>

Idle == [push |-> Nobody, step |-> "none"]

\* The connections handle still works on.
InProgress == {"sent", "waiting", "taken", "live", "failed"}

Init ==
  /\ daemon = "up" /\ stops = 0
  /\ client = [p \in Pushes |-> "new"]
  /\ session = [p \in Pushes |-> "none"] /\ nonces = {}
  /\ git = [p \in Pushes |-> "none"] /\ seen = [p \in Pushes |-> NoCommit] /\ ref = NoCommit
  /\ hook = [p \in Pushes |-> "none"]
  /\ conn = [p \in Pushes |-> "none"] /\ cancelled = [p \in Pushes |-> FALSE]
  /\ actor = Idle /\ live = NoCommit /\ wentLive = {}

-----------------------------------------------------------------------------
(* The session *)

\* run: a nonce is issued and git started, which shows the pusher the ref.
Connect(p) ==
  /\ daemon = "up" /\ client[p] = "new"
  /\ client' = [client EXCEPT ![p] = "connected"]
  /\ session' = [session EXCEPT ![p] = "open"]
  /\ nonces' = nonces \cup {p}
  /\ git' = [git EXCEPT ![p] = "receiving"]
  /\ seen' = [seen EXCEPT ![p] = ref]
  /\ UNCHANGED <<daemon, stops, ref, hook, connVars, actorVars>>

HangUp(p) ==
  /\ client[p] = "connected"
  /\ client' = [client EXCEPT ![p] = "gone"]
  /\ UNCHANGED <<daemon, stops, session, nonces, gitVars, hook, connVars, actorVars>>

\* The session's context is done: git gets a SIGTERM, then a SIGKILL.  Mutant:
\* a shutdown does not reach the sessions.
ToldByClient(p) == session[p] = "open" /\ client[p] = "gone"

Told(p) == session[p] = "open" /\ (client[p] = "gone" \/ daemon = "stopping")

\* When the daemon has crashed, git may also end at a broken pipe.
GitKilled(p) ==
  /\ git[p] \in {"receiving", "hook", "updating"}
  /\ Told(p) \/ session[p] = "ended"
  /\ git' = [git EXCEPT ![p] = "killed"]
  /\ UNCHANGED <<daemon, stops, sessionVars, seen, ref, hook, connVars, actorVars>>

\* revoke.  Mutant: left out.
LeaveNonce(p) == UNCHANGED nonces

Revoke(p) == nonces' = nonces \ {p}

\* git has exited: the nonce is revoked and the exit status sent.
SessionEnds(p) ==
  /\ session[p] = "open"
  /\ git[p] \in {"accepted", "rejected", "killed"}
  /\ session' = [session EXCEPT ![p] = "ended"]
  /\ Revoke(p)
  /\ client' = [client EXCEPT ![p] = IF @ = "connected" THEN "done" ELSE @]
  /\ UNCHANGED <<daemon, stops, gitVars, hook, connVars, actorVars>>

-----------------------------------------------------------------------------
(* git and the hook process *)

\* The objects have arrived, or git refuses them.
Receive(p) ==
  /\ git[p] = "receiving"
  /\ \/ git' = [git EXCEPT ![p] = "hook"] /\ hook' = [hook EXCEPT ![p] = "started"]
     \/ git' = [git EXCEPT ![p] = "rejected"] /\ UNCHANGED hook
  /\ UNCHANGED <<daemon, stops, sessionVars, seen, ref, connVars, actorVars>>

\* parseUpdates: another ref than main, several, or a deletion.  Or nobody
\* answers the socket.
HookRefuses(p) ==
  /\ hook[p] = "started"
  /\ hook' = [hook EXCEPT ![p] = "nonzero"]
  /\ UNCHANGED <<daemon, stops, sessionVars, gitVars, connVars, actorVars>>

\* call: dial and send the request.  A daemon that is stopping may still accept.
HookCalls(p) ==
  /\ hook[p] = "started"
  /\ daemon # "down"
  /\ hook' = [hook EXCEPT ![p] = "waiting"]
  /\ conn' = [conn EXCEPT ![p] = "sent"]
  /\ cancelled' = [cancelled EXCEPT ![p] = daemon = "stopping"]
  /\ UNCHANGED <<daemon, stops, sessionVars, gitVars, actorVars>>

\* The exit code for what the connection ended with.  Mutants: a connection
\* that breaks off is a success; only codes above 0 are valid.
CodeOfSilence(end) == IF end = "one" THEN "nonzero" ELSE "zero"

CodePositive(end) == "nonzero"

Code(end) == IF end = "zero" THEN "zero" ELSE "nonzero"

\* Mutant: the hook waits for a status line whatever happens.
StatusLine(p) == conn[p] \in {"zero", "one"}

Answered(p) == conn[p] \in {"zero", "one", "broken"}

HookReads(p) ==
  /\ hook[p] = "waiting"
  /\ Answered(p)
  /\ hook' = [hook EXCEPT ![p] = Code(conn[p])]
  /\ UNCHANGED <<daemon, stops, sessionVars, gitVars, connVars, actorVars>>

\* Without git the hook ends at its next line of output, if there is one.
HookDies(p) ==
  /\ hook[p] \in {"started", "waiting"}
  /\ git[p] = "killed"
  /\ hook' = [hook EXCEPT ![p] = "killed"]
  /\ UNCHANGED <<daemon, stops, sessionVars, gitVars, connVars, actorVars>>

\* git takes the hook's exit code.
Verdict(p) ==
  /\ git[p] = "hook"
  /\ hook[p] \in {"zero", "nonzero"}
  /\ git' = [git EXCEPT ![p] = IF hook[p] = "zero" THEN "updating" ELSE "rejected"]
  /\ UNCHANGED <<daemon, stops, sessionVars, seen, ref, hook, connVars, actorVars>>

\* The ref moves from the value the pusher was shown, or not at all.
UpdateRef(p) ==
  /\ git[p] = "updating"
  /\ IF ref = seen[p]
     THEN ref' = p /\ git' = [git EXCEPT ![p] = "accepted"]
     ELSE UNCHANGED ref /\ git' = [git EXCEPT ![p] = "rejected"]
  /\ UNCHANGED <<daemon, stops, sessionVars, seen, hook, connVars, actorVars>>

-----------------------------------------------------------------------------
(* handle and the actor *)

\* check: the nonce is redeemed, then Deploy is called.
Check(p) ==
  /\ conn[p] = "sent"
  /\ conn' = [conn EXCEPT ![p] = IF p \in nonces THEN "waiting" ELSE "failed"]
  /\ nonces' = nonces \ {p}
  /\ UNCHANGED <<daemon, stops, client, session, gitVars, hook, cancelled, actorVars>>

\* The read that completes when the hook is gone.
NoticeGone(p) ==
  /\ hook[p] = "killed"
  /\ conn[p] \in {"waiting", "taken"}
  /\ ~cancelled[p]
  /\ cancelled' = [cancelled EXCEPT ![p] = TRUE]
  /\ UNCHANGED <<daemon, stops, sessionVars, gitVars, hook, conn, actorVars>>

\* send: a cancelled push leaves the queue; once the actor has taken it, it
\* waits for the verdict.  Mutant: it leaves even then.
MayLeaveAnyTime(p) == conn[p] \in {"waiting", "taken"}

MayLeave(p) == conn[p] = "waiting"

Withdraw(p) ==
  /\ MayLeave(p)
  /\ cancelled[p]
  /\ conn' = [conn EXCEPT ![p] = "failed"]
  /\ UNCHANGED <<daemon, stops, sessionVars, gitVars, hook, cancelled, actorVars>>

TakePush(p) ==
  /\ conn[p] = "waiting"
  /\ actor = Idle
  /\ actor' = [push |-> p, step |-> "working"]
  /\ conn' = [conn EXCEPT ![p] = "taken"]
  /\ UNCHANGED <<daemon, stops, sessionVars, gitVars, hook, cancelled, live, wentLive>>

\* The reply reaches the caller that still waits for it.
Reply(verdict) ==
  conn' = [p \in Pushes |-> IF p = actor.push /\ conn[p] = "taken" THEN verdict ELSE conn[p]]

DeployFails ==
  /\ actor.step = "working"
  /\ Reply("failed")
  /\ actor' = Idle
  /\ UNCHANGED <<daemon, stops, sessionVars, gitVars, hook, cancelled, live, wentLive>>

\* The instance is healthy and the context is checked for the last time.
PassCheck ==
  /\ actor.step = "working"
  /\ ~cancelled[actor.push]
  /\ actor' = [actor EXCEPT !.step = "checked"]
  /\ UNCHANGED <<daemon, stops, sessionVars, gitVars, hook, connVars, live, wentLive>>

\* Swap and SetLive.
GoLive ==
  /\ actor.step = "checked"
  /\ live' = actor.push
  /\ wentLive' = wentLive \cup {actor.push}
  /\ Reply("live")
  /\ actor' = Idle
  /\ UNCHANGED <<daemon, stops, sessionVars, gitVars, hook, cancelled>>

\* handle's last line.
WriteStatus(p) ==
  /\ conn[p] \in {"live", "failed"}
  /\ conn' = [conn EXCEPT ![p] = IF @ = "live" THEN "zero" ELSE "one"]
  /\ UNCHANGED <<daemon, stops, sessionVars, gitVars, hook, cancelled, actorVars>>

-----------------------------------------------------------------------------
(* The daemon *)

Shutdown ==
  /\ daemon = "up" /\ stops < MaxStops
  /\ daemon' = "stopping" /\ stops' = stops + 1
  /\ cancelled' = [p \in Pushes |-> cancelled[p] \/ conn[p] \in InProgress]
  /\ UNCHANGED <<sessionVars, gitVars, hook, conn, actorVars>>

\* What the process takes with it: sessions, nonces and connections.
ProcessGone ==
  /\ daemon' = "down"
  /\ session' = [p \in Pushes |-> IF session[p] = "open" THEN "ended" ELSE session[p]]
  /\ client' = [p \in Pushes |-> IF client[p] = "connected" THEN "gone" ELSE client[p]]
  /\ nonces' = {}
  /\ conn' = [p \in Pushes |-> IF conn[p] \in InProgress THEN "broken" ELSE conn[p]]
  /\ actor' = Idle
  /\ UNCHANGED <<gitVars, hook, cancelled, live, wentLive>>

\* Every Serve has returned, each after the connections it spawned.
Exit ==
  /\ daemon = "stopping"
  /\ \A p \in Pushes : session[p] # "open" /\ conn[p] \notin InProgress
  /\ actor = Idle
  /\ ProcessGone
  /\ UNCHANGED stops

Crash ==
  /\ daemon # "down" /\ stops < MaxStops
  /\ stops' = stops + 1
  /\ ProcessGone

Start ==
  /\ daemon = "down"
  /\ daemon' = "up"
  /\ UNCHANGED <<stops, sessionVars, gitVars, hook, connVars, actorVars>>

SessionStep(p) == (Told(p) /\ GitKilled(p)) \/ SessionEnds(p)
GitStep(p)     == Receive(p) \/ Verdict(p) \/ UpdateRef(p)
HookStep(p)    == HookRefuses(p) \/ HookCalls(p) \/ HookReads(p)
HandleStep(p)  == Check(p) \/ NoticeGone(p) \/ Withdraw(p) \/ WriteStatus(p)
DeployStep     == DeployFails \/ PassCheck \/ GoLive

Next ==
  \/ \E p \in Pushes :
       \/ Connect(p) \/ HangUp(p) \/ GitKilled(p) \/ SessionEnds(p) \/ GitStep(p)
       \/ HookStep(p) \/ HookDies(p) \/ HandleStep(p) \/ TakePush(p)
  \/ DeployStep
  \/ Shutdown \/ Exit \/ Crash \/ Start

Spec == Init /\ [][Next]_vars

\* A process or goroutine that can go on does: also a deploy, whose timeouts
\* bound, and git, which the session kills when it was told.  That a pusher
\* sends what it promised is not assumed.
Fairness ==
  /\ \A p \in Pushes :
       /\ WF_vars(SessionStep(p)) /\ WF_vars(Verdict(p) \/ UpdateRef(p))
       /\ WF_vars(HookStep(p)) /\ WF_vars(HandleStep(p)) /\ SF_vars(TakePush(p))
  /\ WF_vars(DeployStep) /\ WF_vars(Exit)

FairSpec == Spec /\ Fairness

-----------------------------------------------------------------------------
(* Properties *)

TypeOK ==
  /\ daemon \in {"up", "stopping", "down"} /\ stops \in 0 .. MaxStops
  /\ client \in [Pushes -> {"new", "connected", "gone", "done"}]
  /\ session \in [Pushes -> {"none", "open", "ended"}] /\ nonces \subseteq Pushes
  /\ git \in [Pushes -> {"none", "receiving", "hook", "updating", "accepted", "rejected", "killed"}]
  /\ seen \in [Pushes -> Pushes \cup {NoCommit}] /\ ref \in Pushes \cup {NoCommit}
  /\ hook \in [Pushes -> {"none", "started", "waiting", "zero", "nonzero", "killed"}]
  /\ conn \in [Pushes -> InProgress \cup {"none", "zero", "one", "broken"}]
  /\ cancelled \in [Pushes -> BOOLEAN]
  /\ actor \in [push: Pushes, step: {"working", "checked"}] \cup {Idle}
  /\ live \in wentLive \cup {NoCommit} /\ wentLive \subseteq Pushes

\* git records only what went live: the ref never names a commit whose deploy
\* failed, was cut off by a crash, or was never made (hook.go:11-12 "git moves
\* the ref only when that code is 0", client.go:99-102).
RefWasLive == ref \in wentLive \cup {NoCommit}

\* What the pusher is told is what happened: a push that was told it failed
\* does not go live afterwards, one that was told it is live did.
VerdictIsTrue ==
  \A p \in Pushes :
    /\ conn[p] \in {"failed", "one"} => p \notin wentLive
    /\ conn[p] \in {"live", "zero"} => p \in wentLive

\* A deploy is started only for a push whose session is still there, however
\* late its hook calls (gitserver/server.go:40 "so a nonce never outlives its
\* push").
DeployIsAdmitted ==
  [][\A p \in Pushes : conn[p] = "sent" /\ conn'[p] = "waiting" => session[p] = "open"]_vars

\* A push that went live and that git did not record has an explanation: the
\* daemon stopped, the pusher left, or another push had moved the ref.
UnrecordedIsExplained ==
  \A p \in wentLive :
    /\ git[p] = "rejected" => stops > 0 \/ ref # seen[p]
    /\ git[p] = "killed" => stops > 0 \/ client[p] = "gone"

\* Once git has the objects, the pusher hears the verdict or is disconnected:
\* no push waits for ever for its turn, its deploy or its daemon.
PushEnds == \A p \in Pushes : git[p] = "hook" ~> git[p] # "hook" /\ session[p] = "ended"

\* A shutdown waits for the sessions and connections, and they end, also those
\* whose pusher has fallen silent.
ShutdownEnds == daemon = "stopping" ~> daemon = "down"

=============================================================================
