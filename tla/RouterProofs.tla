----------------------------- MODULE RouterProofs -----------------------------
(***************************************************************************)
(* Router under Docker: what answers a request, for every number of apps,  *)
(* instances, ports and requests.                                          *)
(***************************************************************************)
EXTENDS Router, TLAPS

Starts(a) == At(a, "probing") \/ At(a, "healthy")
On(a)     == current[a] # NoInstance
Over(i)   == instance[i].life \in {"exited", "destroyed", "drained"}
Settled(i) == instance[i].life = "up" \/ Over(i)

\* What runs listens where its port is: nothing else does.
PortsAreOwn == \A i \in Instances : Runs(i) => instance[i].port \in Ports /\ listener[instance[i].port] = i

\* An actor that starts something picked a port for it; what it starts is its
\* own, not yet anybody's current instance or the aim of a request.
NewIsOwn ==
  \A a \in Apps :
    /\ ~At(a, "idle") /\ ~At(a, "destroying") => actor[a].port \in Ports
    /\ Starts(a) =>
         LET n == actor[a].new IN
           /\ n \in Instances /\ instance[n].life \in {"starting", "up", "exited"} /\ instance[n].port = actor[a].port
           /\ At(a, "healthy") => instance[n].life # "starting"
           /\ n \notin draining
           /\ \A b \in Apps : current[b] # n /\ (b # a /\ Starts(b) => actor[b].new # n)
           /\ \A r \in Requests : request[r].to # n

\* The route leads to the current instance, which nothing stops but a destroy.
RouteIsCurrent ==
  \A a \in Apps :
    /\ At(a, "destroying") => table[a] = NoPort
    /\ table[a] # NoPort => On(a) /\ table[a] = instance[current[a]].port
    /\ On(a) => /\ Settled(current[a]) /\ current[a] \notin draining
                /\ \A b \in Apps : current[b] = current[a] => b = a

\* What drains has run.
DrainingRan == \A i \in draining : instance[i].life # "unused"

\* Who a request was for serves it, unless it is over: it exited, was destroyed,
\* or was replaced and its drain has ended.  Nothing else stops it.
RequestIsServed ==
  \A r \in Requests :
    LET q == request[r] IN
      /\ q.pc = "none" => q.to = NoInstance
      /\ q.to # NoInstance => Settled(q.to)
      /\ q.pc \in {"routed", "served"} =>
           q.to # NoInstance /\ q.port \in Ports /\ q.port = instance[q.to].port
      /\ q.pc = "served" => q.by # NoInstance /\ (q.by = q.to \/ Over(q.to))
      /\ q.pc = "done" /\ q.to # NoInstance /\ q.by # q.to => Over(q.to)

RequestType == [pc: {"none", "routed", "served", "done"}, app: Apps \cup {NoApp}, port: Ports \cup {NoPort},
                to: Instances \cup {NoInstance}, by: Instances \cup {NoInstance}]

RouteInv == RouteTypeOK /\ PortsAreOwn /\ NewIsOwn /\ RouteIsCurrent /\ DrainingRan /\ RequestIsServed

-----------------------------------------------------------------------------

LEMMA RouteInitInv == RouteInit => RouteInv
  BY NothingAssumption, NativeAssumption
     DEF RouteInit, PortsAreOwn, NewIsOwn, RouteIsCurrent, RequestIsServed, DrainingRan, Unused, Idle, NoRequest,
         RouteInv, RouteTypeOK, At, Starts, On, Over, Settled, Runs

\* What the end of an instance changes, and that it changes no type.
LEMMA EndedChanges ==
  ASSUME NEW i \in Instances, NEW how \in {"exited", "stopped", "destroyed", "drained"}, RouteTypeOK, Ended(i, how)
  PROVE  /\ instance' \in [Instances ->
              [life: {"unused", "starting", "up", "exited", "stopped", "destroyed", "drained"},
               app: Apps \cup {NoApp}, port: Ports \cup {NoPort}]]
         /\ listener' \in [Ports -> Instances \cup {NoInstance}]
         /\ instance'[i].life = how
         /\ \A j \in Instances : instance'[j].port = instance[j].port /\ (j # i => instance'[j] = instance[j])
         /\ \A p \in Ports : listener'[p] = IF listener[p] = i THEN NoInstance ELSE listener[p]
  BY DEF RouteTypeOK, Ended

LEMMA EndedKeepsPorts ==
  ASSUME NEW i \in Instances, NEW how \in {"exited", "stopped", "destroyed", "drained"}, RouteTypeOK, PortsAreOwn, Ended(i, how)
  PROVE  PortsAreOwn'
  <1> SUFFICES ASSUME NEW j \in Instances, Runs(j)'
               PROVE  instance'[j].port \in Ports /\ listener'[instance'[j].port] = j
    BY DEF PortsAreOwn
  <1>1. j # i
    BY EndedChanges DEF Runs
  <1>2. instance'[j] = instance[j]
    BY <1>1, EndedChanges
  <1>3. instance[j].port \in Ports /\ listener[instance[j].port] = j
    BY <1>2 DEF PortsAreOwn, Runs
  <1> QED  BY <1>1, <1>2, <1>3, EndedChanges

LEMMA FreePortInv == \A a \in Apps, p \in Ports : ~Native /\ RouteInv /\ FreePort(a, p) => RouteInv'
  <1> SUFFICES ASSUME NEW a \in Apps, NEW p \in Ports, ~Native, RouteInv, FreePort(a, p) PROVE RouteInv'
    OBVIOUS
  <1> USE NothingAssumption
  <1>1. RouteTypeOK'
    <2>1. actor' \in [Apps -> [pc: {"idle", "picked", "probing", "healthy", "destroying"},
                              port: Ports \cup {NoPort}, new: Instances \cup {NoInstance}]]
      BY DEF FreePort, RouteInv, RouteTypeOK
    <2> QED  BY <2>1 DEF FreePort, RouteInv, RouteTypeOK
  <1>2. PortsAreOwn'
    BY DEF NewIsOwn, RouteIsCurrent, PortsAreOwn, FreePort, RouteInv, RouteTypeOK, At, Starts, On, Over, Settled, Runs
  <1>3. NewIsOwn'
    BY DEF PortsAreOwn, RouteIsCurrent, NewIsOwn, FreePort, RouteInv, RouteTypeOK, At, Starts, On, Over, Settled, Runs
  <1>4. RouteIsCurrent'
    BY DEF PortsAreOwn, NewIsOwn, RouteIsCurrent, FreePort, RouteInv, RouteTypeOK, At, Starts, On, Over, Settled, Runs
  <1>5. RequestIsServed'
    BY DEF PortsAreOwn, NewIsOwn, RouteIsCurrent, RequestIsServed, FreePort, RouteInv, RouteTypeOK, At, Starts, On, Over, Settled, Runs
  <1>6. DrainingRan'
    BY DEF FreePort, RouteInv, RouteTypeOK, DrainingRan
  <1> QED  BY <1>1, <1>2, <1>3, <1>4, <1>5, <1>6 DEF RouteInv

LEMMA StartInv == \A a \in Apps, i \in Instances : ~Native /\ RouteInv /\ Start(a, i) => RouteInv'
  <1> SUFFICES ASSUME NEW a \in Apps, NEW i \in Instances, ~Native, RouteInv, Start(a, i) PROVE RouteInv'
    OBVIOUS
  <1> USE NothingAssumption
  <1>1. RouteTypeOK'
    <2>1. actor[a].port \in Ports
      BY DEF Start, RouteInv, NewIsOwn, At
    <2>2. instance' \in [Instances ->
            [life: {"unused", "starting", "up", "exited", "stopped", "destroyed", "drained"},
             app: Apps \cup {NoApp}, port: Ports \cup {NoPort}]]
      BY <2>1 DEF Start, Started, RouteInv, RouteTypeOK
    <2>3. actor' \in [Apps -> [pc: {"idle", "picked", "probing", "healthy", "destroying"},
                              port: Ports \cup {NoPort}, new: Instances \cup {NoInstance}]]
      BY <2>1 DEF Start, Started, RouteInv, RouteTypeOK
    <2>4. listener' \in [Ports -> Instances \cup {NoInstance}]
      BY <2>1 DEF Start, Started, RouteInv, RouteTypeOK
    <2> QED  BY <2>2, <2>3, <2>4 DEF Start, RouteInv, RouteTypeOK
  <1>2. PortsAreOwn'
    BY DEF NewIsOwn, RouteIsCurrent, PortsAreOwn, Start, Started, Unused, RouteInv, RouteTypeOK, At, Starts, On, Over, Settled, Runs
  <1>3. NewIsOwn'
    <2>1. /\ At(a, "picked") /\ actor[a].port \in Ports /\ instance[i] = Unused
          /\ instance' = [instance EXCEPT ![i] = [life |-> "starting", app |-> a, port |-> actor[a].port]]
          /\ actor' = [actor EXCEPT ![a] = [pc |-> "probing", port |-> actor[a].port, new |-> i]]
          /\ UNCHANGED <<current, draining, request>>
      BY DEF Start, Started, RouteInv, NewIsOwn, At
    <2>2. /\ i \notin draining /\ \A b \in Apps : current[b] # i
          /\ \A r \in Requests : request[r].to # i
      <3>1. instance[i].life = "unused"
        BY <2>1 DEF Unused
      <3>2. i \notin draining
        BY <3>1 DEF RouteInv, DrainingRan
      <3>3. \A b \in Apps : current[b] # i
        BY <3>1 DEF RouteInv, RouteIsCurrent, On, Over, Settled
      <3>4. \A r \in Requests : request[r].to # i
        BY <3>1 DEF RouteInv, RequestIsServed, Over, Settled
      <3> QED  BY <3>2, <3>3, <3>4
    <2>3. \A b \in Apps : Starts(b) => actor[b].new # i
      BY <2>1 DEF Unused, RouteInv, NewIsOwn
    <2>4. actor'[a] = [pc |-> "probing", port |-> actor[a].port, new |-> i]
      BY <2>1 DEF RouteInv, RouteTypeOK
    <2>5. actor'[a].pc = "probing" /\ actor'[a].new = i /\ actor'[a].port = actor[a].port
      BY <2>4 DEF RouteInv, RouteTypeOK
    <2>6. \A b \in Apps : b # a => actor'[b] = actor[b]
      BY <2>1 DEF RouteInv, RouteTypeOK
    <2>7. instance'[i] = [life |-> "starting", app |-> a, port |-> actor[a].port]
      BY <2>1 DEF RouteInv, RouteTypeOK
    <2>8. \A j \in Instances : j # i => instance'[j] = instance[j]
      BY <2>1 DEF RouteInv, RouteTypeOK
    <2> SUFFICES ASSUME NEW b \in Apps PROVE NewIsOwn!(b)'
      BY DEF NewIsOwn
    <2>9. NewIsOwn!(b)
      BY DEF RouteInv, NewIsOwn
    <2>10. CASE b = a
      BY <2>1, <2>2, <2>3, <2>5, <2>6, <2>7, <2>10 DEF At, Starts
    <2>11. CASE b # a
      BY <2>1, <2>3, <2>5, <2>6, <2>8, <2>9, <2>11 DEF At, Starts
    <2> QED  BY <2>10, <2>11
  <1>4. RouteIsCurrent'
    BY DEF PortsAreOwn, NewIsOwn, RouteIsCurrent, Start, Started, Unused, RouteInv, RouteTypeOK, At, Starts, On, Over, Settled, Runs
  <1>5. RequestIsServed'
    BY DEF PortsAreOwn, NewIsOwn, RouteIsCurrent, RequestIsServed, Start, Started, Unused, RouteInv, RouteTypeOK, At, Starts, On, Over, Settled, Runs
  <1>6. DrainingRan'
    BY DEF Start, Started, Unused, Ended, RouteInv, RouteTypeOK, DrainingRan
  <1> QED  BY <1>1, <1>2, <1>3, <1>4, <1>5, <1>6 DEF RouteInv

LEMMA StartFailsInv == \A a \in Apps : ~Native /\ RouteInv /\ StartFails(a) => RouteInv'
  <1> SUFFICES ASSUME NEW a \in Apps, ~Native, RouteInv, StartFails(a) PROVE RouteInv'
    OBVIOUS
  <1> USE NothingAssumption
  <1>1. RouteTypeOK'
    <2>1. actor' \in [Apps -> [pc: {"idle", "picked", "probing", "healthy", "destroying"},
                              port: Ports \cup {NoPort}, new: Instances \cup {NoInstance}]]
      BY DEF StartFails, Rests, Idle, RouteInv, RouteTypeOK
    <2> QED  BY <2>1 DEF StartFails, RouteInv, RouteTypeOK
  <1>2. PortsAreOwn'
    BY DEF NewIsOwn, RouteIsCurrent, PortsAreOwn, StartFails, Rests, Idle, RouteInv, RouteTypeOK, At, Starts, On, Over, Settled, Runs
  <1>3. NewIsOwn'
    BY DEF PortsAreOwn, RouteIsCurrent, NewIsOwn, StartFails, Rests, Idle, RouteInv, RouteTypeOK, At, Starts, On, Over, Settled, Runs
  <1>4. RouteIsCurrent'
    BY DEF PortsAreOwn, NewIsOwn, RouteIsCurrent, StartFails, Rests, Idle, RouteInv, RouteTypeOK, At, Starts, On, Over, Settled, Runs
  <1>5. RequestIsServed'
    BY DEF PortsAreOwn, NewIsOwn, RouteIsCurrent, RequestIsServed, StartFails, Rests, Idle, RouteInv, RouteTypeOK, At, Starts, On, Over, Settled, Runs
  <1>6. DrainingRan'
    BY DEF StartFails, RouteInv, RouteTypeOK, DrainingRan
  <1> QED  BY <1>1, <1>2, <1>3, <1>4, <1>5, <1>6 DEF RouteInv

LEMMA ProbeInv == \A a \in Apps : ~Native /\ RouteInv /\ Probe(a) => RouteInv'
  <1> SUFFICES ASSUME NEW a \in Apps, ~Native, RouteInv, Probe(a) PROVE RouteInv'
    OBVIOUS
  <1> USE NothingAssumption
  <1>1. RouteTypeOK'
    <2>1. actor' \in [Apps -> [pc: {"idle", "picked", "probing", "healthy", "destroying"},
                              port: Ports \cup {NoPort}, new: Instances \cup {NoInstance}]]
      <3>1. actor \in [Apps -> [pc: {"idle", "picked", "probing", "healthy", "destroying"},
                              port: Ports \cup {NoPort}, new: Instances \cup {NoInstance}]]
        BY DEF RouteInv, RouteTypeOK
      <3>2. actor' = [actor EXCEPT ![a].pc = "healthy"]
        BY DEF Probe, Becomes
      <3> QED  BY <3>1, <3>2
    <2> QED  BY <2>1 DEF Probe, RouteInv, RouteTypeOK
  <1>2. PortsAreOwn'
    BY DEF NewIsOwn, RouteIsCurrent, PortsAreOwn, Probe, Becomes, RouteInv, RouteTypeOK, At, Starts, On, Over, Settled, Runs
  <1>3. NewIsOwn'
    BY DEF PortsAreOwn, RouteIsCurrent, NewIsOwn, Probe, Becomes, RouteInv, RouteTypeOK, At, Starts, On, Over, Settled, Runs
  <1>4. RouteIsCurrent'
    BY DEF PortsAreOwn, NewIsOwn, RouteIsCurrent, Probe, Becomes, RouteInv, RouteTypeOK, At, Starts, On, Over, Settled, Runs
  <1>5. RequestIsServed'
    BY DEF PortsAreOwn, NewIsOwn, RouteIsCurrent, RequestIsServed, Probe, Becomes, RouteInv, RouteTypeOK, At, Starts, On, Over, Settled, Runs
  <1>6. DrainingRan'
    BY DEF Probe, RouteInv, RouteTypeOK, DrainingRan
  <1> QED  BY <1>1, <1>2, <1>3, <1>4, <1>5, <1>6 DEF RouteInv

LEMMA AbandonInv == \A a \in Apps : ~Native /\ RouteInv /\ Abandon(a) => RouteInv'
  <1> SUFFICES ASSUME NEW a \in Apps, ~Native, RouteInv, Abandon(a) PROVE RouteInv'
    OBVIOUS
  <1> USE NothingAssumption
  <1>1. RouteTypeOK'
    <2>1. actor[a].new \in Instances
      BY DEF Abandon, RouteInv, NewIsOwn, Starts
    <2>2. actor' \in [Apps -> [pc: {"idle", "picked", "probing", "healthy", "destroying"},
                              port: Ports \cup {NoPort}, new: Instances \cup {NoInstance}]]
      BY DEF Abandon, Rests, Idle, RouteInv, RouteTypeOK
    <2>3. CASE Runs(actor[a].new)
      BY <2>1, <2>2, <2>3, EndedChanges DEF Abandon, RouteInv, RouteTypeOK
    <2>4. CASE ~Runs(actor[a].new)
      BY <2>2, <2>4 DEF Abandon, RouteInv, RouteTypeOK
    <2> QED  BY <2>3, <2>4
  <1>2. PortsAreOwn'
    <2>1. actor[a].new \in Instances
      BY DEF Abandon, RouteInv, NewIsOwn, Starts
    <2>2. CASE Runs(actor[a].new)
      BY <2>1, <2>2, EndedKeepsPorts DEF Abandon, RouteInv
    <2>3. CASE ~Runs(actor[a].new)
      BY <2>3 DEF Abandon, RouteInv, PortsAreOwn, Runs
    <2> QED  BY <2>2, <2>3
  <1>3. NewIsOwn'
    BY DEF PortsAreOwn, RouteIsCurrent, NewIsOwn, Abandon, Rests, Idle, Ended, RouteInv, RouteTypeOK, At, Starts, On, Over, Settled, Runs
  <1>4. RouteIsCurrent'
    BY DEF PortsAreOwn, NewIsOwn, RouteIsCurrent, Abandon, Rests, Idle, Ended, RouteInv, RouteTypeOK, At, Starts, On, Over, Settled, Runs
  <1>5. RequestIsServed'
    BY DEF PortsAreOwn, NewIsOwn, RouteIsCurrent, RequestIsServed, Abandon, Rests, Idle, Ended, RouteInv, RouteTypeOK, At, Starts, On, Over, Settled, Runs
  <1>6. DrainingRan'
    BY DEF Abandon, Ended, RouteInv, RouteTypeOK, DrainingRan
  <1> QED  BY <1>1, <1>2, <1>3, <1>4, <1>5, <1>6 DEF RouteInv

LEMMA SwapInv == \A a \in Apps : ~Native /\ RouteInv /\ Swap(a) => RouteInv'
  <1> SUFFICES ASSUME NEW a \in Apps, ~Native, RouteInv, Swap(a) PROVE RouteInv'
    OBVIOUS
  <1> USE NothingAssumption
  <1>1. RouteTypeOK'
    <2>1. actor[a].port \in Ports /\ actor[a].new \in Instances
      BY DEF Swap, Replaces, RouteInv, NewIsOwn, At, Starts
    <2>2. actor' \in [Apps -> [pc: {"idle", "picked", "probing", "healthy", "destroying"},
                              port: Ports \cup {NoPort}, new: Instances \cup {NoInstance}]]
      BY DEF Swap, Replaces, Rests, Idle, RouteInv, RouteTypeOK
    <2>3. table' \in [Apps -> Ports \cup {NoPort}] /\ current' \in [Apps -> Instances \cup {NoInstance}]
      BY <2>1 DEF Swap, Replaces, RouteInv, RouteTypeOK
    <2>4. draining' \subseteq Instances
      BY DEF Swap, RouteInv, RouteTypeOK
    <2> QED  BY <2>2, <2>3, <2>4 DEF Swap, RouteInv, RouteTypeOK
  <1>2. PortsAreOwn'
    BY DEF NewIsOwn, RouteIsCurrent, PortsAreOwn, Swap, Replaces, Rests, Idle, RouteInv, RouteTypeOK, At, Starts, On, Over, Settled, Runs
  <1>3. NewIsOwn'
    BY DEF PortsAreOwn, RouteIsCurrent, NewIsOwn, Swap, Replaces, Rests, Idle, RouteInv, RouteTypeOK, At, Starts, On, Over, Settled, Runs
  <1>4. RouteIsCurrent'
    BY DEF PortsAreOwn, NewIsOwn, RouteIsCurrent, Swap, Replaces, Rests, Idle, RouteInv, RouteTypeOK, At, Starts, On, Over, Settled, Runs
  <1>5. RequestIsServed'
    BY DEF PortsAreOwn, NewIsOwn, RouteIsCurrent, RequestIsServed, Swap, Replaces, Rests, Idle, RouteInv, RouteTypeOK, At, Starts, On, Over, Settled, Runs
  <1>6. DrainingRan'
    BY DEF Swap, RouteInv, RouteTypeOK, DrainingRan, Replaces, On, Runs
  <1> QED  BY <1>1, <1>2, <1>3, <1>4, <1>5, <1>6 DEF RouteInv

LEMMA DrainedInv == \A i \in Instances : ~Native /\ RouteInv /\ Drained(i) => RouteInv'
  <1> SUFFICES ASSUME NEW i \in Instances, ~Native, RouteInv, Drained(i) PROVE RouteInv'
    OBVIOUS
  <1> USE NothingAssumption
  <1>1. RouteTypeOK'
    <2>1. CASE Runs(i)
      BY <2>1, EndedChanges DEF Drained, RouteInv, RouteTypeOK
    <2>2. CASE ~Runs(i)
      BY <2>2 DEF Drained, RouteInv, RouteTypeOK
    <2> QED  BY <2>1, <2>2
  <1>2. PortsAreOwn'
    <2>1. CASE Runs(i)
      BY <2>1, EndedKeepsPorts DEF Drained, RouteInv
    <2>2. CASE ~Runs(i)
      BY <2>2 DEF Drained, RouteInv, RouteTypeOK, PortsAreOwn, Runs
    <2> QED  BY <2>1, <2>2
  <1>3. NewIsOwn'
    BY DEF PortsAreOwn, RouteIsCurrent, NewIsOwn, Drained, Ended, RouteInv, RouteTypeOK, At, Starts, On, Over, Settled, Runs
  <1>4. RouteIsCurrent'
    BY DEF PortsAreOwn, NewIsOwn, RouteIsCurrent, Drained, Ended, RouteInv, RouteTypeOK, At, Starts, On, Over, Settled, Runs
  <1>5. RequestIsServed'
    <2>1. CASE Runs(i)
      <3>1. i \in Instances /\ Ended(i, "drained") /\ request' = request
        BY <2>1 DEF Drained
      <3>2. \A j \in Instances :
              /\ instance'[j].port = instance[j].port
              /\ (j # i => instance'[j] = instance[j]) /\ (j = i => Over(j)')
        BY <3>1, EndedChanges DEF RouteInv, Over
      <3>3. \A j \in Instances : (Over(j) => Over(j)') /\ (Settled(j) => Settled(j)')
        BY <2>1, <3>2 DEF Over, Settled, Runs
      <3> SUFFICES ASSUME NEW r \in Requests PROVE RequestIsServed!(r)'
        BY DEF RequestIsServed
      <3>4. RequestIsServed!(r) /\ (request[r].to # NoInstance => request[r].to \in Instances)
        BY DEF RouteInv, RouteTypeOK, RequestIsServed
      <3> QED  BY <3>1, <3>2, <3>3, <3>4
    <2>2. CASE ~Runs(i)
      BY <2>2 DEF Drained, RouteInv, RequestIsServed, Settled, Over
    <2> QED  BY <2>1, <2>2
  <1>6. DrainingRan'
    BY DEF Drained, Ended, RouteInv, RouteTypeOK, DrainingRan
  <1> QED  BY <1>1, <1>2, <1>3, <1>4, <1>5, <1>6 DEF RouteInv

LEMMA DropRouteInv == \A a \in Apps : ~Native /\ RouteInv /\ DropRoute(a) => RouteInv'
  <1> SUFFICES ASSUME NEW a \in Apps, ~Native, RouteInv, DropRoute(a) PROVE RouteInv'
    OBVIOUS
  <1> USE NothingAssumption
  <1>1. RouteTypeOK'
    <2>1. table' \in [Apps -> Ports \cup {NoPort}]
      BY DEF DropRoute, RouteInv, RouteTypeOK
    <2>2. actor' \in [Apps -> [pc: {"idle", "picked", "probing", "healthy", "destroying"},
                              port: Ports \cup {NoPort}, new: Instances \cup {NoInstance}]]
      <3>1. actor \in [Apps -> [pc: {"idle", "picked", "probing", "healthy", "destroying"},
                              port: Ports \cup {NoPort}, new: Instances \cup {NoInstance}]]
        BY DEF RouteInv, RouteTypeOK
      <3>2. actor' = [actor EXCEPT ![a].pc = "destroying"]
        BY DEF DropRoute, Becomes
      <3> QED  BY <3>1, <3>2
    <2> QED  BY <2>1, <2>2 DEF DropRoute, RouteInv, RouteTypeOK
  <1>2. PortsAreOwn'
    BY DEF NewIsOwn, RouteIsCurrent, PortsAreOwn, DropRoute, Becomes, RouteInv, RouteTypeOK, At, Starts, On, Over, Settled, Runs
  <1>3. NewIsOwn'
    BY DEF PortsAreOwn, RouteIsCurrent, NewIsOwn, DropRoute, Becomes, RouteInv, RouteTypeOK, At, Starts, On, Over, Settled, Runs
  <1>4. RouteIsCurrent'
    BY DEF PortsAreOwn, NewIsOwn, RouteIsCurrent, DropRoute, Becomes, RouteInv, RouteTypeOK, At, Starts, On, Over, Settled, Runs
  <1>5. RequestIsServed'
    BY DEF PortsAreOwn, NewIsOwn, RouteIsCurrent, RequestIsServed, DropRoute, Becomes, RouteInv, RouteTypeOK, At, Starts, On, Over, Settled, Runs
  <1>6. DrainingRan'
    BY DEF DropRoute, RouteInv, RouteTypeOK, DrainingRan
  <1> QED  BY <1>1, <1>2, <1>3, <1>4, <1>5, <1>6 DEF RouteInv

LEMMA DestroyInv == \A a \in Apps : ~Native /\ RouteInv /\ Destroy(a) => RouteInv'
  <1> SUFFICES ASSUME NEW a \in Apps, ~Native, RouteInv, Destroy(a) PROVE RouteInv'
    OBVIOUS
  <1> USE NothingAssumption
  <1>0. /\ actor' \in [Apps -> [pc: {"idle", "picked", "probing", "healthy", "destroying"},
                              port: Ports \cup {NoPort}, new: Instances \cup {NoInstance}]]
        /\ current[a] \in Instances \cup {NoInstance}
        /\ actor'[a].pc = "idle" /\ \A b \in Apps : b # a => actor'[b] = actor[b]
        /\ current'[a] = NoInstance /\ \A b \in Apps : b # a => current'[b] = current[b]
    BY DEF Destroy, Rests, Idle, RouteInv, RouteTypeOK
  <1>1. RouteTypeOK'
    <2>1. CASE current[a] # NoInstance /\ Runs(current[a])
      BY <1>0, <2>1, EndedChanges DEF Destroy, RouteInv, RouteTypeOK
    <2>2. CASE ~(current[a] # NoInstance /\ Runs(current[a]))
      BY <1>0, <2>2 DEF Destroy, RouteInv, RouteTypeOK
    <2> QED  BY <2>1, <2>2
  <1>2. PortsAreOwn'
    <2>1. CASE current[a] # NoInstance /\ Runs(current[a])
      BY <1>0, <2>1, EndedKeepsPorts DEF Destroy, RouteInv
    <2>2. CASE ~(current[a] # NoInstance /\ Runs(current[a]))
      BY <1>0, <2>2 DEF Destroy, RouteInv, RouteTypeOK, PortsAreOwn, Runs
    <2> QED  BY <2>1, <2>2
  <1>3. NewIsOwn'
    BY DEF PortsAreOwn, RouteIsCurrent, NewIsOwn, Destroy, Rests, Idle, Ended, RouteInv, RouteTypeOK, At, Starts, On, Over, Settled, Runs
  <1>4. RouteIsCurrent'
    <2>1. table[a] = NoPort /\ table' = table /\ draining' = draining
      BY DEF Destroy, RouteInv, RouteIsCurrent
    <2> SUFFICES ASSUME NEW b \in Apps PROVE RouteIsCurrent!(b)'
      BY DEF RouteIsCurrent
    <2>2. CASE b = a
      BY <1>0, <2>1, <2>2 DEF On, At
    <2>3. CASE b # a
      <3>1. RouteIsCurrent!(b) /\ (At(b, "destroying")' <=> At(b, "destroying")) /\ (On(b)' <=> On(b))
        BY <1>0, <2>3 DEF RouteInv, RouteIsCurrent, At, On
      <3>2. On(b) => current'[b] = current[b] /\ current[b] \in Instances /\ current[b] # current[a]
        BY <1>0, <2>3 DEF On, RouteInv, RouteTypeOK, RouteIsCurrent
      <3>3. On(b) => instance'[current[b]] = instance[current[b]]
        <4>1. CASE current[a] # NoInstance /\ Runs(current[a])
          BY <1>0, <3>2, <4>1, EndedChanges DEF Destroy, RouteInv
        <4>2. CASE ~(current[a] # NoInstance /\ Runs(current[a]))
          BY <4>2 DEF Destroy
        <4> QED  BY <4>1, <4>2
      <3>4. \A c \in Apps : On(b) /\ current'[c] = current[b] => c = b
        BY <1>0, <3>1, <3>2 DEF On
      <3> QED  BY <2>1, <3>1, <3>2, <3>3, <3>4 DEF Settled, Over, On
    <2> QED  BY <2>2, <2>3
  <1>5. RequestIsServed'
    <2>1. CASE current[a] # NoInstance /\ Runs(current[a])
      <3>1. Ended(current[a], "destroyed") /\ current[a] \in Instances /\ request' = request
        BY <1>0, <2>1 DEF Destroy
      <3>2. \A j \in Instances :
              /\ instance'[j].port = instance[j].port
              /\ (j # current[a] => instance'[j] = instance[j]) /\ (j = current[a] => Over(j)')
        BY <3>1, EndedChanges DEF RouteInv, Over
      <3>3. \A j \in Instances : (Over(j) => Over(j)') /\ (Settled(j) => Settled(j)')
        BY <2>1, <3>2 DEF Over, Settled, Runs
      <3> SUFFICES ASSUME NEW r \in Requests PROVE RequestIsServed!(r)'
        BY DEF RequestIsServed
      <3>4. RequestIsServed!(r) /\ (request[r].to # NoInstance => request[r].to \in Instances)
        BY DEF RouteInv, RouteTypeOK, RequestIsServed
      <3> QED  BY <3>1, <3>2, <3>3, <3>4
    <2>2. CASE ~(current[a] # NoInstance /\ Runs(current[a]))
      BY <1>0, <2>2 DEF Destroy, RouteInv, RouteTypeOK, RequestIsServed, Over, Settled, Runs
    <2> QED  BY <2>1, <2>2
  <1>6. DrainingRan'
    BY DEF Destroy, Ended, RouteInv, RouteTypeOK, DrainingRan
  <1> QED  BY <1>1, <1>2, <1>3, <1>4, <1>5, <1>6 DEF RouteInv

LEMMA ListenInv == \A i \in Instances : ~Native /\ RouteInv /\ Listen(i) => RouteInv'
  <1> SUFFICES ASSUME NEW i \in Instances, ~Native, RouteInv, Listen(i) PROVE RouteInv'
    OBVIOUS
  <1> USE NothingAssumption
  <1>1. RouteTypeOK'
    <2>1. instance' \in [Instances ->
            [life: {"unused", "starting", "up", "exited", "stopped", "destroyed", "drained"},
             app: Apps \cup {NoApp}, port: Ports \cup {NoPort}]]
      <3>1. instance \in [Instances ->
            [life: {"unused", "starting", "up", "exited", "stopped", "destroyed", "drained"},
             app: Apps \cup {NoApp}, port: Ports \cup {NoPort}]]
        BY DEF RouteInv, RouteTypeOK
      <3>2. instance' = [instance EXCEPT ![i].life = "up"]
        BY DEF Listen
      <3> QED  BY <3>1, <3>2
    <2> QED  BY <2>1 DEF Listen, RouteInv, RouteTypeOK
  <1>2. PortsAreOwn'
    BY DEF NewIsOwn, RouteIsCurrent, PortsAreOwn, Listen, RouteInv, RouteTypeOK, At, Starts, On, Over, Settled, Runs
  <1>3. NewIsOwn'
    BY DEF PortsAreOwn, RouteIsCurrent, NewIsOwn, Listen, RouteInv, RouteTypeOK, At, Starts, On, Over, Settled, Runs
  <1>4. RouteIsCurrent'
    BY DEF PortsAreOwn, NewIsOwn, RouteIsCurrent, Listen, RouteInv, RouteTypeOK, At, Starts, On, Over, Settled, Runs
  <1>5. RequestIsServed'
    <2>1. /\ instance[i].life = "starting" /\ request' = request
          /\ \A j \in Instances : j # i => instance'[j] = instance[j]
      BY DEF Listen, RouteInv, RouteTypeOK
    <2> SUFFICES ASSUME NEW r \in Requests PROVE RequestIsServed!(r)'
      BY DEF RequestIsServed
    <2>2. RequestIsServed!(r) /\ (request[r].to # NoInstance => request[r].to \in Instances)
      BY DEF RouteInv, RouteTypeOK, RequestIsServed
    <2>3. request[r].to # i
      BY <2>1, <2>2, i # NoInstance DEF Settled, Over
    <2> QED  BY <2>1, <2>2, <2>3 DEF Settled, Over
  <1>6. DrainingRan'
    BY DEF Listen, Ended, RouteInv, RouteTypeOK, DrainingRan
  <1> QED  BY <1>1, <1>2, <1>3, <1>4, <1>5, <1>6 DEF RouteInv

LEMMA ExitInv == \A i \in Instances : ~Native /\ RouteInv /\ Exit(i) => RouteInv'
  <1> SUFFICES ASSUME NEW i \in Instances, ~Native, RouteInv, Exit(i) PROVE RouteInv'
    OBVIOUS
  <1> USE NothingAssumption
  <1>1. RouteTypeOK'
    <2>1. exits' \in 0 .. MaxExits
      BY NativeAssumption DEF Exit, RouteInv, RouteTypeOK
    <2> QED  BY <2>1, EndedChanges DEF Exit, RouteInv, RouteTypeOK
  <1>2. PortsAreOwn'
    BY DEF NewIsOwn, RouteIsCurrent, PortsAreOwn, Exit, Ended, RouteInv, RouteTypeOK, At, Starts, On, Over, Settled, Runs
  <1>3. NewIsOwn'
    BY DEF PortsAreOwn, RouteIsCurrent, NewIsOwn, Exit, Ended, RouteInv, RouteTypeOK, At, Starts, On, Over, Settled, Runs
  <1>4. RouteIsCurrent'
    BY DEF PortsAreOwn, NewIsOwn, RouteIsCurrent, Exit, Ended, RouteInv, RouteTypeOK, At, Starts, On, Over, Settled, Runs
  <1>5. RequestIsServed'
    BY DEF PortsAreOwn, NewIsOwn, RouteIsCurrent, RequestIsServed, Exit, Ended, RouteInv, RouteTypeOK, At, Starts, On, Over, Settled, Runs
  <1>6. DrainingRan'
    BY DEF Exit, Ended, RouteInv, RouteTypeOK, DrainingRan
  <1> QED  BY <1>1, <1>2, <1>3, <1>4, <1>5, <1>6 DEF RouteInv

LEMMA ArriveInv == \A r \in Requests, a \in Apps : ~Native /\ RouteInv /\ Arrive(r, a) => RouteInv'
  <1> SUFFICES ASSUME NEW r \in Requests, NEW a \in Apps, ~Native, RouteInv, Arrive(r, a) PROVE RouteInv'
    OBVIOUS
  <1> USE NothingAssumption
  <1>1. RouteTypeOK'
    <2>1. request \in [Requests -> RequestType]
      BY DEF RouteInv, RouteTypeOK, RequestType
    <2>2. table[a] \in Ports \cup {NoPort} /\ current[a] \in Instances \cup {NoInstance}
      BY DEF RouteInv, RouteTypeOK
    <2>3. request' \in [Requests -> RequestType]
      BY <2>1, <2>2 DEF Arrive, RequestType
    <2> QED  BY <2>3 DEF Arrive, RouteInv, RouteTypeOK, RequestType
  <1>2. PortsAreOwn'
    BY DEF NewIsOwn, RouteIsCurrent, PortsAreOwn, Arrive, RouteInv, RouteTypeOK, At, Starts, On, Over, Settled, Runs
  <1>3. NewIsOwn'
    BY DEF PortsAreOwn, RouteIsCurrent, NewIsOwn, Arrive, RouteInv, RouteTypeOK, At, Starts, On, Over, Settled, Runs
  <1>4. RouteIsCurrent'
    BY DEF PortsAreOwn, NewIsOwn, RouteIsCurrent, Arrive, RouteInv, RouteTypeOK, At, Starts, On, Over, Settled, Runs
  <1>5. RequestIsServed'
    BY DEF PortsAreOwn, NewIsOwn, RouteIsCurrent, RequestIsServed, Arrive, RouteInv, RouteTypeOK, At, Starts, On, Over, Settled, Runs
  <1>6. DrainingRan'
    BY DEF Arrive, RouteInv, RouteTypeOK, DrainingRan
  <1> QED  BY <1>1, <1>2, <1>3, <1>4, <1>5, <1>6 DEF RouteInv

LEMMA DialInv == \A r \in Requests : ~Native /\ RouteInv /\ Dial(r) => RouteInv'
  <1> SUFFICES ASSUME NEW r \in Requests, ~Native, RouteInv, Dial(r) PROVE RouteInv'
    OBVIOUS
  <1> USE NothingAssumption
  <1>1. RouteTypeOK'
    <2>1. request \in [Requests -> RequestType]
      BY DEF RouteInv, RouteTypeOK, RequestType
    <2>2. request[r].port \in Ports
      BY DEF Dial, RouteInv, RequestIsServed
    <2>3. listener[request[r].port] \in Instances \cup {NoInstance}
      BY <2>2 DEF RouteInv, RouteTypeOK
    <2>4. request'[r] \in RequestType
      BY <2>1, <2>3 DEF Dial, RequestType
    <2>5. request' \in [Requests -> RequestType]
      BY <2>1, <2>4 DEF Dial
    <2> QED  BY <2>5 DEF Dial, RouteInv, RouteTypeOK, RequestType
  <1>2. PortsAreOwn'
    BY DEF NewIsOwn, RouteIsCurrent, PortsAreOwn, Dial, RouteInv, RouteTypeOK, At, Starts, On, Over, Settled, Runs
  <1>3. NewIsOwn'
    BY DEF PortsAreOwn, RouteIsCurrent, NewIsOwn, Dial, RouteInv, RouteTypeOK, At, Starts, On, Over, Settled, Runs
  <1>4. RouteIsCurrent'
    BY DEF PortsAreOwn, NewIsOwn, RouteIsCurrent, Dial, RouteInv, RouteTypeOK, At, Starts, On, Over, Settled, Runs
  <1>5. RequestIsServed'
    BY DEF PortsAreOwn, NewIsOwn, RouteIsCurrent, RequestIsServed, Dial, RouteInv, RouteTypeOK, At, Starts, On, Over, Settled, Runs
  <1>6. DrainingRan'
    BY DEF Dial, RouteInv, RouteTypeOK, DrainingRan
  <1> QED  BY <1>1, <1>2, <1>3, <1>4, <1>5, <1>6 DEF RouteInv

LEMMA FinishInv == \A r \in Requests : ~Native /\ RouteInv /\ Finish(r) => RouteInv'
  <1> SUFFICES ASSUME NEW r \in Requests, ~Native, RouteInv, Finish(r) PROVE RouteInv'
    OBVIOUS
  <1> USE NothingAssumption
  <1>1. RouteTypeOK'
    <2>1. request \in [Requests -> RequestType]
      BY DEF RouteInv, RouteTypeOK, RequestType
    <2>2. request'[r] \in RequestType
      BY <2>1 DEF Finish, RequestType
    <2>3. request' \in [Requests -> RequestType]
      BY <2>1, <2>2 DEF Finish
    <2> QED  BY <2>3 DEF Finish, RouteInv, RouteTypeOK, RequestType
  <1>2. PortsAreOwn'
    BY DEF NewIsOwn, RouteIsCurrent, PortsAreOwn, Finish, RouteInv, RouteTypeOK, At, Starts, On, Over, Settled, Runs
  <1>3. NewIsOwn'
    BY DEF PortsAreOwn, RouteIsCurrent, NewIsOwn, Finish, RouteInv, RouteTypeOK, At, Starts, On, Over, Settled, Runs
  <1>4. RouteIsCurrent'
    BY DEF PortsAreOwn, NewIsOwn, RouteIsCurrent, Finish, RouteInv, RouteTypeOK, At, Starts, On, Over, Settled, Runs
  <1>5. RequestIsServed'
    BY DEF PortsAreOwn, NewIsOwn, RouteIsCurrent, RequestIsServed, Finish, RouteInv, RouteTypeOK, At, Starts, On, Over, Settled, Runs
  <1>6. DrainingRan'
    BY DEF Finish, RouteInv, RouteTypeOK, DrainingRan
  <1> QED  BY <1>1, <1>2, <1>3, <1>4, <1>5, <1>6 DEF RouteInv

LEMMA RouteStutters == RouteInv /\ UNCHANGED routeVars => RouteInv'
  BY DEF routeVars, RouteInv, RouteTypeOK, PortsAreOwn, NewIsOwn, RouteIsCurrent, DrainingRan, RequestIsServed,
         At, Starts, On, Over, Settled, Runs

LEMMA RouteStepInv == ~Native /\ RouteInv /\ [RouteNext]_routeVars => RouteInv'
  BY FreePortInv, StartInv, StartFailsInv, ProbeInv, AbandonInv, SwapInv, DrainedInv, DropRouteInv, DestroyInv,
     ListenInv, ExitInv, ArriveInv, DialInv, FinishInv, RouteStutters
     DEF RouteNext, ActorStep

\* The inductive invariant of the router's model, under Docker.
THEOREM RouteInvariance == ~Native => (RouteSpec => []RouteInv)
  <1> SUFFICES ASSUME ~Native PROVE RouteSpec => []RouteInv
    OBVIOUS
  <1>1. RouteInv /\ [RouteNext]_routeVars => RouteInv'
    BY RouteStepInv
  <1> QED  BY RouteInitInv, <1>1, PTL DEF RouteSpec

\* The types of the router's state (router.go, port.go, health.go).
THEOREM RouteTypeCorrect == ~Native => (RouteSpec => []RouteTypeOK)
  <1>1. RouteInv => RouteTypeOK
    BY DEF RouteInv
  <1> QED  BY <1>1, RouteInvariance, PTL

\* Under Docker a request that finds a route is answered in full by what was
\* live then, through swaps, failed deploys and restarts, unless that exits, is
\* destroyed, or its drain ends first (deploy.go:192-222, 227-248).
THEOREM DropsNothing == ~Native => (RouteSpec => []DeploysDropNothing)
  <1>1. RouteInv => DeploysDropNothing
    BY DEF RouteInv, RequestIsServed, DeploysDropNothing, Over
  <1> QED  BY <1>1, RouteInvariance, PTL

\* Under Docker a collision of ports never puts another instance behind the
\* route of an app that runs (port.go:13-15).
THEOREM RoutedPortIsOwn == ~Native => (RouteSpec => []CollisionsFail)
  <1>1. RouteInv => CollisionsFail
    <2> SUFFICES ASSUME RouteInv, NEW a \in Apps, table[a] # NoPort, current[a] # NoInstance, Runs(current[a])
                 PROVE  listener[table[a]] = current[a]
      BY DEF CollisionsFail
    <2>1. current[a] \in Instances /\ table[a] = instance[current[a]].port
      BY DEF RouteInv, RouteTypeOK, RouteIsCurrent
    <2> QED  BY <2>1 DEF RouteInv, PortsAreOwn
  <1> QED  BY <1>1, RouteInvariance, PTL
=============================================================================
