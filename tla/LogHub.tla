------------------------------- MODULE LogHub -------------------------------
(***************************************************************************)
(* The log of one app: internal/logs.  A sink holds a ring of recent lines *)
(* and the readers, each behind a bounded channel, and appends to a file   *)
(* that rotates.  The hub makes sinks, forgets them when the app is        *)
(* destroyed and closes them when the daemon stops; the files stay.       *)
(*                                                                         *)
(* A line is its number among the lines of its sink; a file has a length,  *)
(* in lines.  Each action runs under the lock the code takes, but a        *)
(* rotation, which a crash or another sink on the same files can come      *)
(* between, is a step per rename.                                          *)
(***************************************************************************)
EXTENDS Integers, Sequences

CONSTANTS
  Readers, Sinks,          \* Sinks: numbers from 1, used again when free
  RingSize, Buffer,        \* RingSize, subscriberBuffer
  RotateAt, KeepFiles,     \* in lines; rotateAt, keepFiles
  Tails,                   \* how many recent lines a reader asks for
  DiskFails,               \* whether a call on the disk may fail
  MaxLines, MaxEnds        \* bounds: lines printed, ends of the app or of the daemon

None     == 0   \* no sink
NoFile   == -1  \* nothing at a name; a sink whose file could not be opened
Shut     == -2  \* a file that was closed
Unlinked == -3  \* an open file that has no name any more

ASSUME SizesAssumption == {RingSize, Buffer, RotateAt, KeepFiles} \subseteq Nat \ {0}
ASSUME BoundsAssumption == MaxLines \in Nat /\ MaxEnds \in Nat
ASSUME NumbersAssumption == Sinks \subseteq Nat \ {None} /\ Tails \subseteq Nat

VARIABLES
  apps, hubClosed,       \* h.apps[app]; h.closed
  forgetting, closing,   \* the sink Forget is about to close and remove; those Close is to
  holders,               \* the sinks that collectors append to
  closed, fd, size,      \* per sink: closed; the name of file.f; file.size
  buf, next, n,          \* per sink: the ring
  count,                 \* per sink: the lines appended
  rotating,              \* per sink: the name the next rename of rotate moves to
  disk,                  \* the length of the file at path (0) and path.i
  reader,                \* per reader: where it is, its sink, its subscriber
  printed, ends

hubVars    == <<apps, hubClosed, forgetting, closing, holders>>
ringVars   == <<buf, next, n, count>>
fileVars   == <<fd, size, rotating, disk>>
boundVars  == <<printed, ends>>
vars == <<hubVars, closed, ringVars, fileVars, reader, boundVars>>

Names   == 0 .. KeepFiles
Opening == KeepFiles + 1

NoReader == [pc |-> "none", sink |-> None, ch |-> <<>>, cap |-> 0, dropped |-> 0, told |-> 0]

\* What an entry of a channel stands for: a line, or n that were dropped.  upto
\* is the last of them; what a marker tells the reader is n alone.
Line(k)       == [kind |-> "line", n |-> 1, upto |-> k]
Dropped(m, k) == [kind |-> "dropped", n |-> m, upto |-> k]

Empty ==
  /\ apps = None /\ hubClosed = FALSE /\ forgetting = None /\ closing = {} /\ holders = {}
  /\ closed = [s \in Sinks |-> FALSE]
  /\ fd = [s \in Sinks |-> NoFile] /\ size = [s \in Sinks |-> 0] /\ rotating = [s \in Sinks |-> 0]
  /\ buf = [s \in Sinks |-> [i \in 0 .. RingSize - 1 |-> 0]]
  /\ next = [s \in Sinks |-> 0] /\ n = [s \in Sinks |-> 0] /\ count = [s \in Sinks |-> 0]
  /\ reader = [r \in Readers |-> NoReader]

Init ==
  /\ Empty
  /\ disk = [i \in Names |-> NoFile]
  /\ printed = 0 /\ ends = 0

-----------------------------------------------------------------------------
(* The file *)

\* open: the file at path, or a new one.
Open(s) ==
  /\ fd' = [fd EXCEPT ![s] = 0]
  /\ size' = [size EXCEPT ![s] = IF disk[0] = NoFile THEN 0 ELSE disk[0]]
  /\ disk' = [disk EXCEPT ![0] = IF @ = NoFile THEN 0 ELSE @]

\* WriteLine, when it rotates.  A file once closed by a failed rotation keeps
\* its size, and so comes here for ever.
MustRotate(s) == fd[s] # NoFile /\ size[s] > 0 /\ size[s] + 1 > RotateAt

\* WriteLine, when it does not.
Write(s) ==
  \/ /\ fd[s] # NoFile
     /\ disk' = IF fd[s] \in Names THEN [disk EXCEPT ![fd[s]] = @ + 1] ELSE disk
     /\ size' = [size EXCEPT ![s] = @ + 1]
  \/ /\ fd[s] = NoFile \/ DiskFails
     /\ UNCHANGED <<disk, size>>

-----------------------------------------------------------------------------
(* The ring and the readers *)

\* push
Push(s, k) ==
  /\ buf' = [buf EXCEPT ![s][next[s]] = k]
  /\ next' = [next EXCEPT ![s] = (@ + 1) % RingSize]
  /\ n' = [n EXCEPT ![s] = IF @ < RingSize THEN @ + 1 ELSE @]

\* last: up to k lines, oldest first.  Mutant: from the oldest it holds.
LastFromOldest(s, k) ==
  LET m     == IF k > n[s] THEN n[s] ELSE k
      start == (next[s] - n[s] + RingSize) % RingSize
  IN [i \in 1 .. m |-> buf[s][(start + i - 1) % RingSize]]

LastOf(s, k) ==
  LET m     == IF k > n[s] THEN n[s] ELSE k
      start == (next[s] - m + RingSize) % RingSize
  IN [i \in 1 .. m |-> buf[s][(start + i - 1) % RingSize]]

HasRoom(sub) == Len(sub.ch) < sub.cap

Put(sub, k) ==
  IF HasRoom(sub) THEN [sub EXCEPT !.ch = Append(@, Line(k))] ELSE [sub EXCEPT !.dropped = @ + 1]

\* send: the marker first, if lines were dropped.  Mutant: a marker that got
\* through is enough.
SendMarked(sub, k) ==
  IF sub.dropped = 0 THEN Put(sub, k)
  ELSE IF HasRoom(sub) THEN [sub EXCEPT !.ch = Append(@, Dropped(sub.dropped, k - 1)), !.dropped = 0]
  ELSE [sub EXCEPT !.dropped = @ + 1]

Send(sub, k) ==
  IF sub.dropped = 0 THEN Put(sub, k)
  ELSE IF HasRoom(sub)
  THEN Put([sub EXCEPT !.ch = Append(@, Dropped(sub.dropped, k - 1)), !.dropped = 0], k)
  ELSE [sub EXCEPT !.dropped = @ + 1]

\* The rest of Append: ring and readers.
Deliver(s) ==
  /\ Push(s, count[s] + 1)
  /\ count' = [count EXCEPT ![s] = @ + 1]
  /\ reader' = [r \in Readers |->
       IF reader[r].pc = "subscribed" /\ reader[r].sink = s
       THEN Send(reader[r], count[s] + 1) ELSE reader[r]]
  /\ printed' = printed + 1

-----------------------------------------------------------------------------
(* The sink *)

\* The sink's lock is free.
Free(s) == rotating[s] = 0

\* Append by a collector that holds the sink.  A closed sink discards.
MayAppend(s) == s \in holders /\ ~closed[s] /\ Free(s) /\ printed < MaxLines

AppendLine(s) ==
  /\ MayAppend(s)
  /\ ~MustRotate(s)
  /\ Write(s)
  /\ Deliver(s)
  /\ UNCHANGED <<hubVars, closed, fd, rotating, ends>>

\* The file was closed by a rotation that failed: the line is not written.
AppendUnwritten(s) ==
  /\ MayAppend(s)
  /\ MustRotate(s) /\ fd[s] = Shut
  /\ Deliver(s)
  /\ UNCHANGED <<hubVars, closed, fileVars, ends>>

\* rotate closes the file, then renames from the oldest down.
AppendRotates(s) ==
  /\ MayAppend(s)
  /\ MustRotate(s) /\ fd[s] # Shut
  /\ fd' = [fd EXCEPT ![s] = Shut]
  /\ rotating' = [rotating EXCEPT ![s] = KeepFiles]
  /\ UNCHANGED <<hubVars, closed, ringVars, size, disk, reader, boundVars>>

\* The file at one name moves to the next, with whoever has it open; a name
\* without a file is skipped.  Mutant: only the current file moves.
Stay(i) == UNCHANGED <<disk, fd>>

Move(i) ==
  IF disk[i - 1] = NoFile THEN UNCHANGED <<disk, fd>>
  ELSE /\ disk' = [disk EXCEPT ![i] = disk[i - 1], ![i - 1] = NoFile]
       /\ fd' = [s \in Sinks |-> IF fd[s] = i - 1 THEN i ELSE IF fd[s] = i THEN Unlinked ELSE fd[s]]

Shift(i) == Move(i)

Rename(s) ==
  /\ rotating[s] \in 2 .. KeepFiles
  /\ Shift(rotating[s])
  /\ rotating' = [rotating EXCEPT ![s] = @ - 1]
  /\ UNCHANGED <<hubVars, closed, ringVars, size, reader, boundVars>>

RenameCurrent(s) ==
  /\ rotating[s] = 1
  /\ disk[0] # NoFile
  /\ Move(1)
  /\ rotating' = [rotating EXCEPT ![s] = Opening]
  /\ UNCHANGED <<hubVars, closed, ringVars, size, reader, boundVars>>

\* The new file, and the line that was waiting for it.
Reopen(s) ==
  /\ rotating[s] = Opening
  /\ \E written \in IF DiskFails THEN {0, 1} ELSE {1} :
       LET length == (IF disk[0] = NoFile THEN 0 ELSE disk[0]) + written
       IN  disk' = [disk EXCEPT ![0] = length] /\ size' = [size EXCEPT ![s] = length]
  /\ fd' = [fd EXCEPT ![s] = 0]
  /\ rotating' = [rotating EXCEPT ![s] = 0]
  /\ Deliver(s)
  /\ UNCHANGED <<hubVars, closed, ends>>

\* rotate returns an error, which it always does when there is nothing at path;
\* the line is not written, and the file stays shut.
FailRotation(s) ==
  /\ ~Free(s)
  /\ DiskFails \/ (rotating[s] = 1 /\ disk[0] = NoFile)
  /\ rotating' = [rotating EXCEPT ![s] = 0]
  /\ Deliver(s)
  /\ UNCHANGED <<hubVars, closed, fd, size, disk, ends>>

\* close: the readers end with the sink.
CloseSink(s) ==
  /\ Free(s)
  /\ closed' = [closed EXCEPT ![s] = TRUE]
  /\ fd' = [fd EXCEPT ![s] = IF @ = NoFile THEN NoFile ELSE Shut]
  /\ reader' = [r \in Readers |->
       IF reader[r].pc = "subscribed" /\ reader[r].sink = s
       THEN [reader[r] EXCEPT !.pc = "ended"] ELSE reader[r]]
  /\ UNCHANGED <<ringVars, size, rotating, disk, boundVars>>

-----------------------------------------------------------------------------
(* The hub *)

\* A sink that nothing refers to any more can stand for a new one.
Unused   == Sinks \ ({apps, forgetting} \cup closing \cup holders \cup {reader[r].sink : r \in Readers})
Fresh(s) == s \in Unused /\ \A q \in Unused : s <= q

\* Sink: the app's, or a new one.  One that is made after Close is closed and
\* not kept.
Sink(s) ==
  \/ /\ apps = s
     /\ UNCHANGED <<apps, closed, ringVars, fileVars>>
  \/ /\ apps = None
     /\ Fresh(s)
     /\ buf' = [buf EXCEPT ![s] = [i \in 0 .. RingSize - 1 |-> 0]]
     /\ next' = [next EXCEPT ![s] = 0] /\ n' = [n EXCEPT ![s] = 0] /\ count' = [count EXCEPT ![s] = 0]
     /\ UNCHANGED rotating
     /\ closed' = [closed EXCEPT ![s] = hubClosed]
     /\ apps' = IF hubClosed THEN None ELSE s
     /\ \/ ~hubClosed /\ Open(s)
        \/ /\ hubClosed \/ DiskFails
           /\ fd' = [fd EXCEPT ![s] = NoFile] /\ size' = [size EXCEPT ![s] = 0]
           /\ UNCHANGED disk

\* Collect begins.
Collect(s) ==
  /\ Sink(s)
  /\ holders' = holders \cup {s}
  /\ UNCHANGED <<hubClosed, forgetting, closing, reader, boundVars>>

\* The last collector of a sink ends with its instance.
CollectEnds(s) ==
  /\ s \in holders /\ Free(s)
  /\ holders' = holders \ {s}
  /\ UNCHANGED <<apps, hubClosed, forgetting, closing, closed, ringVars, fileVars, reader, boundVars>>

\* Hub.Subscribe gets the sink, Sink.Subscribe the channel with the tail.
Subscribe(r, s) ==
  /\ reader[r].pc = "none"
  /\ Sink(s)
  /\ reader' = [reader EXCEPT ![r] = [NoReader EXCEPT !.pc = "given", !.sink = s]]
  /\ UNCHANGED <<hubClosed, forgetting, closing, holders, boundVars>>

\* Where a new subscriber stands.  Mutant: on a closed sink, too, it is kept.
KeptAnyway(s) == "subscribed"

Standing(s) == IF closed[s] THEN "ended" ELSE "subscribed"

SubscribeTail(r, tail) ==
  LET s == reader[r].sink
      preload == LastOf(s, tail)
  IN  /\ reader[r].pc = "given"
      /\ Free(s)
      /\ reader' = [reader EXCEPT ![r] =
           [pc |-> Standing(s), sink |-> s, cap |-> Len(preload) + Buffer, dropped |-> 0,
            ch |-> [i \in DOMAIN preload |-> Line(preload[i])],
            told |-> count[s] - Len(preload)]]
      /\ UNCHANGED <<hubVars, closed, ringVars, fileVars, boundVars>>

\* The reader takes from its channel.  told: the lines it was told of so far.
Read(r) ==
  /\ reader[r].ch # <<>>
  /\ reader' = [reader EXCEPT ![r].ch = Tail(@), ![r].told = @ + Head(reader[r].ch).n]
  /\ UNCHANGED <<hubVars, closed, ringVars, fileVars, boundVars>>

\* cancel, by a reader that goes or whose channel has ended; and the end of a
\* Tail, which only gets the sink.
Leave(r) ==
  /\ reader[r].pc # "none"
  /\ reader[r].pc = "subscribed" => Free(reader[r].sink)
  /\ reader' = [reader EXCEPT ![r] = NoReader]
  /\ UNCHANGED <<hubVars, closed, ringVars, fileVars, boundVars>>

\* Forget: the sink leaves the hub, is closed, and its directory removed.
Forget ==
  /\ apps # None /\ forgetting = None
  /\ ends < MaxEnds /\ ends' = ends + 1
  /\ forgetting' = apps /\ apps' = None
  /\ UNCHANGED <<hubClosed, closing, holders, closed, ringVars, fileVars, reader, printed>>

ForgetCloses ==
  /\ forgetting # None /\ ~closed[forgetting]
  /\ CloseSink(forgetting)
  /\ UNCHANGED hubVars

ForgetRemoves ==
  /\ forgetting # None /\ closed[forgetting]
  /\ forgetting' = None
  /\ disk' = [i \in Names |-> NoFile]
  /\ fd' = [s \in Sinks |-> IF fd[s] \in Names THEN Unlinked ELSE fd[s]]
  /\ UNCHANGED <<apps, hubClosed, closing, holders, closed, ringVars, size, rotating, reader, boundVars>>

\* Close: no file is opened from here on, and the sinks are closed one by one.
Close ==
  /\ ~hubClosed
  /\ hubClosed' = TRUE
  /\ closing' = {apps} \ {None}
  /\ UNCHANGED <<apps, forgetting, holders, closed, ringVars, fileVars, reader, boundVars>>

CloseNext(s) ==
  /\ s \in closing
  /\ CloseSink(s)
  /\ closing' = closing \ {s}
  /\ UNCHANGED <<apps, hubClosed, forgetting, holders>>

\* The daemon ends, after Close or by a crash, and starts again.
Restart ==
  /\ ends < MaxEnds
  /\ ends' = ends + 1
  /\ apps' = None /\ hubClosed' = FALSE /\ forgetting' = None /\ closing' = {} /\ holders' = {}
  /\ closed' = [s \in Sinks |-> FALSE]
  /\ fd' = [s \in Sinks |-> NoFile] /\ size' = [s \in Sinks |-> 0] /\ rotating' = [s \in Sinks |-> 0]
  /\ buf' = [s \in Sinks |-> [i \in 0 .. RingSize - 1 |-> 0]]
  /\ next' = [s \in Sinks |-> 0] /\ n' = [s \in Sinks |-> 0] /\ count' = [s \in Sinks |-> 0]
  /\ reader' = [r \in Readers |-> NoReader]
  /\ UNCHANGED <<disk, printed>>

Next ==
  \/ \E s \in Sinks :
       \/ AppendLine(s) \/ AppendUnwritten(s)
       \/ AppendRotates(s) \/ Rename(s) \/ RenameCurrent(s) \/ Reopen(s) \/ FailRotation(s)
       \/ Collect(s) \/ CollectEnds(s) \/ CloseNext(s)
       \/ \E r \in Readers : Subscribe(r, s)
  \/ \E r \in Readers, tail \in Tails : SubscribeTail(r, tail)
  \/ \E r \in Readers : Read(r) \/ Leave(r)
  \/ Forget \/ ForgetCloses \/ ForgetRemoves
  \/ Close \/ Restart

Spec == Init /\ [][Next]_vars

-----------------------------------------------------------------------------
(* Properties *)

Entries == [kind: {"line", "dropped"}, n: Nat, upto: Nat]

Subscribers ==
  [pc: {"none", "given", "subscribed", "ended"}, sink: Sinks \cup {None},
   ch: Seq(Entries), cap: Nat, dropped: Nat, told: Nat]

\* The type invariant.
TypeOK ==
  /\ {apps, forgetting} \subseteq Sinks \cup {None} /\ hubClosed \in BOOLEAN
  /\ closing \subseteq Sinks /\ holders \subseteq Sinks
  /\ closed \in [Sinks -> BOOLEAN] /\ fd \in [Sinks -> Names \cup {NoFile, Shut, Unlinked}]
  /\ size \in [Sinks -> Nat] /\ rotating \in [Sinks -> 0 .. Opening]
  /\ buf \in [Sinks -> [0 .. RingSize - 1 -> Nat]]
  /\ next \in [Sinks -> 0 .. RingSize - 1] /\ n \in [Sinks -> 0 .. RingSize]
  /\ count \in [Sinks -> Nat]
  /\ disk \in [Names -> Nat \cup {NoFile}]
  /\ reader \in [Readers -> Subscribers]
  /\ printed \in Nat /\ ends \in 0 .. MaxEnds

Reading == {r \in Readers : reader[r].pc \in {"subscribed", "ended"}}

\* A reader loses no line without being told: what was appended since it
\* subscribed, and every line of its tail, is what it has read, then, entry by
\* entry and without a gap, what its channel has or counts, then what the next
\* marker will count (logs.go:239-242 "a reader that lets it fill loses lines and
\* then receives one StreamSystem line saying how many").
NothingIsMissed ==
  \A r \in Reading :
    LET sub     == reader[r]
        Upto(i) == IF i = 0 THEN sub.told ELSE sub.ch[i].upto
    IN /\ \A i \in DOMAIN sub.ch : sub.ch[i].upto = Upto(i - 1) + sub.ch[i].n
       /\ Upto(Len(sub.ch)) + sub.dropped = count[sub.sink]

\* Whatever the ring has wrapped around, last returns the newest lines in the
\* order they came.
LastIsNewest ==
  \A s \in Sinks, k \in 0 .. RingSize :
    LastOf(s, k) = LET m == IF k > count[s] THEN count[s] ELSE k
                   IN  [i \in 1 .. m |-> count[s] - m + i]

\* Nobody follows a sink that no line will come to: a reader whose channel is
\* open reads the app's sink, or one that Forget is about to close
\* (api/logs.go:18-21 "lines keep coming until the client goes away or the app
\* is destroyed").
NoReaderIsLeft ==
  \A r \in Readers : reader[r].pc = "subscribed" =>
    ~closed[reader[r].sink] /\ reader[r].sink \in {apps, forgetting}

Lengths == [i \in Names |-> IF disk[i] = NoFile THEN 0 ELSE disk[i]]

Total(f) == LET upto[i \in Names] == IF i = 0 THEN f[0] ELSE upto[i - 1] + f[i]
            IN  upto[KeepFiles]

Recorded == Total(Lengths)

\* A rotation, however far it gets before it fails or the daemon dies, loses the
\* lines of the oldest file and no other.
OnlyTheOldestIsLost ==
  [][forgetting = None => Recorded' >= Recorded - Lengths[KeepFiles]]_vars

\* README.md:145-147 "appends it to data/logs/<app>/current.log".  On a disk that
\* does not fail, the app's sink writes to the file of that name.
RecordIsOnDisk ==
  ~DiskFails /\ apps # None /\ forgetting = None /\ Free(apps) /\ ~closed[apps] => fd[apps] = 0

=============================================================================
