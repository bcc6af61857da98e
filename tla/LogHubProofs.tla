---------------------------- MODULE LogHubProofs ----------------------------
(***************************************************************************)
(* LogHub's properties, for any number of readers, sinks and files and     *)
(* every size: its types, what the ring holds, that a reader is told of    *)
(* every line it lost, that none is left on a sink that is dead, and what  *)
(* a rotation may lose.                                                    *)
(***************************************************************************)
EXTENDS LogHub, WellFoundedInduction, TLAPS

\* Around the ring, once.
LEMMA ModOnce ==
  ASSUME NEW x \in 0 .. 2 * RingSize - 1
  PROVE  x % RingSize = IF x < RingSize THEN x ELSE x - RingSize
<1>. RingSize \in Nat \ {0}
  BY SizesAssumption
<1>1. ASSUME NEW y \in 0 .. RingSize - 1 PROVE y % RingSize = y
  OBVIOUS
<1>2. ASSUME NEW y \in RingSize .. 2 * RingSize - 1 PROVE y % RingSize = y - RingSize
  OBVIOUS
<1>. QED
  BY <1>1, <1>2

-----------------------------------------------------------------------------
(* The invariant *)

\* The slot that was written d lines ago.
Back(s, d) == IF next[s] >= d THEN next[s] - d ELSE next[s] - d + RingSize

\* The ring holds the last lines, as many as fit.
RingInv ==
  \A s \in Sinks :
    /\ n[s] <= count[s] /\ (n[s] < RingSize => n[s] = count[s])
    /\ \A d \in 1 .. n[s] : buf[s][Back(s, d)] = count[s] - d + 1

\* A collector that rotates a file keeps its sink, and keeps it open.
RotatingInv == \A s \in Sinks : rotating[s] # 0 => s \in holders /\ ~closed[s]

\* Where a reader stands, by what became of its sink: one that is not closed is
\* the app's, or was until Forget took it.
Placed(sub) ==
  /\ sub.pc # "none" => sub.sink \in Sinks
  /\ sub.pc # "none" /\ ~closed[sub.sink] => sub.sink \in {apps, forgetting}
  /\ sub.pc = "subscribed" => ~closed[sub.sink]
  /\ sub.pc = "ended" => closed[sub.sink]

\* What a subscriber was told, has in its channel and has missed, up to line c.
Balanced(sub, c) ==
  LET Upto(i) == IF i = 0 THEN sub.told ELSE sub.ch[i].upto
  IN /\ \A i \in DOMAIN sub.ch : sub.ch[i].upto = Upto(i - 1) + sub.ch[i].n
     /\ Upto(Len(sub.ch)) + sub.dropped = c

ReaderInv ==
  \A r \in Readers :
    /\ Placed(reader[r])
    /\ r \in Reading => Balanced(reader[r], count[reader[r].sink])

Inv == TypeOK /\ RingInv /\ RotatingInv /\ ReaderInv

-----------------------------------------------------------------------------
(* The helpers *)

\* last returns the newest lines, oldest first.
LEMMA LastNewest ==
  ASSUME TypeOK, RingInv, NEW s \in Sinks, NEW k \in Nat
  PROVE  LET m == IF k > n[s] THEN n[s] ELSE k
         IN  LastOf(s, k) = [i \in 1 .. m |-> count[s] - m + i]
<1> DEFINE m == IF k > n[s] THEN n[s] ELSE k
           start == (next[s] - m + RingSize) % RingSize
<1>1. /\ RingSize \in Nat \ {0} /\ next[s] \in 0 .. RingSize - 1 /\ n[s] \in 0 .. RingSize
      /\ m \in 0 .. n[s] /\ count[s] \in Nat
  <2>1. /\ RingSize \in Nat \ {0} /\ next[s] \in 0 .. RingSize - 1 /\ n[s] \in 0 .. RingSize
        /\ count[s] \in Nat
    BY SizesAssumption DEF TypeOK
  <2>. QED
    BY <2>1
<1>. SUFFICES ASSUME NEW i \in 1 .. m
              PROVE  buf[s][(start + i - 1) % RingSize] = count[s] - m + i
  BY DEF LastOf
<1> DEFINE d == m - i + 1
<1>2. d \in 1 .. n[s] /\ buf[s][Back(s, d)] = count[s] - m + i
  BY <1>1 DEF RingInv
<1>3. start = IF next[s] >= m THEN next[s] - m ELSE next[s] - m + RingSize
  <2>1. next[s] - m + RingSize \in 0 .. 2 * RingSize - 1
    BY <1>1
  <2>. HIDE DEF m
  <2>. QED
    BY <1>1, <2>1, ModOnce
<1>4. (start + i - 1) % RingSize = Back(s, d)
  <2> DEFINE x == start + i - 1
  <2>1. x \in 0 .. 2 * RingSize - 1
    BY <1>1, <1>3
  <2>2. x % RingSize = IF x < RingSize THEN x ELSE x - RingSize
    <3>. HIDE DEF x
    <3>. QED
      BY <2>1, ModOnce
  <2>. HIDE DEF start, m
  <2>3. CASE next[s] >= m
    BY <1>1, <1>3, <2>2, <2>3 DEF Back
  <2>4. CASE ~(next[s] >= m)
    BY <1>1, <1>3, <2>2, <2>4 DEF Back
  <2>. QED
    BY <2>3, <2>4
<1>. QED
  BY <1>2, <1>4

\* An entry goes to the end of a channel, and what it stands for off the next
\* marker's count.
LEMMA AppendBalances ==
  ASSUME NEW sub, NEW new, NEW c \in Nat, NEW e \in Entries,
         sub.ch \in Seq(Entries), sub.told \in Nat, sub.dropped \in Nat, Balanced(sub, c),
         new.ch = Append(sub.ch, e), new.told = sub.told, new.dropped = 0,
         e.upto = e.n + (c - sub.dropped)
  PROVE  Balanced(new, e.upto)
<1> DEFINE Old(i) == IF i = 0 THEN sub.told ELSE sub.ch[i].upto
           Upto(i) == IF i = 0 THEN new.told ELSE new.ch[i].upto
           l == Len(sub.ch)
<1>1. /\ l \in Nat /\ Len(new.ch) = l + 1 /\ DOMAIN sub.ch = 1 .. l /\ DOMAIN new.ch = 1 .. l + 1
      /\ new.ch[l + 1] = e /\ \A i \in 1 .. l : new.ch[i] = sub.ch[i]
  OBVIOUS
<1>2. /\ \A i \in 1 .. l : sub.ch[i].upto = Old(i - 1) + sub.ch[i].n
      /\ Old(l) + sub.dropped = c
  BY <1>1 DEF Balanced
<1>3. \A i \in 0 .. l : Upto(i) = Old(i)
  BY <1>1
<1>4. Old(l) \in Nat /\ e.upto \in Nat /\ e.n \in Nat
  <2>1. \A i \in 1 .. l : sub.ch[i] \in Entries
    BY <1>1
  <2>2. \A x \in Entries : x.upto \in Nat /\ x.n \in Nat
    BY DEF Entries
  <2>. QED
    BY <1>1, <2>1, <2>2
<1>5. Upto(l + 1) = e.upto /\ e.upto = Upto(l) + e.n
  <2>1. l + 1 # 0 /\ l \in 0 .. l /\ c - sub.dropped = Old(l)
    <3>. HIDE DEF l, Old
    <3>. QED
      BY <1>1, <1>2, <1>4
  <2>2. Upto(l) = Old(l) /\ e.upto = e.n + Old(l)
    BY <1>3, <2>1
  <2>3. Upto(l + 1) = e.upto
    BY <1>1, <2>1
  <2>. HIDE DEF l, Old, Upto
  <2>. QED
    BY <1>4, <2>2, <2>3
<1>6. \A i \in 1 .. l + 1 : new.ch[i].upto = Upto(i - 1) + new.ch[i].n
  BY <1>1, <1>2, <1>3, <1>5
<1>7. Upto(Len(new.ch)) + new.dropped = e.upto
  <2>. HIDE DEF l, Upto
  <2>. QED
    BY <1>1, <1>4, <1>5
<1>. QED
  BY <1>1, <1>6, <1>7 DEF Balanced

LEMMA DropBalances ==
  ASSUME NEW sub, NEW new, NEW c \in Nat,
         sub.ch \in Seq(Entries), sub.told \in Nat, sub.dropped \in Nat, Balanced(sub, c),
         new.ch = sub.ch, new.told = sub.told, new.dropped = sub.dropped + 1
  PROVE  Balanced(new, c + 1)
<1> DEFINE Upto(i) == IF i = 0 THEN sub.told ELSE sub.ch[i].upto
           l == Len(sub.ch)
<1>1. Upto(l) \in Nat
  <2>1. l \in Nat /\ DOMAIN sub.ch = 1 .. l /\ \A i \in 1 .. l : sub.ch[i] \in Entries
    OBVIOUS
  <2>2. \A x \in Entries : x.upto \in Nat
    BY DEF Entries
  <2>. QED
    BY <2>1, <2>2
<1>2. Upto(l) + new.dropped = c + 1
  <2>1. Upto(l) + sub.dropped = c
    BY DEF Balanced
  <2>. HIDE DEF l, Upto
  <2>. QED
    BY <1>1, <2>1
<1>. QED
  BY <1>2 DEF Balanced
LEMMA PutBalances ==
  ASSUME NEW sub \in Subscribers, NEW c \in Nat, sub.dropped = 0, Balanced(sub, c)
  PROVE  LET new == Put(sub, c + 1) IN
         new \in Subscribers /\ new.pc = sub.pc /\ new.sink = sub.sink /\ Balanced(new, c + 1)
<1> DEFINE e == Line(c + 1)
           kept == [sub EXCEPT !.ch = Append(@, e)]
           missed == [sub EXCEPT !.dropped = @ + 1]
<1>1. e \in Entries /\ e.n = 1 /\ e.upto = c + 1
  BY DEF Line, Entries
<1>2. sub.ch \in Seq(Entries) /\ sub.told \in Nat /\ sub.dropped \in Nat
  BY DEF Subscribers
<1>3. kept \in Subscribers /\ kept.pc = sub.pc /\ kept.sink = sub.sink
      /\ kept.ch = Append(sub.ch, e) /\ kept.told = sub.told /\ kept.dropped = 0
  <2>1. Append(sub.ch, e) \in Seq(Entries)
    BY <1>1, <1>2
  <2>. HIDE DEF e
  <2>. QED
    BY <2>1 DEF Subscribers
<1>4. Balanced(kept, c + 1)
  <2>. HIDE DEF e, kept
  <2>1. e.upto = e.n + (c - sub.dropped)
    BY <1>1
  <2>2. Balanced(kept, e.upto)
    BY <1>1, <1>2, <1>3, <2>1, AppendBalances
  <2>. QED
    BY <1>1, <2>2
<1>5. missed \in Subscribers /\ missed.pc = sub.pc /\ missed.sink = sub.sink
      /\ missed.ch = sub.ch /\ missed.told = sub.told /\ missed.dropped = sub.dropped + 1
  BY DEF Subscribers
<1>6. Balanced(missed, c + 1)
  <2>. HIDE DEF missed
  <2>. QED
    BY <1>2, <1>5, DropBalances
<1>. QED
  BY <1>3, <1>4, <1>5, <1>6 DEF Put

\* send: the balance goes on with the next line, marker or not.
LEMMA SendBalances ==
  ASSUME NEW sub \in Subscribers, NEW c \in Nat, Balanced(sub, c)
  PROVE  LET new == Send(sub, c + 1) IN
         new \in Subscribers /\ new.pc = sub.pc /\ new.sink = sub.sink /\ Balanced(new, c + 1)
<1> DEFINE e == Dropped(sub.dropped, (c + 1) - 1)
           marked == [sub EXCEPT !.ch = Append(@, e), !.dropped = 0]
           missed == [sub EXCEPT !.dropped = @ + 1]
<1>1. sub.ch \in Seq(Entries) /\ sub.told \in Nat /\ sub.dropped \in Nat
  BY DEF Subscribers
<1>2. e \in Entries /\ e.n = sub.dropped /\ e.upto = c
  BY <1>1 DEF Dropped, Entries
<1>3. marked \in Subscribers /\ marked.pc = sub.pc /\ marked.sink = sub.sink
      /\ marked.ch = Append(sub.ch, e) /\ marked.told = sub.told /\ marked.dropped = 0
  <2>1. Append(sub.ch, e) \in Seq(Entries)
    BY <1>1, <1>2
  <2>. HIDE DEF e
  <2>. QED
    BY <2>1 DEF Subscribers
<1>4. Balanced(marked, c)
  <2>. HIDE DEF e, marked
  <2>1. e.upto = e.n + (c - sub.dropped)
    BY <1>1, <1>2
  <2>2. Balanced(marked, e.upto)
    BY <1>1, <1>2, <1>3, <2>1, AppendBalances
  <2>. QED
    BY <1>2, <2>2
<1>5. missed \in Subscribers /\ missed.pc = sub.pc /\ missed.sink = sub.sink
      /\ missed.ch = sub.ch /\ missed.told = sub.told /\ missed.dropped = sub.dropped + 1
  BY DEF Subscribers
<1>6. Balanced(missed, c + 1)
  <2>. HIDE DEF missed
  <2>. QED
    BY <1>1, <1>5, DropBalances
<1>7. CASE sub.dropped = 0
  BY <1>7, PutBalances DEF Send
<1>8. CASE sub.dropped # 0 /\ HasRoom(sub)
  <2>1. Send(sub, c + 1) = Put(marked, c + 1)
    BY <1>8 DEF Send
  <2>. HIDE DEF marked
  <2>. QED
    BY <1>3, <1>4, <2>1, PutBalances
<1>9. CASE sub.dropped # 0 /\ ~HasRoom(sub)
  <2>1. Send(sub, c + 1) = missed
    BY <1>9 DEF Send
  <2>. HIDE DEF missed
  <2>. QED
    BY <1>5, <1>6, <2>1
<1>. QED
  BY <1>7, <1>8, <1>9

\* Subscribe: the balance begins with the tail.
LEMMA TailBalances ==
  ASSUME TypeOK, RingInv, NEW s \in Sinks, NEW tail \in Tails, NEW pc \in {"subscribed", "ended"}
  PROVE  LET preload == LastOf(s, tail)
             new == [pc |-> pc, sink |-> s, cap |-> Len(preload) + Buffer, dropped |-> 0,
                     ch |-> [i \in DOMAIN preload |-> Line(preload[i])],
                     told |-> count[s] - Len(preload)]
         IN  new \in Subscribers /\ Balanced(new, count[s])
<1> DEFINE m == IF tail > n[s] THEN n[s] ELSE tail
           c == count[s]
           tailLines == [i \in 1 .. m |-> c - m + i]
           ch == [i \in 1 .. m |-> Line(c - m + i)]
           new == [pc |-> pc, sink |-> s, cap |-> m + Buffer, dropped |-> 0, ch |-> ch, told |-> c - m]
<1>1. tail \in Nat /\ Buffer \in Nat
  BY SizesAssumption, NumbersAssumption
<1>2. LastOf(s, tail) = tailLines
  BY <1>1, LastNewest
<1>3. m \in Nat /\ c \in Nat /\ m <= c
  <2>1. n[s] \in 0 .. RingSize /\ c \in Nat /\ n[s] <= c /\ RingSize \in Nat
    BY SizesAssumption DEF TypeOK, RingInv
  <2>. QED
    BY <1>1, <2>1
<1>. HIDE DEF m, c
<1>4. Len(tailLines) = m /\ DOMAIN tailLines = 1 .. m
  BY <1>3
<1>5. [i \in 1 .. m |-> Line(tailLines[i])] = ch
  OBVIOUS
<1>6. /\ \A i \in 1 .. m : ch[i] = [kind |-> "line", n |-> 1, upto |-> c - m + i]
      /\ ch \in Seq(Entries) /\ Len(ch) = m /\ DOMAIN ch = 1 .. m
  <2>1. \A i \in 1 .. m : ch[i] = [kind |-> "line", n |-> 1, upto |-> c - m + i] /\ ch[i] \in Entries
    BY <1>3 DEF Line, Entries
  <2>2. ch \in [1 .. m -> Entries]
    BY <2>1
  <2>. HIDE DEF ch
  <2>. QED
    BY <1>3, <2>1, <2>2
<1>. HIDE DEF ch, tailLines
<1>7. new \in Subscribers
  BY <1>1, <1>3, <1>6 DEF Subscribers
<1>8. Balanced(new, c)
  <2>1. \A i \in 1 .. m : new.ch[i].upto = c - m + i /\ new.ch[i].n = 1
    BY <1>6
  <2>. QED
    BY <1>3, <1>6, <2>1 DEF Balanced
<1>. QED
  BY <1>2, <1>4, <1>5, <1>7, <1>8 DEF c, m, ch, tailLines
-----------------------------------------------------------------------------
(* What several actions do *)

\* A line comes to a sink that is open: its ring, and those who subscribed.
LEMMA DeliverInv ==
  ASSUME Inv, NEW s \in Sinks, ~closed[s], Deliver(s), UNCHANGED <<apps, forgetting, closed>>
  PROVE  /\ buf' \in [Sinks -> [0 .. RingSize - 1 -> Nat]] /\ next' \in [Sinks -> 0 .. RingSize - 1]
         /\ n' \in [Sinks -> 0 .. RingSize] /\ count' \in [Sinks -> Nat] /\ printed' \in Nat
         /\ reader' \in [Readers -> Subscribers]
         /\ RingInv' /\ ReaderInv'
<1>. USE DEF Inv
<1>1. /\ RingSize \in Nat \ {0} /\ buf \in [Sinks -> [0 .. RingSize - 1 -> Nat]]
      /\ next \in [Sinks -> 0 .. RingSize - 1] /\ n \in [Sinks -> 0 .. RingSize]
      /\ count \in [Sinks -> Nat] /\ printed \in Nat /\ reader \in [Readers -> Subscribers]
  BY SizesAssumption DEF TypeOK
<1>2. /\ buf' = [buf EXCEPT ![s] = [@ EXCEPT ![next[s]] = count[s] + 1]]
      /\ n' = [n EXCEPT ![s] = IF @ < RingSize THEN @ + 1 ELSE @]
      /\ count' = [count EXCEPT ![s] = @ + 1] /\ printed' = printed + 1
  BY DEF Deliver, Push
<1>3. next' = [next EXCEPT ![s] = IF @ + 1 < RingSize THEN @ + 1 ELSE 0]
  <2> DEFINE x == next[s] + 1
  <2>1. x \in 0 .. 2 * RingSize - 1 /\ x <= RingSize /\ RingSize \in Nat
    BY <1>1
  <2>2. x % RingSize = IF x < RingSize THEN x ELSE 0
    <3>. HIDE DEF x
    <3>1. x % RingSize = IF x < RingSize THEN x ELSE x - RingSize
      BY <2>1, ModOnce
    <3>. QED
      BY <2>1, <3>1
  <2>. QED
    BY <2>2 DEF Deliver, Push
<1>4. /\ buf' \in [Sinks -> [0 .. RingSize - 1 -> Nat]] /\ next' \in [Sinks -> 0 .. RingSize - 1]
      /\ n' \in [Sinks -> 0 .. RingSize] /\ count' \in [Sinks -> Nat] /\ printed' \in Nat
  <2>1. next' \in [Sinks -> 0 .. RingSize - 1]
    BY <1>1, <1>3
  <2>2. n' \in [Sinks -> 0 .. RingSize] /\ count' \in [Sinks -> Nat] /\ printed' \in Nat
    BY <1>1, <1>2
  <2>3. [buf[s] EXCEPT ![next[s]] = count[s] + 1] \in [0 .. RingSize - 1 -> Nat]
    BY <1>1
  <2>. QED
    BY <1>1, <1>2, <2>1, <2>2, <2>3
<1>5. RingInv'
  <2>. SUFFICES ASSUME NEW q \in Sinks
                PROVE  /\ n'[q] <= count'[q] /\ (n'[q] < RingSize => n'[q] = count'[q])
                       /\ \A d \in 1 .. n'[q] : buf'[q][Back(q, d)'] = count'[q] - d + 1
    BY DEF RingInv
  <2>1. CASE q # s
    BY <1>1, <1>2, <1>3, <2>1 DEF RingInv, Back
  <2>2. CASE q = s
    <3>1. /\ next'[s] = IF next[s] + 1 < RingSize THEN next[s] + 1 ELSE 0
          /\ n'[s] = IF n[s] < RingSize THEN n[s] + 1 ELSE n[s]
          /\ count'[s] = count[s] + 1
      BY <1>1, <1>2, <1>3
    <3>2. \A j \in 0 .. RingSize - 1 : buf'[s][j] = IF j = next[s] THEN count[s] + 1 ELSE buf[s][j]
      BY <1>1, <1>2
    <3>3. /\ n[s] <= count[s] /\ (n[s] < RingSize => n[s] = count[s])
          /\ \A d \in 1 .. n[s] : buf[s][Back(s, d)] = count[s] - d + 1
      BY DEF RingInv
    <3>4. /\ RingSize \in Nat \ {0} /\ next[s] \in 0 .. RingSize - 1 /\ n[s] \in 0 .. RingSize
          /\ count[s] \in Nat
      BY <1>1
    <3>5. ASSUME NEW d \in 1 .. n'[s] PROVE buf'[s][Back(s, d)'] = count'[s] - d + 1
      <4>1. CASE d = 1
        <5>1. Back(s, d)' = next[s]
          BY <3>1, <3>4, <4>1 DEF Back
        <5>. QED
          BY <3>1, <3>2, <3>4, <4>1, <5>1
      <4>2. CASE d # 1
        <5>1. d - 1 \in 1 .. n[s] /\ d - 1 < RingSize /\ d \in Int
          BY <3>1, <3>4, <4>2
        <5>2. Back(s, d)' = Back(s, d - 1)
          BY <3>1, <3>4, <5>1 DEF Back
        <5>3. Back(s, d - 1) \in 0 .. RingSize - 1 /\ Back(s, d - 1) # next[s]
          BY <3>4, <5>1 DEF Back
        <5>4. buf[s][Back(s, d - 1)] = count[s] - (d - 1) + 1
          BY <3>3, <5>1
        <5>. QED
          BY <3>1, <3>2, <3>4, <5>1, <5>2, <5>3, <5>4
      <4>. QED
        BY <4>1, <4>2
    <3>. QED
      BY <1>1, <2>2, <3>1, <3>3, <3>5
  <2>. QED
    BY <2>1, <2>2
<1>6. ASSUME NEW r \in Readers
      PROVE  /\ reader'[r] \in Subscribers /\ Placed(reader[r])'
             /\ reader'[r].pc \in {"subscribed", "ended"} => Balanced(reader'[r], count'[reader'[r].sink])
  <2>1. /\ reader[r] \in Subscribers /\ Placed(reader[r])
        /\ reader[r].pc \in {"subscribed", "ended"} => Balanced(reader[r], count[reader[r].sink])
    BY <1>1 DEF ReaderInv, Reading
  <2>2. CASE reader[r].pc = "subscribed" /\ reader[r].sink = s
    <3> DEFINE new == Send(reader[r], count[s] + 1)
    <3>1. reader'[r] = new
      BY <2>2 DEF Deliver
    <3>2. new \in Subscribers /\ new.pc = "subscribed" /\ new.sink = s /\ Balanced(new, count[s] + 1)
      BY <1>1, <2>1, <2>2, SendBalances
    <3>3. count'[s] = count[s] + 1
      BY <1>1, <1>2
    <3>. HIDE DEF new
    <3>. QED
      BY <2>1, <2>2, <3>1, <3>2, <3>3 DEF Placed
  <2>3. CASE ~(reader[r].pc = "subscribed" /\ reader[r].sink = s)
    <3>1. reader'[r] = reader[r]
      BY <2>3 DEF Deliver
    <3>2. reader[r].pc \in {"subscribed", "ended"} =>
            reader[r].sink # s /\ reader[r].sink \in Sinks /\ count'[reader[r].sink] = count[reader[r].sink]
      BY <1>1, <1>2, <2>1, <2>3 DEF Placed
    <3>. QED
      BY <2>1, <3>1, <3>2 DEF Placed
  <2>. QED
    BY <2>2, <2>3
<1>7. reader' \in [Readers -> Subscribers]
  BY <1>1, <1>6 DEF Deliver
<1>. QED
  BY <1>4, <1>5, <1>6, <1>7 DEF ReaderInv, Reading

LEMMA EndedSub ==
  ASSUME NEW sub \in Subscribers
  PROVE  LET new == [sub EXCEPT !.pc = "ended"] IN
         /\ new \in Subscribers /\ new.pc = "ended" /\ new.sink = sub.sink
         /\ new.ch = sub.ch /\ new.told = sub.told /\ new.dropped = sub.dropped
  BY DEF Subscribers

\* A sink is closed, with the readers that are on it.
LEMMA CloseSinkInv ==
  ASSUME Inv, NEW s \in Sinks, CloseSink(s), UNCHANGED <<apps, forgetting, holders>>
  PROVE  /\ closed' \in [Sinks -> BOOLEAN] /\ fd' \in [Sinks -> Names \cup {NoFile, Shut, Unlinked}]
         /\ reader' \in [Readers -> Subscribers]
         /\ RingInv' /\ RotatingInv' /\ ReaderInv'
<1>. USE DEF Inv, CloseSink
<1>1. /\ closed \in [Sinks -> BOOLEAN] /\ fd \in [Sinks -> Names \cup {NoFile, Shut, Unlinked}]
      /\ reader \in [Readers -> Subscribers]
  BY DEF TypeOK
<1>2. closed' \in [Sinks -> BOOLEAN] /\ fd' \in [Sinks -> Names \cup {NoFile, Shut, Unlinked}]
  BY <1>1
<1>3. RingInv'
  BY DEF RingInv, Back, ringVars
<1>4. RotatingInv'
  BY <1>1 DEF RotatingInv, Free
<1>5. ASSUME NEW r \in Readers
      PROVE  /\ reader'[r] \in Subscribers /\ Placed(reader[r])'
             /\ reader'[r].pc \in {"subscribed", "ended"} => Balanced(reader'[r], count'[reader'[r].sink])
  <2>1. /\ reader[r] \in Subscribers /\ Placed(reader[r])
        /\ reader[r].pc \in {"subscribed", "ended"} => Balanced(reader[r], count[reader[r].sink])
    BY <1>1 DEF ReaderInv, Reading
  <2>2. CASE reader[r].pc = "subscribed" /\ reader[r].sink = s
    <3>1. reader'[r] = [reader[r] EXCEPT !.pc = "ended"]
      BY <2>2
    <3>2. /\ reader'[r] \in Subscribers /\ reader'[r].pc = "ended" /\ reader'[r].sink = s
          /\ reader'[r].ch = reader[r].ch /\ reader'[r].told = reader[r].told
          /\ reader'[r].dropped = reader[r].dropped
      BY <2>1, <2>2, <3>1, EndedSub
    <3>3. closed'[s] /\ count' = count
      BY <1>1 DEF CloseSink, ringVars
    <3>4. Balanced(reader'[r], count'[s])
      BY <2>1, <2>2, <3>2, <3>3 DEF Balanced
    <3>. QED
      BY <3>2, <3>3, <3>4 DEF Placed
  <2>3. CASE ~(reader[r].pc = "subscribed" /\ reader[r].sink = s)
    <3>1. reader'[r] = reader[r]
      BY <2>3
    <3>2. reader[r].pc # "none" => (closed'[reader[r].sink] <=> closed[reader[r].sink] \/ reader[r].sink = s)
      BY <1>1, <2>1 DEF Placed
    <3>. QED
      BY <2>1, <2>3, <3>1, <3>2 DEF Placed, ringVars
  <2>. QED
    BY <2>2, <2>3
<1>6. reader' \in [Readers -> Subscribers]
  BY <1>1, <1>5
<1>. QED
  BY <1>2, <1>3, <1>4, <1>5, <1>6 DEF ReaderInv, Reading
\* Nothing that the ring and the readers depend on changes.
LEMMA SameReaders ==
  ASSUME Inv, UNCHANGED <<apps, forgetting, closed, ringVars, reader>>
  PROVE  RingInv' /\ ReaderInv'
<1>1. RingInv'
  BY DEF Inv, RingInv, Back, ringVars
<1>2. ReaderInv'
  BY DEF Inv, ReaderInv, Reading, Placed, ringVars
<1>. QED
  BY <1>1, <1>2

\* The app's sink is found or made: whoever has another one sees no change, and
\* the one that is found or made is the app's or closed.
LEMMA SinkInv ==
  ASSUME Inv, NEW s \in Sinks, Sink(s), UNCHANGED forgetting
  PROVE  /\ apps' \in Sinks \cup {None} /\ closed' \in [Sinks -> BOOLEAN]
         /\ buf' \in [Sinks -> [0 .. RingSize - 1 -> Nat]] /\ next' \in [Sinks -> 0 .. RingSize - 1]
         /\ n' \in [Sinks -> 0 .. RingSize] /\ count' \in [Sinks -> Nat]
         /\ fd' \in [Sinks -> Names \cup {NoFile, Shut, Unlinked}] /\ size' \in [Sinks -> Nat]
         /\ disk' \in [Names -> Nat \cup {NoFile}] /\ rotating' = rotating
         /\ RingInv'
         /\ \A q \in Sinks : rotating[q] # 0 => closed'[q] = closed[q]
         /\ closed'[s] \/ s = apps'
         /\ \A r \in Readers : reader[r].pc # "none" =>
              LET q == reader[r].sink IN
              closed'[q] = closed[q] /\ count'[q] = count[q] /\ (~closed[q] => q \in {apps', forgetting'})
<1>. USE DEF Inv
<1>1. /\ RingSize \in Nat \ {0} /\ KeepFiles \in Nat \ {0} /\ None \notin Sinks /\ 0 \in Names
      /\ {apps, forgetting} \subseteq Sinks \cup {None} /\ hubClosed \in BOOLEAN
      /\ closed \in [Sinks -> BOOLEAN] /\ fd \in [Sinks -> Names \cup {NoFile, Shut, Unlinked}]
      /\ size \in [Sinks -> Nat] /\ disk \in [Names -> Nat \cup {NoFile}]
      /\ buf \in [Sinks -> [0 .. RingSize - 1 -> Nat]]
      /\ next \in [Sinks -> 0 .. RingSize - 1] /\ n \in [Sinks -> 0 .. RingSize]
      /\ count \in [Sinks -> Nat]
  <2>1. RingSize \in Nat \ {0} /\ KeepFiles \in Nat \ {0} /\ None \notin Sinks
    BY SizesAssumption, NumbersAssumption
  <2>2. 0 \in Names
    BY <2>1 DEF Names
  <2>. QED
    BY <2>1, <2>2 DEF TypeOK
<1>2. ASSUME NEW r \in Readers, reader[r].pc # "none"
      PROVE  reader[r].sink \in Sinks /\ (~closed[reader[r].sink] => reader[r].sink \in {apps, forgetting})
  BY <1>2 DEF ReaderInv, Placed
<1>3. CASE apps = s /\ UNCHANGED <<apps, closed, ringVars, fileVars>>
  <2>1. RingInv'
    BY <1>3 DEF RingInv, Back, ringVars
  <2>. QED
    BY <1>1, <1>2, <1>3, <2>1 DEF ringVars, fileVars
<1>4. CASE /\ apps = None /\ Fresh(s)
           /\ buf' = [buf EXCEPT ![s] = [i \in 0 .. RingSize - 1 |-> 0]]
           /\ next' = [next EXCEPT ![s] = 0] /\ n' = [n EXCEPT ![s] = 0] /\ count' = [count EXCEPT ![s] = 0]
           /\ UNCHANGED rotating
           /\ closed' = [closed EXCEPT ![s] = hubClosed]
           /\ apps' = (IF hubClosed THEN None ELSE s)
           /\ \/ ~hubClosed /\ Open(s)
              \/ /\ hubClosed \/ DiskFails
                 /\ fd' = [fd EXCEPT ![s] = NoFile] /\ size' = [size EXCEPT ![s] = 0]
                 /\ UNCHANGED disk
  <2>1. /\ buf' \in [Sinks -> [0 .. RingSize - 1 -> Nat]] /\ next' \in [Sinks -> 0 .. RingSize - 1]
        /\ n' \in [Sinks -> 0 .. RingSize] /\ count' \in [Sinks -> Nat]
        /\ closed' \in [Sinks -> BOOLEAN] /\ apps' \in Sinks \cup {None}
    <3>1. [i \in 0 .. RingSize - 1 |-> 0] \in [0 .. RingSize - 1 -> Nat]
      OBVIOUS
    <3>2. buf' \in [Sinks -> [0 .. RingSize - 1 -> Nat]]
      BY <1>1, <1>4, <3>1
    <3>3. next' \in [Sinks -> 0 .. RingSize - 1] /\ n' \in [Sinks -> 0 .. RingSize] /\ count' \in [Sinks -> Nat]
      <4>1. next' = [next EXCEPT ![s] = 0] /\ n' = [n EXCEPT ![s] = 0] /\ count' = [count EXCEPT ![s] = 0]
        BY <1>4
      <4>2. 0 \in 0 .. RingSize - 1 /\ 0 \in 0 .. RingSize
        BY <1>1
      <4>3. next \in [Sinks -> 0 .. RingSize - 1] /\ n \in [Sinks -> 0 .. RingSize] /\ count \in [Sinks -> Nat]
        BY <1>1
      <4>4. next' \in [Sinks -> 0 .. RingSize - 1]
        BY <4>1, <4>2, <4>3
      <4>5. n' \in [Sinks -> 0 .. RingSize]
        BY <4>1, <4>2, <4>3
      <4>6. count' \in [Sinks -> Nat]
        BY <4>1, <4>3
      <4>. QED
        BY <4>4, <4>5, <4>6
    <3>4. closed' \in [Sinks -> BOOLEAN] /\ apps' \in Sinks \cup {None}
      BY <1>1, <1>4
    <3>. QED
      BY <3>2, <3>3, <3>4
  <2>2. /\ fd' \in [Sinks -> Names \cup {NoFile, Shut, Unlinked}] /\ size' \in [Sinks -> Nat]
        /\ disk' \in [Names -> Nat \cup {NoFile}]
    <3>1. CASE Open(s)
      <4>1. fd' \in [Sinks -> Names \cup {NoFile, Shut, Unlinked}]
        BY <1>1, <3>1 DEF Open
      <4>2. size' \in [Sinks -> Nat] /\ disk' \in [Names -> Nat \cup {NoFile}]
        BY <1>1, <3>1 DEF Open
      <4>. QED
        BY <4>1, <4>2
    <3>2. CASE fd' = [fd EXCEPT ![s] = NoFile] /\ size' = [size EXCEPT ![s] = 0] /\ UNCHANGED disk
      BY <1>1, <3>2
    <3>. QED
      BY <1>4, <3>1, <3>2
  <2>3. RingInv'
    <3>. SUFFICES ASSUME NEW q \in Sinks
                  PROVE  /\ n'[q] <= count'[q] /\ (n'[q] < RingSize => n'[q] = count'[q])
                         /\ \A d \in 1 .. n'[q] : buf'[q][Back(q, d)'] = count'[q] - d + 1
      BY DEF RingInv
    <3>1. CASE q = s
      BY <1>1, <1>4, <3>1
    <3>2. CASE q # s
      BY <1>1, <1>4, <3>2 DEF RingInv, Back
    <3>. QED
      BY <3>1, <3>2
  <2>4. s \notin holders /\ \A r \in Readers : reader[r].sink # s
    BY <1>4 DEF Fresh, Unused
  <2>5. \A q \in Sinks : rotating[q] # 0 => closed'[q] = closed[q]
    BY <1>1, <1>4, <2>4 DEF RotatingInv
  <2>6. closed'[s] \/ s = apps'
    BY <1>1, <1>4
  <2>7. ASSUME NEW r \in Readers, reader[r].pc # "none"
        PROVE  LET q == reader[r].sink IN
               closed'[q] = closed[q] /\ count'[q] = count[q] /\ (~closed[q] => q \in {apps', forgetting'})
    BY <1>1, <1>2, <1>4, <2>4, <2>7
  <2>. QED
    BY <1>4, <2>1, <2>2, <2>3, <2>5, <2>6, <2>7
<1>. QED
  BY <1>3, <1>4 DEF Sink

-----------------------------------------------------------------------------
(* Each action preserves the invariant *)

\* A line is appended, whether the file takes it or not.
LEMMA AppendInv ==
  ASSUME Inv, NEW s \in Sinks, AppendLine(s) \/ AppendUnwritten(s) \/ Reopen(s) \/ FailRotation(s)
  PROVE  Inv'
<1>1. ~closed[s] /\ Deliver(s) /\ UNCHANGED <<hubVars, closed, ends>>
  BY SizesAssumption DEF Inv, RotatingInv, AppendLine, AppendUnwritten, Reopen, FailRotation, MayAppend, Free, Opening
<1>2. /\ buf' \in [Sinks -> [0 .. RingSize - 1 -> Nat]] /\ next' \in [Sinks -> 0 .. RingSize - 1]
      /\ n' \in [Sinks -> 0 .. RingSize] /\ count' \in [Sinks -> Nat] /\ printed' \in Nat
      /\ reader' \in [Readers -> Subscribers]
      /\ RingInv' /\ ReaderInv'
  BY <1>1, DeliverInv DEF hubVars
<1>3. /\ KeepFiles \in Nat \ {0} /\ 0 \in Names
      /\ fd \in [Sinks -> Names \cup {NoFile, Shut, Unlinked}]
      /\ size \in [Sinks -> Nat] /\ disk \in [Names -> Nat \cup {NoFile}]
      /\ rotating \in [Sinks -> 0 .. Opening]
  <2>1. KeepFiles \in Nat \ {0}
    BY SizesAssumption
  <2>2. 0 \in Names
    BY <2>1 DEF Names
  <2>. QED
    BY <2>1, <2>2 DEF Inv, TypeOK
<1>4. /\ fd' \in [Sinks -> Names \cup {NoFile, Shut, Unlinked}] /\ size' \in [Sinks -> Nat]
      /\ disk' \in [Names -> Nat \cup {NoFile}] /\ rotating' \in [Sinks -> 0 .. Opening]
      /\ \A q \in Sinks : rotating'[q] # 0 => rotating[q] # 0
  <2>1. CASE AppendLine(s)
    BY <1>3, <2>1 DEF AppendLine, Write, NoFile
  <2>2. CASE AppendUnwritten(s)
    BY <1>3, <2>2 DEF AppendUnwritten, fileVars
  <2>3. CASE Reopen(s)
    <3>1. PICK written \in {0, 1} :
            LET length == (IF disk[0] = NoFile THEN 0 ELSE disk[0]) + written
            IN  disk' = [disk EXCEPT ![0] = length] /\ size' = [size EXCEPT ![s] = length]
      BY <2>3 DEF Reopen
    <3>2. (IF disk[0] = NoFile THEN 0 ELSE disk[0]) + written \in Nat
      BY <1>3, <3>1
    <3>. QED
      BY <1>3, <2>3, <3>1, <3>2 DEF Reopen, Opening
  <2>4. CASE FailRotation(s)
    BY <1>3, <2>4 DEF FailRotation, Opening
  <2>. QED
    BY <2>1, <2>2, <2>3, <2>4
<1>5. TypeOK'
  BY <1>1, <1>2, <1>4 DEF Inv, TypeOK, hubVars
<1>6. RotatingInv'
  BY <1>1, <1>4 DEF Inv, RotatingInv, hubVars
<1>. QED
  BY <1>2, <1>5, <1>6 DEF Inv

\* A rotation begins, or renames a file.
LEMMA RotateInv ==
  ASSUME Inv, NEW s \in Sinks, AppendRotates(s) \/ Rename(s) \/ RenameCurrent(s)
  PROVE  Inv'
<1>1. UNCHANGED <<hubVars, closed, ringVars, size, reader, boundVars>>
  BY DEF AppendRotates, Rename, RenameCurrent
<1>2. RingInv' /\ ReaderInv'
  BY <1>1, SameReaders DEF hubVars
<1>3. /\ KeepFiles \in Nat \ {0} /\ Names = 0 .. KeepFiles /\ Opening = KeepFiles + 1
      /\ fd \in [Sinks -> Names \cup {NoFile, Shut, Unlinked}]
      /\ disk \in [Names -> Nat \cup {NoFile}] /\ rotating \in [Sinks -> 0 .. Opening]
  BY SizesAssumption DEF Inv, TypeOK, Names, Opening
<1>4. ASSUME NEW i \in 1 .. KeepFiles, Move(i)
      PROVE  fd' \in [Sinks -> Names \cup {NoFile, Shut, Unlinked}] /\ disk' \in [Names -> Nat \cup {NoFile}]
  BY <1>3, <1>4 DEF Move
<1>5. /\ fd' \in [Sinks -> Names \cup {NoFile, Shut, Unlinked}] /\ disk' \in [Names -> Nat \cup {NoFile}]
      /\ rotating' \in [Sinks -> 0 .. Opening]
      /\ \A q \in Sinks : rotating'[q] # 0 => q \in holders /\ ~closed[q]
  <2>1. CASE AppendRotates(s)
    BY <1>3, <2>1 DEF AppendRotates, MayAppend, Inv, RotatingInv
  <2>2. CASE Rename(s)
    BY <1>3, <1>4, <2>2 DEF Rename, Shift, Inv, RotatingInv
  <2>3. CASE RenameCurrent(s)
    BY <1>3, <1>4, <2>3 DEF RenameCurrent, Inv, RotatingInv
  <2>. QED
    BY <2>1, <2>2, <2>3
<1>6. TypeOK'
  BY <1>1, <1>5 DEF Inv, TypeOK, hubVars, ringVars, boundVars
<1>7. RotatingInv'
  BY <1>1, <1>5 DEF RotatingInv, hubVars
<1>. QED
  BY <1>2, <1>6, <1>7 DEF Inv
\* Readers and collectors get a sink.
LEMMA GetsSinkInv ==
  ASSUME Inv, NEW s \in Sinks, Collect(s) \/ \E r \in Readers : Subscribe(r, s)
  PROVE  Inv'
<1>1. Sink(s) /\ UNCHANGED <<hubClosed, forgetting, closing, boundVars>>
  BY DEF Collect, Subscribe
<1>2. /\ apps' \in Sinks \cup {None} /\ closed' \in [Sinks -> BOOLEAN]
      /\ buf' \in [Sinks -> [0 .. RingSize - 1 -> Nat]] /\ next' \in [Sinks -> 0 .. RingSize - 1]
      /\ n' \in [Sinks -> 0 .. RingSize] /\ count' \in [Sinks -> Nat]
      /\ fd' \in [Sinks -> Names \cup {NoFile, Shut, Unlinked}] /\ size' \in [Sinks -> Nat]
      /\ disk' \in [Names -> Nat \cup {NoFile}] /\ rotating' = rotating
      /\ RingInv'
      /\ \A q \in Sinks : rotating[q] # 0 => closed'[q] = closed[q]
      /\ closed'[s] \/ s = apps'
  BY <1>1, SinkInv
<1>3. \A r \in Readers : reader[r].pc # "none" =>
        LET q == reader[r].sink IN
        closed'[q] = closed[q] /\ count'[q] = count[q] /\ (~closed[q] => q \in {apps', forgetting'})
  BY <1>1, SinkInv
<1>4. \A r \in Readers : /\ reader[r] \in Subscribers /\ Placed(reader[r])
                         /\ reader[r].pc \in {"subscribed", "ended"} => Balanced(reader[r], count[reader[r].sink])
  BY DEF Inv, TypeOK, ReaderInv, Reading
<1>5. ASSUME NEW r \in Readers, reader'[r] = reader[r]
      PROVE  /\ Placed(reader[r])'
             /\ reader'[r].pc \in {"subscribed", "ended"} => Balanced(reader'[r], count'[reader'[r].sink])
  BY <1>3, <1>4, <1>5 DEF Placed
<1>6. CASE Collect(s)
  <2>1. holders' = holders \cup {s} /\ reader' = reader
    BY <1>6 DEF Collect
  <2>2. TypeOK'
    BY <1>1, <1>2, <2>1 DEF Inv, TypeOK, boundVars
  <2>3. RotatingInv'
    BY <1>2, <2>1 DEF Inv, RotatingInv
  <2>. QED
    BY <1>2, <1>5, <2>1, <2>2, <2>3 DEF Inv, ReaderInv, Reading
<1>7. ASSUME NEW r \in Readers, Subscribe(r, s) PROVE Inv'
  <2> DEFINE given == [NoReader EXCEPT !.pc = "given", !.sink = s]
  <2>1. holders' = holders /\ reader' = [reader EXCEPT ![r] = given]
    BY <1>7 DEF Subscribe
  <2>2. given \in Subscribers /\ given.pc = "given" /\ given.sink = s
    <3>1. NoReader \in Subscribers
      BY DEF NoReader, Subscribers
    <3>2. ASSUME NEW sub \in Subscribers
          PROVE  LET new == [sub EXCEPT !.pc = "given", !.sink = s]
                 IN  new \in Subscribers /\ new.pc = "given" /\ new.sink = s
      BY DEF Subscribers
    <3>. QED
      BY <3>1, <3>2
  <2>. HIDE DEF given
  <2>3. reader \in [Readers -> Subscribers] /\ reader' \in [Readers -> Subscribers] /\ reader'[r] = given
    BY <2>1, <2>2 DEF Inv, TypeOK
  <2>4. TypeOK'
    BY <1>1, <1>2, <2>1, <2>3 DEF Inv, TypeOK, boundVars
  <2>5. RotatingInv'
    BY <1>2, <2>1 DEF Inv, RotatingInv
  <2>6. Placed(reader[r])'
    BY <1>2, <2>2, <2>3 DEF Placed
  <2>7. \A q \in Readers : q # r => reader'[q] = reader[q]
    BY <2>1, <2>3
  <2>8. ReaderInv'
    BY <1>5, <2>2, <2>3, <2>6, <2>7 DEF ReaderInv, Reading
  <2>. QED
    BY <1>2, <2>4, <2>5, <2>8 DEF Inv
<1>. QED
  BY <1>6, <1>7

\* One reader moves: it gets its channel, takes from it, or goes.
LEMMA ReaderMoves ==
  ASSUME Inv, NEW r \in Readers, NEW new \in Subscribers, reader' = [reader EXCEPT ![r] = new],
         UNCHANGED <<hubVars, closed, ringVars, fileVars, boundVars>>,
         Placed(new), new.pc \in {"subscribed", "ended"} => Balanced(new, count[new.sink])
  PROVE  Inv'
<1>1. reader \in [Readers -> Subscribers] /\ reader' \in [Readers -> Subscribers]
      /\ reader'[r] = new /\ \A q \in Readers : q # r => reader'[q] = reader[q]
  BY DEF Inv, TypeOK
<1>2. TypeOK'
  BY <1>1 DEF Inv, TypeOK, hubVars, ringVars, fileVars, boundVars
<1>3. RingInv' /\ RotatingInv'
  BY DEF Inv, RingInv, Back, RotatingInv, hubVars, ringVars, fileVars
<1>4. ReaderInv'
  BY <1>1 DEF Inv, ReaderInv, Reading, Placed, hubVars, ringVars
<1>. QED
  BY <1>2, <1>3, <1>4 DEF Inv

LEMMA SubscribeTailInv ==
  ASSUME Inv, NEW r \in Readers, NEW tail \in Tails, SubscribeTail(r, tail)
  PROVE  Inv'
<1> DEFINE s == reader[r].sink
           preload == LastOf(s, tail)
           new == [pc |-> Standing(s), sink |-> s, cap |-> Len(preload) + Buffer, dropped |-> 0,
                   ch |-> [i \in DOMAIN preload |-> Line(preload[i])],
                   told |-> count[s] - Len(preload)]
<1>1. s \in Sinks /\ (~closed[s] => s \in {apps, forgetting}) /\ closed \in [Sinks -> BOOLEAN]
  BY DEF Inv, TypeOK, ReaderInv, Placed, SubscribeTail
<1>2. /\ reader' = [reader EXCEPT ![r] = new]
      /\ UNCHANGED <<hubVars, closed, ringVars, fileVars, boundVars>>
  BY DEF SubscribeTail
<1>3. Standing(s) \in {"subscribed", "ended"} /\ (Standing(s) = "ended" <=> closed[s])
  BY DEF Standing
<1>4. new.pc = Standing(s) /\ new.sink = s
  OBVIOUS
<1>5. new \in Subscribers /\ Balanced(new, count[s])
  BY <1>1, <1>3, TailBalances DEF Inv
<1>. HIDE DEF new, s
<1>6. Placed(new)
  BY <1>1, <1>3, <1>4 DEF Placed
<1>. QED
  BY <1>2, <1>4, <1>5, <1>6, ReaderMoves

LEMMA ReadInv ==
  ASSUME Inv, NEW r \in Readers, Read(r)
  PROVE  Inv'
<1> DEFINE sub == reader[r]
           new == [sub EXCEPT !.ch = Tail(@), !.told = @ + Head(sub.ch).n]
           l   == Len(sub.ch)
<1>1. /\ reader' = [reader EXCEPT ![r] = new]
      /\ UNCHANGED <<hubVars, closed, ringVars, fileVars, boundVars>>
  <2>1. new = [reader[r] EXCEPT !.ch = Tail(reader[r].ch), !.told = reader[r].told + Head(reader[r].ch).n]
    OBVIOUS
  <2>. QED
    BY <2>1 DEF Read
<1>2. sub \in Subscribers /\ Placed(sub)
  BY DEF Inv, TypeOK, ReaderInv
<1>3. sub.ch \in Seq(Entries) /\ sub.ch # <<>> /\ sub.told \in Nat /\ sub.dropped \in Nat
  BY <1>2 DEF Subscribers, Read
<1>4. /\ l \in Nat \ {0} /\ DOMAIN sub.ch = 1 .. l /\ Head(sub.ch) = sub.ch[1]
      /\ \A i \in 1 .. l : sub.ch[i] \in Entries
      /\ Tail(sub.ch) \in Seq(Entries) /\ Len(Tail(sub.ch)) = l - 1
      /\ DOMAIN Tail(sub.ch) = 1 .. l - 1 /\ \A i \in 1 .. l - 1 : Tail(sub.ch)[i] = sub.ch[i + 1]
  BY <1>3
<1>5. \A e \in Entries : e.n \in Nat /\ e.upto \in Nat
  BY DEF Entries
<1>6. /\ new \in Subscribers /\ new.pc = sub.pc /\ new.sink = sub.sink /\ new.dropped = sub.dropped
      /\ new.ch = Tail(sub.ch) /\ new.told = sub.told + sub.ch[1].n
  <2>1. sub.told + Head(sub.ch).n \in Nat
    BY <1>3, <1>4, <1>5
  <2>. HIDE DEF sub
  <2>. QED
    BY <1>2, <1>4, <2>1 DEF Subscribers
<1>. HIDE DEF new, sub
<1>7. Placed(new)
  BY <1>2, <1>6 DEF Placed
<1>8. ASSUME NEW c, Balanced(sub, c) PROVE Balanced(new, c)
  <2> DEFINE Old(i)  == IF i = 0 THEN sub.told ELSE sub.ch[i].upto
             Upto(i) == IF i = 0 THEN new.told ELSE new.ch[i].upto
  <2>1. /\ \A i \in 1 .. l : sub.ch[i].upto = Old(i - 1) + sub.ch[i].n
        /\ Old(l) + sub.dropped = c
    BY <1>4, <1>8 DEF Balanced
  <2>2. sub.ch[1].upto = sub.told + sub.ch[1].n
    BY <1>4, <2>1
  <2>3. \A i \in 0 .. l - 1 : Upto(i) = Old(i + 1)
    BY <1>4, <1>6, <2>2
  <2>4. \A i \in 1 .. l - 1 : i + 1 \in 1 .. l /\ (i + 1) - 1 = i /\ i - 1 \in 0 .. l - 1 /\ (i - 1) + 1 = i
    BY <1>4
  <2>5. \A i \in 1 .. l - 1 : new.ch[i].upto = Upto(i - 1) + new.ch[i].n
    <3>1. ASSUME NEW i \in 1 .. l - 1 PROVE new.ch[i].upto = Upto(i - 1) + new.ch[i].n
      <4>1. new.ch[i] = sub.ch[i + 1] /\ Upto(i - 1) = Old(i)
        BY <1>4, <1>6, <2>3, <2>4
      <4>2. sub.ch[i + 1].upto = Old(i) + sub.ch[i + 1].n
        BY <2>1, <2>4
      <4>. QED
        BY <4>1, <4>2
    <3>. QED
      BY <3>1
  <2>6. Len(new.ch) = l - 1 /\ DOMAIN new.ch = 1 .. l - 1
    BY <1>4, <1>6
  <2>7. Upto(l - 1) = Old(l)
    <3>1. l - 1 \in 0 .. l - 1 /\ (l - 1) + 1 = l
      BY <1>4
    <3>. HIDE DEF Upto, Old, l
    <3>2. Upto(l - 1) = Old((l - 1) + 1)
      BY <2>3, <3>1
    <3>. QED
      BY <3>1, <3>2
  <2>8. Upto(Len(new.ch)) + new.dropped = c
    BY <1>6, <2>1, <2>6, <2>7
  <2>. QED
    BY <2>5, <2>6, <2>8 DEF Balanced
<1>9. sub.pc \in {"subscribed", "ended"} => Balanced(sub, count[sub.sink])
  BY DEF Inv, ReaderInv, Reading, sub
<1>. QED
  BY <1>1, <1>6, <1>7, <1>8, <1>9, ReaderMoves

LEMMA LeaveInv ==
  ASSUME Inv, NEW r \in Readers, Leave(r)
  PROVE  Inv'
<1>1. NoReader \in Subscribers /\ NoReader.pc = "none" /\ Placed(NoReader)
  BY DEF NoReader, Subscribers, Placed
<1>2. /\ reader' = [reader EXCEPT ![r] = NoReader]
      /\ UNCHANGED <<hubVars, closed, ringVars, fileVars, boundVars>>
  BY DEF Leave
<1>. QED
  BY <1>1, <1>2, ReaderMoves

\* Sinks are closed, by Forget or by Close.
LEMMA ClosesInv ==
  ASSUME Inv, ForgetCloses \/ \E s \in Sinks : CloseNext(s)
  PROVE  Inv'
<1>1. ASSUME NEW s \in Sinks, CloseSink(s), UNCHANGED <<apps, hubClosed, forgetting, holders>>, closing' \subseteq closing
      PROVE  Inv'
  <2>1. /\ closed' \in [Sinks -> BOOLEAN] /\ fd' \in [Sinks -> Names \cup {NoFile, Shut, Unlinked}]
        /\ reader' \in [Readers -> Subscribers]
        /\ RingInv' /\ RotatingInv' /\ ReaderInv'
    BY <1>1, CloseSinkInv
  <2>2. UNCHANGED <<ringVars, size, rotating, disk, boundVars>>
    BY <1>1 DEF CloseSink
  <2>3. TypeOK'
    BY <1>1, <2>1, <2>2 DEF Inv, TypeOK, ringVars, boundVars
  <2>. QED
    BY <2>1, <2>3 DEF Inv
<1>2. CASE ForgetCloses
  <2>1. forgetting \in Sinks /\ CloseSink(forgetting) /\ UNCHANGED hubVars
    BY <1>2 DEF ForgetCloses, Inv, TypeOK
  <2>. QED
    BY <1>1, <2>1 DEF hubVars
<1>3. ASSUME NEW s \in Sinks, CloseNext(s) PROVE Inv'
  BY <1>1, <1>3 DEF CloseNext
<1>. QED
  BY <1>2, <1>3

\* The hub forgets the app, closes, or loses a collector.
LEMMA HubInv ==
  ASSUME Inv, Forget \/ ForgetRemoves \/ Close \/ \E s \in Sinks : CollectEnds(s)
  PROVE  Inv'
<1>. USE DEF Inv
<1>1. CASE Forget
  <2>1. TypeOK'
    BY <1>1, BoundsAssumption DEF Forget, TypeOK, ringVars, fileVars
  <2>2. RingInv' /\ RotatingInv'
    BY <1>1 DEF Forget, RingInv, Back, RotatingInv, ringVars, fileVars
  <2>3. ReaderInv'
    BY <1>1, NumbersAssumption DEF Forget, ReaderInv, Reading, Placed, ringVars
  <2>. QED
    BY <2>1, <2>2, <2>3
<1>2. CASE ForgetRemoves
  <2>1. TypeOK'
    BY <1>2 DEF ForgetRemoves, TypeOK, ringVars, boundVars
  <2>2. RingInv' /\ RotatingInv'
    BY <1>2 DEF ForgetRemoves, RingInv, Back, RotatingInv, ringVars
  <2>3. ReaderInv'
    BY <1>2 DEF ForgetRemoves, ReaderInv, Reading, Placed, ringVars
  <2>. QED
    BY <2>1, <2>2, <2>3
<1>3. CASE Close
  <2>1. TypeOK'
    BY <1>3 DEF Close, TypeOK, ringVars, fileVars, boundVars
  <2>2. RingInv' /\ ReaderInv'
    BY <1>3, SameReaders DEF Close
  <2>3. RotatingInv'
    BY <1>3 DEF Close, RotatingInv, fileVars
  <2>. QED
    BY <2>1, <2>2, <2>3
<1>4. ASSUME NEW s \in Sinks, CollectEnds(s) PROVE Inv'
  <2>1. TypeOK'
    BY <1>4 DEF CollectEnds, TypeOK, ringVars, fileVars, boundVars
  <2>2. RingInv' /\ ReaderInv'
    BY <1>4, SameReaders DEF CollectEnds
  <2>3. RotatingInv'
    BY <1>4 DEF CollectEnds, RotatingInv, Free, fileVars
  <2>. QED
    BY <2>1, <2>2, <2>3
<1>. QED
  BY <1>1, <1>2, <1>3, <1>4

\* A daemon that has just started knows of no reader and of no line.
LEMMA EmptyInv ==
  ASSUME Empty, disk \in [Names -> Nat \cup {NoFile}], printed \in Nat, ends \in 0 .. MaxEnds
  PROVE  Inv
<1>1. RingSize \in Nat \ {0} /\ KeepFiles \in Nat \ {0}
  BY SizesAssumption
<1>2. NoReader \in Subscribers /\ NoReader.pc = "none"
  BY DEF NoReader, Subscribers
<1>3. TypeOK
  <2>1. buf \in [Sinks -> [0 .. RingSize - 1 -> Nat]]
    BY DEF Empty
  <2>2. next \in [Sinks -> 0 .. RingSize - 1] /\ n \in [Sinks -> 0 .. RingSize] /\ rotating \in [Sinks -> 0 .. Opening]
    BY <1>1 DEF Empty, Opening
  <2>. QED
    BY <1>2, <2>1, <2>2 DEF Empty, TypeOK
<1>4. RingInv
  BY DEF Empty, RingInv
<1>5. RotatingInv
  BY DEF Empty, RotatingInv
<1>6. ReaderInv
  BY <1>2 DEF Empty, ReaderInv, Reading, Placed
<1>. QED
  BY <1>3, <1>4, <1>5, <1>6 DEF Inv

LEMMA RestartInv ==
  ASSUME Inv, Restart
  PROVE  Inv'
<1>1. Empty'
  BY DEF Restart, Empty
<1>2. (disk \in [Names -> Nat \cup {NoFile}])' /\ (printed \in Nat)' /\ (ends \in 0 .. MaxEnds)'
  BY BoundsAssumption DEF Restart, Inv, TypeOK
<1>. QED
  BY <1>1, <1>2, EmptyInv, PTL

-----------------------------------------------------------------------------
(* The theorems *)

LEMMA InvHolds == Spec => []Inv
<1>1. ASSUME Init PROVE Inv
  <2>1. disk \in [Names -> Nat \cup {NoFile}] /\ printed \in Nat /\ ends \in 0 .. MaxEnds
    BY <1>1, BoundsAssumption DEF Init
  <2>. QED
    BY <1>1, <2>1, EmptyInv DEF Init
<1>2. Inv /\ [Next]_vars => Inv'
  <2>. SUFFICES ASSUME Inv, [Next]_vars
                PROVE  Inv'
    OBVIOUS
  <2>1. CASE UNCHANGED vars
    <3>1. TypeOK' /\ RotatingInv'
      BY <2>1 DEF Inv, TypeOK, RotatingInv, vars, hubVars, ringVars, fileVars, boundVars
    <3>2. RingInv' /\ ReaderInv'
      BY <2>1, SameReaders DEF vars, hubVars
    <3>. QED
      BY <3>1, <3>2 DEF Inv
  <2>2. ASSUME NEW s \in Sinks, AppendLine(s) \/ AppendUnwritten(s) \/ Reopen(s) \/ FailRotation(s)
        PROVE  Inv'
    BY <2>2, AppendInv
  <2>3. ASSUME NEW s \in Sinks, AppendRotates(s) \/ Rename(s) \/ RenameCurrent(s)
        PROVE  Inv'
    BY <2>3, RotateInv
  <2>4. ASSUME NEW s \in Sinks, Collect(s) \/ \E r \in Readers : Subscribe(r, s)
        PROVE  Inv'
    BY <2>4, GetsSinkInv
  <2>5. ASSUME NEW s \in Sinks, CloseNext(s)
        PROVE  Inv'
    BY <2>5, ClosesInv
  <2>6. ASSUME NEW s \in Sinks, CollectEnds(s)
        PROVE  Inv'
    BY <2>6, HubInv
  <2>7. ASSUME NEW r \in Readers, NEW tail \in Tails, SubscribeTail(r, tail)
        PROVE  Inv'
    BY <2>7, SubscribeTailInv
  <2>8. ASSUME NEW r \in Readers, Read(r) \/ Leave(r)
        PROVE  Inv'
    BY <2>8, ReadInv, LeaveInv
  <2>9. CASE Forget \/ ForgetCloses \/ ForgetRemoves \/ Close \/ Restart
    BY <2>9, HubInv, ClosesInv, RestartInv
  <2>. QED
    BY <2>1, <2>2, <2>3, <2>4, <2>5, <2>6, <2>7, <2>8, <2>9 DEF Next
<1>. QED
  BY <1>1, <1>2, PTL DEF Spec

\* The state of an app's log keeps its type.
THEOREM LogTypeCorrect == Spec => []TypeOK
<1>1. Inv => TypeOK
  BY DEF Inv
<1>. QED
  BY <1>1, InvHolds, PTL

\* Any number of readers, each with any tail and any buffer, is told of every
\* line it loses.
THEOREM EveryLossIsTold == Spec => []NothingIsMissed
<1>1. ASSUME Inv, NEW r \in Reading PROVE Balanced(reader[r], count[reader[r].sink])
  BY <1>1 DEF Inv, ReaderInv, Reading
<1>2. Inv => NothingIsMissed
  <2>. SUFFICES ASSUME Inv, NEW r \in Reading
                PROVE  LET sub     == reader[r]
                           Upto(i) == IF i = 0 THEN sub.told ELSE sub.ch[i].upto
                       IN /\ \A i \in DOMAIN sub.ch : sub.ch[i].upto = Upto(i - 1) + sub.ch[i].n
                          /\ Upto(Len(sub.ch)) + sub.dropped = count[sub.sink]
    BY Zenon DEF NothingIsMissed
  <2>. QED
    BY <1>1 DEF Balanced
<1>. QED
  BY <1>2, InvHolds, PTL

\* A ring of any size returns its newest lines.
THEOREM RingIsNewest == Spec => []LastIsNewest
<1>1. ASSUME Inv PROVE LastIsNewest
  <2>. SUFFICES ASSUME NEW s \in Sinks, NEW k \in 0 .. RingSize
                PROVE  LastOf(s, k) = LET m == IF k > count[s] THEN count[s] ELSE k
                                      IN  [i \in 1 .. m |-> count[s] - m + i]
    BY DEF LastIsNewest
  <2> DEFINE m == IF k > n[s] THEN n[s] ELSE k
  <2>1. k \in Nat
    BY SizesAssumption
  <2>2. LastOf(s, k) = [i \in 1 .. m |-> count[s] - m + i]
    BY <1>1, <2>1, LastNewest DEF Inv
  <2>3. m = IF k > count[s] THEN count[s] ELSE k
    <3>1. /\ n[s] \in 0 .. RingSize /\ count[s] \in Nat /\ RingSize \in Nat
          /\ n[s] <= count[s] /\ (n[s] < RingSize => n[s] = count[s])
      BY <1>1, SizesAssumption DEF Inv, TypeOK, RingInv
    <3>. QED
      BY <3>1
  <2>. QED
    BY <2>2, <2>3
<1>. QED
  BY <1>1, InvHolds, PTL

\* No reader is left on a sink that nobody writes to or will close.
THEOREM ReadersAreServed == Spec => []NoReaderIsLeft
<1>1. Inv => NoReaderIsLeft
  BY DEF Inv, ReaderInv, Placed, NoReaderIsLeft
<1>. QED
  BY <1>1, InvHolds, PTL

-----------------------------------------------------------------------------
(* The lines on the disk, added up *)

Less == {p \in Nat \X Nat : p[1] < p[2]}

\* Induction on the naturals, over the set of those a claim holds of.
LEMMA Induction ==
  ASSUME NEW T \in SUBSET Nat, 0 \in T, \A m \in T : m + 1 \in T
  PROVE  T = Nat
<1> DEFINE Rest == Nat \ T
<1>1. SUFFICES ASSUME Rest # {} PROVE FALSE
  OBVIOUS
<1>2. IsWellFoundedOn(Less, Nat) /\ Rest \subseteq Nat
  BY NatLessThanWellFounded, Zenon DEF OpToRel, Less
<1>. HIDE DEF Rest
<1>3. PICK x \in Rest : \A y \in Rest : ~(<<y, x>> \in Less)
  BY <1>1, <1>2, WFMin, Zenon
<1>. USE DEF Rest
<1>4. \A y \in Rest : ~(y < x)
  BY <1>3 DEF Less
<1>5. x # 0 /\ x - 1 \in Nat /\ x - 1 < x /\ x - 1 + 1 = x
  BY <1>3
<1>. QED
  BY <1>3, <1>4, <1>5

\* g[i] is f[0] + ... + f[i], up to k.
IsSum(g, f, k) == g = [i \in 0 .. k |-> IF i = 0 THEN f[0] ELSE g[i - 1] + f[i]]

\* There is such a g.
LEMMA SumExists ==
  ASSUME NEW f, NEW k \in Nat
  PROVE  \E g : IsSum(g, f, k)
<1> DEFINE T == {m \in Nat : \E g : IsSum(g, f, m)}
<1>1. 0 \in T
  <2>1. IsSum([i \in 0 .. 0 |-> f[0]], f, 0)
    BY DEF IsSum
  <2>. QED
    BY <2>1
<1>2. ASSUME NEW m \in T PROVE m + 1 \in T
  <2>1. PICK g : IsSum(g, f, m)
    BY <1>2
  <2> DEFINE h == [i \in 0 .. m + 1 |-> IF i = m + 1 THEN g[m] + f[m + 1] ELSE g[i]]
  <2>2. g = [i \in 0 .. m |-> IF i = 0 THEN f[0] ELSE g[i - 1] + f[i]]
    BY <2>1 DEF IsSum
  <2>3. ASSUME NEW i \in 0 .. m + 1 PROVE h[i] = IF i = 0 THEN f[0] ELSE h[i - 1] + f[i]
    BY <2>2
  <2>4. IsSum(h, f, m + 1)
    BY <2>3 DEF IsSum
  <2>. QED
    BY <2>4
<1>3. T = Nat
  BY <1>1, <1>2, Induction
<1>. QED
  BY <1>3

\* What Total returns.
LEMMA TotalIsSum ==
  ASSUME NEW f
  PROVE  \E g : IsSum(g, f, KeepFiles) /\ Total(f) = g[KeepFiles]
<1> DEFINE upto == CHOOSE g : g = [i \in 0 .. KeepFiles |-> IF i = 0 THEN f[0] ELSE g[i - 1] + f[i]]
<1>1. \E g : g = [i \in 0 .. KeepFiles |-> IF i = 0 THEN f[0] ELSE g[i - 1] + f[i]]
  BY SumExists, SizesAssumption DEF IsSum
<1>2. upto = [i \in 0 .. KeepFiles |-> IF i = 0 THEN f[0] ELSE upto[i - 1] + f[i]]
  BY <1>1
<1>3. Total(f) = upto[KeepFiles]
  BY Zenon DEF Total, Names
<1>. HIDE DEF upto
<1>. QED
  BY <1>2, <1>3 DEF IsSum

\* The sums are apart by as much, at least, as is lost on the way.
LEMMA TotalsApart ==
  ASSUME NEW f \in [Names -> Nat], NEW g \in [Names -> Nat], NEW d \in [Names -> Int],
         d[0] <= g[0] - f[0], \A i \in 1 .. KeepFiles : d[i] <= d[i - 1] + g[i] - f[i]
  PROVE  Total(f) \in Int /\ Total(g) \in Int /\ Total(g) >= Total(f) + d[KeepFiles]
<1>1. PICK sf : IsSum(sf, f, KeepFiles) /\ Total(f) = sf[KeepFiles]
  BY TotalIsSum
<1>2. PICK sg : IsSum(sg, g, KeepFiles) /\ Total(g) = sg[KeepFiles]
  BY TotalIsSum
<1>3. /\ \A i \in 0 .. KeepFiles : sf[i] = IF i = 0 THEN f[0] ELSE sf[i - 1] + f[i]
      /\ \A i \in 0 .. KeepFiles : sg[i] = IF i = 0 THEN g[0] ELSE sg[i - 1] + g[i]
  BY <1>1, <1>2 DEF IsSum
<1>4. KeepFiles \in Nat \ {0} /\ Names = 0 .. KeepFiles
  BY SizesAssumption DEF Names
<1> DEFINE Apart(i) == sf[i] \in Int /\ sg[i] \in Int /\ sg[i] >= sf[i] + d[i]
           T == {m \in Nat : m \in 0 .. KeepFiles => Apart(m)}
<1>5. 0 \in T
  <2>1. sf[0] = f[0] /\ sg[0] = g[0] /\ f[0] \in Int /\ g[0] \in Int /\ d[0] \in Int
    BY <1>3, <1>4
  <2>. QED
    BY <2>1
<1>6. ASSUME NEW m \in T PROVE m + 1 \in T
  <2>1. SUFFICES ASSUME m + 1 \in 0 .. KeepFiles PROVE Apart(m + 1)
    OBVIOUS
  <2>2. Apart(m) /\ m \in 0 .. KeepFiles /\ m + 1 \in 1 .. KeepFiles /\ (m + 1) - 1 = m
    BY <1>6, <2>1, <1>4
  <2>3. sf[m + 1] = sf[m] + f[m + 1] /\ sg[m + 1] = sg[m] + g[m + 1]
    BY <1>3, <2>1, <2>2
  <2>4. f[m + 1] \in Int /\ g[m + 1] \in Int /\ d[m] \in Int /\ d[m + 1] \in Int
    <3>1. m + 1 \in Names /\ m \in Names
      BY <1>4, <2>1, <2>2
    <3>. HIDE DEF T
    <3>. QED
      BY <3>1
  <2>5. d[m + 1] <= d[m] + g[m + 1] - f[m + 1]
    <3>1. d[m + 1] <= d[(m + 1) - 1] + g[m + 1] - f[m + 1]
      BY <2>2
    <3>. QED
      BY <2>2, <3>1
  <2>. QED
    BY <2>2, <2>3, <2>4, <2>5
<1>7. T = Nat
  BY <1>5, <1>6, Induction
<1>8. Apart(KeepFiles)
  <2>1. KeepFiles \in T /\ KeepFiles \in 0 .. KeepFiles
    <3>. HIDE DEF T
    <3>. QED
      BY <1>4, <1>7
  <2>. HIDE DEF Apart
  <2>. QED
    BY <2>1
<1>. QED
  BY <1>1, <1>2, <1>8

-----------------------------------------------------------------------------
(* What a rotation loses *)

\* A collector whose sink is not closed has the app's, or the one that Forget
\* took: no two sinks write to the files while there is nothing to remove.
HolderInv == \A s \in holders : ~closed[s] => s \in {apps, forgetting}

\* And a rotation that stands at a name has emptied it.
EmptiedInv ==
  forgetting = None =>
    \A s \in Sinks : rotating[s] \in 1 .. KeepFiles - 1 => disk[rotating[s]] = NoFile

FilesInv == HolderInv /\ EmptiedInv

\* With nothing to remove, the one sink that may rotate is the app's.
LEMMA OneRotates ==
  ASSUME Inv, HolderInv, forgetting = None, NEW s \in Sinks, s \in holders, ~closed[s]
  PROVE  s = apps /\ \A q \in Sinks : rotating[q] # 0 => q = s
<1>1. None \notin Sinks
  BY NumbersAssumption
<1>2. \A q \in Sinks : q \in holders /\ ~closed[q] => q = apps
  BY <1>1 DEF HolderInv
<1>. QED
  BY <1>2 DEF Inv, RotatingInv

\* The app's collectors append, and rotate.
LEMMA AppendFiles ==
  ASSUME Inv, FilesInv, NEW s \in Sinks,
         AppendLine(s) \/ AppendUnwritten(s) \/ AppendRotates(s) \/ Rename(s) \/ RenameCurrent(s)
           \/ Reopen(s) \/ FailRotation(s)
  PROVE  FilesInv'
<1>1. UNCHANGED hubVars /\ closed' = closed
  BY DEF AppendLine, AppendUnwritten, AppendRotates, Rename, RenameCurrent, Reopen, FailRotation
<1>2. HolderInv'
  BY <1>1 DEF FilesInv, HolderInv, hubVars
<1>3. s \in holders /\ ~closed[s]
  <2>1. rotating[s] # 0 => s \in holders /\ ~closed[s]
    BY DEF Inv, RotatingInv
  <2>2. KeepFiles \in Nat \ {0}
    BY SizesAssumption
  <2>. QED
    BY <2>1, <2>2 DEF AppendLine, AppendUnwritten, AppendRotates, MayAppend, Rename, RenameCurrent,
                      Reopen, FailRotation, Free, Opening
<1>4. SUFFICES ASSUME forgetting = None, NEW q \in Sinks, rotating'[q] \in 1 .. KeepFiles - 1
               PROVE  disk'[rotating'[q]] = NoFile
  BY <1>1, <1>2 DEF FilesInv, EmptiedInv, hubVars
<1>5. \A p \in Sinks : rotating[p] # 0 => p = s
  BY <1>3, <1>4, OneRotates DEF FilesInv
<1>6. /\ KeepFiles \in Nat \ {0} /\ Names = 0 .. KeepFiles
      /\ disk \in [Names -> Nat \cup {NoFile}] /\ rotating \in [Sinks -> 0 .. KeepFiles + 1]
  BY SizesAssumption DEF Inv, TypeOK, Names, Opening
<1>7. CASE AppendLine(s) \/ AppendUnwritten(s)
  BY <1>4, <1>5, <1>6, <1>7 DEF AppendLine, AppendUnwritten, MayAppend, Free, fileVars
<1>8. CASE AppendRotates(s)
  BY <1>4, <1>5, <1>6, <1>8 DEF AppendRotates, MayAppend, Free
<1>9. CASE Reopen(s) \/ FailRotation(s)
  BY <1>4, <1>5, <1>6, <1>9 DEF Reopen, FailRotation
<1>10. CASE RenameCurrent(s)
  BY <1>4, <1>5, <1>6, <1>10 DEF RenameCurrent, Opening
<1>11. CASE Rename(s)
  <2>1. rotating[s] \in 2 .. KeepFiles /\ Move(rotating[s]) /\ rotating' = [rotating EXCEPT ![s] = @ - 1]
    BY <1>11 DEF Rename, Shift
  <2>2. q = s /\ rotating'[q] = rotating[s] - 1
    BY <1>4, <1>5, <1>6, <2>1
  <2>3. rotating[s] \in Names /\ rotating[s] - 1 \in Names /\ rotating[s] # rotating[s] - 1
    BY <1>6, <2>1
  <2>. QED
    BY <1>6, <2>1, <2>2, <2>3 DEF Move
<1>. QED
  BY <1>7, <1>8, <1>9, <1>10, <1>11

\* A sink is found or made: what it opens is the current file.
LEMMA SinkFiles ==
  ASSUME Inv, FilesInv, NEW s \in Sinks, Collect(s) \/ \E r \in Readers : Subscribe(r, s)
  PROVE  FilesInv'
<1>1. Sink(s) /\ forgetting' = forgetting /\ holders' \subseteq holders \cup {s}
  BY DEF Collect, Subscribe
<1>2. rotating' = rotating /\ \A i \in 1 .. KeepFiles : disk'[i] = disk[i]
  <2>1. KeepFiles \in Nat \ {0} /\ disk \in [0 .. KeepFiles -> Nat \cup {NoFile}]
    BY SizesAssumption DEF Inv, TypeOK, Names
  <2>. QED
    BY <1>1, <2>1 DEF Sink, Open, fileVars
<1>3. HolderInv'
  <2>1. CASE apps = s
    <3>1. UNCHANGED <<apps, closed>>
      BY <1>1, <2>1, NumbersAssumption DEF Sink
    <3>. QED
      BY <1>1, <2>1, <3>1 DEF FilesInv, HolderInv
  <2>2. CASE apps = None
    <3>1. None \notin Sinks /\ holders \subseteq Sinks /\ closed \in [Sinks -> BOOLEAN]
      BY NumbersAssumption DEF Inv, TypeOK
    <3>2. /\ s \notin holders /\ closed' = [closed EXCEPT ![s] = hubClosed]
          /\ apps' = IF hubClosed THEN None ELSE s
      BY <1>1, <2>2, <3>1 DEF Sink, Fresh, Unused
    <3>. QED
      BY <1>1, <2>2, <3>1, <3>2 DEF FilesInv, HolderInv
  <2>. QED
    BY <1>1, <2>1, <2>2 DEF Sink
<1>4. EmptiedInv'
  <2>1. \A i \in 1 .. KeepFiles - 1 : i \in 1 .. KeepFiles
    BY SizesAssumption
  <2>. QED
    BY <1>1, <1>2, <2>1 DEF FilesInv, EmptiedInv
<1>. QED
  BY <1>3, <1>4 DEF FilesInv

\* Nobody appends: a sink is closed, forgotten or left.
LEMMA HubFiles ==
  ASSUME Inv, FilesInv,
         Forget \/ ForgetCloses \/ ForgetRemoves \/ Close \/ \E s \in Sinks : CollectEnds(s) \/ CloseNext(s)
  PROVE  FilesInv'
<1>1. None \notin Sinks /\ holders \subseteq Sinks /\ closed \in [Sinks -> BOOLEAN]
  BY NumbersAssumption DEF Inv, TypeOK
<1>2. CASE Forget
  BY <1>1, <1>2 DEF Forget, FilesInv, HolderInv, EmptiedInv, fileVars
<1>3. CASE ForgetRemoves
  <2>1. HolderInv'
    BY <1>3 DEF ForgetRemoves, FilesInv, HolderInv
  <2>2. 1 .. KeepFiles - 1 \subseteq Names
    BY SizesAssumption DEF Names
  <2>3. EmptiedInv'
    BY <1>3, <2>2 DEF ForgetRemoves, EmptiedInv
  <2>. QED
    BY <2>1, <2>3 DEF FilesInv
<1>4. CASE Close \/ \E s \in Sinks : CollectEnds(s)
  BY <1>4 DEF Close, CollectEnds, FilesInv, HolderInv, EmptiedInv, fileVars
<1>5. CASE ForgetCloses \/ \E s \in Sinks : CloseNext(s)
  <2>1. PICK s \in Sinks : CloseSink(s) /\ UNCHANGED <<apps, forgetting, holders>>
    BY <1>5 DEF ForgetCloses, CloseNext, hubVars, Inv, TypeOK
  <2>2. \A q \in Sinks : closed[q] => closed'[q]
    BY <1>1, <2>1 DEF CloseSink
  <2>. QED
    BY <1>1, <2>1, <2>2 DEF CloseSink, FilesInv, HolderInv, EmptiedInv
<1>. QED
  BY <1>2, <1>3, <1>4, <1>5

LEMMA FilesStep ==
  ASSUME Inv, FilesInv, [Next]_vars
  PROVE  FilesInv'
<1>1. ASSUME UNCHANGED <<hubVars, closed, fileVars>> PROVE FilesInv'
  BY <1>1 DEF FilesInv, HolderInv, EmptiedInv, hubVars, fileVars
<1>2. CASE UNCHANGED vars
  BY <1>1, <1>2 DEF vars
<1>3. ASSUME NEW s \in Sinks,
             AppendLine(s) \/ AppendUnwritten(s) \/ AppendRotates(s) \/ Rename(s) \/ RenameCurrent(s)
               \/ Reopen(s) \/ FailRotation(s)
      PROVE  FilesInv'
  BY <1>3, AppendFiles
<1>4. ASSUME NEW s \in Sinks, Collect(s) \/ \E r \in Readers : Subscribe(r, s) PROVE FilesInv'
  BY <1>4, SinkFiles
<1>5. CASE Forget \/ ForgetCloses \/ ForgetRemoves \/ Close \/ \E s \in Sinks : CollectEnds(s) \/ CloseNext(s)
  BY <1>5, HubFiles
<1>6. ASSUME NEW r \in Readers, (\E tail \in Tails : SubscribeTail(r, tail)) \/ Read(r) \/ Leave(r)
      PROVE  FilesInv'
  BY <1>1, <1>6 DEF SubscribeTail, Read, Leave
<1>7. CASE Restart
  <2>1. rotating' = [s \in Sinks |-> 0] /\ holders' = {}
    BY <1>7 DEF Restart
  <2>. QED
    BY <2>1 DEF FilesInv, HolderInv, EmptiedInv
<1>. QED
  BY <1>2, <1>3, <1>4, <1>5, <1>6, <1>7 DEF Next

LEMMA FilesHold == Spec => []FilesInv
<1>1. Init => FilesInv
  BY DEF Init, Empty, FilesInv, HolderInv, EmptiedInv
<1>. QED
  BY <1>1, FilesStep, InvHolds, PTL DEF Spec

\* The lengths are numbers, and grow with the files.
LEMMA LengthsType ==
  ASSUME TypeOK, TypeOK'
  PROVE  /\ Lengths \in [Names -> Nat] /\ Lengths' \in [Names -> Nat] /\ KeepFiles \in Names
         /\ \A i \in Names : disk'[i] >= disk[i] => Lengths'[i] >= Lengths[i]
<1>1. \A l \in Nat \cup {NoFile} : (IF l = NoFile THEN 0 ELSE l) \in Nat
  OBVIOUS
<1>2. \A k, l \in Nat \cup {NoFile} :
        l >= k => (IF l = NoFile THEN 0 ELSE l) >= (IF k = NoFile THEN 0 ELSE k)
  BY DEF NoFile
<1>3. disk \in [Names -> Nat \cup {NoFile}] /\ disk' \in [Names -> Nat \cup {NoFile}]
  BY DEF TypeOK
<1>4. KeepFiles \in Names
  BY SizesAssumption DEF Names
<1>. QED
  BY <1>1, <1>2, <1>3, <1>4 DEF Lengths

\* No file gets shorter.
LEMMA NoneShorter ==
  ASSUME TypeOK, TypeOK', \A i \in Names : disk'[i] >= disk[i]
  PROVE  Recorded' >= Recorded - Lengths[KeepFiles]
<1>1. Lengths \in [Names -> Nat] /\ Lengths' \in [Names -> Nat] /\ KeepFiles \in Names
  BY LengthsType
<1>2. \A i \in Names : Lengths'[i] >= Lengths[i]
  BY LengthsType
<1> DEFINE d == [i \in Names |-> 0]
<1>3. KeepFiles \in Nat \ {0} /\ Names = 0 .. KeepFiles
  BY SizesAssumption DEF Names
<1>4. /\ d \in [Names -> Int] /\ d[KeepFiles] = 0 /\ d[0] <= Lengths'[0] - Lengths[0]
      /\ \A i \in 1 .. KeepFiles : d[i] <= d[i - 1] + Lengths'[i] - Lengths[i]
  BY <1>1, <1>2, <1>3
<1>. HIDE DEF d
<1>5. Total(Lengths) \in Int /\ Total(Lengths') \in Int /\ Total(Lengths') >= Total(Lengths) + d[KeepFiles]
  BY <1>1, <1>4, TotalsApart
<1>6. Recorded = Total(Lengths) /\ Recorded' = Total(Lengths')
  BY DEF Recorded, Total
<1>. QED
  BY <1>1, <1>4, <1>5, <1>6

\* A file moves over the oldest, or to a name that is free.
LEMMA OneMoves ==
  ASSUME TypeOK, TypeOK', NEW k \in 1 .. KeepFiles, Move(k), k = KeepFiles \/ disk[k] = NoFile
  PROVE  Recorded' >= Recorded - Lengths[KeepFiles]
<1>1. Lengths \in [Names -> Nat] /\ Lengths' \in [Names -> Nat] /\ KeepFiles \in Names
  BY LengthsType
<1>2. KeepFiles \in Nat \ {0} /\ Names = 0 .. KeepFiles /\ disk \in [Names -> Nat \cup {NoFile}]
  BY SizesAssumption DEF Names, TypeOK
<1>3. CASE disk[k - 1] = NoFile
  <2>1. \A i \in Names : disk'[i] >= disk[i]
    BY <1>2, <1>3 DEF Move, NoFile
  <2>. QED
    BY <2>1, NoneShorter
<1>4. CASE disk[k - 1] # NoFile
  <2>1. disk' = [disk EXCEPT ![k] = disk[k - 1], ![k - 1] = NoFile] /\ k - 1 \in Names /\ k \in Names
    BY <1>2, <1>4 DEF Move
  <2>2. /\ Lengths'[k] = Lengths[k - 1] /\ Lengths'[k - 1] = 0
        /\ \A i \in Names \ {k, k - 1} : Lengths'[i] = Lengths[i]
    BY <1>2, <1>4, <2>1 DEF Lengths
  <2> DEFINE d == [i \in Names |-> IF i < k - 1 THEN 0 ELSE IF i = k - 1 THEN 0 - Lengths[k - 1] ELSE 0 - Lengths[k]]
  <2>3. d \in [Names -> Int] /\ d[KeepFiles] = 0 - Lengths[k]
    BY <1>1, <1>2, <2>1
  <2>4. d[0] <= Lengths'[0] - Lengths[0]
    BY <1>1, <1>2, <2>1, <2>2
  <2>5. ASSUME NEW i \in 1 .. KeepFiles PROVE d[i] <= d[i - 1] + Lengths'[i] - Lengths[i]
    <3>1. i \in Names /\ i - 1 \in Names
      BY <1>2
    <3>2. CASE i < k - 1
      BY <1>1, <2>2, <3>1, <3>2
    <3>3. CASE i = k - 1
      BY <1>1, <2>2, <3>1, <3>3
    <3>4. CASE i = k
      BY <1>1, <2>2, <3>1, <3>4
    <3>5. CASE i > k
      <4>1. d[i] = 0 - Lengths[k] /\ d[i - 1] = 0 - Lengths[k] /\ Lengths'[i] = Lengths[i]
        BY <1>2, <2>2, <3>1, <3>5
      <4>2. Lengths[k] \in Nat /\ Lengths[i] \in Nat
        BY <1>1, <2>1, <3>1
      <4>. QED
        BY <4>1, <4>2
    <3>. QED
      BY <3>2, <3>3, <3>4, <3>5
  <2>. HIDE DEF d
  <2>6. Total(Lengths) \in Int /\ Total(Lengths') \in Int /\ Total(Lengths') >= Total(Lengths) + d[KeepFiles]
    BY <1>1, <2>3, <2>4, <2>5, TotalsApart
  <2>7. Recorded = Total(Lengths) /\ Recorded' = Total(Lengths')
    BY DEF Recorded, Total
  <2>8. Lengths[k] <= Lengths[KeepFiles]
    BY <1>1, <2>1 DEF Lengths
  <2>. QED
    BY <1>1, <2>1, <2>3, <2>6, <2>7, <2>8
<1>. QED
  BY <1>3, <1>4

\* What a step takes from the disk.
LEMMA LossStep ==
  ASSUME Inv, Inv', FilesInv, [Next]_vars, forgetting = None
  PROVE  Recorded' >= Recorded - Lengths[KeepFiles]
<1>1. TypeOK /\ TypeOK'
  BY DEF Inv
<1>2. KeepFiles \in Nat \ {0} /\ Names = 0 .. KeepFiles /\ disk \in [Names -> Nat \cup {NoFile}]
  BY <1>1, SizesAssumption DEF Names, TypeOK
<1>3. ASSUME disk' = disk PROVE Recorded' >= Recorded - Lengths[KeepFiles]
  <2>1. \A i \in Names : disk'[i] >= disk[i]
    BY <1>2, <1>3 DEF NoFile
  <2>. QED
    BY <1>1, <2>1, NoneShorter
<1>4. ASSUME NEW s \in Sinks, Rename(s) \/ RenameCurrent(s)
      PROVE  Recorded' >= Recorded - Lengths[KeepFiles]
  <2>1. /\ rotating[s] \in 1 .. KeepFiles /\ Move(rotating[s])
    BY <1>2, <1>4 DEF Rename, RenameCurrent, Shift
  <2>2. rotating[s] = KeepFiles \/ disk[rotating[s]] = NoFile
    BY <1>2, <2>1 DEF FilesInv, EmptiedInv
  <2>. QED
    BY <1>1, <2>1, <2>2, OneMoves
<1>5. ASSUME NEW s \in Sinks, AppendLine(s) \/ Reopen(s) \/ Sink(s)
      PROVE  Recorded' >= Recorded - Lengths[KeepFiles]
  <2>1. CASE AppendLine(s)
    <3>1. \A i \in Names : disk'[i] >= disk[i]
      BY <1>2, <2>1 DEF AppendLine, Write, NoFile
    <3>. QED
      BY <1>1, <3>1, NoneShorter
  <2>2. CASE Reopen(s)
    <3>1. PICK written \in {0, 1} :
            disk' = [disk EXCEPT ![0] = (IF disk[0] = NoFile THEN 0 ELSE disk[0]) + written]
      BY <2>2 DEF Reopen
    <3>2. \A i \in Names : disk'[i] >= disk[i]
      BY <1>2, <3>1 DEF NoFile
    <3>. QED
      BY <1>1, <3>2, NoneShorter
  <2>3. CASE Sink(s)
    <3>1. \A i \in Names : disk'[i] >= disk[i]
      BY <1>2, <2>3 DEF Sink, Open, fileVars, NoFile
    <3>. QED
      BY <1>1, <3>1, NoneShorter
  <2>. QED
    BY <1>5, <2>1, <2>2, <2>3
<1>6. ASSUME NEW s \in Sinks,
             AppendUnwritten(s) \/ AppendRotates(s) \/ FailRotation(s) \/ CollectEnds(s) \/ CloseNext(s)
      PROVE  disk' = disk
  BY <1>6 DEF AppendUnwritten, AppendRotates, FailRotation, CollectEnds, CloseNext, CloseSink, fileVars
<1>7. ASSUME NEW s \in Sinks, Collect(s) \/ \E r \in Readers : Subscribe(r, s) PROVE Sink(s)
  BY <1>7 DEF Collect, Subscribe
<1>8. ASSUME NEW r \in Readers, (\E tail \in Tails : SubscribeTail(r, tail)) \/ Read(r) \/ Leave(r)
      PROVE  disk' = disk
  BY <1>8 DEF SubscribeTail, Read, Leave, fileVars
<1>9. CASE Forget \/ ForgetCloses \/ Close \/ Restart
  BY <1>3, <1>9 DEF Forget, ForgetCloses, CloseSink, Close, Restart, fileVars
<1>10. ~ForgetRemoves
  BY DEF ForgetRemoves
<1>11. CASE UNCHANGED vars
  BY <1>3, <1>11 DEF vars, fileVars
<1>. QED
  BY <1>3, <1>4, <1>5, <1>6, <1>7, <1>8, <1>9, <1>10, <1>11 DEF Next

\* However many files are kept and however long they are, a step of the log loses
\* no more than what the oldest file holds.
THEOREM RotationLosesTheOldest == Spec => OnlyTheOldestIsLost
<1>1. ASSUME Inv, Inv', FilesInv, [Next]_vars
      PROVE  [forgetting = None => Recorded' >= Recorded - Lengths[KeepFiles]]_vars
  BY <1>1, LossStep
<1>. QED
  BY <1>1, InvHolds, FilesHold, PTL DEF Spec, OnlyTheOldestIsLost
=============================================================================
