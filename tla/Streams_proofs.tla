---------------------------- MODULE Streams_proofs ----------------------------
(***************************************************************************)
(* The live pages show runs without a hole (LiveStreams), proved for every *)
(* size of the ring, of its tail and of the pages, and any tenants.  At    *)
(* the end, what the invariants of all components say of their types.      *)
(***************************************************************************)
EXTENDS Console_proofs, Pages_proofs

-----------------------------------------------------------------------------
(* The live streams: the ring *)

\* The cell that was written d lines ago.
Cell(h, d) == IF d <= h THEN h - d ELSE h + RingSize - d

\* The ring holds the last lines pushed.
RingInv ==
    /\ s_slots \in [0 .. RingSize - 1 -> 0 .. MaxLines]
    /\ s_head \in 0 .. RingSize - 1 /\ s_count \in 0 .. RingSize /\ s_pushed \in 0 .. MaxLines
    /\ s_count <= s_pushed
    /\ \A d \in 1 .. s_count : s_slots[Cell(s_head, d)] = s_pushed - d + 1

\* The remainder, for an index that is at most one lap ahead.
LEMMA WrapsAround ==
    ASSUME NEW n \in Nat \ {0}, NEW x \in Nat
    PROVE  /\ x < n => x % n = x
           /\ n <= x /\ x < n + n => x % n = x - n
<1>1. ASSUME x < n PROVE x % n = x
  BY <1>1
<1>2. ASSUME n <= x, x < n + n PROVE x % n = x - n
  BY <1>2
<1> QED BY <1>1, <1>2

\* A line takes the oldest cell, or a free one.
LEMMA PushKeepsRing ==
    ASSUME RingInv, S!push
    PROVE  RingInv' /\ s_pushed' = s_pushed + 1
<1>1. /\ s_pushed < MaxLines /\ s_pushed' = s_pushed + 1
      /\ s_slots' = [s_slots EXCEPT ![s_head] = s_pushed + 1]
      /\ s_head' = (s_head + 1) % RingSize
      /\ s_count' = IF s_count < RingSize THEN s_count + 1 ELSE s_count
  BY DEF S!push, S!Counted
<1>2. /\ RingSize \in Nat \ {0} /\ MaxLines \in Nat /\ s_head \in 0 .. RingSize - 1
      /\ s_count \in 0 .. RingSize /\ s_pushed \in 0 .. MaxLines /\ s_count <= s_pushed
  BY ServicesConstants DEF RingInv
<1>3. s_head' = IF s_head + 1 < RingSize THEN s_head + 1 ELSE 0
  <2>1. s_head + 1 \in Nat /\ s_head + 1 <= RingSize
    BY <1>2
  <2>2. CASE s_head + 1 < RingSize
    BY <1>1, <1>2, <2>1, <2>2, WrapsAround
  <2>3. CASE ~(s_head + 1 < RingSize)
    <3>1. RingSize <= s_head + 1 /\ s_head + 1 < RingSize + RingSize /\ s_head + 1 - RingSize = 0
      BY <1>2, <2>1, <2>3
    <3> QED BY <1>1, <1>2, <2>1, <2>3, <3>1, WrapsAround
  <2> QED BY <2>2, <2>3
<1>4. /\ s_head' \in 0 .. RingSize - 1 /\ s_count' \in 0 .. RingSize
      /\ s_pushed' \in 0 .. MaxLines /\ s_count' <= s_pushed'
  BY <1>1, <1>2, <1>3
<1>5. s_pushed + 1 \in 0 .. MaxLines
  BY <1>1, <1>2
<1>6. s_slots' \in [0 .. RingSize - 1 -> 0 .. MaxLines]
  BY <1>1, <1>5 DEF RingInv
<1>7. ASSUME NEW d \in 1 .. s_count'
      PROVE  s_slots'[Cell(s_head', d)] = s_pushed' - d + 1
  <2>1. CASE d = 1
    <3>1. Cell(s_head', 1) = s_head
      BY <1>2, <1>3 DEF Cell
    <3> QED BY <1>1, <1>2, <2>1, <3>1 DEF RingInv
  <2>2. CASE d > 1
    <3>1. d - 1 \in 1 .. s_count /\ d - 1 < RingSize
      BY <1>1, <1>2, <1>7, <2>2
    <3>2. Cell(s_head', d) = Cell(s_head, d - 1)
      BY <1>2, <1>3, <3>1 DEF Cell
    <3>3. Cell(s_head, d - 1) \in 0 .. RingSize - 1 /\ Cell(s_head, d - 1) # s_head
      BY <1>2, <3>1 DEF Cell
    <3>4. s_slots'[Cell(s_head, d - 1)] = s_slots[Cell(s_head, d - 1)]
      BY <1>1, <3>3 DEF RingInv
    <3>5. s_slots[Cell(s_head, d - 1)] = s_pushed - (d - 1) + 1
      BY <3>1 DEF RingInv
    <3> QED BY <1>1, <1>2, <3>1, <3>2, <3>4, <3>5
  <2>3. d = 1 \/ d > 1
    BY <1>4
  <2> QED BY <2>1, <2>2, <2>3
<1> QED BY <1>1, <1>4, <1>6, <1>7 DEF RingInv

\* What a new connection is sent: the last lines pushed, in order, up to the newest.
LEMMA TailIsNewest ==
    ASSUME RingInv
    PROVE  /\ S!tail(TailSize) \in Seq(Nat)
           /\ Len(S!tail(TailSize)) <= s_pushed
           /\ \A i \in 1 .. Len(S!tail(TailSize)) :
                 S!tail(TailSize)[i] = s_pushed - Len(S!tail(TailSize)) + i
<1> DEFINE take == IF TailSize < s_count THEN TailSize ELSE s_count
           start == (s_head - s_count + RingSize) % RingSize
           line == [i \in 1 .. take |-> s_slots[(start + s_count - take + i - 1) % RingSize]]
<1>1. S!tail(TailSize) = line
  BY DEF S!tail
<1>2. /\ RingSize \in Nat \ {0} /\ MaxLines \in Nat /\ TailSize \in Nat
      /\ s_head \in 0 .. RingSize - 1
      /\ s_count \in 0 .. RingSize /\ s_pushed \in 0 .. MaxLines /\ s_count <= s_pushed
  BY ServicesConstants DEF RingInv
<1>3. take \in 0 .. s_count /\ take \in Nat /\ take <= s_pushed
  BY <1>2
<1>4. start = IF s_count <= s_head THEN s_head - s_count ELSE s_head + RingSize - s_count
  <2>1. PICK x : x = s_head - s_count + RingSize
    OBVIOUS
  <2>2. x \in Nat /\ x < RingSize + RingSize /\ start = x % RingSize
    BY <1>2, <2>1
  <2>3. CASE s_count <= s_head
    <3>1. RingSize <= x
      BY <1>2, <2>1, <2>3
    <3>2. x % RingSize = x - RingSize
      BY <1>2, <2>2, <3>1, WrapsAround
    <3>3. x - RingSize = s_head - s_count
      BY <1>2, <2>1
    <3> QED BY <2>2, <2>3, <3>2, <3>3
  <2>4. CASE ~(s_count <= s_head)
    <3>1. x < RingSize
      BY <1>2, <2>1, <2>4
    <3>2. x % RingSize = x
      BY <1>2, <2>2, <3>1, WrapsAround
    <3>3. x = s_head + RingSize - s_count
      BY <1>2, <2>1
    <3> QED BY <2>2, <2>4, <3>2, <3>3
  <2> QED BY <2>3, <2>4
<1> HIDE DEF take, start
<1>5. ASSUME NEW i \in 1 .. take PROVE line[i] = s_pushed - take + i
  <2> DEFINE d == take - i + 1
             x == start + s_count - take + i - 1
  <2>1. d \in 1 .. s_count /\ d <= RingSize
    BY <1>2, <1>3
  <2>2. x \in Nat /\ x = start + s_count - d
    BY <1>2, <1>3, <1>4
  <2>3. x % RingSize = Cell(s_head, d)
    <3>1. CASE s_count <= s_head
      <4>1. x = s_head - d /\ d <= s_head /\ x < RingSize
        BY <1>2, <1>4, <2>1, <2>2, <3>1
      <4> QED BY <1>2, <2>2, <4>1, WrapsAround DEF Cell
    <3>2. CASE ~(s_count <= s_head) /\ d <= s_head
      <4>1. x = s_head + RingSize - d /\ RingSize <= x /\ x < RingSize + RingSize
            /\ x - RingSize = s_head - d
        BY <1>2, <1>4, <2>1, <2>2, <3>2
      <4> QED BY <1>2, <2>2, <3>2, <4>1, WrapsAround DEF Cell
    <3>3. CASE ~(s_count <= s_head) /\ ~(d <= s_head)
      <4>1. x = s_head + RingSize - d /\ x < RingSize
        BY <1>2, <1>4, <2>1, <2>2, <3>3
      <4> QED BY <1>2, <2>2, <3>3, <4>1, WrapsAround DEF Cell
    <3> QED BY <3>1, <3>2, <3>3
  <2>4. line[i] = s_slots[Cell(s_head, d)]
    BY <2>3
  <2>5. s_slots[Cell(s_head, d)] = s_pushed - d + 1
    BY <2>1 DEF RingInv
  <2>6. s_pushed - d + 1 = s_pushed - take + i
    BY <1>2, <1>3
  <2> QED BY <2>4, <2>5, <2>6
<1>6. line \in [1 .. take -> Nat]
  <2>1. \A i \in 1 .. take : line[i] \in Nat
    BY <1>2, <1>3, <1>5
  <2> QED BY <2>1
<1>7. line \in Seq(Nat) /\ Len(line) = take
  BY <1>3, <1>6
<1> QED BY <1>1, <1>3, <1>5, <1>7

-----------------------------------------------------------------------------
(* The live streams: sockets and pages *)

\* What is assumed of the sizes.
LEMMA StreamConstants ==
    /\ RingSize \in Nat \ {0} /\ PageSize \in Nat \ {0} /\ TailSize \in Nat
    /\ MaxLines \in Nat /\ MaxConnects \in Nat
BY ServicesConstants

\* The frames on their way are the numbers up to the newest, in order.
Carries(c, newest) ==
    /\ c \in S!Socket
    /\ ~c.open => c.wire = <<>>
    /\ Len(c.wire) <= newest
    /\ \A i \in 1 .. Len(c.wire) : c.wire[i] = newest - Len(c.wire) + i

\* The fields of a connection.
LEMMA SocketFields ==
    ASSUME NEW c \in S!Socket
    PROVE  c.open \in BOOLEAN /\ c.number \in 0 .. MaxConnects /\ c.wire \in Seq(Nat)
           /\ Len(c.wire) \in Nat
BY DEF S!Socket

\* A row more on the wire of an open connection; a closed one gets nothing.
LEMMA SendCarries ==
    ASSUME NEW newest \in Nat, NEW c, Carries(c, newest)
    PROVE  LET sent == S!Send(c, <<newest + 1>>) IN
           /\ Carries(sent, newest + 1)
           /\ sent.open = c.open /\ sent.number = c.number
           /\ c.open => Len(sent.wire) = Len(c.wire) + 1
<1>1. c \in S!Socket /\ Len(c.wire) \in Nat /\ c.wire \in Seq(Nat)
  BY SocketFields DEF Carries
<1>2. CASE c.open
  <2>1. PICK w : w = c.wire \o <<newest + 1>>
    OBVIOUS
  <2>2. /\ w \in Seq(Nat) /\ Len(w) = Len(c.wire) + 1 /\ w[Len(c.wire) + 1] = newest + 1
        /\ \A i \in 1 .. Len(c.wire) : w[i] = c.wire[i]
    BY <1>1, <2>1
  <2>3. S!Send(c, <<newest + 1>>) = [c EXCEPT !.wire = w]
    BY <1>2, <2>1 DEF S!Send
  <2>4. PICK r : r = [c EXCEPT !.wire = w]
    OBVIOUS
  <2>5. r \in S!Socket /\ r.wire = w /\ r.open = c.open /\ r.number = c.number
    BY <1>1, <2>2, <2>4 DEF S!Socket
  <2>6. ASSUME NEW i \in 1 .. Len(w) PROVE w[i] = newest + 1 - Len(w) + i
    <3>1. CASE i \in 1 .. Len(c.wire)
      <4>1. w[i] = newest - Len(c.wire) + i
        BY <2>2, <3>1 DEF Carries
      <4>2. newest - Len(c.wire) + i = newest + 1 - Len(w) + i
        BY <1>1, <2>2, <3>1
      <4> QED BY <4>1, <4>2
    <3>2. CASE i = Len(c.wire) + 1
      <4>1. newest + 1 = newest + 1 - Len(w) + i
        BY <1>1, <2>2, <3>2
      <4> QED BY <2>2, <3>2, <4>1
    <3> QED BY <1>1, <2>2, <3>1, <3>2
  <2>7. Len(w) <= newest + 1
    <3>1. Len(c.wire) <= newest
      BY DEF Carries
    <3> QED BY <1>1, <2>2, <3>1
  <2>8. Carries(r, newest + 1)
    BY <1>2, <2>5, <2>6, <2>7 DEF Carries
  <2> QED BY <2>2, <2>3, <2>4, <2>5, <2>8
<1>3. CASE ~c.open
  <2>1. S!Send(c, <<newest + 1>>) = c
    BY <1>3 DEF S!Send
  <2>2. Carries(c, newest + 1)
    BY <1>3 DEF Carries
  <2> QED BY <1>3, <2>1, <2>2
<1> QED BY <1>2, <1>3

\* A connection that is cut carries nothing.
LEMMA ClosedCarries ==
    ASSUME NEW newest \in Nat, NEW c \in S!Socket
    PROVE  LET gone == [c EXCEPT !.open = FALSE, !.wire = <<>>] IN
           Carries(gone, newest) /\ ~gone.open /\ gone.wire = <<>> /\ gone.number = c.number
<1>1. PICK r : r = [c EXCEPT !.open = FALSE, !.wire = <<>>]
  OBVIOUS
<1>2. <<>> \in Seq(Nat) /\ Len(<<>>) = 0
  BY EmptySeq
<1>3. r \in S!Socket /\ r.open = FALSE /\ r.wire = <<>> /\ r.number = c.number
  BY <1>1, <1>2 DEF S!Socket
<1>4. Carries(r, newest)
  BY <1>2, <1>3 DEF Carries
<1> QED BY <1>1, <1>3, <1>4

\* The page takes the oldest row from the wire.
LEMMA TakeCarries ==
    ASSUME NEW newest \in Nat, NEW c, Carries(c, newest), c.wire # <<>>
    PROVE  LET rest == [c EXCEPT !.wire = Tail(@)] IN
           /\ Carries(rest, newest) /\ c.open /\ rest.open /\ rest.number = c.number
           /\ Len(c.wire) \in Nat /\ Len(c.wire) >= 1 /\ Len(c.wire) <= newest
           /\ Len(rest.wire) = Len(c.wire) - 1
           /\ Head(c.wire) = newest - Len(c.wire) + 1
<1>1. c \in S!Socket /\ Len(c.wire) \in Nat /\ c.wire \in Seq(Nat) /\ c.open
  BY SocketFields DEF Carries
<1>2. PICK w : w = Tail(c.wire)
  OBVIOUS
<1>3. /\ w \in Seq(Nat) /\ Len(w) = Len(c.wire) - 1 /\ Len(c.wire) >= 1
      /\ \A i \in 1 .. Len(w) : w[i] = c.wire[i + 1]
      /\ Head(c.wire) = c.wire[1]
  BY <1>1, <1>2, HeadTailProperties, EmptySeq
<1>4. PICK r : r = [c EXCEPT !.wire = w]
  OBVIOUS
<1>5. r \in S!Socket /\ r.wire = w /\ r.open = c.open /\ r.number = c.number
  BY <1>1, <1>3, <1>4 DEF S!Socket
<1>6. Len(c.wire) <= newest /\ \A i \in 1 .. Len(c.wire) : c.wire[i] = newest - Len(c.wire) + i
  BY DEF Carries
<1>7. ASSUME NEW i \in 1 .. Len(w) PROVE w[i] = newest - Len(w) + i
  <2>1. i + 1 \in 1 .. Len(c.wire) /\ w[i] = c.wire[i + 1]
    BY <1>1, <1>3
  <2>2. w[i] = newest - Len(c.wire) + (i + 1)
    BY <1>6, <2>1
  <2>3. newest - Len(c.wire) + (i + 1) = newest - Len(w) + i
    BY <1>1, <1>3
  <2> QED BY <2>2, <2>3
<1>8. Len(w) <= newest
  BY <1>1, <1>3, <1>6
<1>9. Carries(r, newest)
  BY <1>1, <1>5, <1>7, <1>8 DEF Carries
<1>10. c.wire[1] = newest - Len(c.wire) + 1
  <2>1. 1 \in 1 .. Len(c.wire)
    BY <1>1, <1>3
  <2> QED BY <1>6, <2>1
<1> QED BY <1>1, <1>2, <1>3, <1>4, <1>5, <1>6, <1>9, <1>10

\* slice(-n) of a list.
LEMMA NewestOf ==
    ASSUME NEW T, NEW s \in Seq(T), NEW n \in Nat
    PROVE  LET r == S!Newest(s, n) IN
           /\ r \in Seq(T)
           /\ Len(r) = IF Len(s) > n THEN n ELSE Len(s)
           /\ \A i \in 1 .. Len(r) : r[i] = s[Len(s) - Len(r) + i]
<1>1. Len(s) \in Nat /\ \A i \in 1 .. Len(s) : s[i] \in T
  OBVIOUS
<1>2. PICK m : m = IF Len(s) > n THEN Len(s) - n + 1 ELSE 1
  OBVIOUS
<1>3. m \in Int /\ 1 <= m /\ m <= Len(s) + 1
  BY <1>1, <1>2
<1>4. S!Newest(s, n) = SubSeq(s, m, Len(s))
  BY <1>2 DEF S!Newest
<1>5. PICK r : r = SubSeq(s, m, Len(s))
  OBVIOUS
<1>6. \A i \in m .. Len(s) : s[i] \in T
  BY <1>1, <1>3
<1>7. /\ r \in Seq(T) /\ Len(r) = (IF m <= Len(s) THEN Len(s) - m + 1 ELSE 0)
      /\ \A i \in 1 .. Len(s) - m + 1 : r[i] = s[m + i - 1]
  BY <1>1, <1>3, <1>5, <1>6, SubSeqProperties
<1>8. Len(r) = Len(s) - m + 1
  BY <1>1, <1>3, <1>7
<1>9. Len(r) = IF Len(s) > n THEN n ELSE Len(s)
  BY <1>1, <1>2, <1>8
<1>10. ASSUME NEW i \in 1 .. Len(r) PROVE r[i] = s[Len(s) - Len(r) + i]
  <2>1. r[i] = s[m + i - 1]
    BY <1>1, <1>3, <1>7, <1>8
  <2>2. m + i - 1 = Len(s) - Len(r) + i
    BY <1>1, <1>3, <1>8
  <2> QED BY <2>1, <2>2
<1> QED BY <1>4, <1>5, <1>7, <1>9, <1>10

Shown == [conn : Nat, line : Nat]

Follows(a, b) ==
    \/ a.conn < b.conn
    \/ a.conn = b.conn /\ b.line = a.line + 1

InRun(s) == \A i \in 1 .. Len(s) - 1 : Follows(s[i], s[i + 1])

\* A line that the page was the last to get: what the wire brings next comes after it.
LastRead(entry) ==
    /\ entry.conn <= s_logs.number
    /\ s_logs.open /\ entry.conn = s_logs.number => entry.line = s_pushed - Len(s_logs.wire)

\* Two runs, of which the pen goes on where the list ends unless it lost lines, and is
\* then as long as the page.
LogPageInv ==
    /\ s_lines \in Seq(Shown) /\ s_pen \in Seq(Shown) /\ s_paused \in BOOLEAN
    /\ Len(s_lines) <= PageSize /\ Len(s_pen) <= PageSize
    /\ InRun(s_lines) /\ InRun(s_pen)
    /\ ~s_paused => s_pen = <<>>
    /\ s_lines # <<>> /\ s_pen # <<>> =>
          Len(s_pen) = PageSize \/ Follows(s_lines[Len(s_lines)], s_pen[1])
    /\ s_pen # <<>> => LastRead(s_pen[Len(s_pen)])
    /\ s_pen = <<>> /\ s_lines # <<>> => LastRead(s_lines[Len(s_lines)])

\* A page without lines has no hole.
LEMMA EmptyRuns == <<>> \in Seq(Shown) /\ Len(<<>>) = 0 /\ InRun(<<>>)
<1>1. <<>> \in Seq(Shown) /\ Len(<<>>) = 0
  BY EmptySeq
<1> QED BY <1>1 DEF InRun

\* The next line on a run without holes.
LEMMA RunAppended ==
    ASSUME NEW s \in Seq(Shown), NEW e \in Shown, InRun(s),
           s # <<>> => Follows(s[Len(s)], e)
    PROVE  LET r == Append(s, e) IN
           /\ r \in Seq(Shown) /\ InRun(r) /\ Len(r) = Len(s) + 1 /\ r # <<>>
           /\ r[Len(r)] = e
           /\ s # <<>> => r[1] = s[1]
<1>1. PICK r : r = Append(s, e)
  OBVIOUS
<1>2. /\ r \in Seq(Shown) /\ Len(r) = Len(s) + 1 /\ r # <<>> /\ r[Len(s) + 1] = e
      /\ \A i \in 1 .. Len(s) : r[i] = s[i]
  BY <1>1, AppendProperties
<1>3. Len(s) \in Nat /\ (s # <<>> => Len(s) >= 1)
  BY EmptySeq
<1>4. ASSUME NEW i \in 1 .. Len(r) - 1 PROVE Follows(r[i], r[i + 1])
  <2>1. i \in 1 .. Len(s)
    BY <1>2, <1>3
  <2>2. CASE i = Len(s)
    <3>1. s # <<>>
      BY <1>3, <2>1, EmptyRuns
    <3>2. r[i] = s[Len(s)] /\ r[i + 1] = e
      BY <1>2, <2>1, <2>2
    <3> QED BY <3>1, <3>2
  <2>3. CASE i # Len(s)
    <3>1. i \in 1 .. Len(s) - 1 /\ i + 1 \in 1 .. Len(s)
      BY <1>3, <2>1, <2>3
    <3>2. r[i] = s[i] /\ r[i + 1] = s[i + 1]
      BY <1>2, <3>1, <2>1
    <3> QED BY <3>1, <3>2 DEF InRun
  <2> QED BY <2>2, <2>3
<1>5. s # <<>> => r[1] = s[1]
  BY <1>2, <1>3
<1>6. InRun(r)
  BY <1>4 DEF InRun
<1> QED BY <1>1, <1>2, <1>5, <1>6

\* Two runs without holes, the second going on from the first.
LEMMA RunsJoined ==
    ASSUME NEW s \in Seq(Shown), NEW u \in Seq(Shown), InRun(s), InRun(u),
           s # <<>> /\ u # <<>> => Follows(s[Len(s)], u[1])
    PROVE  InRun(s \o u)
<1>1. PICK r : r = s \o u
  OBVIOUS
<1>2. /\ r \in Seq(Shown) /\ Len(r) = Len(s) + Len(u)
      /\ \A i \in 1 .. Len(s) + Len(u) : r[i] = IF i <= Len(s) THEN s[i] ELSE u[i - Len(s)]
  BY <1>1, ConcatProperties
<1>3. Len(s) \in Nat /\ Len(u) \in Nat /\ Len(<<>>) = 0
  BY EmptySeq
<1>4. ASSUME NEW i \in 1 .. Len(r) - 1 PROVE Follows(r[i], r[i + 1])
  <2>1. i \in Nat /\ i >= 1 /\ i + 1 <= Len(s) + Len(u)
        /\ i \in 1 .. Len(s) + Len(u) /\ i + 1 \in 1 .. Len(s) + Len(u)
    BY <1>2, <1>3
  <2>2. CASE i + 1 <= Len(s)
    <3>1. r[i] = s[i] /\ r[i + 1] = s[i + 1] /\ i \in 1 .. Len(s) - 1
      BY <1>2, <1>3, <2>1, <2>2
    <3> QED BY <3>1 DEF InRun
  <2>3. CASE i = Len(s)
    <3>1. i <= Len(s) /\ ~(i + 1 <= Len(s)) /\ i + 1 - Len(s) = 1
      BY <1>3, <2>1, <2>3
    <3>2. r[i] = s[Len(s)] /\ r[i + 1] = u[1]
      BY <1>2, <2>1, <2>3, <3>1
    <3>3. s # <<>> /\ u # <<>>
      BY <1>3, <2>1, <2>3
    <3> QED BY <3>2, <3>3
  <2>4. CASE i > Len(s)
    <3>1. /\ ~(i <= Len(s)) /\ ~(i + 1 <= Len(s)) /\ i - Len(s) \in 1 .. Len(u) - 1
          /\ i + 1 - Len(s) = (i - Len(s)) + 1
      BY <1>3, <2>1, <2>4
    <3>2. r[i] = u[i - Len(s)] /\ r[i + 1] = u[(i - Len(s)) + 1]
      BY <1>2, <2>1, <3>1
    <3> QED BY <3>1, <3>2 DEF InRun
  <2>5. i + 1 <= Len(s) \/ i = Len(s) \/ i > Len(s)
    BY <1>3, <2>1
  <2> QED BY <2>2, <2>3, <2>4, <2>5
<1> QED BY <1>1, <1>4 DEF InRun

\* The newest lines of a run are a run: only the front is cut.
LEMMA NewestRuns ==
    ASSUME NEW s \in Seq(Shown), InRun(s)
    PROVE  LET r == S!Newest(s, PageSize) IN
           /\ r \in Seq(Shown) /\ InRun(r) /\ Len(r) <= PageSize
           /\ s # <<>> => r # <<>> /\ r[Len(r)] = s[Len(s)]
           /\ s = <<>> => r = <<>>
           /\ Len(r) = PageSize \/ r = s
<1>1. PICK r : r = S!Newest(s, PageSize)
  OBVIOUS
<1>2. /\ r \in Seq(Shown)
      /\ Len(r) = IF Len(s) > PageSize THEN PageSize ELSE Len(s)
      /\ \A i \in 1 .. Len(r) : r[i] = s[Len(s) - Len(r) + i]
  BY <1>1, StreamConstants, NewestOf
<1>3. /\ Len(s) \in Nat /\ Len(r) \in Nat /\ Len(r) <= PageSize /\ Len(r) <= Len(s)
      /\ PageSize \in Nat \ {0} /\ Len(<<>>) = 0
      /\ s # <<>> => Len(s) >= 1
      /\ r # <<>> => Len(r) >= 1
  BY <1>2, StreamConstants, EmptySeq
<1>4. ASSUME NEW i \in 1 .. Len(r) - 1 PROVE Follows(r[i], r[i + 1])
  <2>1. i \in 1 .. Len(r) /\ i + 1 \in 1 .. Len(r)
    BY <1>3
  <2>2. r[i] = s[Len(s) - Len(r) + i] /\ r[i + 1] = s[Len(s) - Len(r) + (i + 1)]
    BY <1>2, <2>1
  <2>3. /\ Len(s) - Len(r) + i \in 1 .. Len(s) - 1
        /\ Len(s) - Len(r) + (i + 1) = (Len(s) - Len(r) + i) + 1
    BY <1>3, <2>1
  <2> QED BY <2>2, <2>3 DEF InRun
<1>5. ASSUME s # <<>> PROVE r # <<>> /\ r[Len(r)] = s[Len(s)]
  <2>1. Len(r) >= 1 /\ Len(r) \in 1 .. Len(r) /\ Len(s) - Len(r) + Len(r) = Len(s)
    BY <1>2, <1>3, <1>5
  <2>2. r[Len(r)] = s[Len(s)]
    BY <1>2, <2>1
  <2> QED BY <1>3, <2>1, <2>2
<1>6. ASSUME s = <<>> PROVE r = <<>>
  <2>1. Len(r) = 0
    BY <1>3, <1>6
  <2> QED BY <1>2, <2>1, EmptySeq
<1>7. Len(r) = PageSize \/ r = s
  <2>1. ASSUME Len(r) # PageSize PROVE r = s
    <3>1. Len(r) = Len(s)
      BY <1>2, <1>3, <2>1
    <3>2. \A i \in 1 .. Len(r) : r[i] = s[i]
      <4>1. ASSUME NEW i \in 1 .. Len(r) PROVE r[i] = s[i]
        <5>1. Len(s) - Len(r) + i = i
          BY <1>3, <3>1
        <5> QED BY <1>2, <5>1
      <4> QED BY <4>1
    <3> QED BY <1>2, <3>1, <3>2, SeqEqual
  <2> QED BY <2>1
<1>8. InRun(r)
  BY <1>4 DEF InRun
<1> QED BY <1>1, <1>2, <1>3, <1>5, <1>6, <1>7, <1>8

\* Resuming shows one run: the lines of the pen after those of the list, or the pen alone.
LEMMA FlushedRuns ==
    ASSUME LogPageInv
    PROVE  /\ S!Flushed \in Seq(Shown) /\ InRun(S!Flushed) /\ Len(S!Flushed) <= PageSize
           /\ S!Flushed # <<>> => LastRead(S!Flushed[Len(S!Flushed)])
<1>1. PICK s : s = s_lines \o s_pen
  OBVIOUS
<1>2. /\ s \in Seq(Shown) /\ Len(s) = Len(s_lines) + Len(s_pen)
      /\ \A i \in 1 .. Len(s_lines) + Len(s_pen) :
            s[i] = IF i <= Len(s_lines) THEN s_lines[i] ELSE s_pen[i - Len(s_lines)]
  BY <1>1, ConcatProperties DEF LogPageInv
<1>3. /\ s_lines \in Seq(Shown) /\ s_pen \in Seq(Shown) /\ InRun(s_lines) /\ InRun(s_pen)
      /\ Len(s_lines) \in Nat /\ Len(s_pen) \in Nat /\ Len(<<>>) = 0
      /\ Len(s_pen) <= PageSize /\ PageSize \in Nat \ {0}
      /\ s_lines # <<>> => Len(s_lines) >= 1
      /\ s_pen # <<>> => Len(s_pen) >= 1
  BY EmptySeq, StreamConstants DEF LogPageInv
<1>4. s # <<>> => LastRead(s[Len(s)])
  <2>1. CASE s_pen = <<>>
    <3>1. s = s_lines
      BY <1>1, <1>3, <2>1, ConcatEmptySeq
    <3> QED BY <2>1, <3>1 DEF LogPageInv
  <2>2. CASE s_pen # <<>>
    <3>1. /\ Len(s) \in 1 .. Len(s_lines) + Len(s_pen) /\ ~(Len(s) <= Len(s_lines))
          /\ Len(s) - Len(s_lines) = Len(s_pen)
      BY <1>2, <1>3, <2>2
    <3>2. s[Len(s)] = s_pen[Len(s_pen)]
      BY <1>2, <3>1
    <3> QED BY <2>2, <3>2 DEF LogPageInv
  <2> QED BY <2>1, <2>2
<1>5. PICK r : r = S!Newest(s, PageSize)
  OBVIOUS
<1>6. S!Flushed = r
  BY <1>1, <1>5 DEF S!Flushed
<1>7. CASE s_lines # <<>> /\ s_pen # <<>> => Follows(s_lines[Len(s_lines)], s_pen[1])
  <2>1. InRun(s)
    BY <1>1, <1>3, <1>7, RunsJoined
  <2>2. /\ r \in Seq(Shown) /\ InRun(r) /\ Len(r) <= PageSize
        /\ s # <<>> => r # <<>> /\ r[Len(r)] = s[Len(s)]
        /\ s = <<>> => r = <<>>
    BY <1>2, <1>5, <2>1, NewestRuns
  <2> QED BY <1>4, <1>6, <2>2
<1>8. CASE s_lines # <<>> /\ s_pen # <<>> /\ Len(s_pen) = PageSize
  <2>9. s \in Seq(Shown) /\ PageSize \in Nat
    BY <1>2, <1>3
  <2>1. /\ r \in Seq(Shown)
        /\ Len(r) = IF Len(s) > PageSize THEN PageSize ELSE Len(s)
        /\ \A i \in 1 .. Len(r) : r[i] = s[Len(s) - Len(r) + i]
    BY <2>9, <1>5, NewestOf
  <2>2. Len(r) = Len(s_pen)
    BY <1>2, <1>3, <1>8, <2>1
  <2>3. ASSUME NEW i \in 1 .. Len(r) PROVE r[i] = s_pen[i]
    <3>1. PICK j : j = Len(s) - Len(r) + i
      OBVIOUS
    <3>2. /\ j \in 1 .. Len(s_lines) + Len(s_pen) /\ ~(j <= Len(s_lines))
          /\ j - Len(s_lines) = i
      BY <1>2, <1>3, <2>2, <3>1
    <3>3. s[j] = IF j <= Len(s_lines) THEN s_lines[j] ELSE s_pen[j - Len(s_lines)]
      BY <1>2, <3>2
    <3>4. s[j] = s_pen[i]
      BY <3>2, <3>3
    <3> QED BY <2>1, <3>1, <3>4
  <2>4. r = s_pen
    BY <1>3, <2>1, <2>2, <2>3, SeqEqual
  <2> QED BY <1>3, <1>6, <1>8, <2>4 DEF LogPageInv
<1> QED BY <1>7, <1>8 DEF LogPageInv

LogInv == RingInv /\ Carries(s_logs, s_pushed) /\ LogPageInv

\* The log page outlives a step elsewhere.
LEMMA LogPageStays ==
    ASSUME LogPageInv, UNCHANGED <<s_lines, s_pen, s_paused>>,
           \A e \in Shown : LastRead(e) => LastRead(e)'
    PROVE  LogPageInv'
<1>1. s_pen # <<>> => s_pen[Len(s_pen)] \in Shown
  BY EmptySeq, ElementOfSeq DEF LogPageInv
<1>2. s_lines # <<>> => s_lines[Len(s_lines)] \in Shown
  BY EmptySeq, ElementOfSeq DEF LogPageInv
<1>3. s_pen # <<>> => LastRead(s_pen[Len(s_pen)])'
  BY <1>1 DEF LogPageInv, LastRead
<1>4. s_pen = <<>> /\ s_lines # <<>> => LastRead(s_lines[Len(s_lines)])'
  BY <1>2 DEF LogPageInv, LastRead
<1> QED BY <1>3, <1>4 DEF LogPageInv

\* A line that reaches the ring reaches the socket that is open.
LEMMA PushKeepsLogs ==
    ASSUME LogInv, S!push
    PROVE  LogInv'
<1>1. RingInv' /\ s_pushed' = s_pushed + 1
  BY PushKeepsRing DEF LogInv
<1>2. s_logs' = S!Send(s_logs, <<s_pushed + 1>>) /\ UNCHANGED <<s_lines, s_pen, s_paused>>
  BY DEF S!push
<1>3. s_pushed \in Nat /\ Carries(s_logs, s_pushed) /\ LogPageInv
  BY StreamConstants DEF LogInv, RingInv
<1>4. /\ Carries(s_logs', s_pushed + 1) /\ s_logs'.open = s_logs.open
      /\ s_logs'.number = s_logs.number
      /\ s_logs.open => Len(s_logs'.wire) = Len(s_logs.wire) + 1
  BY <1>2, <1>3, SendCarries
<1>5. s_logs \in S!Socket
  BY <1>3 DEF Carries
<1>6. Len(s_logs.wire) \in Nat
  BY <1>5, SocketFields
<1>7. ASSUME NEW e \in Shown, LastRead(e) PROVE LastRead(e)'
  <2>1. e.conn <= s_logs'.number
    BY <1>4, <1>7 DEF LastRead
  <2>2. ASSUME s_logs'.open, e.conn = s_logs'.number
        PROVE  e.line = s_pushed' - Len(s_logs'.wire)
    <3>1. e.line = s_pushed - Len(s_logs.wire) /\ Len(s_logs'.wire) = Len(s_logs.wire) + 1
      BY <1>4, <1>7, <2>2 DEF LastRead
    <3> QED BY <1>1, <1>3, <1>6, <3>1
  <2> QED BY <2>1, <2>2 DEF LastRead
<1>8. LogPageInv'
  BY <1>2, <1>3, <1>7, LogPageStays
<1> QED BY <1>1, <1>4, <1>8 DEF LogInv

\* A new connection's lines come after all that the page has.
LEMMA OpenKeepsLogs ==
    ASSUME LogInv, S!OpenLogs
    PROVE  LogInv'
<1> DEFINE n == s_logs.number + 1
           c == [open |-> TRUE, number |-> n, wire |-> S!tail(TailSize)]
<1>1. /\ s_logs.number < MaxConnects /\ s_logs' = c
      /\ UNCHANGED <<s_slots, s_head, s_count, s_pushed, s_lines, s_pen, s_paused>>
  BY DEF S!OpenLogs, S!ringVars
<1>2. /\ S!tail(TailSize) \in Seq(Nat)
      /\ Len(S!tail(TailSize)) <= s_pushed
      /\ \A i \in 1 .. Len(S!tail(TailSize)) :
            S!tail(TailSize)[i] = s_pushed - Len(S!tail(TailSize)) + i
  BY TailIsNewest DEF LogInv
<1>3. s_logs \in S!Socket /\ LogPageInv /\ RingInv
  BY DEF LogInv, Carries
<1>4. s_logs.number \in 0 .. MaxConnects /\ n \in 0 .. MaxConnects
  BY <1>1, <1>3, SocketFields, StreamConstants
<1>5. c \in S!Socket /\ c.open /\ c.number = n /\ c.wire = S!tail(TailSize)
  BY <1>2, <1>4 DEF S!Socket
<1> HIDE DEF c
<1>6. Carries(s_logs', s_pushed')
  BY <1>1, <1>2, <1>5 DEF Carries
<1>7. \A e \in Shown : LastRead(e) => LastRead(e)'
  BY <1>1, <1>4, <1>5 DEF LastRead, Shown
<1>8. LogPageInv'
  BY <1>1, <1>3, <1>7, LogPageStays
<1>9. RingInv'
  BY <1>1, <1>3 DEF RingInv
<1> QED BY <1>6, <1>8, <1>9 DEF LogInv

\* The connection is lost, or the server starts again with an empty ring.
LEMMA CloseKeepsLogs ==
    ASSUME LogInv, S!DropLogs \/ S!Restart
    PROVE  LogInv'
<1>1. /\ s_logs' = [s_logs EXCEPT !.open = FALSE, !.wire = <<>>]
      /\ UNCHANGED <<s_pushed, s_lines, s_pen, s_paused>>
  BY DEF S!DropLogs, S!Restart, S!ringVars
<1>2. s_logs \in S!Socket /\ LogPageInv /\ RingInv /\ s_pushed \in Nat
  BY StreamConstants DEF LogInv, Carries, RingInv
<1>3. Carries(s_logs', s_pushed) /\ ~s_logs'.open /\ s_logs'.number = s_logs.number
  BY <1>1, <1>2, ClosedCarries
<1>4. \A e \in Shown : LastRead(e) => LastRead(e)'
  BY <1>3 DEF LastRead
<1>5. LogPageInv'
  BY <1>1, <1>2, <1>4, LogPageStays
<1>6. RingInv'
  <2>1. CASE S!DropLogs
    BY <1>2, <2>1 DEF S!DropLogs, S!ringVars, RingInv
  <2>2. CASE S!Restart
    <3>1. /\ s_slots' = [i \in 0 .. RingSize - 1 |-> 0] /\ s_head' = 0 /\ s_count' = 0
          /\ s_pushed' = s_pushed
      BY <2>2 DEF S!Restart
    <3>2. 0 \in 0 .. RingSize - 1 /\ 0 \in 0 .. RingSize /\ 0 \in 0 .. MaxLines /\ 0 <= s_pushed
      BY <1>2, StreamConstants
    <3> QED BY <1>2, <3>1, <3>2 DEF RingInv
  <2> QED BY <2>1, <2>2
<1> QED BY <1>1, <1>3, <1>5, <1>6 DEF LogInv

\* The line goes on where the list, or the pen, ended.
LEMMA OnLogKeepsLogs ==
    ASSUME LogInv, S!OnLog
    PROVE  LogInv'
<1> PICK e : e = [conn |-> s_logs.number, line |-> Head(s_logs.wire)]
  OBVIOUS
<1>1. /\ s_logs.wire # <<>> /\ s_logs' = [s_logs EXCEPT !.wire = Tail(@)]
      /\ \/ /\ s_paused /\ s_pen' = S!Newest(Append(s_pen, e), PageSize) /\ UNCHANGED s_lines
         \/ /\ ~s_paused /\ s_lines' = S!Newest(Append(s_lines, e), PageSize) /\ UNCHANGED s_pen
      /\ UNCHANGED <<s_slots, s_head, s_count, s_pushed, s_paused>>
  BY DEF S!OnLog, S!ringVars
<1>11. s_pushed \in Nat
  BY StreamConstants DEF LogInv, RingInv
<1>2. s_logs \in S!Socket /\ Carries(s_logs, s_pushed) /\ LogPageInv /\ RingInv /\ s_pushed \in Nat
  BY <1>11 DEF LogInv, Carries
<1>3. /\ Carries(s_logs', s_pushed) /\ s_logs.open /\ s_logs'.open
      /\ s_logs'.number = s_logs.number
      /\ Len(s_logs.wire) \in Nat /\ Len(s_logs.wire) >= 1 /\ Len(s_logs.wire) <= s_pushed
      /\ Len(s_logs'.wire) = Len(s_logs.wire) - 1
      /\ Head(s_logs.wire) = s_pushed - Len(s_logs.wire) + 1
  BY <1>1, <1>2, TakeCarries
<1>4. s_logs.number \in Nat /\ s_pushed - Len(s_logs.wire) + 1 \in Nat
      /\ s_pushed - Len(s_logs.wire) + 1 = s_pushed - Len(s_logs'.wire)
  BY <1>2, <1>3, SocketFields, StreamConstants
<1>5. e \in Shown /\ e.conn = s_logs.number /\ e.line = s_pushed - Len(s_logs.wire) + 1
  BY <1>3, <1>4 DEF Shown
<1>6. LastRead(e)'
  BY <1>1, <1>3, <1>4, <1>5 DEF LastRead
<1>7. \A d \in Shown : LastRead(d) => Follows(d, e)
  BY <1>3, <1>4, <1>5 DEF LastRead, Follows, Shown
<1>8. /\ s_lines \in Seq(Shown) /\ s_pen \in Seq(Shown) /\ InRun(s_lines) /\ InRun(s_pen)
      /\ s_pen # <<>> => s_pen[Len(s_pen)] \in Shown
      /\ s_lines # <<>> => s_lines[Len(s_lines)] \in Shown
  BY <1>2, EmptySeq, ElementOfSeq DEF LogPageInv
<1>9. CASE /\ s_paused /\ s_pen' = S!Newest(Append(s_pen, e), PageSize) /\ UNCHANGED s_lines
  <2>1. s_pen # <<>> => Follows(s_pen[Len(s_pen)], e)
    BY <1>2, <1>7, <1>8 DEF LogPageInv
  <2>2. PICK r : r = Append(s_pen, e)
    OBVIOUS
  <2>3. /\ r \in Seq(Shown) /\ InRun(r) /\ r # <<>> /\ r[Len(r)] = e
        /\ s_pen # <<>> => r[1] = s_pen[1]
        /\ Len(r) = Len(s_pen) + 1
    BY <1>5, <1>8, <2>1, <2>2, RunAppended
  <2>4. /\ s_pen' \in Seq(Shown) /\ InRun(s_pen') /\ Len(s_pen') <= PageSize
        /\ s_pen' # <<>> /\ s_pen'[Len(s_pen')] = e
        /\ Len(s_pen') = PageSize \/ s_pen' = r
    BY <1>9, <2>2, <2>3, NewestRuns
  <2>5. ASSUME s_lines # <<>>
        PROVE  Len(s_pen') = PageSize \/ Follows(s_lines[Len(s_lines)], s_pen'[1])
    <3>1. CASE Len(s_pen') = PageSize
      BY <3>1
    <3>2. CASE s_pen' = r /\ s_pen = <<>>
      <4>1. Len(s_pen) = 0 /\ Len(r) = 1
        BY <2>3, <3>2, EmptySeq
      <4>2. r[1] = e
        BY <2>3, <4>1
      <4>3. LastRead(s_lines[Len(s_lines)])
        BY <1>2, <2>5, <3>2 DEF LogPageInv
      <4> QED BY <1>7, <1>8, <2>5, <3>2, <4>2, <4>3
    <3>3. CASE s_pen' = r /\ s_pen # <<>> /\ Len(s_pen') # PageSize
      <4>1. Len(s_pen) # PageSize
        <5>1. Len(s_pen') = Len(s_pen) + 1 /\ Len(s_pen') <= PageSize /\ Len(s_pen) \in Nat
          BY <1>8, <2>3, <2>4, <3>3
        <5> QED BY <5>1, StreamConstants
      <4>2. Follows(s_lines[Len(s_lines)], s_pen[1])
        BY <1>2, <2>5, <3>3, <4>1 DEF LogPageInv
      <4> QED BY <2>3, <3>3, <4>2
    <3> QED BY <2>4, <3>1, <3>2, <3>3
  <2>6. LogPageInv'
    BY <1>1, <1>2, <1>6, <1>9, <2>4, <2>5 DEF LogPageInv, InRun
  <2>7. RingInv'
    BY <1>1, <1>2 DEF RingInv
  <2> QED BY <1>1, <1>3, <2>6, <2>7 DEF LogInv
<1>10. CASE /\ ~s_paused /\ s_lines' = S!Newest(Append(s_lines, e), PageSize) /\ UNCHANGED s_pen
  <2>0. s_pen = <<>>
    BY <1>2, <1>10 DEF LogPageInv
  <2>1. s_lines # <<>> => Follows(s_lines[Len(s_lines)], e)
    BY <1>2, <1>7, <1>8, <2>0 DEF LogPageInv
  <2>2. PICK r : r = Append(s_lines, e)
    OBVIOUS
  <2>3. r \in Seq(Shown) /\ InRun(r) /\ r # <<>> /\ r[Len(r)] = e
    BY <1>5, <1>8, <2>1, <2>2, RunAppended
  <2>4. /\ s_lines' \in Seq(Shown) /\ InRun(s_lines') /\ Len(s_lines') <= PageSize
        /\ s_lines' # <<>> /\ s_lines'[Len(s_lines')] = e
    BY <1>10, <2>2, <2>3, NewestRuns
  <2>6. LogPageInv'
    BY <1>1, <1>2, <1>6, <1>10, <2>0, <2>4 DEF LogPageInv, InRun
  <2>7. RingInv'
    BY <1>1, <1>2 DEF RingInv
  <2> QED BY <1>1, <1>3, <2>6, <2>7 DEF LogInv
<1> QED BY <1>1, <1>9, <1>10

\* A pause, the flush at its end, and a clear.
LEMMA PageKeepsLogs ==
    ASSUME LogInv, S!SetPaused \/ S!Clear
    PROVE  LogInv'
<1>1. UNCHANGED <<s_slots, s_head, s_count, s_pushed, s_logs>>
  BY DEF S!SetPaused, S!Clear, S!ringVars
<1>2. LogPageInv
  BY DEF LogInv
<1>3. RingInv' /\ Carries(s_logs', s_pushed')
  BY <1>1 DEF LogInv, RingInv
<1>4. LogPageInv'
  <2>1. CASE S!Clear
    <3>1. s_lines' = <<>> /\ s_pen' = <<>> /\ s_paused' = s_paused
      BY <2>1 DEF S!Clear
    <3>2. Len(<<>>) <= PageSize
      BY EmptyRuns, StreamConstants
    <3> QED BY <1>2, <3>1, <3>2, EmptyRuns DEF LogPageInv, InRun
  <2>2. CASE S!SetPaused /\ s_paused
    <3>1. s_lines' = S!Flushed /\ s_pen' = <<>> /\ s_paused' = FALSE
      BY <1>2, <2>2 DEF S!SetPaused, LogPageInv
    <3>2. /\ s_lines' \in Seq(Shown) /\ InRun(s_lines') /\ Len(s_lines') <= PageSize
          /\ s_lines' # <<>> => LastRead(s_lines'[Len(s_lines')])
      BY <1>2, <3>1, FlushedRuns
    <3>3. s_lines' # <<>> => LastRead(s_lines[Len(s_lines)])'
      BY <1>1, <3>2 DEF LastRead
    <3>4. Len(<<>>) <= PageSize
      BY EmptyRuns, StreamConstants
    <3> QED BY <3>1, <3>2, <3>3, <3>4, EmptyRuns DEF LogPageInv, InRun
  <2>3. CASE S!SetPaused /\ ~s_paused
    <3>1. UNCHANGED <<s_lines, s_pen>> /\ s_paused' = TRUE
      BY <1>2, <2>3 DEF S!SetPaused, LogPageInv
    <3> QED BY <1>1, <1>2, <3>1 DEF LogPageInv, LastRead
  <2> QED BY <2>1, <2>2, <2>3
<1> QED BY <1>3, <1>4 DEF LogInv

\* The invariant contains the log page's half of the property.
LEMMA LogPageHasNoHole ==
    ASSUME LogPageInv
    PROVE  S!LogsHaveNoHole
<1>1. InRun(s_lines) /\ InRun(S!Flushed)
  BY FlushedRuns DEF LogPageInv
<1> QED BY <1>1 DEF S!LogsHaveNoHole, InRun, Follows

-----------------------------------------------------------------------------
(* The live streams: the verifications page *)

\* What the page counted and what is on its way are rows that were committed, the rows
\* shown before those on their way.
FeedInv(t) ==
    /\ s_rows[t] \in 0 .. MaxLines
    /\ Carries(s_feed[t], s_rows[t])
    /\ s_events[t] \in Seq(Nat)
    /\ s_counters[t] \in Nat
    /\ s_counters[t] + Len(s_feed[t].wire) <= s_rows[t]
    /\ Len(s_events[t]) = (IF s_counters[t] < PageSize THEN s_counters[t] ELSE PageSize)
    /\ \A i \in 1 .. Len(s_events[t]) - 1 : s_events[t][i] > s_events[t][i + 1]
    /\ s_events[t] # <<>> => s_events[t][1] <= s_rows[t] - Len(s_feed[t].wire)

FeedsInv ==
    /\ DOMAIN s_rows = Tenants /\ DOMAIN s_events = Tenants
    /\ s_feed = [t \in Tenants |-> s_feed[t]] /\ s_counters = [t \in Tenants |-> s_counters[t]]
    /\ \A t \in Tenants : FeedInv(t)

\* What the invariant says of the types.
LEMMA FeedFacts ==
    ASSUME NEW t \in Tenants, FeedInv(t)
    PROVE  /\ s_rows[t] \in Nat /\ s_rows[t] <= MaxLines
           /\ s_feed[t] \in S!Socket /\ Len(s_feed[t].wire) \in Nat
           /\ s_feed[t].number \in 0 .. MaxConnects
           /\ Len(s_events[t]) \in Nat
<1>1. s_rows[t] \in 0 .. MaxLines /\ s_feed[t] \in S!Socket /\ s_events[t] \in Seq(Nat)
  BY DEF FeedInv, Carries
<1> QED BY <1>1, SocketFields, StreamConstants

\* A tenant that the step does not name.
LEMMA FeedUntouched ==
    ASSUME NEW t \in Tenants, FeedInv(t), s_rows'[t] = s_rows[t], s_feed'[t] = s_feed[t],
           s_events'[t] = s_events[t], s_counters'[t] = s_counters[t]
    PROVE  FeedInv(t)'
BY DEF FeedInv

\* A row is committed, and sent if the page is connected.
LEMMA EmitKeepsFeeds ==
    ASSUME FeedsInv, NEW t \in Tenants, S!emitVerificationEvent(t)
    PROVE  FeedsInv'
<1>1. /\ s_rows[t] < MaxLines /\ s_rows' = [s_rows EXCEPT ![t] = @ + 1]
      /\ s_feed' = [s_feed EXCEPT ![t] = S!Send(@, <<s_rows[t] + 1>>)]
      /\ UNCHANGED <<s_events, s_counters>>
  BY DEF S!emitVerificationEvent
<1>2. FeedInv(t) /\ s_rows[t] \in Nat /\ Len(s_feed[t].wire) \in Nat
  BY FeedFacts DEF FeedsInv
<1>3. PICK c : c = S!Send(s_feed[t], <<s_rows[t] + 1>>)
  OBVIOUS
<1>4. /\ Carries(c, s_rows[t] + 1) /\ c.open = s_feed[t].open
      /\ s_feed[t].open => Len(c.wire) = Len(s_feed[t].wire) + 1
  BY <1>2, <1>3, SendCarries DEF FeedInv
<1>5. Len(c.wire) \in Nat /\ Len(c.wire) <= Len(s_feed[t].wire) + 1
  <2>1. Len(<<>>) = 0
    BY EmptySeq
  <2>2. CASE ~c.open
    BY <1>2, <1>4, <2>1, <2>2 DEF Carries
  <2>3. CASE c.open
    <3>1. Len(c.wire) = Len(s_feed[t].wire) + 1
      BY <1>4, <2>3
    <3> QED BY <1>2, <3>1
  <2>4. c.open \in BOOLEAN
    BY <1>4, SocketFields DEF Carries
  <2> QED BY <2>2, <2>3, <2>4
<1>6. s_rows'[t] = s_rows[t] + 1 /\ s_feed'[t] = c /\ s_feed' = [u \in Tenants |-> s_feed'[u]]
      /\ DOMAIN s_rows' = Tenants
      /\ \A u \in Tenants : u # t => s_rows'[u] = s_rows[u] /\ s_feed'[u] = s_feed[u]
  BY <1>1, <1>3 DEF FeedsInv
<1>7. FeedInv(t)'
  <2>1. s_rows'[t] \in 0 .. MaxLines
    BY <1>1, <1>2, <1>6, StreamConstants
  <2>2. s_counters[t] \in Nat /\ s_counters[t] + Len(s_feed[t].wire) <= s_rows[t]
    BY <1>2 DEF FeedInv
  <2>3. s_counters[t] + Len(c.wire) <= s_rows[t] + 1
    BY <1>2, <1>5, <2>2
  <2> PICK e, n, w : e = s_events[t] /\ n = s_rows[t] + 1 /\ w = Len(c.wire)
    OBVIOUS
  <2>4. ASSUME e # <<>> PROVE e[1] <= n - w
    <3>0. s_events[t] # <<>>
      BY <2>4
    <3>1. s_events[t][1] <= s_rows[t] - Len(s_feed[t].wire) /\ s_events[t][1] \in Nat
      <4>1. 1 \in 1 .. Len(s_events[t]) /\ s_events[t] \in Seq(Nat)
        BY <1>2, <3>0, EmptySeq DEF FeedInv
      <4> QED BY <1>2, <3>0, <4>1, ElementOfSeq DEF FeedInv
    <3>2. PICK x, a, k : x = s_events[t][1] /\ a = Len(s_feed[t].wire) /\ k = s_rows[t]
      OBVIOUS
    <3>3. /\ x \in Nat /\ a \in Nat /\ w \in Nat /\ k \in Nat
          /\ x <= k - a /\ w <= a + 1 /\ n = k + 1
      BY <1>2, <1>5, <3>1, <3>2
    <3>4. x <= n - w
      BY <3>3
    <3>5. e[1] = x
      BY <3>2
    <3> QED BY <3>4, <3>5
  <2>5. /\ s_events'[t] = s_events[t] /\ s_counters'[t] = s_counters[t]
        /\ s_rows'[t] = s_rows[t] + 1 /\ s_feed'[t] = c
    BY <1>1, <1>6
  <2>6. /\ s_events[t] \in Seq(Nat)
        /\ Len(s_events[t]) = (IF s_counters[t] < PageSize THEN s_counters[t] ELSE PageSize)
        /\ \A i \in 1 .. Len(s_events[t]) - 1 : s_events[t][i] > s_events[t][i + 1]
    BY <1>2 DEF FeedInv
  <2>7. Carries(s_feed'[t], s_rows'[t])
    BY <1>4, <2>5
  <2>8. /\ s_events'[t] \in Seq(Nat) /\ s_counters'[t] \in Nat
        /\ Len(s_events'[t]) = (IF s_counters'[t] < PageSize THEN s_counters'[t] ELSE PageSize)
    BY <2>2, <2>5, <2>6
  <2>9. \A i \in 1 .. Len(s_events'[t]) - 1 : s_events'[t][i] > s_events'[t][i + 1]
    BY <2>5, <2>6
  <2>10. s_counters'[t] + Len(s_feed'[t].wire) <= s_rows'[t]
    BY <2>3, <2>5
  <2>11. s_events'[t] # <<>> => s_events'[t][1] <= s_rows'[t] - Len(s_feed'[t].wire)
    <3>3. s_events'[t] = e /\ s_rows'[t] = n /\ s_feed'[t] = c
      BY <2>5
    <3>4. e # <<>> => e[1] <= n - Len(c.wire)
      BY <2>4
    <3> QED BY <3>3, <3>4
  <2> QED BY <2>1, <2>7, <2>8, <2>9, <2>10, <2>11 DEF FeedInv
<1>8. \A u \in Tenants : u # t => FeedInv(u)'
  BY <1>1, <1>6, FeedUntouched DEF FeedsInv
<1> QED BY <1>1, <1>6, <1>7, <1>8 DEF FeedsInv

\* The connection of a tenant's page opens, or is lost, with nothing on its way.
LEMMA FeedReconnects ==
    ASSUME NEW t \in Tenants, FeedInv(t), s_rows'[t] = s_rows[t], s_events'[t] = s_events[t],
           s_counters'[t] = s_counters[t], s_feed'[t] \in S!Socket, s_feed'[t].wire = <<>>
    PROVE  FeedInv(t)'
<1>1. /\ s_rows[t] \in Nat /\ Len(s_feed[t].wire) \in Nat /\ s_counters[t] \in Nat
      /\ s_counters[t] + Len(s_feed[t].wire) <= s_rows[t] /\ s_events[t] \in Seq(Nat)
  BY FeedFacts DEF FeedInv
<1>2. Len(s_feed'[t].wire) = 0
  BY EmptySeq
<1>3. Carries(s_feed'[t], s_rows[t])
  BY <1>1, <1>2 DEF Carries
<1>4. s_counters[t] + Len(s_feed'[t].wire) <= s_rows[t]
  BY <1>1, <1>2
<1>5. ASSUME s_events[t] # <<>> PROVE s_events[t][1] <= s_rows[t] - Len(s_feed'[t].wire)
  <2>1. 1 \in 1 .. Len(s_events[t])
    BY <1>1, <1>5, EmptySeq
  <2>2. s_events[t][1] \in Nat /\ s_events[t][1] <= s_rows[t] - Len(s_feed[t].wire)
    BY <1>1, <1>5, <2>1, ElementOfSeq DEF FeedInv
  <2> QED BY <1>1, <1>2, <2>2
<1> QED BY <1>3, <1>4, <1>5 DEF FeedInv

\* The page's connection opens, or is lost.
LEMMA ConnectKeepsFeeds ==
    ASSUME FeedsInv, NEW t \in Tenants, S!OpenFeed(t) \/ S!DropFeed(t)
    PROVE  FeedsInv'
<1>1. UNCHANGED <<s_rows, s_events, s_counters>>
  BY DEF S!OpenFeed, S!DropFeed
<1>2. FeedInv(t) /\ s_feed[t] \in S!Socket /\ s_feed[t].number \in 0 .. MaxConnects
  BY FeedFacts DEF FeedsInv
<1>3. /\ s_feed'[t] \in S!Socket /\ s_feed'[t].wire = <<>>
      /\ s_feed' = [u \in Tenants |-> s_feed'[u]]
      /\ \A u \in Tenants : u # t => s_feed'[u] = s_feed[u]
  <2>1. CASE S!OpenFeed(t)
    <3>1. PICK c : c = [open |-> TRUE, number |-> s_feed[t].number + 1, wire |-> <<>>]
      OBVIOUS
    <3>2. s_feed[t].number + 1 \in 0 .. MaxConnects
      BY <1>2, <2>1, StreamConstants DEF S!OpenFeed
    <3>3. c \in S!Socket /\ c.wire = <<>>
      BY <3>1, <3>2, EmptySeq DEF S!Socket
    <3>4. s_feed' = [s_feed EXCEPT ![t] = c]
      BY <2>1, <3>1 DEF S!OpenFeed
    <3> QED BY <3>3, <3>4 DEF FeedsInv
  <2>2. CASE S!DropFeed(t)
    <3>1. PICK c : c = [s_feed[t] EXCEPT !.open = FALSE, !.wire = <<>>]
      OBVIOUS
    <3>2. 0 \in Nat /\ Carries(c, 0) /\ c.wire = <<>>
      BY <1>2, <3>1, ClosedCarries
    <3>3. c \in S!Socket
      BY <3>2 DEF Carries
    <3>4. s_feed' = [s_feed EXCEPT ![t] = c]
      BY <2>2, <3>1 DEF S!DropFeed, FeedsInv
    <3> QED BY <3>2, <3>3, <3>4 DEF FeedsInv
  <2> QED BY <2>1, <2>2
<1>4. FeedInv(t)'
  BY <1>1, <1>2, <1>3, FeedReconnects
<1>5. \A u \in Tenants : u # t => FeedInv(u)'
  BY <1>1, <1>3, FeedUntouched DEF FeedsInv
<1> QED BY <1>1, <1>3, <1>4, <1>5 DEF FeedsInv

\* A restart cuts every connection.
LEMMA RestartKeepsFeeds ==
    ASSUME FeedsInv, S!Restart
    PROVE  FeedsInv'
<1>1. /\ s_feed' = [t \in Tenants |-> [s_feed[t] EXCEPT !.open = FALSE, !.wire = <<>>]]
      /\ UNCHANGED <<s_rows, s_events, s_counters>>
  BY DEF S!Restart
<1>2. ASSUME NEW t \in Tenants PROVE FeedInv(t)'
  <2>1. FeedInv(t) /\ s_feed[t] \in S!Socket
    BY FeedFacts DEF FeedsInv
  <2>2. PICK c : c = [s_feed[t] EXCEPT !.open = FALSE, !.wire = <<>>]
    OBVIOUS
  <2>3. 0 \in Nat /\ Carries(c, 0) /\ c.wire = <<>> /\ s_feed'[t] = c
    BY <1>1, <2>1, <2>2, ClosedCarries
  <2>4. c \in S!Socket
    BY <2>3 DEF Carries
  <2> QED BY <1>1, <2>1, <2>3, <2>4, FeedReconnects
<1>3. s_feed' = [t \in Tenants |-> s_feed'[t]]
  BY <1>1
<1> QED BY <1>1, <1>2, <1>3 DEF FeedsInv

\* The next row is newer than every row the page shows.
LEMMA OnVerificationKeepsFeeds ==
    ASSUME FeedsInv, NEW t \in Tenants, S!OnVerification(t)
    PROVE  FeedsInv'
<1> DEFINE old == s_events[t]
           h == Head(s_feed[t].wire)
<1>1. PICK g : g = <<h>> \o old
  OBVIOUS
<1>2. PICK n : n = IF Len(g) < PageSize THEN Len(g) ELSE PageSize
  OBVIOUS
<1>3. PICK c : c = [s_feed[t] EXCEPT !.wire = Tail(s_feed[t].wire)]
  OBVIOUS
<1>4. /\ s_feed[t].wire # <<>>
      /\ s_events' = [s_events EXCEPT ![t] = SubSeq(g, 1, n)]
      /\ s_counters' = [s_counters EXCEPT ![t] = @ + 1]
      /\ s_feed' = [s_feed EXCEPT ![t] = c]
      /\ UNCHANGED s_rows
  BY <1>1, <1>2, <1>3 DEF S!OnVerification, FeedsInv
<1>5. /\ FeedInv(t) /\ s_rows[t] \in Nat /\ s_counters[t] \in Nat /\ old \in Seq(Nat)
      /\ Carries(s_feed[t], s_rows[t])
  BY FeedFacts DEF FeedsInv, FeedInv
<1>6. /\ Carries(c, s_rows[t])
      /\ Len(s_feed[t].wire) \in Nat /\ Len(s_feed[t].wire) >= 1
      /\ Len(s_feed[t].wire) <= s_rows[t]
      /\ Len(c.wire) = Len(s_feed[t].wire) - 1
      /\ h = s_rows[t] - Len(s_feed[t].wire) + 1
  BY <1>3, <1>4, <1>5, TakeCarries
<1>7. h \in Nat /\ h = s_rows[t] - Len(c.wire)
  BY <1>5, <1>6
<1> HIDE DEF h
<1>8. /\ g \in Seq(Nat) /\ Len(g) = Len(old) + 1 /\ g[1] = h /\ Len(old) \in Nat
      /\ \A i \in 1 .. Len(old) : g[i + 1] = old[i]
  <2>1. PICK u : u = <<h>>
    OBVIOUS
  <2>2. u \in Seq(Nat) /\ Len(u) = 1 /\ u[1] = h
    BY <1>7, <2>1
  <2>3. Len(old) \in Nat
    BY <1>5
  <2>4. /\ g \in Seq(Nat) /\ Len(g) = 1 + Len(old)
        /\ \A i \in 1 .. 1 + Len(old) : g[i] = IF i <= 1 THEN u[i] ELSE old[i - 1]
    BY <1>1, <1>5, <2>1, <2>2, ConcatProperties
  <2>5. g[1] = h
    <3>1. 1 \in 1 .. 1 + Len(old) /\ 1 <= 1
      BY <2>3
    <3>2. g[1] = u[1]
      BY <2>4, <3>1
    <3> QED BY <2>2, <3>2
  <2>6. ASSUME NEW i \in 1 .. Len(old) PROVE g[i + 1] = old[i]
    <3>1. i + 1 \in 1 .. 1 + Len(old) /\ ~(i + 1 <= 1) /\ i + 1 - 1 = i
      BY <2>3
    <3> QED BY <2>4, <3>1
  <2> QED BY <2>3, <2>4, <2>5, <2>6
<1>9. n \in Nat /\ n <= Len(g) /\ 1 <= n /\ PageSize \in Nat \ {0}
  BY <1>2, <1>8, StreamConstants
<1>10. PICK r : r = SubSeq(g, 1, n)
  OBVIOUS
<1>11. /\ r \in Seq(Nat) /\ Len(r) = n /\ \A i \in 1 .. n : r[i] = g[i]
  <2>1. \A i \in 1 .. n : g[i] \in Nat
    BY <1>8, <1>9
  <2>2. /\ r \in Seq(Nat) /\ Len(r) = (IF 1 <= n THEN n - 1 + 1 ELSE 0)
        /\ \A i \in 1 .. n - 1 + 1 : r[i] = g[1 + i - 1]
    BY <1>9, <1>10, <2>1, SubSeqProperties
  <2>3. n - 1 + 1 = n /\ \A i \in 1 .. n : 1 + i - 1 = i
    BY <1>9
  <2> QED BY <1>9, <2>2, <2>3
<1>12. r # <<>> /\ r[1] = h
  <2>1. 1 \in 1 .. n
    BY <1>9
  <2> QED BY <1>8, <1>9, <1>11, <2>1, EmptySeq
<1>13. ASSUME NEW i \in 1 .. Len(r) - 1 PROVE r[i] > r[i + 1]
  <2>1. i \in 1 .. n /\ i + 1 \in 1 .. n /\ i \in 1 .. Len(old)
    BY <1>8, <1>9, <1>11
  <2>2. r[i] = g[i] /\ r[i + 1] = old[i]
    BY <1>8, <1>11, <2>1
  <2>3. CASE i = 1
    <3>1. old # <<>> /\ old[1] \in Nat
      BY <1>5, <2>1, EmptySeq
    <3>2. old[1] <= s_rows[t] - Len(s_feed[t].wire)
      BY <1>5, <3>1 DEF FeedInv
    <3>3. old[1] < h
      <4>1. PICK x, a : x = old[1] /\ a = Len(s_feed[t].wire)
        OBVIOUS
      <4>2. x \in Nat /\ a \in Nat /\ x <= s_rows[t] - a /\ h = s_rows[t] - a + 1
        BY <1>6, <3>1, <3>2, <4>1
      <4>3. x < h
        BY <1>5, <4>2
      <4> QED BY <4>1, <4>3
    <3> QED BY <1>7, <1>8, <2>2, <2>3, <3>1, <3>3
  <2>4. CASE i # 1
    <3>1. PICK j : j = i - 1
      OBVIOUS
    <3>2. j \in 1 .. Len(old) - 1 /\ j \in 1 .. Len(old) /\ j + 1 = i
      BY <1>8, <2>1, <2>4, <3>1
    <3>3. g[i] = old[j]
      BY <1>8, <3>2
    <3>4. old[j] > old[j + 1]
      BY <1>5, <3>2 DEF FeedInv
    <3> QED BY <2>2, <3>2, <3>3, <3>4
  <2> QED BY <2>3, <2>4
<1>14. Len(old) = IF s_counters[t] < PageSize THEN s_counters[t] ELSE PageSize
  BY <1>5 DEF FeedInv
<1>15. n = IF s_counters[t] + 1 < PageSize THEN s_counters[t] + 1 ELSE PageSize
  BY <1>2, <1>5, <1>8, <1>9, <1>14
<1>16. s_counters[t] + 1 + Len(c.wire) <= s_rows[t]
  <2>1. s_counters[t] + Len(s_feed[t].wire) <= s_rows[t]
    BY <1>5 DEF FeedInv
  <2>2. PICK a, b : a = Len(s_feed[t].wire) /\ b = Len(c.wire)
    OBVIOUS
  <2>3. a \in Nat /\ b = a - 1 /\ s_counters[t] + a <= s_rows[t]
    BY <1>6, <2>1, <2>2
  <2>4. s_counters[t] + 1 + b <= s_rows[t]
    BY <1>5, <2>3
  <2> QED BY <2>2, <2>4
<1>17. /\ s_events'[t] = r /\ s_counters'[t] = s_counters[t] + 1 /\ s_feed'[t] = c
       /\ s_feed' = [u \in Tenants |-> s_feed'[u]] /\ s_counters' = [u \in Tenants |-> s_counters'[u]]
       /\ DOMAIN s_events' = Tenants
       /\ \A u \in Tenants : u # t => /\ s_events'[u] = s_events[u] /\ s_feed'[u] = s_feed[u]
                                      /\ s_counters'[u] = s_counters[u]
  BY <1>4, <1>10 DEF FeedsInv
<1>18. FeedInv(t)'
  <2>1. s_rows'[t] \in 0 .. MaxLines /\ s_counters[t] + 1 \in Nat /\ s_rows'[t] = s_rows[t]
    BY <1>4, <1>5 DEF FeedInv
  <2>2. r[1] <= s_rows[t] - Len(c.wire)
    BY <1>7, <1>12
  <2> QED BY <1>6, <1>11, <1>13, <1>15, <1>16, <1>17, <2>1, <2>2 DEF FeedInv
<1>19. \A u \in Tenants : u # t => FeedInv(u)'
  BY <1>4, <1>17, FeedUntouched DEF FeedsInv
<1> QED BY <1>4, <1>17, <1>18, <1>19 DEF FeedsInv

-----------------------------------------------------------------------------
(* The live streams: both pages *)

StreamInv == LogInv /\ FeedsInv

\* The rings and the pages are empty at first.
LEMMA StreamInvInit == S!Init => StreamInv
<1> SUFFICES ASSUME S!Init PROVE StreamInv
  OBVIOUS
<1>1. Carries(S!Closed, 0) /\ S!Closed \in S!Socket /\ S!Closed.wire = <<>> /\ ~S!Closed.open
  BY StreamConstants, EmptySeq DEF S!Closed, S!Socket, Carries
<1>2. Carries(S!Refused, 0)
  <2>1. PICK c : c = [S!Closed EXCEPT !.number = MaxConnects]
    OBVIOUS
  <2>2. c \in S!Socket /\ c.wire = <<>> /\ ~c.open
    BY <1>1, <2>1, StreamConstants DEF S!Socket
  <2>3. Carries(c, 0)
    BY <2>2, EmptySeq DEF Carries
  <2> QED BY <2>1, <2>3 DEF S!Refused
<1>3. Carries(s_logs, s_pushed)
  BY <1>1, <1>2 DEF S!Init
<1>4. RingInv
  <2>1. /\ s_slots = [i \in 0 .. RingSize - 1 |-> 0] /\ s_head = 0 /\ s_count = 0 /\ s_pushed = 0
    BY DEF S!Init
  <2>2. 0 \in 0 .. RingSize - 1 /\ 0 \in 0 .. RingSize /\ 0 \in 0 .. MaxLines
    BY StreamConstants
  <2> QED BY <2>1, <2>2 DEF RingInv
<1>5. LogPageInv
  <2>1. Len(<<>>) <= PageSize
    BY EmptyRuns, StreamConstants
  <2> QED BY <2>1, EmptyRuns DEF S!Init, LogPageInv
<1>6. ASSUME NEW t \in Tenants PROVE FeedInv(t)
  <2>1. s_rows[t] = 0 /\ s_feed[t] = S!Closed /\ s_events[t] = <<>> /\ s_counters[t] = 0
    BY DEF S!Init
  <2>2. <<>> \in Seq(Nat) /\ Len(<<>>) = 0 /\ 0 \in 0 .. MaxLines
    BY StreamConstants, EmptySeq
  <2> QED BY <1>1, <2>1, <2>2, StreamConstants DEF FeedInv
<1>7. FeedsInv
  BY <1>6 DEF S!Init, FeedsInv
<1> QED BY <1>3, <1>4, <1>5, <1>7 DEF StreamInv, LogInv

\* No step of the streams breaks the invariant.
LEMMA StreamInvNext == StreamInv /\ S!Next => StreamInv'
<1> SUFFICES ASSUME StreamInv, S!Next PROVE StreamInv'
  OBVIOUS
<1>1. LogInv /\ FeedsInv
  BY DEF StreamInv
<1>2. ASSUME UNCHANGED S!feedVars PROVE FeedsInv'
  BY <1>1, <1>2 DEF S!feedVars, FeedsInv, FeedInv
<1>3. ASSUME UNCHANGED <<S!ringVars, S!logPage>> PROVE LogInv'
  BY <1>1, <1>3 DEF S!ringVars, S!logPage, LogInv, RingInv, LogPageInv, LastRead
<1>4. CASE S!push
  BY <1>1, <1>2, <1>4, PushKeepsLogs DEF StreamInv, S!push
<1>5. CASE S!OpenLogs
  BY <1>1, <1>2, <1>5, OpenKeepsLogs DEF StreamInv, S!OpenLogs
<1>6. CASE S!DropLogs
  BY <1>1, <1>2, <1>6, CloseKeepsLogs DEF StreamInv, S!DropLogs
<1>7. CASE S!OnLog
  BY <1>1, <1>2, <1>7, OnLogKeepsLogs DEF StreamInv, S!OnLog
<1>8. CASE S!SetPaused \/ S!Clear
  BY <1>1, <1>2, <1>8, PageKeepsLogs DEF StreamInv, S!SetPaused, S!Clear
<1>9. CASE S!Restart
  BY <1>1, <1>9, CloseKeepsLogs, RestartKeepsFeeds DEF StreamInv
<1>10. CASE \E t \in Tenants : S!emitVerificationEvent(t)
  BY <1>1, <1>3, <1>10, EmitKeepsFeeds DEF StreamInv, S!emitVerificationEvent
<1>11. CASE \E t \in Tenants : S!OpenFeed(t) \/ S!DropFeed(t)
  BY <1>1, <1>3, <1>11, ConnectKeepsFeeds DEF StreamInv, S!OpenFeed, S!DropFeed
<1>12. CASE \E t \in Tenants : S!OnVerification(t)
  BY <1>1, <1>3, <1>12, OnVerificationKeepsFeeds DEF StreamInv, S!OnVerification
<1> QED BY <1>4, <1>5, <1>6, <1>7, <1>8, <1>9, <1>10, <1>11, <1>12
        DEF S!Next, S!NextLogs, S!NextFeed

StreamsRun == focus \in {"logs", "feed"}

\* The ring, the sockets and the pages keep their order through every interleaving of
\* pushes, reconnections, pauses and restarts.
THEOREM StreamsSound == Spec => [](StreamsRun => StreamInv)
<1> DEFINE I == StreamsRun => StreamInv
<1>1. Init => I
  BY StreamInvInit DEF Init, StreamsRun
<1>2. I /\ [Next]_vars => I'
  <2> SUFFICES ASSUME I, [Next]_vars PROVE I'
    OBVIOUS
  <2>1. focus' = focus
    BY FocusKept
  <2>2. CASE ~StreamsRun
    BY <2>1, <2>2 DEF StreamsRun
  <2>3. CASE StreamsRun
    <3>1. StreamInv /\ (S!Next \/ UNCHANGED s_vars)
      BY <2>3, StreamSteps DEF StreamsRun
    <3>2. CASE UNCHANGED s_vars
      BY <3>1, <3>2 DEF s_vars, StreamInv, LogInv, RingInv, LogPageInv, LastRead, FeedsInv, FeedInv
    <3> QED BY <3>1, <3>2, StreamInvNext
  <2> QED BY <2>2, <2>3
<1> QED BY <1>1, <1>2, PTL DEF Spec

\* The lines one connection brought stand on the log page without a hole, whatever was
\* paused, flushed, cut or cleared (live-logs.tsx, log-ring-buffer.ts), and the
\* verifications page shows the newest of the rows it counted, newest first
\* (verifications.tsx).
THEOREM PagesStayInOrder == Spec => []PagesInOrder
<1>1. (StreamsRun => StreamInv) => PagesInOrder
  <2> SUFFICES ASSUME StreamsRun => StreamInv PROVE PagesInOrder
    OBVIOUS
  <2>1. ASSUME StreamInv PROVE S!PagesInOrder
    <3>1. S!LogsHaveNoHole
      BY <2>1, LogPageHasNoHole DEF StreamInv, LogInv
    <3>2. S!FeedShowsNewest
      BY <2>1 DEF StreamInv, FeedsInv, FeedInv, S!FeedShowsNewest
    <3> QED BY <3>1, <3>2 DEF S!PagesInOrder
  <2> QED BY <2>1 DEF PagesInOrder, StreamsRun
<1> QED BY <1>1, StreamsSound, PTL

\* The streams' invariant contains their types.
LEMMA StreamsTyped == StreamInv => S!TypeOK
<1> SUFFICES ASSUME StreamInv PROVE S!TypeOK
  OBVIOUS
<1>1. ASSUME NEW t \in Tenants PROVE s_feed[t] \in S!Socket /\ s_counters[t] \in 0 .. MaxLines
  <2>1. FeedInv(t)
    BY DEF StreamInv, FeedsInv
  <2>2. Len(s_feed[t].wire) \in Nat /\ s_rows[t] \in Nat /\ s_rows[t] <= MaxLines
    BY <2>1, FeedFacts
  <2>3. s_counters[t] <= MaxLines
    BY <2>1, <2>2, StreamConstants DEF FeedInv
  <2> QED BY <2>1, <2>3, StreamConstants DEF FeedInv, Carries
<1>2. s_feed \in [Tenants -> S!Socket] /\ s_counters \in [Tenants -> 0 .. MaxLines]
  BY <1>1 DEF StreamInv, FeedsInv
<1> QED BY <1>2 DEF StreamInv, LogInv, RingInv, Carries, LogPageInv, S!TypeOK

-----------------------------------------------------------------------------
(* All components *)

\* Every component keeps to its types: the inductive invariants of this module and of
\* the modules it extends contain them.
THEOREM TypesKept == Spec => []TypesOK
<1>1. /\ RecordsHeld /\ AccountsHeld /\ MetersHeld /\ PolicyHeld /\ WebhooksHeld
      /\ focus = "accounts" => PageTyped
      /\ focus = "meters" => StartedInv
      /\ focus = "portal" => PortalInv /\ PortalTypes
      /\ focus = "signup" => ReachedInv /\ SignupTypes
      /\ focus = "waiting" => WatchInv /\ WaitingTypes
      => ConsoleTypesOK
  <2>1. RecordsHeld => (focus = "records" => E!TypeOK)
    BY RecordsTyped DEF RecordsHeld, RecordsInv
  <2>2. AccountsHeld /\ (focus = "accounts" => PageTyped) => (focus = "accounts" => U!TypeOK)
    BY AccountsTyped DEF AccountsHeld, AccountsInv
  <2>3. MetersHeld /\ (focus = "meters" => StartedInv) => (focus = "meters" => M!TypeOK)
    BY MetersTyped DEF MetersHeld
  <2>4. /\ PolicyHeld => (focus = "policy" => Y!TypeOK)
        /\ WebhooksHeld => (focus = "webhooks" => W!TypeOK)
    BY DEF PolicyHeld, PolicyInv, WebhooksHeld, WebhookInv
  <2> QED BY <2>1, <2>2, <2>3, <2>4, PagesTyped DEF ConsoleTypesOK
<1>2. /\ ConsoleTypesOK /\ ProofInv /\ ChainInv /\ DailyInv /\ SensorInv
      /\ StreamsRun => StreamInv
      => TypesOK
  <2>1. /\ ProofInv => (focus = "proof" => P!TypeOK)
        /\ ChainInv => (focus = "chain" => C!TypeOK)
        /\ DailyInv => (focus = "anchor" => A!TypeOK)
        /\ SensorInv => (focus = "bridge" => B!TypeOK)
    BY TerminalTyped
       DEF ProofInv, VerifierInv, ChainInv, GatewayInv, DailyInv, AnchorInv, SensorInv
  <2> QED BY <2>1, StreamsTyped DEF StreamsRun, TypesOK
<1> QED
  BY <1>1, <1>2, RecordsSound, AccountsInvariant, MetersSound, PolicySound, WebhooksSound,
     PageAlways, StartedAlways, PortalSound, PortalTypesAlways, ReachedSound,
     SignupTypesAlways, WatchSound, WaitingTypesAlways, VerifierSound, GatewaySound,
     AnchorsSound, SensorSound, StreamsSound, PTL
=============================================================================
