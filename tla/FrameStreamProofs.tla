------------------------- MODULE FrameStreamProofs -------------------------
(***************************************************************************)
(* Proofs about FrameStream, for any number of frames and blocks, any       *)
(* pieces, queue and timeout: the types, that the loop which cuts frames    *)
(* cuts disjoint parts of the buffer in their order, that no request is     *)
(* handled twice, and that of an untroubled stream no byte is lost.  And    *)
(* about ServerSession, for any queue lengths, numbers of attempts and of   *)
(* failures: the types, and for which connection the login flag speaks.     *)
(***************************************************************************)
EXTENDS FrameStream, SequenceTheorems, NaturalsInduction, WellFoundedInduction, TLAPS

(* A set of numbers has a least one, which is its Min.                       *)
LEMMA Least ==
  ASSUME NEW S \in SUBSET Nat, S # {}
  PROVE  Min(S) \in S /\ \A k \in S : Min(S) <= k
<1>1. PICK n \in S : \A k \in S : ~(<<k, n>> \in OpToRel(<, Nat))
  BY NatLessThanWellFounded, WFMin
<1>2. \A k \in S : ~(k < n)
  BY <1>1 DEF OpToRel
<1>3. \A k \in S : n <= k
  BY <1>2
<1>4. QED BY <1>3 DEF Min

(* What holds of 0 and of each number behind one of which it holds, holds.   *)
LEMMA EachNumber ==
  ASSUME NEW S \in SUBSET Nat, 0 \in S, \A n \in S : n + 1 \in S
  PROVE  S = Nat
<1>1. SUFFICES ASSUME Nat \ S # {} PROVE FALSE
  OBVIOUS
<1> DEFINE n == Min(Nat \ S)
<1>2. n \in Nat \ S /\ \A k \in Nat \ S : n <= k
  BY <1>1, Least
<1> HIDE DEF n
<1>3. n # 0 /\ n - 1 \in Nat
  BY <1>2
<1>4. n - 1 \in S
  BY <1>2, <1>3
<1>5. n - 1 + 1 \in S
  BY <1>4
<1>6. QED BY <1>2, <1>5

(* The first of a byte in a buffer.                                          *)
LEMMA FirstPosIs ==
  ASSUME NEW buf \in Seq(Int), NEW byte
  PROVE  /\ FirstPos(buf, byte) \in 0 .. Len(buf)
         /\ FirstPos(buf, byte) = 0 => \A i \in 1 .. Len(buf) : buf[i] # byte
         /\ FirstPos(buf, byte) # 0 =>
              /\ buf[FirstPos(buf, byte)] = byte
              /\ \A i \in 1 .. FirstPos(buf, byte) - 1 : buf[i] # byte
<1> DEFINE S == {i \in DOMAIN buf : buf[i] = byte}
<1>1. S \in SUBSET Nat /\ DOMAIN buf = 1 .. Len(buf) /\ Len(buf) \in Nat
  OBVIOUS
<1>2. CASE S = {}
  BY <1>1, <1>2 DEF FirstPos
<1>3. CASE S # {}
  <2>1. PICK m \in S : m = Min(S) /\ \A k \in S : m <= k
    BY <1>1, <1>3, Least
  <2>2. FirstPos(buf, byte) = m
    BY <1>3, <2>1 DEF FirstPos
  <2>3. m \in 1 .. Len(buf) /\ buf[m] = byte
    BY <1>1, <2>1
  <2>4. ASSUME NEW i \in 1 .. m - 1, buf[i] = byte PROVE FALSE
    <3>1. i \in DOMAIN buf /\ ~(m <= i)
      BY <1>1, <2>3
    <3>2. i \in S
      BY <2>4, <3>1
    <3>3. QED BY <2>1, <3>1, <3>2
  <2>5. QED BY <2>2, <2>3, <2>4
<1>4. QED BY <1>2, <1>3

-----------------------------------------------------------------------------
(* The recursion of Cut.  One turn of the loop, where g cuts what is behind  *)
(* the first end.                                                            *)
Turn(g, buf) ==
  LET head == FirstPos(buf, H)
      tail == FirstPos(buf, T)
      frame_len == tail + 1 - head
      more == g[SubSeq(buf, tail + 1, Len(buf))]
  IN IF ~(head # 0 /\ tail > head) THEN [frames |-> << >>, rest |-> buf]
     ELSE IF Len(buf) > frame_len
          THEN [frames |-> <<SubSeq(buf, head, tail)>> \o more.frames, rest |-> more.rest]
          ELSE [frames |-> <<SubSeq(buf, head, tail)>>, rest |-> << >>]

Short(n) == {s \in Seq(Int) : Len(s) <= n}
CutsShort(g, n) == g = [buf \in Short(n) |-> Turn(g, buf)]

(* A turn depends on what g does with shorter buffers only.                  *)
LEMMA TurnShorter ==
  ASSUME NEW buf \in Seq(Int), NEW g, NEW h,
         \A s \in Seq(Int) : Len(s) < Len(buf) => g[s] = h[s]
  PROVE  Turn(g, buf) = Turn(h, buf)
<1> DEFINE head == FirstPos(buf, H)
           tail == FirstPos(buf, T)
<1>1. head \in 0 .. Len(buf) /\ tail \in 0 .. Len(buf) /\ Len(buf) \in Nat
  BY FirstPosIs
<1> HIDE DEF head, tail
<1>2. CASE head # 0 /\ tail > head
  <2>1. SubSeq(buf, tail + 1, Len(buf)) \in Seq(Int)
        /\ Len(SubSeq(buf, tail + 1, Len(buf))) < Len(buf)
    BY <1>1, <1>2, SubSeqProperties
  <2>2. g[SubSeq(buf, tail + 1, Len(buf))] = h[SubSeq(buf, tail + 1, Len(buf))]
    BY <2>1
  <2>3. QED BY <2>2 DEF Turn, head, tail
<1>3. CASE ~(head # 0 /\ tail > head)
  BY <1>3 DEF Turn, head, tail
<1>4. QED BY <1>2, <1>3

(* Functions that cut short buffers exist, and agree.                        *)
LEMMA CutsShortExists ==
  ASSUME NEW n \in Nat
  PROVE  \E g : CutsShort(g, n)
<1> DEFINE S == {k \in Nat : \E g : CutsShort(g, k)}
<1>1. 0 \in S
  <2> DEFINE g == [buf \in Short(0) |-> Turn(<< >>, buf)]
  <2>1. ASSUME NEW buf \in Short(0) PROVE Turn(<< >>, buf) = Turn(g, buf)
    <3>1. buf \in Seq(Int) /\ \A s \in Seq(Int) : ~(Len(s) < Len(buf))
      BY DEF Short
    <3>2. QED BY <3>1, TurnShorter
  <2>2. g = [buf \in Short(0) |-> Turn(g, buf)]
    BY <2>1
  <2> HIDE DEF g
  <2>3. CutsShort(g, 0)
    BY <2>2 DEF CutsShort
  <2>4. QED BY <2>3
<1>2. ASSUME NEW k \in S PROVE k + 1 \in S
  <2>1. PICK g : CutsShort(g, k)
    OBVIOUS
  <2> DEFINE h == [buf \in Short(k + 1) |-> Turn(g, buf)]
  <2>2. ASSUME NEW buf \in Short(k + 1) PROVE Turn(g, buf) = Turn(h, buf)
    <3>1. ASSUME NEW s \in Seq(Int), Len(s) < Len(buf) PROVE g[s] = h[s]
      <4>1. s \in Short(k) /\ s \in Short(k + 1)
        BY <3>1 DEF Short
      <4>2. g[s] = Turn(g, s)
        BY <2>1, <4>1 DEF CutsShort
      <4>3. QED BY <4>1, <4>2
    <3>2. buf \in Seq(Int)
      BY DEF Short
    <3> HIDE DEF h
    <3>3. QED BY <3>1, <3>2, TurnShorter
  <2>3. h = [buf \in Short(k + 1) |-> Turn(h, buf)]
    BY <2>2
  <2> HIDE DEF h
  <2>4. CutsShort(h, k + 1)
    BY <2>3 DEF CutsShort
  <2>5. QED BY <2>4
<1> HIDE DEF S
<1>3. S = Nat
  <2>1. S \in SUBSET Nat
    BY DEF S
  <2>2. QED BY <1>1, <1>2, <2>1, EachNumber
<1>4. QED BY <1>3 DEF S

LEMMA CutsShortAgree ==
  ASSUME NEW n \in Nat, NEW m \in Nat, n <= m, NEW g, NEW h, CutsShort(g, n), CutsShort(h, m)
  PROVE  \A s \in Short(n) : g[s] = h[s]
<1> DEFINE S == {k \in Nat : \A s \in Short(n) : Len(s) <= k => g[s] = h[s]}
<1>1. ASSUME NEW s \in Short(n), \A t \in Seq(Int) : Len(t) < Len(s) => g[t] = h[t]
      PROVE  g[s] = h[s]
  <2>1. s \in Short(m) /\ s \in Seq(Int)
    BY DEF Short
  <2>2. g[s] = Turn(g, s) /\ h[s] = Turn(h, s)
    BY <2>1 DEF CutsShort
  <2>3. QED BY <1>1, <2>1, <2>2, TurnShorter
<1>2. 0 \in S
  <2>1. ASSUME NEW s \in Short(n), Len(s) <= 0 PROVE g[s] = h[s]
    <3>1. \A t \in Seq(Int) : ~(Len(t) < Len(s))
      BY <2>1 DEF Short
    <3>2. QED BY <1>1, <3>1
  <2>2. QED BY <2>1
<1>3. ASSUME NEW k \in S PROVE k + 1 \in S
  <2>1. ASSUME NEW s \in Short(n), Len(s) <= k + 1 PROVE g[s] = h[s]
    <3>1. ASSUME NEW t \in Seq(Int), Len(t) < Len(s) PROVE g[t] = h[t]
      <4>1. t \in Short(n) /\ Len(t) <= k
        BY <2>1, <3>1 DEF Short
      <4>2. QED BY <4>1
    <3>2. QED BY <1>1, <3>1
  <2>2. QED BY <2>1
<1> HIDE DEF S
<1>4. S = Nat
  <2>1. S \in SUBSET Nat
    BY DEF S
  <2>2. QED BY <1>2, <1>3, <2>1, EachNumber
<1>5. n \in S
  BY <1>4
<1>6. QED BY <1>5 DEF S, Short

(* So the recursion defines Cut.                                             *)
LEMMA CutTurns ==
  \A buf \in Seq(Int) : Cut[buf] = Turn(Cut, buf)
<1> DEFINE g(n) == CHOOSE f : CutsShort(f, n)
           C == [buf \in Seq(Int) |-> g(Len(buf))[buf]]
<1>1. \A n \in Nat : CutsShort(g(n), n)
  BY CutsShortExists
<1>2. ASSUME NEW buf \in Seq(Int) PROVE C[buf] = Turn(C, buf)
  <2>1. PICK n \in Nat : n = Len(buf)
    OBVIOUS
  <2>2. PICK f : f = g(n) /\ CutsShort(f, n)
    BY <1>1
  <2>3. buf \in Short(n)
    BY <2>1 DEF Short
  <2>4. C[buf] = f[buf]
    BY <2>1, <2>2
  <2>5. f[buf] = Turn(f, buf)
    BY <2>2, <2>3 DEF CutsShort
  <2>6. ASSUME NEW s \in Seq(Int), Len(s) < Len(buf) PROVE f[s] = C[s]
    <3>1. PICK m \in Nat : m = Len(s)
      OBVIOUS
    <3>2. PICK e : e = g(m) /\ CutsShort(e, m)
      BY <1>1
    <3>3. s \in Short(m) /\ m <= n
      BY <2>1, <2>6, <3>1 DEF Short
    <3>4. e[s] = f[s]
      BY <2>2, <3>2, <3>3, CutsShortAgree
    <3>5. C[s] = e[s]
      BY <3>1, <3>2
    <3>6. QED BY <3>4, <3>5
  <2> HIDE DEF C
  <2>7. Turn(f, buf) = Turn(C, buf)
    BY <2>6, TurnShorter
  <2>8. QED BY <2>4, <2>5, <2>7
<1>3. C = [buf \in Seq(Int) |-> Turn(C, buf)]
  BY <1>2
<1> HIDE DEF C
<1>4. Cut = [buf \in Seq(Int) |-> Turn(Cut, buf)]
  BY <1>3 DEF Cut, Turn
<1>5. QED BY <1>4

-----------------------------------------------------------------------------
(* What holds of a sequence when it holds of all shorter ones, holds of all. *)
LEMMA EachSequence ==
  ASSUME NEW S, NEW Q \in SUBSET Seq(S),
         \A s \in Seq(S) : (\A t \in Seq(S) : Len(t) < Len(s) => t \in Q) => s \in Q
  PROVE  Q = Seq(S)
<1> DEFINE N == {n \in Nat : \A s \in Seq(S) : Len(s) <= n => s \in Q}
<1>1. 0 \in N
  <2>1. ASSUME NEW s \in Seq(S), Len(s) <= 0 PROVE s \in Q
    <3>1. \A t \in Seq(S) : ~(Len(t) < Len(s))
      BY <2>1
    <3>2. QED BY <3>1
  <2>2. QED BY <2>1
<1>2. ASSUME NEW n \in N PROVE n + 1 \in N
  <2>1. ASSUME NEW s \in Seq(S), Len(s) <= n + 1 PROVE s \in Q
    <3>1. ASSUME NEW t \in Seq(S), Len(t) < Len(s) PROVE t \in Q
      <4>1. Len(t) <= n
        BY <2>1, <3>1
      <4>2. QED BY <4>1
    <3>2. QED BY <3>1
  <2>2. QED BY <2>1
<1> HIDE DEF N
<1>3. N = Nat
  <2>1. N \in SUBSET Nat
    BY DEF N
  <2>2. QED BY <1>1, <1>2, <2>1, EachNumber
<1>4. ASSUME NEW s \in Seq(S) PROVE s \in Q
  <2>1. Len(s) \in N
    BY <1>3
  <2>2. QED BY <2>1 DEF N
<1>5. QED BY <1>4

(* The frames cut from a buffer and what stays are parts of it, one behind   *)
(* the other.                                                                *)
Part(c, i) == IF i <= Len(c.frames) THEN c.frames[i] ELSE c.rest

PartsAt(buf, c, at) ==
  /\ at \in [1 .. Len(c.frames) + 1 -> Nat]
  /\ \A i \in 1 .. Len(c.frames) + 1 :
       /\ at[i] + Len(Part(c, i)) <= Len(buf)
       /\ \A j \in 1 .. Len(Part(c, i)) : Part(c, i)[j] = buf[at[i] + j]
  /\ \A i, k \in 1 .. Len(c.frames) + 1 : i < k => at[i] + Len(Part(c, i)) <= at[k]

CutOf(S) == [frames : Seq(Seq(S)), rest : Seq(S)]

LEMMA CutParts ==
  ASSUME NEW S \in SUBSET Int, NEW buf \in Seq(S)
  PROVE  Cut[buf] \in CutOf(S) /\ \E at : PartsAt(buf, Cut[buf], at)
<1> DEFINE Q == {b \in Seq(S) : Cut[b] \in CutOf(S) /\ \E at : PartsAt(b, Cut[b], at)}
<1>1. ASSUME NEW b \in Seq(S), \A t \in Seq(S) : Len(t) < Len(b) => t \in Q
      PROVE  b \in Q
  <2> DEFINE head == FirstPos(b, H)
             tail == FirstPos(b, T)
             first == SubSeq(b, head, tail)
             left == SubSeq(b, tail + 1, Len(b))
  <2>1. b \in Seq(Int) /\ Len(b) \in Nat
    <3>1. b \in Seq(S) /\ S \subseteq Int
      BY <1>1
    <3>2. b \in Seq(Int)
      BY ONLY <3>1, SeqMonotonic
    <3>3. QED BY <3>2
  <2>2. head \in 0 .. Len(b) /\ tail \in 0 .. Len(b)
    <3>1. FirstPos(b, H) \in 0 .. Len(b)
      BY <2>1, FirstPosIs
    <3>2. FirstPos(b, T) \in 0 .. Len(b)
      BY <2>1, FirstPosIs
    <3>3. QED BY <3>1, <3>2
  <2>3. Cut[b] = Turn(Cut, b)
    BY <2>1, CutTurns
  <2> HIDE DEF head, tail
  <2>4. CASE ~(head # 0 /\ tail > head)
    <3> DEFINE at == [i \in 1 .. 1 |-> 0]
    <3>1. Cut[b] = [frames |-> << >>, rest |-> b]
      BY <2>3, <2>4 DEF Turn, head, tail
    <3>2. Cut[b].frames = << >> /\ Cut[b].rest = b
      BY <3>1
    <3>3. PartsAt(b, Cut[b], at)
      BY <2>1, <3>2 DEF PartsAt, Part
    <3>4. Cut[b] \in CutOf(S)
      BY <3>1 DEF CutOf
    <3>5. QED BY <3>3, <3>4
  <2>5. CASE head # 0 /\ tail > head
    <3>1. \A i \in 1 .. Len(b) : b[i] \in S
      OBVIOUS
    <3>2. /\ first \in Seq(S) /\ Len(first) = tail + 1 - head
          /\ \A j \in 1 .. Len(first) : first[j] = b[head - 1 + j]
      BY <2>2, <2>5, <3>1, SubSeqProperties
    <3>3. /\ left \in Seq(S) /\ Len(left) = Len(b) - tail
          /\ \A j \in 1 .. Len(left) : left[j] = b[tail + j]
      BY <2>1, <2>2, <2>5, <3>1, SubSeqProperties
    <3> HIDE DEF first, left
    <3>4. CASE ~(Len(b) > tail + 1 - head)
      <4> DEFINE at == [i \in 1 .. 2 |-> IF i = 1 THEN head - 1 ELSE Len(b)]
      <4>1. Cut[b] = [frames |-> <<first>>, rest |-> << >>]
        BY <2>3, <2>5, <3>4 DEF Turn, head, tail, first
      <4>2. Cut[b].frames = <<first>> /\ Cut[b].rest = << >>
        BY <4>1
      <4>3. Part(Cut[b], 1) = first /\ Part(Cut[b], 2) = << >> /\ Len(Cut[b].frames) = 1
        BY <4>2 DEF Part
      <4>4. at \in [1 .. 2 -> Nat] /\ at[1] = head - 1 /\ at[2] = Len(b)
        BY <2>1, <2>2, <2>5
      <4> HIDE DEF at
      <4>5. PartsAt(b, Cut[b], at)
        <5>1. \A i \in 1 .. 2 : i = 1 \/ i = 2
          OBVIOUS
        <5>2. at[1] + Len(first) <= Len(b) /\ at[2] + Len(<< >>) <= Len(b)
          BY <2>1, <2>2, <2>5, <3>2, <4>4
        <5>3. \A j \in 1 .. Len(first) : first[j] = b[at[1] + j]
          BY <3>2, <4>4
        <5>4. QED BY <4>3, <4>4, <5>1, <5>2, <5>3 DEF PartsAt
      <4>6. Cut[b] \in CutOf(S)
        BY <3>2, <4>1 DEF CutOf
      <4>7. QED BY <4>5, <4>6
    <3>5. CASE Len(b) > tail + 1 - head
      <4> DEFINE more == Cut[left]
      <4>1. left \in Q
        BY <1>1, <2>1, <2>2, <2>5, <3>3
      <4>2. more \in CutOf(S)
        BY <4>1
      <4>3. PICK at : PartsAt(left, more, at)
        BY <4>1
      <4>4. Cut[b] = [frames |-> <<first>> \o more.frames, rest |-> more.rest]
        BY <2>3, <2>5, <3>5 DEF Turn, head, tail, first, left
      <4> HIDE DEF more
      <4>5. more.frames \in Seq(Seq(S)) /\ more.rest \in Seq(S) /\ <<first>> \in Seq(Seq(S))
        BY <3>2, <4>2 DEF CutOf
      <4>6. PICK n \in Nat : n = Len(more.frames)
        BY <4>5
      <4>7. PICK fs : fs = <<first>> \o more.frames
        OBVIOUS
      <4>8. /\ fs \in Seq(Seq(S)) /\ Len(fs) = n + 1
            /\ \A i \in 1 .. n + 1 : fs[i] = IF i = 1 THEN first ELSE more.frames[i - 1]
        BY <4>5, <4>6, <4>7
      <4>9. Cut[b].frames = fs /\ Cut[b].rest = more.rest
        BY <4>4, <4>7
      <4>10. Cut[b] \in CutOf(S)
        BY <4>4, <4>5, <4>7, <4>8 DEF CutOf
      <4> DEFINE to == [i \in 1 .. n + 2 |-> IF i = 1 THEN head - 1 ELSE tail + at[i - 1]]
      <4>11. /\ at \in [1 .. n + 1 -> Nat]
             /\ \A i \in 1 .. n + 1 :
                  /\ at[i] + Len(Part(more, i)) <= Len(left)
                  /\ \A j \in 1 .. Len(Part(more, i)) : Part(more, i)[j] = left[at[i] + j]
             /\ \A i, k \in 1 .. n + 1 : i < k => at[i] + Len(Part(more, i)) <= at[k]
        BY <4>3, <4>6 DEF PartsAt
      <4>12. Part(Cut[b], 1) = first
             /\ \A i \in 2 .. n + 2 : Part(Cut[b], i) = Part(more, i - 1)
        BY <4>6, <4>8, <4>9 DEF Part
      <4>13. \A i \in 1 .. n + 1 : Part(more, i) \in Seq(S)
        BY <4>5, <4>6 DEF Part
      <4>14. to \in [1 .. n + 2 -> Nat] /\ to[1] = head - 1
             /\ \A i \in 2 .. n + 2 : to[i] = tail + at[i - 1]
        <5>1. head - 1 \in Nat /\ tail \in Nat
          BY <2>2, <2>5
        <5>2. ASSUME NEW i \in 1 .. n + 2
              PROVE  (IF i = 1 THEN head - 1 ELSE tail + at[i - 1]) \in Nat
          <6>1. CASE i = 1
            BY <5>1, <6>1
          <6>2. CASE i # 1
            <7>1. i - 1 \in 1 .. n + 1
              BY <6>2
            <7>2. PICK a \in Nat : a = at[i - 1]
              BY <4>11, <7>1
            <7>3. QED BY <5>1, <6>2, <7>2
          <6>3. QED BY <6>1, <6>2
        <5>3. to \in [1 .. n + 2 -> Nat]
          BY <5>2, Zenon
        <5>4. 1 \in 1 .. n + 2
          OBVIOUS
        <5>5. \A i \in 2 .. n + 2 : i \in 1 .. n + 2 /\ i # 1
          OBVIOUS
        <5>6. to[1] = head - 1
          BY <5>4, Zenon
        <5>7. \A i \in 2 .. n + 2 : to[i] = tail + at[i - 1]
          BY <5>5, Zenon
        <5>8. QED BY <5>3, <5>6, <5>7
      <4> HIDE DEF to
      <4>15. ASSUME NEW i \in 1 .. n + 2
             PROVE  /\ to[i] + Len(Part(Cut[b], i)) <= Len(b)
                    /\ \A j \in 1 .. Len(Part(Cut[b], i)) : Part(Cut[b], i)[j] = b[to[i] + j]
        <5>1. CASE i = 1
          <6>1. to[i] = head - 1 /\ Part(Cut[b], i) = first
            BY <4>12, <4>14, <5>1
          <6>2. head - 1 + Len(first) <= Len(b)
            BY <2>1, <2>2, <2>5, <3>2
          <6>3. QED BY <3>2, <6>1, <6>2
        <5>2. CASE i # 1
          <6>1. PICK p \in Seq(S) : p = Part(more, i - 1)
            BY <4>13, <5>2
          <6>2. i \in 2 .. n + 2 /\ i - 1 \in 1 .. n + 1
            BY <5>2
          <6>3. at[i - 1] \in Nat /\ at[i - 1] + Len(p) <= Len(left)
                /\ \A j \in 1 .. Len(p) : p[j] = left[at[i - 1] + j]
            BY <4>11, <6>1, <6>2
          <6>4. to[i] = tail + at[i - 1] /\ Part(Cut[b], i) = p
            BY <4>12, <4>14, <6>1, <6>2
          <6>5. to[i] + Len(p) <= Len(b)
            BY <2>1, <2>2, <3>3, <6>3, <6>4
          <6>6. ASSUME NEW j \in 1 .. Len(p) PROVE p[j] = b[to[i] + j]
            <7>1. at[i - 1] + j \in 1 .. Len(left)
              <8>1. Len(left) \in Nat /\ Len(p) \in Nat
                BY <3>3
              <8>2. QED BY <6>3, <8>1
            <7>2. left[at[i - 1] + j] = b[tail + (at[i - 1] + j)]
              BY <3>3, <7>1
            <7>3. tail + (at[i - 1] + j) = to[i] + j
              BY <2>2, <6>3, <6>4
            <7>4. QED BY <6>3, <7>2, <7>3
          <6>7. QED BY <6>4, <6>5, <6>6
        <5>3. QED BY <5>1, <5>2
      <4>16. ASSUME NEW i \in 1 .. n + 2, NEW k \in 1 .. n + 2, i < k
             PROVE  to[i] + Len(Part(Cut[b], i)) <= to[k]
        <5>1. k \in 2 .. n + 2 /\ k - 1 \in 1 .. n + 1 /\ at[k - 1] \in Nat /\ to[k] = tail + at[k - 1]
          BY <4>16, <4>11, <4>14
        <5>2. CASE i = 1
          <6>1. to[i] = head - 1 /\ Part(Cut[b], i) = first
            BY <4>12, <4>14, <5>2
          <6>2. head - 1 + Len(first) = tail
            BY <2>2, <2>5, <3>2
          <6>3. tail <= to[k]
            BY <2>2, <5>1
          <6>4. QED BY <6>1, <6>2, <6>3
        <5>3. CASE i # 1
          <6>1. i \in 2 .. n + 2 /\ i - 1 \in 1 .. n + 1 /\ i - 1 < k - 1
            BY <4>16, <5>3
          <6>2. PICK m \in Nat : m = Len(Part(more, i - 1))
            BY <4>13, <6>1
          <6>3. at[i - 1] \in Nat /\ at[i - 1] + m <= at[k - 1]
            BY <4>11, <5>1, <6>1, <6>2
          <6>4. to[i] = tail + at[i - 1] /\ Len(Part(Cut[b], i)) = m
            BY <4>12, <4>14, <6>1, <6>2
          <6>5. PICK a \in Nat, c \in Nat, z \in Nat : a = at[i - 1] /\ c = at[k - 1] /\ z = tail
            BY <2>2, <5>1, <6>3
          <6>6. z + a + m <= z + c
            <7>1. a + m <= c
              BY <6>3, <6>5
            <7>2. QED BY ONLY <7>1, m \in Nat, a \in Nat, c \in Nat, z \in Nat
          <6>7. QED BY <5>1, <6>4, <6>5, <6>6
        <5>4. QED BY <5>2, <5>3
      <4>17. Len(Cut[b].frames) + 1 = n + 2
        BY <4>8, <4>9
      <4>18. PartsAt(b, Cut[b], to)
        BY <4>14, <4>15, <4>16, <4>17 DEF PartsAt
      <4>19. QED BY <4>10, <4>18
    <3>6. QED BY <3>4, <3>5
  <2>6. QED BY <2>4, <2>5
<1> HIDE DEF Q
<1>2. Q = Seq(S)
  <2>1. Q \in SUBSET Seq(S)
    BY DEF Q
  <2>2. QED BY <1>1, <2>1, EachSequence
<1>3. QED BY <1>2 DEF Q

-----------------------------------------------------------------------------
(* The types: of a put under way, the block was found, and at most one piece *)
(* came into it since.                                                       *)
PutInv ==
  /\ put.at \in {"mark", "fill"} => put.block \in Block
  /\ put.at = "mark" => blocks[put.block].count <= 1
  /\ eth # "put" => put = NoPut

TypeInv == TypeOK /\ PutInv

LEMMA Bytes ==
  /\ Byte \in SUBSET Int /\ H \in Byte /\ T \in Byte
  /\ \A n \in 1 .. NFrame : n \in Byte /\ Frame(n) \in Seq(Byte) /\ Len(Frame(n)) = 3
                            /\ Frame(n)[1] = H /\ Frame(n)[2] = n /\ Frame(n)[3] = T
<1>1. NFrame \in Nat
  BY StreamAssumption
<1>2. Byte \in SUBSET Int /\ H \in Byte /\ T \in Byte
  BY <1>1 DEF Byte, H, T
<1>3. ASSUME NEW n \in 1 .. NFrame
      PROVE  n \in Byte /\ Frame(n) \in Seq(Byte) /\ Len(Frame(n)) = 3
             /\ Frame(n)[1] = H /\ Frame(n)[2] = n /\ Frame(n)[3] = T
  <2>1. n \in Byte
    BY <1>1 DEF Byte, T
  <2>2. QED BY <1>2, <2>1 DEF Frame
<1>4. QED BY <1>2, <1>3

Regroups(x, y, z) == (x \o y) \o z = x \o (y \o z)

LEMMA Regroup ==
  ASSUME NEW x \in Seq(Byte), NEW y \in Seq(Byte), NEW z \in Seq(Byte)
  PROVE  Regroups(x, y, z)
BY ConcatAssociative DEF Regroups

(* Parts of a sequence.                                                      *)
LEMMA SubSeqIs ==
  ASSUME NEW S, NEW s \in Seq(S), NEW m \in Nat \ {0}, NEW n \in Nat, n <= Len(s)
  PROVE  /\ SubSeq(s, m, n) \in Seq(S)
         /\ Len(SubSeq(s, m, n)) = IF m <= n THEN n - m + 1 ELSE 0
         /\ \A i \in 1 .. n - m + 1 : SubSeq(s, m, n)[i] = s[m + i - 1]
<1>1. \A i \in m .. n : s[i] \in S
  OBVIOUS
<1>2. QED BY <1>1, SubSeqProperties

(* A piece is the front of a wire, what stays its back.                      *)
LEMMA PieceIs ==
  ASSUME TypeOK, NEW l \in Link, NEW k \in PieceOf(l)
  PROVE  /\ k \in 1 .. Len(wire[l]) /\ wire[l] \in Seq(Byte)
         /\ SubSeq(wire[l], 1, k) \in Seq(Byte) /\ Len(SubSeq(wire[l], 1, k)) = k
         /\ \A i \in 1 .. k : SubSeq(wire[l], 1, k)[i] = wire[l][i]
         /\ SubSeq(wire[l], k + 1, Len(wire[l])) \in Seq(Byte)
         /\ Len(SubSeq(wire[l], k + 1, Len(wire[l]))) = Len(wire[l]) - k
         /\ \A i \in 1 .. Len(wire[l]) - k : SubSeq(wire[l], k + 1, Len(wire[l]))[i] = wire[l][k + i]
<1>1. PieceMax \in Nat
  BY StreamAssumption
<1>2. wire[l] \in Seq(Byte)
  BY DEF TypeOK
<1>3. k \in 1 .. Len(wire[l])
  BY <1>1, <1>2 DEF PieceOf
<1>4. PICK w \in Seq(Byte) : w = wire[l]
  BY <1>2
<1>5. /\ SubSeq(w, 1, k) \in Seq(Byte) /\ Len(SubSeq(w, 1, k)) = k
      /\ \A i \in 1 .. k : SubSeq(w, 1, k)[i] = w[i]
  BY <1>3, <1>4, SubSeqIs
<1>6. /\ SubSeq(w, k + 1, Len(w)) \in Seq(Byte)
      /\ Len(SubSeq(w, k + 1, Len(w))) = Len(w) - k
      /\ \A i \in 1 .. Len(w) - k : SubSeq(w, k + 1, Len(w))[i] = w[k + i]
  <2>1. k + 1 \in Nat \ {0} /\ Len(w) \in Nat /\ k <= Len(w) /\ Len(w) - (k + 1) + 1 = Len(w) - k
    BY <1>3, <1>4
  <2>2. /\ SubSeq(w, k + 1, Len(w)) \in Seq(Byte)
        /\ Len(SubSeq(w, k + 1, Len(w))) = IF k + 1 <= Len(w) THEN Len(w) - (k + 1) + 1 ELSE 0
        /\ \A i \in 1 .. Len(w) - (k + 1) + 1 : SubSeq(w, k + 1, Len(w))[i] = w[k + 1 + i - 1]
    BY <2>1, SubSeqIs
  <2>3. Len(SubSeq(w, k + 1, Len(w))) = Len(w) - k
    <3>1. PICK n \in Nat : n = Len(w)
      BY <2>1
    <3>2. k \in 1 .. n
      BY <1>3, <1>4, <3>1
    <3>3. Len(SubSeq(w, k + 1, n)) = IF k + 1 <= n THEN n - (k + 1) + 1 ELSE 0
      BY <2>2, <3>1
    <3>4. QED BY <3>1, <3>2, <3>3
  <2>4. ASSUME NEW i \in 1 .. Len(w) - k
        PROVE  SubSeq(w, k + 1, Len(w))[i] = w[k + i]
    <3>1. SubSeq(w, k + 1, Len(w))[i] = w[k + 1 + i - 1]
      BY <2>1, <2>2
    <3>2. k + 1 + i - 1 = k + i
      BY <1>3
    <3>3. QED BY <3>1, <3>2
  <2>5. QED BY <2>2, <2>3, <2>4
<1>7. QED BY <1>2, <1>3, <1>4, <1>5, <1>6

(* The first block that is free, the first in use.                           *)
LEMMA FirstBlock ==
  /\ Free # {} => Min(Free) \in Free /\ Min(Free) \in Block
  /\ Used # {} => Min(Used) \in Used /\ Min(Used) \in Block
<1>1. Free \in SUBSET Nat /\ Used \in SUBSET Nat /\ Free \subseteq Block /\ Used \subseteq Block
  BY StreamAssumption DEF Free, Used, Block
<1>2. QED BY <1>1, Least

(* What the turn of the loop does with a block.                              *)
LEMMA TakenIs ==
  ASSUME TypeOK, Used # {}
  PROVE  LET b == Min(Used)
             buf == recv_buf \o blocks[b].data
         IN /\ b \in Used /\ b \in Block
            /\ buf \in Seq(Byte) /\ Cut[buf] \in CutOf(Byte)
            /\ \E at : PartsAt(buf, Cut[buf], at)
<1> DEFINE b == Min(Used)
           buf == recv_buf \o blocks[b].data
<1>1. b \in Used /\ b \in Block
  BY FirstBlock
<1>2. buf \in Seq(Byte)
  BY <1>1 DEF TypeOK
<1> HIDE DEF buf
<1>3. Cut[buf] \in CutOf(Byte) /\ \E at : PartsAt(buf, Cut[buf], at)
  BY <1>2, Bytes, CutParts
<1>4. QED BY <1>1, <1>2, <1>3 DEF buf

LEMMA KeptIs ==
  ASSUME TypeOK, NEW frames \in Seq(Seq(Byte))
  PROVE  /\ Kept(frames) \in Seq(Seq(Byte)) /\ Len(Kept(frames)) <= QueueLen
         /\ Len(Kept(frames)) <= Len(queue) + Len(frames)
         /\ \A i \in 1 .. Len(Kept(frames)) :
              Kept(frames)[i] = IF i <= Len(queue) THEN queue[i] ELSE frames[i - Len(queue)]
         /\ Len(queue) + Len(frames) <= QueueLen => Kept(frames) = queue \o frames
<1>1. QueueLen \in Nat
  BY StreamAssumption
<1>2. queue \in Seq(Seq(Byte))
  BY DEF TypeOK
<1>3. PICK q : q = queue \o frames
  OBVIOUS
<1>4. /\ q \in Seq(Seq(Byte)) /\ Len(q) = Len(queue) + Len(frames)
      /\ \A i \in 1 .. Len(q) : q[i] = IF i <= Len(queue) THEN queue[i] ELSE frames[i - Len(queue)]
  BY <1>2, <1>3
<1>5. PICK m \in Nat : m = Min({QueueLen, Len(q)})
                       /\ m <= QueueLen /\ m <= Len(q) /\ (m = QueueLen \/ m = Len(q))
  <2>1. {QueueLen, Len(q)} \in SUBSET Nat /\ {QueueLen, Len(q)} # {}
    BY <1>1, <1>4
  <2>2. Min({QueueLen, Len(q)}) \in {QueueLen, Len(q)}
        /\ \A k \in {QueueLen, Len(q)} : Min({QueueLen, Len(q)}) <= k
    BY <2>1, Least
  <2>3. QED BY <1>1, <1>4, <2>2
<1>6. Kept(frames) = SubSeq(q, 1, m)
  BY <1>3, <1>5 DEF Kept
<1>7. /\ SubSeq(q, 1, m) \in Seq(Seq(Byte)) /\ Len(SubSeq(q, 1, m)) = m
      /\ \A i \in 1 .. m : SubSeq(q, 1, m)[i] = q[i]
  <2>1. 1 \in Nat \ {0} /\ m - 1 + 1 = m /\ (m = 0 => ~(1 <= m))
    OBVIOUS
  <2>2. /\ SubSeq(q, 1, m) \in Seq(Seq(Byte))
        /\ Len(SubSeq(q, 1, m)) = IF 1 <= m THEN m - 1 + 1 ELSE 0
        /\ \A i \in 1 .. m - 1 + 1 : SubSeq(q, 1, m)[i] = q[1 + i - 1]
    <3>1. q \in Seq(Seq(Byte)) /\ m <= Len(q)
      BY <1>4, <1>5
    <3>2. QED BY ONLY <2>1, <3>1, m \in Nat, SubSeqIs
  <2>3. ASSUME NEW i \in 1 .. m PROVE SubSeq(q, 1, m)[i] = q[i]
    <3>1. i \in 1 .. m - 1 + 1 /\ 1 + i - 1 = i
      OBVIOUS
    <3>2. SubSeq(q, 1, m)[i] = q[1 + i - 1]
      BY <2>2, <3>1
    <3>3. QED BY <3>1, <3>2
  <2>4. Len(SubSeq(q, 1, m)) = m
    BY <2>1, <2>2
  <2>5. QED BY <2>2, <2>3, <2>4
<1>8. Len(q) <= QueueLen => SubSeq(q, 1, m) = q
  <2>1. Len(q) <= QueueLen => m = Len(q)
    <3>1. Len(q) \in Nat
      BY <1>4
    <3>2. QED BY ONLY <1>1, <1>5, <3>1
  <2>2. SubSeq(q, 1, Len(q)) = q
    BY <1>4, SubSeqFull
  <2>3. QED BY <2>1, <2>2
<1> DEFINE k == Kept(frames)
<1> HIDE DEF k
<1>9. k = SubSeq(q, 1, m)
  BY <1>6 DEF k
<1>10. k \in Seq(Seq(Byte)) /\ Len(k) = m /\ \A i \in 1 .. m : k[i] = q[i]
  BY <1>7, <1>9
<1>11. Len(k) <= QueueLen /\ Len(k) <= Len(queue) + Len(frames)
  BY <1>4, <1>5, <1>10
<1>12. ASSUME NEW i \in 1 .. Len(k)
       PROVE  k[i] = IF i <= Len(queue) THEN queue[i] ELSE frames[i - Len(queue)]
  <2>1. Len(q) \in Nat
    BY <1>4
  <2>2. i \in 1 .. m /\ i \in 1 .. Len(q)
    BY <1>5, <1>10, <2>1
  <2>3. QED BY <1>4, <1>10, <2>2
<1>13. Len(queue) + Len(frames) <= QueueLen => k = queue \o frames
  BY <1>3, <1>4, <1>8, <1>9
<1>14. QED
  BY <1>10, <1>11, <1>12, <1>13 DEF k

-----------------------------------------------------------------------------
(* Types.                                                                    *)
LEMMA TypeInit == Init => TypeInv
<1> SUFFICES ASSUME Init PROVE TypeInv
  OBVIOUS
<1>1. NFrame \in Nat /\ NBlock \in Nat /\ Timeout \in Nat /\ MaxLink \in Nat /\ QueueLen \in Nat
  BY StreamAssumption
<1>2. blocks \in [Block -> [count : 0 .. 2, data : Seq(Byte)]]
  BY DEF Init
<1>3. wire \in [Link -> Seq(Byte)]
  BY DEF Init
<1>4. put \in [at : {"none", "find", "mark", "fill"}, block : 0 .. NBlock, piece : Seq(Byte)]
      /\ put.at = "none" /\ put = NoPut
  BY <1>1 DEF Init, NoPut
<1>5. recv_buf \in Seq(Byte) /\ queue \in Seq(Seq(Byte)) /\ Len(queue) = 0 /\ arrived \in Seq(Byte)
      /\ handled \in Seq(1 .. NFrame)
  BY DEF Init
<1>6. /\ sent \in 0 .. NFrame /\ up4g \in BOOLEAN /\ eth = "connect" /\ age \in 0 .. Timeout
      /\ Len(queue) <= QueueLen /\ links \in 0 .. MaxLink /\ trouble = "none"
  <2>1. sent = 0 /\ age = 0 /\ links = 0 /\ eth = "connect" /\ trouble = "none"
    BY DEF Init
  <2>2. up4g \in BOOLEAN
    BY DEF Init
  <2>3. Len(queue) <= QueueLen
    BY <1>1, <1>5
  <2>4. QED BY ONLY <1>1, <2>1, <2>2, <2>3
<1> HIDE DEF Init
<1>7. TypeOK
  <2>1. trouble \in {"none", "rough", "torn"} /\ eth \in {"connect", "check", "receive", "put"}
    BY <1>6
  <2>2. /\ sent \in 0 .. NFrame /\ up4g \in BOOLEAN /\ age \in 0 .. Timeout
        /\ Len(queue) <= QueueLen /\ links \in 0 .. MaxLink
    BY <1>6
  <2>3. QED BY ONLY <1>2, <1>3, <1>4, <1>5, <2>1, <2>2 DEF TypeOK
<1>8. QED BY <1>4, <1>7 DEF TypeInv, PutInv

(* Trouble keeps its type.                                                   *)
LEMMA WorseType ==
  ASSUME trouble \in {"none", "rough", "torn"}, NEW holds
  PROVE  Worse("rough", holds) \in {"none", "rough", "torn"}
         /\ Worse("torn", holds) \in {"none", "rough", "torn"}
  BY DEF Worse

(* A piece put into a block.                                                 *)
LEMMA FilledType ==
  ASSUME TypeOK, NEW b \in Block, NEW piece \in Seq(Byte), NEW bs,
         bs \in [Block -> [count : 0 .. 2, data : Seq(Byte)]]
  PROVE  /\ Filled(bs, b, piece) \in [Block -> [count : 0 .. 2, data : Seq(Byte)]]
         /\ \A c \in Block : Filled(bs, b, piece)[c].count = bs[c].count
         /\ \A c \in Block : Filled(bs, b, piece)[c].data = IF c = b THEN piece ELSE bs[c].data
  BY DEF Filled

LEMMA MarkedType ==
  ASSUME TypeOK, NEW b \in Block, blocks[b].count <= 1
  PROVE  /\ Marked(b) \in [Block -> [count : 0 .. 2, data : Seq(Byte)]]
         /\ \A c \in Block :
              Marked(b)[c].count = IF c = b THEN blocks[c].count + 1 ELSE blocks[c].count
         /\ \A c \in Block : Marked(b)[c].data = blocks[c].data
<1>1. blocks \in [Block -> [count : 0 .. 2, data : Seq(Byte)]]
  BY DEF TypeOK
<1>2. PICK x \in [count : 0 .. 2, data : Seq(Byte)] : x = blocks[b]
  BY <1>1
<1>3. [x EXCEPT !.count = @ + 1] \in [count : 0 .. 2, data : Seq(Byte)]
      /\ [x EXCEPT !.count = @ + 1].count = x.count + 1
      /\ [x EXCEPT !.count = @ + 1].data = x.data
  BY <1>2
<1>4. Marked(b) = [blocks EXCEPT ![b] = [x EXCEPT !.count = @ + 1]]
  BY <1>1, <1>2 DEF Marked
<1>5. QED BY <1>1, <1>2, <1>3, <1>4

LEMMA GetType ==
  ASSUME TypeOK, NEW b \in Used
  PROVE  /\ Get(b) \in [Block -> [count : 0 .. 2, data : Seq(Byte)]]
         /\ \A c \in Block :
              Get(b)[c].count = IF c = b THEN blocks[c].count - 1 ELSE blocks[c].count
         /\ \A c \in Block : Get(b)[c].data = blocks[c].data
<1>1. blocks \in [Block -> [count : 0 .. 2, data : Seq(Byte)]] /\ b \in Block
  BY DEF TypeOK, Used
<1>2. PICK x \in [count : 0 .. 2, data : Seq(Byte)] : x = blocks[b]
  BY <1>1
<1>3. x.count # 0
  BY <1>1, <1>2 DEF Used, Free
<1>4. [x EXCEPT !.count = @ - 1] \in [count : 0 .. 2, data : Seq(Byte)]
      /\ [x EXCEPT !.count = @ - 1].count = x.count - 1
      /\ [x EXCEPT !.count = @ - 1].data = x.data
  BY <1>2, <1>3
<1>5. Get(b) = [blocks EXCEPT ![b] = [x EXCEPT !.count = @ - 1]]
  BY <1>1, <1>2 DEF Get
<1>6. QED BY <1>1, <1>2, <1>4, <1>5

LEMMA TypeNet ==
  TypeInv /\ (ServerSends \/ LinkChanges \/ Check \/ Connect \/ Second) => TypeInv'
<1> SUFFICES ASSUME TypeInv, ServerSends \/ LinkChanges \/ Check \/ Connect \/ Second
             PROVE  TypeInv'
  OBVIOUS
<1> USE DEF TypeInv, PutInv
<1>1. NFrame \in Nat /\ MaxLink \in Nat /\ Timeout \in Nat
  BY StreamAssumption
<1>2. CASE ServerSends
  <2>1. PICK l \in Link : wire' = [wire EXCEPT ![l] = @ \o Frame(sent + 1)]
    BY <1>2 DEF ServerSends
  <2>2. sent + 1 \in 1 .. NFrame /\ sent' = sent + 1
    BY <1>1, <1>2 DEF ServerSends, TypeOK
  <2>3. Frame(sent + 1) \in Seq(Byte)
    BY <2>2, Bytes
  <2>4. wire' \in [Link -> Seq(Byte)]
    BY <2>1, <2>3 DEF TypeOK
  <2>5. QED BY <1>2, <2>2, <2>4 DEF ServerSends, TypeOK, pool, frame, ghost
<1>3. CASE LinkChanges
  <2>1. wire' \in [Link -> Seq(Byte)]
    <3>1. wire' \in {wire, [wire EXCEPT !["4G"] = << >>]}
      BY <1>3 DEF LinkChanges
    <3>2. << >> \in Seq(Byte)
      OBVIOUS
    <3>3. QED BY <3>1, <3>2 DEF TypeOK
  <2>2. trouble' \in {"none", "rough", "torn"}
    <3>1. trouble' = Worse("rough", wire' # wire)
      BY <1>3 DEF LinkChanges
    <3>2. QED BY <3>1, WorseType DEF TypeOK
  <2>3. links' \in 0 .. MaxLink /\ up4g' \in BOOLEAN
    BY <1>1, <1>3 DEF LinkChanges, Change, TypeOK
  <2>4. QED BY <1>3, <2>1, <2>2, <2>3 DEF LinkChanges, TypeOK, pool, frame
<1>4. CASE Check
  <2>1. wire' \in [Link -> Seq(Byte)]
    <3>1. wire' \in {wire, [wire EXCEPT !["ETH"] = << >>]}
      BY <1>4 DEF Check
    <3>2. << >> \in Seq(Byte)
      OBVIOUS
    <3>3. QED BY <3>1, <3>2 DEF TypeOK
  <2>2. trouble' \in {"none", "rough", "torn"}
    <3>1. trouble' = Worse("rough", wire' # wire)
      BY <1>4 DEF Check
    <3>2. QED BY <3>1, WorseType DEF TypeOK
  <2>3. QED BY <1>4, <2>1, <2>2 DEF Check, TypeOK, pool, frame
<1>5. CASE Connect
  BY <1>5 DEF Connect, TypeOK, net, pool, frame, ghost
<1>6. CASE Second
  BY <1>1, <1>6 DEF Second, TypeOK, net, pool, ghost
<1>7. QED BY <1>2, <1>3, <1>4, <1>5, <1>6

LEMMA TypePut ==
  TypeInv /\ (USART6_IRQHandler \/ Receive \/ Find \/ Mark \/ Fill) => TypeInv'
<1> SUFFICES ASSUME TypeInv, USART6_IRQHandler \/ Receive \/ Find \/ Mark \/ Fill
             PROVE  TypeInv'
  OBVIOUS
<1>0. TypeOK /\ PutInv
  BY DEF TypeInv
<1> DEFINE Blocks == [Block -> [count : 0 .. 2, data : Seq(Byte)]]
           Puts == [at : {"none", "find", "mark", "fill"}, block : 0 .. NBlock, piece : Seq(Byte)]
<1>1. NFrame \in Nat /\ NBlock \in Nat
  BY StreamAssumption
<1>2. ASSUME NEW l \in Link, NEW k \in PieceOf(l), Arrive(l, k)
      PROVE  wire' \in [Link -> Seq(Byte)] /\ arrived' \in Seq(Byte)
  <2>1. SubSeq(wire[l], 1, k) \in Seq(Byte) /\ SubSeq(wire[l], k + 1, Len(wire[l])) \in Seq(Byte)
    BY <1>0, PieceIs
  <2>2. wire' = [wire EXCEPT ![l] = SubSeq(wire[l], k + 1, Len(wire[l]))]
    BY <1>0, <1>2 DEF Arrive, TypeOK
  <2>3. arrived' = arrived \o SubSeq(wire[l], 1, k)
    BY <1>2 DEF Arrive
  <2>4. wire \in [Link -> Seq(Byte)] /\ arrived \in Seq(Byte)
    BY <1>0 DEF TypeOK
  <2>5. wire' \in [Link -> Seq(Byte)]
    BY ONLY <2>1, <2>2, <2>4
  <2>6. PICK piece \in Seq(Byte) : piece = SubSeq(wire[l], 1, k)
    BY <2>1
  <2>7. arrived' \in Seq(Byte)
    BY <2>3, <2>4, <2>6, ConcatProperties
  <2>8. QED BY <2>5, <2>7
<1>3. CASE USART6_IRQHandler
  <2>1. PICK k \in PieceOf("4G") :
          /\ Arrive("4G", k)
          /\ blocks' = IF Free = {} THEN blocks
                       ELSE Filled(Marked(Min(Free)), Min(Free), SubSeq(wire["4G"], 1, k))
          /\ trouble' = Worse("rough", Used # {} \/ put # NoPut \/ OtherInside("4G"))
    BY <1>3 DEF USART6_IRQHandler
  <2>2. blocks' \in Blocks /\ (put.at = "mark" => blocks'[put.block].count <= 1)
    <3>1. CASE Free = {}
      BY <1>0, <2>1, <3>1 DEF TypeOK, PutInv
    <3>2. CASE Free # {}
      <4>1. PICK b \in Block : b = Min(Free) /\ blocks[b].count = 0
        BY <3>2, FirstBlock DEF Free
      <4>2. SubSeq(wire["4G"], 1, k) \in Seq(Byte)
        BY <1>0, PieceIs DEF Link
      <4>3. Marked(b) \in Blocks
            /\ \A c \in Block :
                 Marked(b)[c].count = IF c = b THEN blocks[c].count + 1 ELSE blocks[c].count
        BY <1>0, <4>1, MarkedType
      <4>4. blocks' = Filled(Marked(b), b, SubSeq(wire["4G"], 1, k))
        BY <2>1, <3>2, <4>1
      <4>5. blocks' \in Blocks /\ \A c \in Block : blocks'[c].count = Marked(b)[c].count
        <5>1. PICK bs : bs = Marked(b)
          OBVIOUS
        <5>2. bs \in [Block -> [count : 0 .. 2, data : Seq(Byte)]]
          BY <4>3, <5>1
        <5>3. PICK piece \in Seq(Byte) : piece = SubSeq(wire["4G"], 1, k)
          BY <4>2
        <5>4. Filled(bs, b, piece) \in Blocks
              /\ \A c \in Block : Filled(bs, b, piece)[c].count = bs[c].count
          BY <1>0, <5>2, FilledType
        <5>5. QED BY <4>4, <5>1, <5>3, <5>4
      <4>6. put.at = "mark" => blocks'[put.block].count <= 1
        <5>1. SUFFICES ASSUME put.at = "mark" PROVE blocks'[put.block].count <= 1
          OBVIOUS
        <5>2. PICK c \in Block : c = put.block /\ blocks[c].count <= 1
          BY <1>0, <5>1 DEF PutInv
        <5>3. blocks'[c].count = IF c = b THEN blocks[c].count + 1 ELSE blocks[c].count
          BY <4>3, <4>5
        <5>4. QED BY <4>1, <5>2, <5>3
      <4>7. QED BY <4>5, <4>6
    <3>3. QED BY <3>1, <3>2
  <2>3. trouble' \in {"none", "rough", "torn"}
    BY <1>0, <2>1, WorseType DEF TypeOK
  <2>4. wire' \in [Link -> Seq(Byte)] /\ arrived' \in Seq(Byte)
    BY <1>2, <2>1 DEF Link
  <2>5. QED
    BY <1>0, <1>3, <2>2, <2>3, <2>4 DEF USART6_IRQHandler, TypeInv, TypeOK, PutInv, frame
<1>4. CASE Receive
  <2>1. PICK k \in PieceOf("ETH") :
          /\ Arrive("ETH", k)
          /\ put' = [at |-> "find", block |-> 0, piece |-> SubSeq(wire["ETH"], 1, k)]
          /\ trouble' = Worse("rough", Used # {} \/ OtherInside("ETH"))
    BY <1>4 DEF Receive
  <2>2. SubSeq(wire["ETH"], 1, k) \in Seq(Byte)
    BY <1>0, PieceIs DEF Link
  <2>3. put' \in Puts /\ put'.at = "find"
    BY <1>1, <2>1, <2>2
  <2>4. trouble' \in {"none", "rough", "torn"}
    BY <1>0, <2>1, WorseType DEF TypeOK
  <2>5. wire' \in [Link -> Seq(Byte)] /\ arrived' \in Seq(Byte)
    BY <1>2, <2>1 DEF Link
  <2>6. QED BY <1>0, <1>4, <2>3, <2>4, <2>5 DEF Receive, TypeInv, TypeOK, PutInv, frame
<1>5. CASE Find
  <2>1. trouble' \in {"none", "rough", "torn"}
    BY <1>0, <1>5, WorseType DEF Find, TypeOK
  <2>2. /\ put' \in Puts /\ ((put' = NoPut /\ eth' = "receive") \/ eth' = "put")
        /\ put'.at \in {"mark", "fill"} => put'.block \in Block
        /\ put'.at = "mark" => blocks[put'.block].count <= 1
    <3>1. CASE Free = {}
      <4>1. put' = NoPut /\ eth' = "receive"
        BY <1>5, <3>1 DEF Find
      <4>2. NoPut \in Puts /\ NoPut.at = "none"
        BY <1>1 DEF NoPut
      <4>3. QED BY <4>1, <4>2
    <3>2. CASE Free # {}
      <4>1. PICK b \in Block : b = Min(Free) /\ blocks[b].count = 0
        BY <3>2, FirstBlock DEF Free
      <4>2. put' = [put EXCEPT !.at = "mark", !.block = b] /\ eth' = eth
        BY <1>5, <3>2, <4>1 DEF Find
      <4>3. b \in 0 .. NBlock
        BY <1>1 DEF Block
      <4>4. put' \in Puts /\ put'.block = b /\ put'.at = "mark"
        BY <1>0, <4>2, <4>3 DEF TypeOK
      <4>5. eth' = "put"
        BY <1>5, <4>2 DEF Find
      <4>6. QED BY <4>1, <4>4, <4>5
    <3>3. QED BY <3>1, <3>2
  <2>3. QED BY <1>0, <1>5, <2>1, <2>2 DEF Find, TypeInv, TypeOK, PutInv, net, frame
<1>6. CASE Mark
  <2>1. put.block \in Block /\ blocks[put.block].count <= 1
    BY <1>0, <1>6 DEF Mark, PutInv
  <2>2. blocks' \in Blocks
    BY <1>0, <1>6, <2>1, MarkedType DEF Mark
  <2>3. put' \in Puts /\ put'.block = put.block /\ put'.at = "fill"
    BY <1>0, <1>6 DEF Mark, TypeOK
  <2>4. trouble' \in {"none", "rough", "torn"}
    BY <1>0, <1>6, WorseType DEF Mark, TypeOK
  <2>5. QED BY <1>0, <1>6, <2>1, <2>2, <2>3, <2>4 DEF Mark, TypeInv, TypeOK, PutInv, net, frame
<1>7. CASE Fill
  <2>1. put.block \in Block
    BY <1>0, <1>7 DEF Fill, PutInv
  <2>2. blocks' \in Blocks
    BY <1>0, <1>7, <2>1, FilledType DEF Fill, TypeOK
  <2>3. put' \in Puts /\ put'.at = "none"
    BY <1>1, <1>7 DEF Fill, NoPut
  <2>4. QED BY <1>0, <1>7, <2>2, <2>3 DEF Fill, TypeInv, TypeOK, PutInv, net, frame, ghost
<1>8. QED BY <1>3, <1>4, <1>5, <1>6, <1>7

LEMMA TypeTake ==
  TypeInv /\ (Poll4G \/ PollEth \/ ServerFrameHandle) => TypeInv'
<1> SUFFICES ASSUME TypeInv, Poll4G \/ PollEth \/ ServerFrameHandle
             PROVE  TypeInv'
  OBVIOUS
<1>0. TypeOK /\ PutInv
  BY DEF TypeInv
<1>1. NFrame \in Nat /\ Timeout \in Nat /\ QueueLen \in Nat
  BY StreamAssumption
<1>2. ASSUME RecvNetFrameAndPushToRxQueue
      PROVE  /\ blocks' \in [Block -> [count : 0 .. 2, data : Seq(Byte)]]
             /\ put.at = "mark" => blocks'[put.block].count <= 1
             /\ recv_buf' \in Seq(Byte) /\ age' \in 0 .. Timeout
             /\ queue' \in Seq(Seq(Byte)) /\ Len(queue') <= QueueLen
             /\ trouble' \in {"none", "rough", "torn"}
  <2>1. CASE Used # {} /\ TakeBlock
    <3> DEFINE b == Min(Used)
               cut == Cut[recv_buf \o blocks[b].data]
    <3>1. b \in Used /\ b \in Block /\ cut \in CutOf(Byte)
      BY <1>0, <2>1, TakenIs
    <3> HIDE DEF cut
    <3>2. /\ blocks' = Get(b) /\ recv_buf' = cut.rest /\ age' = 0 /\ queue' = Kept(cut.frames)
          /\ trouble' = "torn" \/ \E h : trouble' = Worse("rough", h)
      BY <2>1 DEF TakeBlock, Analysis, Push, cut
    <3>3. cut.frames \in Seq(Seq(Byte)) /\ cut.rest \in Seq(Byte)
      BY <3>1 DEF CutOf
    <3>4. queue' \in Seq(Seq(Byte)) /\ Len(queue') <= QueueLen
      BY <1>0, <3>2, <3>3, KeptIs
    <3>5. trouble' \in {"none", "rough", "torn"}
      BY <1>0, <3>2, WorseType DEF TypeOK
    <3>6. /\ blocks' \in [Block -> [count : 0 .. 2, data : Seq(Byte)]]
          /\ \A c \in Block :
               blocks'[c].count = IF c = b THEN blocks[c].count - 1 ELSE blocks[c].count
      BY <1>0, <3>1, <3>2, GetType
    <3>7. put.at = "mark" => blocks'[put.block].count <= 1
      <4>1. SUFFICES ASSUME put.at = "mark" PROVE blocks'[put.block].count <= 1
        OBVIOUS
      <4>2. PICK c \in Block : c = put.block /\ blocks[c].count <= 1
        BY <1>0, <4>1 DEF PutInv
      <4>3. blocks[c].count \in 0 .. 2
        BY <1>0 DEF TypeOK
      <4>4. blocks'[c].count = IF c = b THEN blocks[c].count - 1 ELSE blocks[c].count
        BY <3>6
      <4>5. QED BY <4>2, <4>3, <4>4
    <3>8. QED BY <1>1, <3>2, <3>3, <3>4, <3>5, <3>6, <3>7
  <2>2. CASE Used = {} /\ TakeNothing
    <3>1. trouble' \in {"none", "rough", "torn"}
      <4>1. trouble' = Worse("rough", recv_buf' # recv_buf)
        BY <2>2 DEF TakeNothing
      <4>2. QED BY <1>0, <4>1, WorseType DEF TypeOK
    <3>2. UNCHANGED <<blocks, age, queue>> /\ recv_buf' \in {recv_buf, << >>}
      BY <2>2 DEF TakeNothing
    <3>3. << >> \in Seq(Byte)
      OBVIOUS
    <3>4. QED BY <1>0, <3>1, <3>2, <3>3 DEF TypeOK, PutInv
  <2>3. QED BY <1>2, <2>1, <2>2 DEF RecvNetFrameAndPushToRxQueue
<1>3. CASE Poll4G
  BY <1>0, <1>2, <1>3 DEF Poll4G, RecvNetFrameAndPushToRxQueue, TypeInv, TypeOK, PutInv, net
<1>4. CASE PollEth
  BY <1>0, <1>2, <1>4 DEF PollEth, RecvNetFrameAndPushToRxQueue, TypeInv, TypeOK, PutInv, net
<1>5. CASE ServerFrameHandle
  <2>1. queue \in Seq(Seq(Byte)) /\ queue # << >> /\ Len(queue) <= QueueLen
    BY <1>0, <1>5 DEF ServerFrameHandle, TypeOK
  <2>2. Tail(queue) \in Seq(Seq(Byte)) /\ Len(Tail(queue)) <= QueueLen
    BY <1>1, <2>1
  <2>3. handled' \in Seq(1 .. NFrame)
    <3>1. CASE \E n \in 1 .. NFrame : Head(queue) = Frame(n)
      <4>1. PICK n \in 1 .. NFrame : Head(queue) = Frame(n)
        BY <3>1
      <4>2. handled' = Append(handled, n)
        BY <1>5, <3>1, <4>1, Bytes DEF ServerFrameHandle
      <4>3. QED BY <1>0, <4>2 DEF TypeOK
    <3>2. CASE ~ \E n \in 1 .. NFrame : Head(queue) = Frame(n)
      BY <1>0, <1>5, <3>2 DEF ServerFrameHandle, TypeOK
    <3>3. QED BY <3>1, <3>2
  <2>4. QED
    BY <1>0, <1>5, <2>2, <2>3 DEF ServerFrameHandle, TypeInv, TypeOK, PutInv, net, pool
<1>6. QED BY <1>3, <1>4, <1>5

LEMMA TypeStep == TypeInv /\ [Next]_vars => TypeInv'
<1> SUFFICES ASSUME TypeInv, [Next]_vars PROVE TypeInv'
  OBVIOUS
<1>1. CASE UNCHANGED vars
  BY <1>1 DEF TypeInv, TypeOK, PutInv, vars, net, pool, frame, ghost
<1>2. QED BY <1>1, TypeNet, TypePut, TypeTake DEF Next

(* Every variable keeps its type.                                            *)
THEOREM TypeCorrect == Spec => []TypeOK
<1>1. TypeInv => TypeOK
  BY DEF TypeInv
<1>2. QED BY TypeInit, TypeStep, <1>1, PTL DEF Spec

-----------------------------------------------------------------------------
(* HandledOnce: where each byte is, and that each number is at one spot only. *)
(* A number that was not sent yet is nowhere, and a block holds at most one  *)
(* piece, or it would be taken twice.                                        *)
AllOf(kind, which, s) == {<<kind, which, i, s[i]>> : i \in DOMAIN s}

OnWires(w) == UNION {AllOf("wire", l, w[l]) : l \in Link}
InBlocks(live) == UNION {AllOf("block", b, live[b]) : b \in Block}
InQueue(q) == UNION {AllOf("queue", k, q[k]) : k \in DOMAIN q}

SpotsOf(w, live, piece, buf, q, h) ==
  OnWires(w) \cup InBlocks(live) \cup AllOf("put", 0, piece) \cup AllOf("buf", 0, buf)
  \cup InQueue(q) \cup AllOf("handled", 0, h)

Lives == [b \in Block |-> Live(b)]
Spots == SpotsOf(wire, Lives, put.piece, recv_buf, queue, handled)

EachOnce(spots) == \A x, y \in spots : x[4] = y[4] /\ x[4] >= 1 => x = y
UpTo(spots, n) == \A x \in spots : x[4] \in Int /\ x[4] <= n

Once ==
  /\ EachOnce(Spots) /\ UpTo(Spots, sent)
  /\ \A b \in Block : blocks[b].count <= 1

OnceInv == trouble # "torn" => Once

LEMMA SpotKinds ==
  ASSUME NEW w, NEW live, NEW piece, NEW buf, NEW q, NEW h
  PROVE  \A x : x \in SpotsOf(w, live, piece, buf, q, h) <=>
           \/ \E l \in Link : \E i \in DOMAIN w[l] : x = <<"wire", l, i, w[l][i]>>
           \/ \E b \in Block : \E i \in DOMAIN live[b] : x = <<"block", b, i, live[b][i]>>
           \/ \E i \in DOMAIN piece : x = <<"put", 0, i, piece[i]>>
           \/ \E i \in DOMAIN buf : x = <<"buf", 0, i, buf[i]>>
           \/ \E k \in DOMAIN q : \E i \in DOMAIN q[k] : x = <<"queue", k, i, q[k][i]>>
           \/ \E i \in DOMAIN h : x = <<"handled", 0, i, h[i]>>
<1> SUFFICES ASSUME NEW x
             PROVE  x \in SpotsOf(w, live, piece, buf, q, h) <=>
                      \/ \E l \in Link : \E i \in DOMAIN w[l] : x = <<"wire", l, i, w[l][i]>>
                      \/ \E b \in Block : \E i \in DOMAIN live[b] : x = <<"block", b, i, live[b][i]>>
                      \/ \E i \in DOMAIN piece : x = <<"put", 0, i, piece[i]>>
                      \/ \E i \in DOMAIN buf : x = <<"buf", 0, i, buf[i]>>
                      \/ \E k \in DOMAIN q : \E i \in DOMAIN q[k] : x = <<"queue", k, i, q[k][i]>>
                      \/ \E i \in DOMAIN h : x = <<"handled", 0, i, h[i]>>
  OBVIOUS
<1>1. \A kind, which, s : x \in AllOf(kind, which, s)
                          <=> \E i \in DOMAIN s : x = <<kind, which, i, s[i]>>
  BY DEF AllOf
<1>2. x \in OnWires(w)
      <=> \E l \in Link : \E i \in DOMAIN w[l] : x = <<"wire", l, i, w[l][i]>>
  BY <1>1 DEF OnWires
<1>3. x \in InBlocks(live)
      <=> \E b \in Block : \E i \in DOMAIN live[b] : x = <<"block", b, i, live[b][i]>>
  BY <1>1 DEF InBlocks
<1>4. x \in InQueue(q)
      <=> \E k \in DOMAIN q : \E i \in DOMAIN q[k] : x = <<"queue", k, i, q[k][i]>>
  BY <1>1 DEF InQueue
<1>5. /\ x \in AllOf("put", 0, piece) <=> \E i \in DOMAIN piece : x = <<"put", 0, i, piece[i]>>
      /\ x \in AllOf("buf", 0, buf) <=> \E i \in DOMAIN buf : x = <<"buf", 0, i, buf[i]>>
      /\ x \in AllOf("handled", 0, h) <=> \E i \in DOMAIN h : x = <<"handled", 0, i, h[i]>>
  BY <1>1
<1>6. x \in SpotsOf(w, live, piece, buf, q, h)
      <=> \/ x \in OnWires(w) \/ x \in InBlocks(live) \/ x \in AllOf("put", 0, piece)
          \/ x \in AllOf("buf", 0, buf) \/ x \in InQueue(q) \/ x \in AllOf("handled", 0, h)
  BY DEF SpotsOf
<1>7. QED BY <1>2, <1>3, <1>4, <1>5, <1>6

(* Numbers that stay, or vanish, are still at one spot.                      *)
LEMMA Fewer ==
  ASSUME NEW X, NEW Y \in SUBSET X, EachOnce(X)
  PROVE  EachOnce(Y)
BY DEF EachOnce

(* The first k bytes of one place move to another.                           *)
CameFrom(y, X, p1, p2, d1, d2, k) ==
  \E a, b, c, d :
    /\ y = <<a, b, c, d>> /\ c \in Nat \ {0}
    /\ \/ a = p1 /\ b = p2 /\ <<p1, p2, c + k, d>> \in X
       \/ a = d1 /\ b = d2 /\ c <= k /\ <<p1, p2, c, d>> \in X
       \/ ~(a = p1 /\ b = p2) /\ ~(a = d1 /\ b = d2) /\ y \in X

AllCameFrom(Y, X, p1, p2, d1, d2, k) == \A y \in Y : CameFrom(y, X, p1, p2, d1, d2, k)

LEMMA Moved ==
  ASSUME NEW X, NEW Y, NEW p1, NEW p2, NEW d1, NEW d2, ~(p1 = d1 /\ p2 = d2), NEW k \in Nat,
         NEW m, EachOnce(X), UpTo(X, m),
         AllCameFrom(Y, X, p1, p2, d1, d2, k)
  PROVE  EachOnce(Y) /\ UpTo(Y, m)
<1>1. ASSUME NEW y \in Y, NEW z \in Y, y[4] = z[4], y[4] >= 1
      PROVE  y = z
  <2>1. PICK a, b, c, d :
           /\ y = <<a, b, c, d>> /\ c \in Nat \ {0}
           /\ \/ a = p1 /\ b = p2 /\ <<p1, p2, c + k, d>> \in X
              \/ a = d1 /\ b = d2 /\ c <= k /\ <<p1, p2, c, d>> \in X
              \/ ~(a = p1 /\ b = p2) /\ ~(a = d1 /\ b = d2) /\ y \in X
    BY DEF CameFrom, AllCameFrom
  <2>2. PICK e, f, g, h :
           /\ z = <<e, f, g, h>> /\ g \in Nat \ {0}
           /\ \/ e = p1 /\ f = p2 /\ <<p1, p2, g + k, h>> \in X
              \/ e = d1 /\ f = d2 /\ g <= k /\ <<p1, p2, g, h>> \in X
              \/ ~(e = p1 /\ f = p2) /\ ~(e = d1 /\ f = d2) /\ z \in X
    BY DEF CameFrom, AllCameFrom
  <2>3. h = d /\ d >= 1
    BY <1>1, <2>1, <2>2
  <2>4. \A p, q, r, s, t, u : <<p, q, r, d>> \in X /\ <<s, t, u, d>> \in X => p = s /\ q = t /\ r = u
    BY <2>3 DEF EachOnce
  <2>5. CASE a = p1 /\ b = p2 /\ <<p1, p2, c + k, d>> \in X
    <3>1. CASE e = p1 /\ f = p2 /\ <<p1, p2, g + k, h>> \in X
      BY <2>1, <2>2, <2>3, <2>4, <2>5, <3>1
    <3>2. CASE e = d1 /\ f = d2 /\ g <= k /\ <<p1, p2, g, h>> \in X
      BY <2>1, <2>2, <2>3, <2>4, <2>5, <3>2
    <3>3. CASE ~(e = p1 /\ f = p2) /\ ~(e = d1 /\ f = d2) /\ z \in X
      BY <2>1, <2>2, <2>3, <2>4, <2>5, <3>3
    <3>4. QED BY <2>2, <3>1, <3>2, <3>3
  <2>6. CASE a = d1 /\ b = d2 /\ c <= k /\ <<p1, p2, c, d>> \in X
    <3>1. CASE e = p1 /\ f = p2 /\ <<p1, p2, g + k, h>> \in X
      BY <2>1, <2>2, <2>3, <2>4, <2>6, <3>1
    <3>2. CASE e = d1 /\ f = d2 /\ g <= k /\ <<p1, p2, g, h>> \in X
      BY <2>1, <2>2, <2>3, <2>4, <2>6, <3>2
    <3>3. CASE ~(e = p1 /\ f = p2) /\ ~(e = d1 /\ f = d2) /\ z \in X
      BY <2>1, <2>2, <2>3, <2>4, <2>6, <3>3
    <3>4. QED BY <2>2, <3>1, <3>2, <3>3
  <2>7. CASE ~(a = p1 /\ b = p2) /\ ~(a = d1 /\ b = d2) /\ y \in X
    <3>1. CASE e = p1 /\ f = p2 /\ <<p1, p2, g + k, h>> \in X
      BY <2>1, <2>2, <2>3, <2>4, <2>7, <3>1
    <3>2. CASE e = d1 /\ f = d2 /\ g <= k /\ <<p1, p2, g, h>> \in X
      BY <2>1, <2>2, <2>3, <2>4, <2>7, <3>2
    <3>3. CASE ~(e = p1 /\ f = p2) /\ ~(e = d1 /\ f = d2) /\ z \in X
      BY <2>1, <2>2, <2>3, <2>4, <2>7, <3>3
    <3>4. QED BY <2>2, <3>1, <3>2, <3>3
  <2>8. QED BY <2>1, <2>5, <2>6, <2>7
<1>2. ASSUME NEW y \in Y PROVE y[4] \in Int /\ y[4] <= m
  <2>1. PICK a, b, c, d :
           /\ y = <<a, b, c, d>>
           /\ \E x \in X : x[4] = d
    <3>1. PICK a, b, c, d :
           /\ y = <<a, b, c, d>> /\ c \in Nat \ {0}
           /\ \/ a = p1 /\ b = p2 /\ <<p1, p2, c + k, d>> \in X
              \/ a = d1 /\ b = d2 /\ c <= k /\ <<p1, p2, c, d>> \in X
              \/ ~(a = p1 /\ b = p2) /\ ~(a = d1 /\ b = d2) /\ y \in X
      BY DEF CameFrom, AllCameFrom
    <3>2. <<p1, p2, c + k, d>>[4] = d /\ <<p1, p2, c, d>>[4] = d /\ y[4] = d
      BY <3>1
    <3>3. \E x \in X : x[4] = d
      BY <3>1, <3>2
    <3>4. QED BY <3>1, <3>3
  <2>2. y[4] = d
    BY <2>1
  <2>3. QED BY <2>1, <2>2 DEF UpTo
<1>3. QED BY <1>1, <1>2 DEF EachOnce, UpTo

-----------------------------------------------------------------------------
LEMMA WorseTorn ==
  ASSUME NEW what, NEW holds, Worse(what, holds) # "torn"
  PROVE  trouble # "torn" /\ (what = "torn" => ~holds)
BY DEF Worse

(* Places that keep what they hold, or lose it.                              *)
LEMMA SpotsLost ==
  ASSUME NEW w, NEW live, NEW piece, NEW buf, NEW q, NEW h, NEW v, NEW lives, NEW part, NEW bytes,
         \A l \in Link : v[l] = w[l] \/ v[l] = << >>,
         \A b \in Block : lives[b] = live[b] \/ lives[b] = << >>,
         part = piece \/ part = << >>, bytes = buf \/ bytes = << >>
  PROVE  SpotsOf(v, lives, part, bytes, q, h) \subseteq SpotsOf(w, live, piece, buf, q, h)
<1> DEFINE X == SpotsOf(w, live, piece, buf, q, h)
<1> SUFFICES ASSUME NEW x \in SpotsOf(v, lives, part, bytes, q, h) PROVE x \in X
  OBVIOUS
<1>0. DOMAIN << >> = {}
  OBVIOUS
<1> HIDE DEF X
<1>1. ASSUME NEW l \in Link, NEW i \in DOMAIN v[l], x = <<"wire", l, i, v[l][i]>> PROVE x \in X
  <2>1. v[l] = w[l] /\ i \in DOMAIN w[l]
    BY <1>0
  <2>2. x = <<"wire", l, i, w[l][i]>>
    BY <1>1, <2>1
  <2>3. QED BY <2>1, <2>2, SpotKinds DEF X
<1>2. ASSUME NEW b \in Block, NEW i \in DOMAIN lives[b], x = <<"block", b, i, lives[b][i]>>
      PROVE  x \in X
  <2>1. lives[b] = live[b] /\ i \in DOMAIN live[b]
    BY <1>0
  <2>2. x = <<"block", b, i, live[b][i]>>
    BY <1>2, <2>1
  <2>3. QED BY <2>1, <2>2, SpotKinds DEF X
<1>3. ASSUME NEW i \in DOMAIN part, x = <<"put", 0, i, part[i]>> PROVE x \in X
  <2>1. part = piece
    BY <1>0
  <2>2. QED BY <1>3, <2>1, SpotKinds DEF X
<1>4. ASSUME NEW i \in DOMAIN bytes, x = <<"buf", 0, i, bytes[i]>> PROVE x \in X
  <2>1. bytes = buf
    BY <1>0
  <2>2. QED BY <1>4, <2>1, SpotKinds DEF X
<1>5. ASSUME NEW k \in DOMAIN q, NEW i \in DOMAIN q[k], x = <<"queue", k, i, q[k][i]>> PROVE x \in X
  BY <1>5, SpotKinds DEF X
<1>6. ASSUME NEW i \in DOMAIN h, x = <<"handled", 0, i, h[i]>> PROVE x \in X
  BY <1>6, SpotKinds DEF X
<1>7. QED BY <1>1, <1>2, <1>3, <1>4, <1>5, <1>6, SpotKinds

LEMMA OnceLost ==
  ASSUME TypeInv, Once,
         \A l \in Link : wire'[l] = wire[l] \/ wire'[l] = << >>,
         \A b \in Block : Live(b)' = Live(b) \/ Live(b)' = << >>,
         \A b \in Block : (blocks[b].count)' <= 1,
         (put.piece)' = put.piece \/ (put.piece)' = << >>,
         recv_buf' = recv_buf \/ recv_buf' = << >>,
         queue' = queue, handled' = handled, sent' = sent
  PROVE  Once'
<1>1. \A b \in Block : (Lives[b])' = Lives[b] \/ (Lives[b])' = << >>
  BY DEF Lives
<1>2. PICK v, lives, part, bytes :
        v = wire' /\ lives = Lives' /\ part = (put.piece)' /\ bytes = recv_buf'
  OBVIOUS
<1>3. Spots' = SpotsOf(v, lives, part, bytes, queue, handled)
  BY <1>2 DEF Spots
<1>4. Spots' \subseteq Spots
  <2>1. SpotsOf(v, lives, part, bytes, queue, handled)
          \subseteq SpotsOf(wire, Lives, put.piece, recv_buf, queue, handled)
    BY <1>1, <1>2, SpotsLost
  <2>2. QED BY <1>3, <2>1 DEF Spots
<1>5. EachOnce(Spots)'
  <2>1. PICK Y : Y = Spots'
    OBVIOUS
  <2>2. EachOnce(Y)
    BY <1>4, <2>1, Fewer DEF Once
  <2>3. QED BY <2>1, <2>2 DEF EachOnce
<1>6. QED BY <1>4, <1>5 DEF Once, UpTo

LEMMA OnceInit == Init => OnceInv
<1> SUFFICES ASSUME Init PROVE Once
  BY DEF OnceInv
<1>1. DOMAIN << >> = {} /\ \A l \in Link : wire[l] = << >>
  BY DEF Init
<1>2. \A b \in Block : blocks[b].count = 0 /\ Live(b) = << >>
  BY DEF Init, Live
<1>3. put.piece = << >> /\ recv_buf = << >> /\ queue = << >> /\ handled = << >>
  BY DEF Init, NoPut
<1>4. \A b \in Block : Lives[b] = << >>
  BY <1>2 DEF Lives
<1>5. ASSUME NEW x \in Spots PROVE FALSE
  <2>1. x \in SpotsOf(wire, Lives, << >>, << >>, << >>, << >>)
    BY <1>3 DEF Spots
  <2>2. PICK w, live : w = wire /\ live = Lives
    OBVIOUS
  <2>3. x \in SpotsOf(w, live, << >>, << >>, << >>, << >>)
    BY <2>1, <2>2
  <2>4. (\A l \in Link : w[l] = << >>) /\ \A b \in Block : live[b] = << >>
    BY <1>1, <1>4, <2>2
  <2>5. QED BY <1>1, <2>3, <2>4, SpotKinds
<1>6. QED BY <1>2, <1>5 DEF Once, EachOnce, UpTo

LEMMA OnceQuiet ==
  TypeInv /\ OnceInv /\ (LinkChanges \/ Check \/ Connect \/ Second \/ Find \/ Mark \/ UNCHANGED vars)
    => OnceInv'
<1> SUFFICES ASSUME TypeInv, OnceInv,
                    LinkChanges \/ Check \/ Connect \/ Second \/ Find \/ Mark \/ UNCHANGED vars,
                    trouble' # "torn"
             PROVE  Once'
  BY DEF OnceInv
<1>1. trouble # "torn"
  <2>1. trouble' = trouble \/ \E what, holds : trouble' = Worse(what, holds)
    BY DEF LinkChanges, Check, Connect, Second, Find, Mark, vars, ghost
  <2>2. QED BY <2>1, WorseTorn
<1>2. Once
  BY <1>1 DEF OnceInv
<1>3. queue' = queue /\ handled' = handled /\ sent' = sent /\ recv_buf' = recv_buf
  BY DEF LinkChanges, Check, Connect, Second, Find, Mark, vars, net, frame, ghost
<1>4. \A l \in Link : wire'[l] = wire[l] \/ wire'[l] = << >>
  <2>1. \A l \in Link : \A o : [wire EXCEPT ![o] = << >>][l] \in {wire[l], << >>}
    BY DEF TypeInv, TypeOK
  <2>2. wire' = wire \/ \E o : wire' = [wire EXCEPT ![o] = << >>]
    <3>1. CASE LinkChanges
      BY <3>1 DEF LinkChanges
    <3>2. CASE Check
      BY <3>2 DEF Check
    <3>3. CASE Connect \/ Second \/ Find \/ Mark \/ UNCHANGED vars
      BY <3>3 DEF Connect, Second, Find, Mark, vars, net
    <3>4. QED BY <3>1, <3>2, <3>3
  <2>3. QED BY <2>1, <2>2
<1>5. CASE UNCHANGED <<blocks, put>>
  <2>1. \A b \in Block : Live(b)' = Live(b)
    BY <1>5 DEF Live, Used, Free
  <2>2. QED BY <1>2, <1>3, <1>4, <1>5, <2>1, OnceLost DEF Once
<1>6. CASE Find
  <2>1. put.at = "find" /\ UNCHANGED blocks
    BY <1>6 DEF Find
  <2>2. put' = NoPut \/ put' = [put EXCEPT !.at = "mark", !.block = Min(Free)]
    BY <1>6 DEF Find
  <2>3. put'.at # "fill" /\ (put'.piece = << >> \/ put'.piece = put.piece)
    <3>1. CASE put' = NoPut
      BY <3>1 DEF NoPut
    <3>2. CASE put' = [put EXCEPT !.at = "mark", !.block = Min(Free)]
      BY <3>2 DEF TypeInv, TypeOK
    <3>3. QED BY <2>2, <3>1, <3>2
  <2>4. \A b \in Block : Live(b)' = Live(b)
    BY <2>1, <2>3 DEF Live, Used, Free
  <2>5. QED BY <1>2, <1>3, <1>4, <2>1, <2>3, <2>4, OnceLost DEF Once
<1>7. CASE Mark
  <2>1. put.at = "mark" /\ blocks' = Marked(put.block) /\ put' = [put EXCEPT !.at = "fill"]
        /\ trouble' = Worse("torn", put.block \in Used)
    BY <1>7 DEF Mark
  <2>2. put.block \notin Used
    BY <2>1, WorseTorn
  <2>3. PICK b \in Block : b = put.block /\ blocks[b].count = 0
    BY <2>1, <2>2 DEF TypeInv, PutInv, Used, Free
  <2>4. put'.at = "fill" /\ put'.block = b /\ put'.piece = put.piece
    BY <2>1, <2>3 DEF TypeInv, TypeOK
  <2>5. \A c \in Block : /\ blocks'[c].count = IF c = b THEN blocks[c].count + 1 ELSE blocks[c].count
                         /\ blocks'[c].data = blocks[c].data
    BY <2>1, <2>3, MarkedType DEF TypeInv
  <2>6. ASSUME NEW c \in Block PROVE (Live(c)' = Live(c) \/ Live(c)' = << >>) /\ (blocks[c].count)' <= 1
    <3>1. CASE c = b
      BY <2>3, <2>4, <2>5, <3>1 DEF Live
    <3>2. CASE c # b
      <4>1. Live(c)' = Live(c)
        BY <2>1, <2>4, <2>5, <3>2 DEF Live, Used, Free
      <4>2. QED BY <1>2, <2>5, <3>2, <4>1 DEF Once
    <3>3. QED BY <3>1, <3>2
  <2>7. QED BY <1>2, <1>3, <1>4, <2>4, <2>6, OnceLost
<1>8. QED
  BY <1>5, <1>6, <1>7 DEF LinkChanges, Check, Connect, Second, vars, pool

(* A piece leaves its wire for a block, or for the put of the TCP client.    *)
Lands(l, k, kind, c) ==
  /\ kind \in {"block", "put", "none"}
  /\ \A b \in Block : IF kind = "block" /\ b = c
                      THEN Live(b)' = SubSeq(wire[l], 1, k) \/ Live(b)' = << >>
                      ELSE Live(b)' = Live(b)
  /\ IF kind = "put" THEN (put.piece)' = SubSeq(wire[l], 1, k) ELSE (put.piece)' = put.piece
  /\ \A b \in Block : (blocks[b].count)' <= 1
  /\ recv_buf' = recv_buf /\ queue' = queue /\ handled' = handled /\ sent' = sent

LEMMA OnceArrives ==
  ASSUME TypeInv, Once, NEW l \in Link, NEW k \in PieceOf(l), Arrive(l, k),
         NEW kind, NEW c, Lands(l, k, kind, c)
  PROVE  Once'
<1>. kind \in {"block", "put", "none"}
  BY DEF Lands
<1>. \A b \in Block : IF kind = "block" /\ b = c
                      THEN Live(b)' = SubSeq(wire[l], 1, k) \/ Live(b)' = << >>
                      ELSE Live(b)' = Live(b)
  BY DEF Lands
<1>. IF kind = "put" THEN (put.piece)' = SubSeq(wire[l], 1, k) ELSE (put.piece)' = put.piece
  BY DEF Lands
<1>. \A b \in Block : (blocks[b].count)' <= 1
  BY DEF Lands
<1>. recv_buf' = recv_buf /\ queue' = queue /\ handled' = handled /\ sent' = sent
  BY DEF Lands
<1>. PICK which : (kind = "block" => which = c) /\ (kind = "put" => which = 0)
  <2>1. CASE kind = "block"
    BY <2>1
  <2>2. CASE kind # "block"
    BY <2>2
  <2>3. QED BY <2>1, <2>2
<1>1. PICK v, lives, part :
        v = wire' /\ lives = Lives' /\ part = (put.piece)'
  OBVIOUS
<1>2. PICK Y : Y = Spots' /\ Y = SpotsOf(v, lives, part, recv_buf, queue, handled)
  BY <1>1 DEF Spots
<1>3. PICK w \in Seq(Byte) : w = wire[l]
  BY PieceIs DEF TypeInv
<1>4. /\ k \in 1 .. Len(w) /\ k \in Nat
      /\ Len(SubSeq(w, 1, k)) = k /\ \A i \in 1 .. k : SubSeq(w, 1, k)[i] = w[i]
      /\ SubSeq(w, 1, k) \in Seq(Byte) /\ SubSeq(w, k + 1, Len(w)) \in Seq(Byte)
      /\ Len(SubSeq(w, k + 1, Len(w))) = Len(w) - k
      /\ \A i \in 1 .. Len(w) - k : SubSeq(w, k + 1, Len(w))[i] = w[k + i]
  BY <1>3, PieceIs DEF TypeInv
<1>5. \A o \in Link : v[o] = IF o = l THEN SubSeq(w, k + 1, Len(w)) ELSE wire[o]
  BY <1>1, <1>3 DEF Arrive, TypeInv, TypeOK
<1>6. /\ \A b \in Block : lives[b] = Live(b)'
      /\ \A b \in Block : Lives[b] = Live(b)
  BY <1>1 DEF Lives
<1>7. ASSUME NEW y \in Y
      PROVE  CameFrom(y, Spots, "wire", l, kind, which, k)
  <2>0. \A i \in 1 .. Len(w) : <<"wire", l, i, w[i]>> \in Spots
    BY <1>3, SpotKinds DEF Spots
  <2>1. ASSUME NEW o \in Link, NEW i \in DOMAIN v[o], y = <<"wire", o, i, v[o][i]>>
        PROVE  CameFrom(y, Spots, "wire", l, kind, which, k)
    <3>1. CASE o = l
      <4>1. i \in 1 .. Len(w) - k /\ v[o][i] = w[k + i]
        <5>1. PICK back \in Seq(Byte) :
                back = SubSeq(w, k + 1, Len(w)) /\ Len(back) = Len(w) - k
                /\ \A j \in 1 .. Len(w) - k : back[j] = w[k + j]
          BY <1>4
        <5>2. v[o] = back
          BY <1>5, <3>1, <5>1
        <5>3. i \in 1 .. Len(back)
          BY <5>2
        <5>4. QED BY <5>1, <5>2, <5>3
      <4>2. i \in Nat \ {0} /\ i + k \in 1 .. Len(w) /\ i + k = k + i
        <5>1. PICK n \in Nat : n = Len(w)
          BY <1>3
        <5>2. i \in 1 .. n - k /\ k \in 1 .. n
          BY <1>4, <4>1, <5>1
        <5>3. QED BY ONLY <5>1, <5>2
      <4>3. <<"wire", l, i + k, v[o][i]>> \in Spots
        BY <2>0, <4>1, <4>2
      <4>4. QED BY <2>1, <3>1, <4>2, <4>3 DEF CameFrom
    <3>2. CASE o # l
      <4>1. v[o] = wire[o] /\ wire[o] \in Seq(Byte)
        BY <1>5, <3>2 DEF TypeInv, TypeOK
      <4>2. i \in Nat \ {0} /\ y \in Spots
        BY <2>1, <4>1, SpotKinds DEF Spots
      <4>3. ~("wire" = "wire" /\ o = l) /\ ~("wire" = kind /\ o = which)
        BY <3>2
      <4>4. QED BY <2>1, <4>2, <4>3 DEF CameFrom
    <3>3. QED BY <3>1, <3>2
  <2>2. ASSUME NEW b \in Block, NEW i \in DOMAIN lives[b], y = <<"block", b, i, lives[b][i]>>
        PROVE  /\ i \in Nat \ {0}
               /\ \/ "block" = kind /\ b = which /\ i <= k /\ <<"wire", l, i, lives[b][i]>> \in Spots
                  \/ ~("block" = kind /\ b = which) /\ y \in Spots
    <3>1. CASE kind = "block" /\ b = c
      <4>1. lives[b] = SubSeq(w, 1, k)
        <5>1. lives[b] = SubSeq(w, 1, k) \/ lives[b] = << >>
          BY <1>3, <1>6, <3>1
        <5>2. DOMAIN << >> = {}
          OBVIOUS
        <5>3. QED BY <5>1, <5>2, <2>2
      <4>2. i \in 1 .. k /\ lives[b][i] = w[i]
        BY <1>4, <2>2, <4>1
      <4>3. i \in Nat \ {0} /\ i <= k /\ i \in 1 .. Len(w)
        BY <1>4, <4>2
      <4>4. QED BY <2>0, <3>1, <4>2, <4>3
    <3>2. CASE ~(kind = "block" /\ b = c)
      <4>1. lives[b] = Live(b) /\ Lives[b] = Live(b)
        BY <1>6, <3>2
      <4>2. Live(b) \in Seq(Byte)
        BY DEF Live, TypeInv, TypeOK
      <4>3. i \in Nat \ {0}
        BY <2>2, <4>1, <4>2
      <4>4. y \in Spots
        BY <2>2, <4>1, SpotKinds DEF Spots
      <4>5. QED BY <3>2, <4>3, <4>4
    <3>3. QED BY <3>1, <3>2
  <2>3. ASSUME NEW i \in DOMAIN part, y = <<"put", 0, i, part[i]>>
        PROVE  /\ i \in Nat \ {0}
               /\ \/ "put" = kind /\ 0 = which /\ i <= k /\ <<"wire", l, i, part[i]>> \in Spots
                  \/ ~("put" = kind /\ 0 = which) /\ y \in Spots
    <3>1. CASE kind = "put"
      <4>1. part = SubSeq(w, 1, k)
        BY <1>1, <1>3, <3>1
      <4>2. i \in 1 .. k /\ part[i] = w[i]
        BY <1>4, <2>3, <4>1
      <4>3. i \in Nat \ {0} /\ i <= k /\ i \in 1 .. Len(w)
        BY <1>4, <4>2
      <4>4. QED BY <2>0, <3>1, <4>2, <4>3
    <3>2. CASE kind # "put"
      <4>1. part = put.piece /\ put.piece \in Seq(Byte)
        BY <1>1, <3>2 DEF TypeInv, TypeOK
      <4>2. i \in Nat \ {0}
        BY <2>3, <4>1
      <4>3. y \in Spots
        BY <2>3, <4>1, SpotKinds DEF Spots
      <4>4. QED BY <3>2, <4>2, <4>3
    <3>3. QED BY <3>1, <3>2
  <2>4. ASSUME NEW i \in DOMAIN recv_buf, y = <<"buf", 0, i, recv_buf[i]>>
        PROVE  i \in Nat \ {0} /\ y \in Spots
    BY <2>4, SpotKinds DEF Spots, TypeInv, TypeOK
  <2>5. ASSUME NEW n \in DOMAIN queue, NEW i \in DOMAIN queue[n], y = <<"queue", n, i, queue[n][i]>>
        PROVE  i \in Nat \ {0} /\ y \in Spots
    <3>1. queue[n] \in Seq(Byte)
      BY DEF TypeInv, TypeOK
    <3>2. QED BY <2>5, <3>1, SpotKinds DEF Spots
  <2>6. ASSUME NEW i \in DOMAIN handled, y = <<"handled", 0, i, handled[i]>>
        PROVE  i \in Nat \ {0} /\ y \in Spots
    BY <2>6, SpotKinds DEF Spots, TypeInv, TypeOK
  <2>7. \/ \E o \in Link : \E i \in DOMAIN v[o] : y = <<"wire", o, i, v[o][i]>>
        \/ \E b \in Block : \E i \in DOMAIN lives[b] : y = <<"block", b, i, lives[b][i]>>
        \/ \E i \in DOMAIN part : y = <<"put", 0, i, part[i]>>
        \/ \E i \in DOMAIN recv_buf : y = <<"buf", 0, i, recv_buf[i]>>
        \/ \E n \in DOMAIN queue : \E i \in DOMAIN queue[n] : y = <<"queue", n, i, queue[n][i]>>
        \/ \E i \in DOMAIN handled : y = <<"handled", 0, i, handled[i]>>
    BY <1>2, SpotKinds
  <2>8. CASE \E o \in Link : \E i \in DOMAIN v[o] : y = <<"wire", o, i, v[o][i]>>
    BY <2>1, <2>8
  <2>9. CASE \E b \in Block : \E i \in DOMAIN lives[b] : y = <<"block", b, i, lives[b][i]>>
    <3>1. PICK b \in Block : \E i \in DOMAIN lives[b] : y = <<"block", b, i, lives[b][i]>>
      BY <2>9
    <3>2. PICK i \in DOMAIN lives[b] : y = <<"block", b, i, lives[b][i]>>
      BY <3>1
    <3>3. ~("block" = "wire" /\ b = l)
      OBVIOUS
    <3>4. PICK d : d = lives[b][i]
      OBVIOUS
    <3>5. /\ y = <<"block", b, i, d>> /\ i \in Nat \ {0}
          /\ \/ "block" = kind /\ b = which /\ i <= k /\ <<"wire", l, i, d>> \in Spots
             \/ ~("block" = "wire" /\ b = l) /\ ~("block" = kind /\ b = which) /\ y \in Spots
      BY <2>2, <3>2, <3>3, <3>4
    <3>6. QED BY ONLY <3>5 DEF CameFrom
  <2>10. CASE \E i \in DOMAIN part : y = <<"put", 0, i, part[i]>>
    <3>1. PICK i \in DOMAIN part : y = <<"put", 0, i, part[i]>>
      BY <2>10
    <3>2. ~("put" = "wire" /\ 0 = l)
      OBVIOUS
    <3>3. QED BY <2>3, <3>1, <3>2 DEF CameFrom
  <2>11. CASE \E i \in DOMAIN recv_buf : y = <<"buf", 0, i, recv_buf[i]>>
    <3>1. PICK i \in DOMAIN recv_buf : y = <<"buf", 0, i, recv_buf[i]>>
      BY <2>11
    <3>2. i \in Nat \ {0} /\ y \in Spots
      BY <2>4, <3>1
    <3>3. ~("buf" = "wire" /\ 0 = l) /\ ~("buf" = kind /\ 0 = which)
      OBVIOUS
    <3>4. QED BY <3>1, <3>2, <3>3 DEF CameFrom
  <2>12. CASE \E n \in DOMAIN queue : \E i \in DOMAIN queue[n] : y = <<"queue", n, i, queue[n][i]>>
    <3>1. PICK n \in DOMAIN queue : \E i \in DOMAIN queue[n] : y = <<"queue", n, i, queue[n][i]>>
      BY <2>12
    <3>2. PICK i \in DOMAIN queue[n] : y = <<"queue", n, i, queue[n][i]>>
      BY <3>1
    <3>3. i \in Nat \ {0} /\ y \in Spots
      BY <2>5, <3>2
    <3>4. ~("queue" = "wire" /\ n = l) /\ ~("queue" = kind /\ n = which)
      OBVIOUS
    <3>5. QED BY <3>2, <3>3, <3>4 DEF CameFrom
  <2>13. CASE \E i \in DOMAIN handled : y = <<"handled", 0, i, handled[i]>>
    <3>1. PICK i \in DOMAIN handled : y = <<"handled", 0, i, handled[i]>>
      BY <2>13
    <3>2. i \in Nat \ {0} /\ y \in Spots
      BY <2>6, <3>1
    <3>3. ~("handled" = "wire" /\ 0 = l) /\ ~("handled" = kind /\ 0 = which)
      OBVIOUS
    <3>4. QED BY <3>1, <3>2, <3>3 DEF CameFrom
  <2>14. QED BY <2>7, <2>8, <2>9, <2>10, <2>11, <2>12, <2>13
<1>8. EachOnce(Y) /\ UpTo(Y, sent)
  <2>1. ~("wire" = kind /\ l = which) /\ EachOnce(Spots) /\ UpTo(Spots, sent)
    BY DEF Once
  <2>2. k \in Nat
    BY <1>4
  <2>3. AllCameFrom(Y, Spots, "wire", l, kind, which, k)
    BY <1>7 DEF AllCameFrom
  <2>4. QED BY ONLY <2>1, <2>2, <2>3, Moved
<1>9. EachOnce(Spots)' /\ UpTo(Spots, sent)'
  <2>1. EachOnce(Y)
    BY <1>8
  <2>2. Y = Spots'
    BY <1>2
  <2>3. QED BY <1>8, <2>1, <2>2 DEF EachOnce, UpTo
<1>10. QED BY <1>9 DEF Once

LEMMA OnceUSART6 ==
  TypeInv /\ OnceInv /\ USART6_IRQHandler => OnceInv'
<1> SUFFICES ASSUME TypeInv, OnceInv, USART6_IRQHandler, trouble' # "torn" PROVE Once'
  BY DEF OnceInv
<1>1. PICK k \in PieceOf("4G") :
        /\ Arrive("4G", k)
        /\ blocks' = IF Free = {} THEN blocks
                     ELSE Filled(Marked(Min(Free)), Min(Free), SubSeq(wire["4G"], 1, k))
        /\ trouble' = Worse("rough", Used # {} \/ put # NoPut \/ OtherInside("4G"))
        /\ UNCHANGED <<sent, put, eth, up4g, frame, links, handled>>
  BY DEF USART6_IRQHandler
<1>2. Once
  BY <1>1, WorseTorn DEF OnceInv
<1>3. recv_buf' = recv_buf /\ queue' = queue /\ handled' = handled /\ sent' = sent /\ put' = put
  BY <1>1 DEF frame
<1>4. CASE Free = {}
  <2>1. blocks' = blocks
    BY <1>1, <1>4
  <2>2. \A b \in Block : Live(b)' = Live(b) /\ (blocks[b].count)' <= 1
    BY <1>2, <1>3, <2>1 DEF Live, Used, Free, Once
  <2>3. "4G" \in Link /\ (put.piece)' = put.piece
    BY <1>3 DEF Link
  <2>4. Lands("4G", k, "none", 0)
    BY <1>3, <2>2, <2>3 DEF Lands
  <2>5. QED BY <1>1, <1>2, <2>3, <2>4, OnceArrives
<1>5. CASE Free # {}
  <2>1. PICK c \in Block : c = Min(Free) /\ blocks[c].count = 0
    BY <1>5, FirstBlock DEF Free
  <2>2. PICK piece \in Seq(Byte) : piece = SubSeq(wire["4G"], 1, k)
    BY PieceIs DEF TypeInv, Link
  <2>3. PICK bs \in [Block -> [count : 0 .. 2, data : Seq(Byte)]] :
          /\ bs = Marked(c)
          /\ \A b \in Block : bs[b].count = IF b = c THEN blocks[b].count + 1 ELSE blocks[b].count
          /\ \A b \in Block : bs[b].data = blocks[b].data
    BY <2>1, MarkedType DEF TypeInv
  <2>4. blocks' = Filled(bs, c, piece)
    BY <1>1, <1>5, <2>1, <2>2, <2>3
  <2>5. \A b \in Block : /\ blocks'[b].count = bs[b].count
                         /\ blocks'[b].data = IF b = c THEN piece ELSE bs[b].data
    BY <2>4, FilledType DEF TypeInv
  <2>6. \A b \in Block : (blocks[b].count)' <= 1
    BY <1>2, <2>1, <2>3, <2>5 DEF Once
  <2>7. \A b \in Block : IF b = c
                         THEN Live(b)' = SubSeq(wire["4G"], 1, k) \/ Live(b)' = << >>
                         ELSE Live(b)' = Live(b)
    <3>1. ASSUME NEW b \in Block, b # c PROVE Live(b)' = Live(b)
      <4>1. blocks'[b].count = blocks[b].count /\ blocks'[b].data = blocks[b].data
        BY <2>3, <2>5, <3>1
      <4>2. QED BY <1>3, <4>1 DEF Live, Used, Free
    <3>2. Live(c)' = piece \/ Live(c)' = << >>
      BY <2>5 DEF Live
    <3>3. QED BY <2>2, <3>1, <3>2
  <2>8. "4G" \in Link /\ (put.piece)' = put.piece
    BY <1>3 DEF Link
  <2>9. Lands("4G", k, "block", c)
    BY <1>3, <2>6, <2>7, <2>8 DEF Lands
  <2>10. QED BY <1>1, <1>2, <2>8, <2>9, OnceArrives
<1>6. QED BY <1>4, <1>5

LEMMA OnceReceive ==
  TypeInv /\ OnceInv /\ Receive => OnceInv'
<1> SUFFICES ASSUME TypeInv, OnceInv, Receive, trouble' # "torn" PROVE Once'
  BY DEF OnceInv
<1>1. PICK k \in PieceOf("ETH") :
        /\ Arrive("ETH", k)
        /\ put' = [at |-> "find", block |-> 0, piece |-> SubSeq(wire["ETH"], 1, k)]
        /\ trouble' = Worse("rough", Used # {} \/ OtherInside("ETH"))
  BY DEF Receive
<1>2. Once
  BY <1>1, WorseTorn DEF OnceInv
<1>3. recv_buf' = recv_buf /\ queue' = queue /\ handled' = handled /\ sent' = sent /\ blocks' = blocks
  BY DEF Receive, frame
<1>4. put.at # "fill" /\ put'.at # "fill" /\ put'.piece = SubSeq(wire["ETH"], 1, k)
  <2>1. put.at # "fill"
    BY DEF Receive, TypeInv, PutInv, NoPut
  <2>2. QED BY <1>1, <2>1
<1>5. \A b \in Block : Live(b)' = Live(b) /\ (blocks[b].count)' <= 1
  BY <1>2, <1>3, <1>4 DEF Live, Used, Free, Once
<1>6. "ETH" \in Link
  BY DEF Link
<1>7. Lands("ETH", k, "put", 0)
  BY <1>3, <1>4, <1>5 DEF Lands
<1>8. QED BY <1>1, <1>2, <1>6, <1>7, OnceArrives

(* The piece of the TCP client goes into the block it marked.                *)
LEMMA OnceFill ==
  TypeInv /\ OnceInv /\ Fill => OnceInv'
<1> SUFFICES ASSUME TypeInv, OnceInv, Fill, trouble' # "torn" PROVE Once'
  BY DEF OnceInv
<1>1. PICK b \in Block : b = put.block
  BY DEF Fill, TypeInv, PutInv
<1>2. put.at = "fill" /\ put' = NoPut /\ blocks' = Filled(blocks, b, put.piece)
  BY <1>1 DEF Fill
<1>3. Once /\ wire' = wire /\ recv_buf' = recv_buf /\ queue' = queue /\ handled' = handled /\ sent' = sent
  BY DEF Fill, OnceInv, net, frame, ghost
<1>4. PICK piece \in Seq(Byte) : piece = put.piece
  BY DEF TypeInv, TypeOK
<1>5. \A c \in Block : /\ blocks'[c].count = blocks[c].count
                       /\ blocks'[c].data = IF c = b THEN piece ELSE blocks[c].data
  <2>1. TypeOK
    BY DEF TypeInv
  <2>2. blocks \in [Block -> [count : 0 .. 2, data : Seq(Byte)]]
    BY DEF TypeInv, TypeOK
  <2>3. blocks' = Filled(blocks, b, piece)
    BY <1>2, <1>4
  <2>4. QED BY <2>1, <2>2, <2>3, FilledType
<1>6. \A c \in Block : (blocks[c].count)' <= 1
  BY <1>3, <1>5 DEF Once
<1>7. put'.piece = << >> /\ put'.at = "none"
  BY <1>2 DEF NoPut
<1>8. PICK lives : lives = Lives'
  OBVIOUS
<1>9. /\ \A c \in Block : c # b => lives[c] = Lives[c] /\ Lives[c] \in Seq(Byte)
      /\ lives[b] = piece \/ lives[b] = << >>
  <2>1. \A c \in Block : lives[c] = Live(c)' /\ Lives[c] = Live(c)
    BY <1>8 DEF Lives
  <2>2. Live(b)' = piece \/ Live(b)' = << >>
    BY <1>5 DEF Live
  <2>3. ASSUME NEW c \in Block, c # b PROVE Live(c)' = Live(c) /\ Live(c) \in Seq(Byte)
    BY <1>1, <1>5, <1>7, <2>3 DEF Live, Used, Free, TypeInv, TypeOK
  <2>4. QED BY <2>1, <2>2, <2>3
<1>10. PICK Y : Y = Spots' /\ Y = SpotsOf(wire, lives, << >>, recv_buf, queue, handled)
  BY <1>3, <1>7, <1>8 DEF Spots
<1>11. PICK k \in Nat : k = Len(piece)
  BY <1>4
<1>12. ASSUME NEW y \in Y
       PROVE  CameFrom(y, Spots, "put", 0, "block", b, k)
  <2>0. DOMAIN << >> = {}
    OBVIOUS
  <2>1. ASSUME NEW o \in Link, NEW i \in DOMAIN wire[o], y = <<"wire", o, i, wire[o][i]>>
        PROVE  CameFrom(y, Spots, "put", 0, "block", b, k)
    <3>1. wire[o] \in Seq(Byte)
      BY DEF TypeInv, TypeOK
    <3>2. i \in Nat \ {0} /\ y \in Spots
      BY <2>1, <3>1, SpotKinds DEF Spots
    <3>3. ~("wire" = "put" /\ o = 0) /\ ~("wire" = "block" /\ o = b)
      OBVIOUS
    <3>4. QED BY <2>1, <3>2, <3>3 DEF CameFrom
  <2>2. ASSUME NEW c \in Block, NEW i \in DOMAIN lives[c], y = <<"block", c, i, lives[c][i]>>
        PROVE  CameFrom(y, Spots, "put", 0, "block", b, k)
    <3>1. PICK d : d = lives[c][i]
      OBVIOUS
    <3>2. CASE c = b
      <4>1. lives[b] = piece
        BY <1>9, <2>0, <2>2, <3>2
      <4>2. i \in Nat \ {0} /\ i <= k /\ d = put.piece[i] /\ i \in DOMAIN put.piece
        BY <1>4, <1>11, <2>2, <3>1, <3>2, <4>1
      <4>3. <<"put", 0, i, d>> \in Spots
        BY <4>2, SpotKinds DEF Spots
      <4>4. y = <<"block", b, i, d>>
        BY <2>2, <3>1, <3>2
      <4>5. QED BY ONLY <4>2, <4>3, <4>4 DEF CameFrom
    <3>3. CASE c # b
      <4>1. lives[c] = Lives[c] /\ Lives[c] \in Seq(Byte)
        BY <1>9, <3>3
      <4>2. i \in Nat \ {0} /\ y \in Spots
        BY <2>2, <4>1, SpotKinds DEF Spots
      <4>3. y = <<"block", c, i, d>> /\ ~("block" = "put" /\ c = 0) /\ ~("block" = "block" /\ c = b)
        BY <2>2, <3>1, <3>3
      <4>4. PICK p : p = "block"
        OBVIOUS
      <4>5. /\ y = <<p, c, i, d>> /\ i \in Nat \ {0}
            /\ ~(p = "put" /\ c = 0) /\ ~(p = "block" /\ c = b) /\ y \in Spots
        BY <4>2, <4>3, <4>4
      <4>6. QED BY ONLY <4>5 DEF CameFrom
    <3>4. QED BY <3>2, <3>3
  <2>3. ASSUME NEW i \in DOMAIN recv_buf, y = <<"buf", 0, i, recv_buf[i]>>
        PROVE  CameFrom(y, Spots, "put", 0, "block", b, k)
    <3>1. i \in Nat \ {0} /\ y \in Spots
      BY <2>3, SpotKinds DEF Spots, TypeInv, TypeOK
    <3>2. ~("buf" = "put" /\ 0 = 0) /\ ~("buf" = "block" /\ 0 = b)
      OBVIOUS
    <3>3. QED BY <2>3, <3>1, <3>2 DEF CameFrom
  <2>4. ASSUME NEW n \in DOMAIN queue, NEW i \in DOMAIN queue[n], y = <<"queue", n, i, queue[n][i]>>
        PROVE  CameFrom(y, Spots, "put", 0, "block", b, k)
    <3>1. queue[n] \in Seq(Byte)
      BY DEF TypeInv, TypeOK
    <3>2. i \in Nat \ {0} /\ y \in Spots
      BY <2>4, <3>1, SpotKinds DEF Spots
    <3>3. ~("queue" = "put" /\ n = 0) /\ ~("queue" = "block" /\ n = b)
      OBVIOUS
    <3>4. QED BY <2>4, <3>2, <3>3 DEF CameFrom
  <2>5. ASSUME NEW i \in DOMAIN handled, y = <<"handled", 0, i, handled[i]>>
        PROVE  CameFrom(y, Spots, "put", 0, "block", b, k)
    <3>1. i \in Nat \ {0} /\ y \in Spots
      BY <2>5, SpotKinds DEF Spots, TypeInv, TypeOK
    <3>2. ~("handled" = "put" /\ 0 = 0) /\ ~("handled" = "block" /\ 0 = b)
      OBVIOUS
    <3>3. QED BY <2>5, <3>1, <3>2 DEF CameFrom
  <2>6. \/ \E o \in Link : \E i \in DOMAIN wire[o] : y = <<"wire", o, i, wire[o][i]>>
        \/ \E c \in Block : \E i \in DOMAIN lives[c] : y = <<"block", c, i, lives[c][i]>>
        \/ \E i \in DOMAIN recv_buf : y = <<"buf", 0, i, recv_buf[i]>>
        \/ \E n \in DOMAIN queue : \E i \in DOMAIN queue[n] : y = <<"queue", n, i, queue[n][i]>>
        \/ \E i \in DOMAIN handled : y = <<"handled", 0, i, handled[i]>>
    BY <1>10, <2>0, SpotKinds
  <2>7. QED BY <2>1, <2>2, <2>3, <2>4, <2>5, <2>6
<1>13. EachOnce(Y) /\ UpTo(Y, sent)
  <2>1. ~("put" = "block" /\ 0 = b) /\ EachOnce(Spots) /\ UpTo(Spots, sent)
    BY <1>3 DEF Once
  <2>2. AllCameFrom(Y, Spots, "put", 0, "block", b, k)
    BY <1>12 DEF AllCameFrom
  <2>3. QED BY ONLY <1>11, <2>1, <2>2, Moved
<1>14. QED BY <1>3, <1>6, <1>10, <1>13 DEF Once, EachOnce, UpTo

(* A new number, above all that were sent.                                   *)
LEMMA OnceServerSends ==
  TypeInv /\ OnceInv /\ ServerSends => OnceInv'
<1> SUFFICES ASSUME TypeInv, OnceInv, ServerSends, trouble' # "torn" PROVE Once'
  BY DEF OnceInv
<1>1. PICK l \in Link : wire' = [wire EXCEPT ![l] = @ \o Frame(sent + 1)]
  BY DEF ServerSends
<1>2. PICK s \in Nat : s = sent /\ s + 1 \in 1 .. NFrame /\ sent' = s + 1
  BY StreamAssumption DEF ServerSends, TypeInv, TypeOK
<1>3. /\ Once /\ recv_buf' = recv_buf /\ queue' = queue /\ handled' = handled
      /\ blocks' = blocks /\ put' = put
  BY DEF ServerSends, OnceInv, pool, frame, ghost
<1>4. PICK w \in Seq(Byte) : w = wire[l]
  BY DEF TypeInv, TypeOK
<1>5. PICK v : v = wire'
  OBVIOUS
<1>6. PICK f \in Seq(Byte) : f = Frame(s + 1) /\ Len(f) = 3 /\ f[1] = 0 /\ f[2] = s + 1 /\ f[3] = -1
  BY <1>2, Bytes DEF H, T
<1>7. \A o \in Link : v[o] = IF o = l THEN w \o f ELSE wire[o]
  BY <1>1, <1>2, <1>4, <1>5, <1>6 DEF TypeInv, TypeOK
<1>8. \A b \in Block : Live(b)' = Live(b)
  BY <1>3 DEF Live, Used, Free
<1>9. Lives' = Lives
  BY <1>8 DEF Lives
<1>10. PICK Y : Y = Spots' /\ Y = SpotsOf(v, Lives, put.piece, recv_buf, queue, handled)
  BY <1>3, <1>5, <1>9 DEF Spots
<1>11. PICK n \in Nat : n = Len(w)
  BY <1>4
<1>12. ASSUME NEW y \in Y
       PROVE  y \in Spots \/ y \in {<<"wire", l, n + 1, 0>>, <<"wire", l, n + 2, s + 1>>,
                                    <<"wire", l, n + 3, -1>>}
  <2>1. ASSUME NEW o \in Link, NEW i \in DOMAIN v[o], y = <<"wire", o, i, v[o][i]>>
        PROVE  y \in Spots \/ y \in {<<"wire", l, n + 1, 0>>, <<"wire", l, n + 2, s + 1>>,
                                     <<"wire", l, n + 3, -1>>}
    <3>1. CASE o = l
      <4>1. PICK x \in Seq(Byte) :
              /\ v[o] = x /\ Len(x) = n + 3
              /\ \A j \in 1 .. n + 3 : x[j] = IF j <= n THEN w[j] ELSE f[j - n]
        <5>1. v[o] = w \o f
          BY <1>7, <3>1
        <5>2. /\ w \o f \in Seq(Byte) /\ Len(w \o f) = Len(w) + Len(f)
              /\ \A j \in 1 .. Len(w) + Len(f) :
                   (w \o f)[j] = IF j <= Len(w) THEN w[j] ELSE f[j - Len(w)]
          BY ConcatProperties
        <5>3. QED BY <1>6, <1>11, <5>1, <5>2
      <4>2. i \in 1 .. n + 3 /\ v[o][i] = IF i <= n THEN w[i] ELSE f[i - n]
        BY <1>11, <2>1, <4>1
      <4>3. CASE i <= n
        <5>1. i \in DOMAIN wire[l] /\ y = <<"wire", l, i, wire[l][i]>>
          BY <1>4, <1>11, <2>1, <3>1, <4>2, <4>3
        <5>2. QED BY <5>1, SpotKinds DEF Spots
      <4>4. CASE i > n
        <5>1. i = n + 1 \/ i = n + 2 \/ i = n + 3
          BY ONLY n \in Nat, <4>2, <4>4
        <5>2. v[o][i] = f[i - n]
          BY <1>11, <4>2, <4>4
        <5>3. CASE i = n + 1
          <6>1. i - n = 1
            BY <1>11, <5>3
          <6>2. QED BY <1>6, <2>1, <3>1, <5>2, <5>3, <6>1
        <5>4. CASE i = n + 2
          <6>1. i - n = 2
            BY <1>11, <5>4
          <6>2. QED BY <1>6, <2>1, <3>1, <5>2, <5>4, <6>1
        <5>5. CASE i = n + 3
          <6>1. i - n = 3
            BY <1>11, <5>5
          <6>2. QED BY <1>6, <2>1, <3>1, <5>2, <5>5, <6>1
        <5>6. QED BY <5>1, <5>3, <5>4, <5>5
      <4>5. QED BY <1>11, <4>2, <4>3, <4>4
    <3>2. CASE o # l
      <4>1. v[o] = wire[o]
        BY <1>7, <3>2
      <4>2. QED BY <2>1, <4>1, SpotKinds DEF Spots
    <3>3. QED BY <3>1, <3>2
  <2>2. \/ \E o \in Link : \E i \in DOMAIN v[o] : y = <<"wire", o, i, v[o][i]>>
        \/ y \in Spots
    BY <1>10, SpotKinds DEF Spots
  <2>3. QED BY <2>1, <2>2
<1>13. \A x \in Spots : x[4] \in Int /\ x[4] <= s
  BY <1>2, <1>3 DEF Once, UpTo
<1>14. ASSUME NEW y \in Y, NEW z \in Y, y[4] = z[4], y[4] >= 1
       PROVE  y = z
  <2>1. CASE y \in Spots /\ z \in Spots
    BY <1>3, <1>14, <2>1 DEF Once, EachOnce
  <2>2. \A x \in Y : x \in Spots \/ ~(x[4] >= 1) \/ x = <<"wire", l, n + 2, s + 1>>
    BY <1>12
  <2>3. CASE y \notin Spots \/ z \notin Spots
    <3>1. y[4] = s + 1
      BY <1>2, <1>14, <2>2, <2>3
    <3>2. z[4] = s + 1 /\ \A x \in Spots : x[4] # s + 1
      <4>1. \A x \in Spots : x[4] # s + 1
        BY <1>2, <1>13
      <4>2. QED BY <1>14, <3>1, <4>1
    <3>3. y \notin Spots /\ z \notin Spots
      BY <3>1, <3>2
    <3>4. QED BY <1>14, <2>2, <3>3
  <2>4. QED BY <2>1, <2>3
<1>15. ASSUME NEW y \in Y PROVE y[4] \in Int /\ y[4] <= s + 1
  <2>1. CASE y \in Spots
    BY <1>2, <1>13, <2>1
  <2>2. CASE y \notin Spots
    BY <1>2, <1>12, <2>2
  <2>3. QED BY <2>1, <2>2
<1>16. EachOnce(Y) /\ UpTo(Y, s + 1)
  BY <1>14, <1>15 DEF EachOnce, UpTo
<1>17. QED BY <1>2, <1>3, <1>10, <1>16 DEF Once, EachOnce, UpTo

(* Each byte now was at a spot of its own before.                            *)
Traces(Y, X, f) ==
  /\ \A y \in Y : f[y] \in X /\ f[y][4] = y[4]
  /\ \A y, z \in Y : f[y] = f[z] => y = z

LEMMA Traced ==
  ASSUME NEW X, NEW Y, NEW f, NEW m, EachOnce(X), UpTo(X, m), Traces(Y, X, f)
  PROVE  EachOnce(Y) /\ UpTo(Y, m)
<1>1. ASSUME NEW y \in Y, NEW z \in Y, y[4] = z[4], y[4] >= 1 PROVE y = z
  <2>1. f[y] \in X /\ f[z] \in X /\ f[y][4] = f[z][4] /\ f[y][4] >= 1
    BY <1>1 DEF Traces
  <2>2. f[y] = f[z]
    BY <2>1 DEF EachOnce
  <2>3. QED BY <2>2 DEF Traces
<1>2. QED BY <1>1 DEF EachOnce, UpTo, Traces

(* The first frame leaves the queue, and its number is handled.              *)
LEMMA OnceHandle ==
  TypeInv /\ OnceInv /\ ServerFrameHandle => OnceInv'
<1> SUFFICES ASSUME TypeInv, OnceInv, ServerFrameHandle, trouble' # "torn" PROVE Once'
  BY DEF OnceInv
<1>1. /\ Once /\ wire' = wire /\ recv_buf' = recv_buf /\ blocks' = blocks /\ put' = put /\ sent' = sent
      /\ queue # << >> /\ queue' = Tail(queue)
  BY DEF ServerFrameHandle, OnceInv, net, pool
<1>2. \A b \in Block : Live(b)' = Live(b)
  BY <1>1 DEF Live, Used, Free
<1>3. Lives' = Lives
  BY <1>2 DEF Lives
<1>4. PICK h : h = handled'
  OBVIOUS
<1>5. PICK q : q = Tail(queue)
  OBVIOUS
<1>6. PICK Y : Y = Spots' /\ Y = SpotsOf(wire, Lives, put.piece, recv_buf, q, h)
  BY <1>1, <1>3, <1>4, <1>5 DEF Spots
<1>7. queue \in Seq(Seq(Byte)) /\ handled \in Seq(1 .. NFrame)
  BY DEF TypeInv, TypeOK
<1>8. PICK n \in Nat : n = Len(handled)
  BY <1>7
<1>9. /\ 1 \in DOMAIN queue /\ \A k \in DOMAIN q : k \in Nat \ {0} /\ k + 1 \in DOMAIN queue
      /\ \A k \in DOMAIN q : q[k] = queue[k + 1]
  BY <1>1, <1>5, <1>7
<1>10. ASSUME NEW i \in DOMAIN h
       PROVE  \/ i \in DOMAIN handled /\ h[i] = handled[i] /\ i <= n
              \/ i = n + 1 /\ 2 \in DOMAIN queue[1] /\ queue[1][2] = h[i]
  <2>1. CASE \E j \in 1 .. NFrame : Head(queue) = Frame(j)
    <3>1. PICK j \in 1 .. NFrame : Head(queue) = Frame(j)
      BY <2>1
    <3>2. queue[1] = Frame(j) /\ 2 \in DOMAIN queue[1] /\ queue[1][2] = j
      <4>1. queue[1] = Frame(j)
        BY <1>1, <1>7, <3>1
      <4>2. QED BY <4>1 DEF Frame
    <3>3. Head(queue)[2] = j
      BY <3>1, Bytes
    <3>4. h = Append(handled, j)
      BY <1>4, <2>1, <3>3 DEF ServerFrameHandle
    <3>5. i \in 1 .. n + 1 /\ h[i] = IF i <= n THEN handled[i] ELSE j
      BY <1>7, <1>8, <3>4
    <3>6. CASE i <= n
      BY <1>7, <1>8, <3>5, <3>6
    <3>7. CASE i > n
      BY <1>8, <3>2, <3>5, <3>7
    <3>8. QED BY <1>8, <3>5, <3>6, <3>7
  <2>2. CASE ~ \E j \in 1 .. NFrame : Head(queue) = Frame(j)
    BY <1>4, <1>7, <1>8, <2>2 DEF ServerFrameHandle
  <2>3. QED BY <2>1, <2>2
<1>11. PICK f : f = [y \in Y |-> IF y[1] = "queue" THEN <<"queue", y[2] + 1, y[3], y[4]>>
                                 ELSE IF y[1] = "handled" /\ y[3] = n + 1
                                      THEN <<"queue", 1, 2, y[4]>> ELSE y]
  OBVIOUS
<1>12. ASSUME NEW y \in Y
       PROVE  /\ f[y] \in Spots /\ f[y][4] = y[4]
              /\ \/ \E k \in Nat \ {0} : \E i, d :
                      y = <<"queue", k, i, d>> /\ f[y] = <<"queue", k + 1, i, d>>
                 \/ \E d : y = <<"handled", 0, n + 1, d>> /\ f[y] = <<"queue", 1, 2, d>>
                 \/ \E a, c, i, d : y = <<a, c, i, d>> /\ a # "queue" /\ f[y] = y
  <2>1. f[y] = IF y[1] = "queue" THEN <<"queue", y[2] + 1, y[3], y[4]>>
               ELSE IF y[1] = "handled" /\ y[3] = n + 1 THEN <<"queue", 1, 2, y[4]>> ELSE y
    BY <1>11
  <2>2. ASSUME NEW k \in DOMAIN q, NEW i \in DOMAIN q[k], y = <<"queue", k, i, q[k][i]>>
        PROVE  /\ f[y] \in Spots /\ f[y][4] = y[4]
               /\ \E j \in Nat \ {0} : \E o, d :
                      y = <<"queue", j, o, d>> /\ f[y] = <<"queue", j + 1, o, d>>
    <3>1. f[y] = <<"queue", k + 1, i, q[k][i]>>
      BY <2>1, <2>2
    <3>2. q[k] = queue[k + 1] /\ k \in Nat \ {0} /\ k + 1 \in DOMAIN queue
      BY <1>9
    <3>3. f[y] = <<"queue", k + 1, i, queue[k + 1][i]>> /\ i \in DOMAIN queue[k + 1]
      BY <3>1, <3>2
    <3>4. f[y] \in Spots
      BY <3>2, <3>3, SpotKinds DEF Spots
    <3>5. QED BY <2>2, <3>1, <3>2, <3>4
  <2>3. ASSUME NEW i \in DOMAIN h, y = <<"handled", 0, i, h[i]>>
        PROVE  /\ f[y] \in Spots /\ f[y][4] = y[4]
               /\ \/ \E d : y = <<"handled", 0, n + 1, d>> /\ f[y] = <<"queue", 1, 2, d>>
                  \/ \E a, c, o, d : y = <<a, c, o, d>> /\ a # "queue" /\ f[y] = y
    <3>1. CASE i = n + 1
      <4>1. 2 \in DOMAIN queue[1] /\ queue[1][2] = h[i]
        BY <1>8, <1>10, <3>1
      <4>2. f[y] = <<"queue", 1, 2, h[i]>> /\ y = <<"handled", 0, n + 1, h[i]>>
        BY <2>1, <2>3, <3>1
      <4>3. f[y] \in Spots
        BY <1>9, <4>1, <4>2, SpotKinds DEF Spots
      <4>4. QED BY <4>2, <4>3
    <3>2. CASE i # n + 1
      <4>1. i \in DOMAIN handled /\ h[i] = handled[i]
        BY <1>10, <3>2
      <4>2. f[y] = y /\ y = <<"handled", 0, i, h[i]>>
        BY <2>1, <2>3, <3>2
      <4>3. y \in Spots
        BY <2>3, <4>1, SpotKinds DEF Spots
      <4>4. QED BY <4>2, <4>3
    <3>3. QED BY <3>1, <3>2
  <2>4. ASSUME y \in Spots, NEW a, NEW c, NEW i, NEW d, y = <<a, c, i, d>>, a # "queue", a # "handled"
        PROVE  f[y] \in Spots /\ f[y][4] = y[4] /\ f[y] = y
    BY <2>1, <2>4
  <2>5. \/ \E k \in DOMAIN q : \E i \in DOMAIN q[k] : y = <<"queue", k, i, q[k][i]>>
        \/ \E i \in DOMAIN h : y = <<"handled", 0, i, h[i]>>
        \/ y \in Spots /\ \E a, c, i, d : y = <<a, c, i, d>> /\ a # "queue" /\ a # "handled"
    <3>1. \/ \E l \in Link : \E i \in DOMAIN wire[l] : y = <<"wire", l, i, wire[l][i]>>
          \/ \E b \in Block : \E i \in DOMAIN Lives[b] : y = <<"block", b, i, Lives[b][i]>>
          \/ \E i \in DOMAIN put.piece : y = <<"put", 0, i, put.piece[i]>>
          \/ \E i \in DOMAIN recv_buf : y = <<"buf", 0, i, recv_buf[i]>>
          \/ \E k \in DOMAIN q : \E i \in DOMAIN q[k] : y = <<"queue", k, i, q[k][i]>>
          \/ \E i \in DOMAIN h : y = <<"handled", 0, i, h[i]>>
      BY <1>6, SpotKinds
    <3>2. ASSUME NEW l \in Link, NEW i \in DOMAIN wire[l], y = <<"wire", l, i, wire[l][i]>>
          PROVE  y \in Spots /\ \E a, c, o, d : y = <<a, c, o, d>> /\ a # "queue" /\ a # "handled"
      BY <3>2, SpotKinds DEF Spots
    <3>3. ASSUME NEW b \in Block, NEW i \in DOMAIN Lives[b], y = <<"block", b, i, Lives[b][i]>>
          PROVE  y \in Spots /\ \E a, c, o, d : y = <<a, c, o, d>> /\ a # "queue" /\ a # "handled"
      BY <3>3, SpotKinds DEF Spots
    <3>4. ASSUME NEW i \in DOMAIN put.piece, y = <<"put", 0, i, put.piece[i]>>
          PROVE  y \in Spots /\ \E a, c, o, d : y = <<a, c, o, d>> /\ a # "queue" /\ a # "handled"
      BY <3>4, SpotKinds DEF Spots
    <3>5. ASSUME NEW i \in DOMAIN recv_buf, y = <<"buf", 0, i, recv_buf[i]>>
          PROVE  y \in Spots /\ \E a, c, o, d : y = <<a, c, o, d>> /\ a # "queue" /\ a # "handled"
      BY <3>5, SpotKinds DEF Spots
    <3>6. QED BY <3>1, <3>2, <3>3, <3>4, <3>5
  <2>6. QED BY <2>2, <2>3, <2>4, <2>5
<1>13. ASSUME NEW y \in Y, NEW z \in Y, f[y] = f[z] PROVE y = z
  BY <1>8, <1>12, <1>13
<1>14. EachOnce(Y) /\ UpTo(Y, sent)
  <2>1. Traces(Y, Spots, f)
    BY <1>12, <1>13 DEF Traces
  <2>2. EachOnce(Spots) /\ UpTo(Spots, sent)
    BY <1>1 DEF Once
  <2>3. QED BY <2>1, <2>2, Traced
<1>15. QED BY <1>1, <1>6, <1>14 DEF Once, EachOnce, UpTo

(* Where a byte of the taken block and the buffer was.                       *)
WasAt(p, n, b, d) == IF p <= n THEN <<"buf", 0, p, d>> ELSE <<"block", b, p - n, d>>

LEMMA WasAtOnce ==
  ASSUME NEW p \in Nat, NEW r \in Nat, NEW n \in Nat, NEW b, NEW d, NEW e,
         WasAt(p, n, b, d) = WasAt(r, n, b, e)
  PROVE  p = r /\ d = e
<1>1. CASE p <= n /\ r <= n
  BY <1>1 DEF WasAt
<1>2. CASE p > n /\ r > n
  BY <1>2 DEF WasAt
<1>3. CASE p <= n /\ r > n
  BY <1>3 DEF WasAt
<1>4. CASE p > n /\ r <= n
  BY <1>4 DEF WasAt
<1>5. QED BY <1>1, <1>2, <1>3, <1>4

LEMMA PartIs ==
  ASSUME NEW c \in CutOf(Byte)
  PROVE  Len(c.frames) \in Nat /\ \A i \in 1 .. Len(c.frames) + 1 : Part(c, i) \in Seq(Byte)
<1>1. c.frames \in Seq(Seq(Byte)) /\ c.rest \in Seq(Byte) /\ Len(c.frames) \in Nat
  BY DEF CutOf
<1>2. ASSUME NEW i \in 1 .. Len(c.frames) + 1 PROVE Part(c, i) \in Seq(Byte)
  <2>1. CASE i <= Len(c.frames)
    <3>1. c.frames[i] \in Seq(Byte)
      BY <1>1, <2>1
    <3>2. QED BY <2>1, <3>1 DEF Part
  <2>2. CASE ~(i <= Len(c.frames))
    BY <1>1, <2>2 DEF Part
  <2>3. QED BY <2>1, <2>2
<1>3. QED BY <1>1, <1>2

(* Different bytes of the parts are different bytes of the buffer.           *)
LEMMA PartsApart ==
  ASSUME NEW buf \in Seq(Byte), NEW c \in CutOf(Byte), NEW at, PartsAt(buf, c, at),
         NEW i \in 1 .. Len(c.frames) + 1, NEW k \in 1 .. Len(c.frames) + 1,
         NEW j \in 1 .. Len(Part(c, i)), NEW l \in 1 .. Len(Part(c, k)),
         at[i] + j = at[k] + l
  PROVE  i = k /\ j = l
<1>1. /\ at[i] \in Nat /\ at[k] \in Nat /\ Len(Part(c, i)) \in Nat /\ Len(Part(c, k)) \in Nat
      /\ Len(c.frames) \in Nat
  <2>1. at[i] \in Nat /\ at[k] \in Nat
    BY DEF PartsAt
  <2>2. Part(c, i) \in Seq(Byte) /\ Part(c, k) \in Seq(Byte) /\ Len(c.frames) \in Nat
    BY PartIs
  <2>3. QED BY <2>1, <2>2
<1>2. ~(i < k)
  <2>1. SUFFICES ASSUME i < k PROVE FALSE
    OBVIOUS
  <2>2. at[i] + Len(Part(c, i)) <= at[k]
    BY <2>1 DEF PartsAt
  <2>3. QED BY <1>1, <2>2
<1>3. ~(k < i)
  <2>1. SUFFICES ASSUME k < i PROVE FALSE
    OBVIOUS
  <2>2. at[k] + Len(Part(c, k)) <= at[i]
    BY <2>1 DEF PartsAt
  <2>3. QED BY <1>1, <2>2
<1>4. i = k
  BY <1>1, <1>2, <1>3
<1>5. QED BY <1>1, <1>4

(* A block is taken, once: its bytes and those of the buffer go to the queue *)
(* and to what stays.                                                        *)
LEMMA OnceTakes ==
  ASSUME TypeInv, Once, Used # {}, TakeBlock, trouble' # "torn",
         wire' = wire, put' = put, handled' = handled, sent' = sent
  PROVE  Once'
<1> DEFINE taken == Min(Used)
<1>1. PICK b \in Block : b = taken /\ b \in Used
  BY FirstBlock
<1>2. PICK bytes \in Seq(Byte) : bytes = blocks[b].data
  BY DEF TypeInv, TypeOK
<1>3. PICK buf \in Seq(Byte) : buf = recv_buf \o bytes
  <2>1. recv_buf \in Seq(Byte)
    BY DEF TypeInv, TypeOK
  <2>2. QED BY ONLY <2>1, bytes \in Seq(Byte), ConcatProperties
<1>4. PICK c \in CutOf(Byte) : c = Cut[buf] /\ \E at : PartsAt(buf, c, at)
  <2>1. TypeOK
    BY DEF TypeInv
  <2>2. QED BY <1>1, <1>2, <1>3, <2>1, TakenIs
<1>5. PICK at : PartsAt(buf, c, at)
  BY <1>4
<1>6. /\ blocks' = Get(b) /\ recv_buf' = c.rest /\ queue' = Kept(c.frames)
      /\ ~(put.at = "fill" /\ put.block = b)
  BY <1>1, <1>2, <1>3, <1>4 DEF TakeBlock, Analysis, Push
<1>7. \A o \in Block : /\ blocks'[o].count = IF o = b THEN blocks[o].count - 1 ELSE blocks[o].count
                       /\ blocks'[o].data = blocks[o].data
  <2>1. TypeOK
    BY DEF TypeInv
  <2>2. QED BY <1>1, <1>6, <2>1, GetType
<1>8. \A o \in Block : blocks[o].count \in 0 .. 2 /\ blocks[o].count <= 1
  BY DEF Once, TypeInv, TypeOK
<1>9. (\A o \in Block : (blocks[o].count)' <= 1) /\ blocks'[b].count = 0
  <2>1. blocks[b].count = 1
    BY <1>1, <1>8 DEF Used, Free
  <2>2. QED BY <1>7, <1>8, <2>1
<1>10. PICK lives : lives = Lives'
  OBVIOUS
<1>11. lives[b] = << >> /\ (\A o \in Block : o # b => lives[o] = Lives[o]) /\ Lives[b] = bytes
  <2>1. \A o \in Block : lives[o] = Live(o)' /\ Lives[o] = Live(o)
    BY <1>10 DEF Lives
  <2>2. Live(b)' = << >>
    BY <1>9 DEF Live, Used, Free
  <2>3. ASSUME NEW o \in Block, o # b PROVE Live(o)' = Live(o)
    BY <1>7, <2>3 DEF Live, Used, Free
  <2>4. Live(b) = bytes
    BY <1>1, <1>2, <1>6 DEF Live
  <2>5. QED BY <2>1, <2>2, <2>3, <2>4
<1>12. PICK q : q = Kept(c.frames) /\ q \in Seq(Seq(Byte)) /\ Len(q) <= Len(queue) + Len(c.frames)
                /\ \A i \in 1 .. Len(q) : q[i] = IF i <= Len(queue) THEN queue[i] ELSE c.frames[i - Len(queue)]
  <2>1. TypeOK /\ c.frames \in Seq(Seq(Byte))
    BY DEF TypeInv, CutOf
  <2>2. QED BY <2>1, KeptIs
<1>13. PICK n \in Nat, m \in Nat, r \in Nat : n = Len(recv_buf) /\ m = Len(queue) /\ r = Len(c.frames)
  BY DEF TypeInv, TypeOK, CutOf
<1>14. PICK Y : Y = Spots' /\ Y = SpotsOf(wire, lives, put.piece, c.rest, q, handled)
  BY <1>6, <1>10, <1>12 DEF Spots
<1>15. \A p \in 1 .. Len(buf) : WasAt(p, n, b, buf[p]) \in Spots
  <2>1. ASSUME NEW p \in 1 .. Len(buf) PROVE WasAt(p, n, b, buf[p]) \in Spots
    <3>1. recv_buf \in Seq(Byte)
      BY DEF TypeInv, TypeOK
    <3>2. p \in 1 .. n + Len(bytes) /\ buf[p] = IF p <= n THEN recv_buf[p] ELSE bytes[p - n]
      BY <1>3, <1>13, <3>1, ConcatProperties
    <3>3. CASE p <= n
      <4>1. p \in DOMAIN recv_buf /\ buf[p] = recv_buf[p]
        BY <1>13, <3>1, <3>2, <3>3
      <4>2. <<"buf", 0, p, recv_buf[p]>> \in Spots
        BY <4>1, SpotKinds DEF Spots
      <4>3. QED BY <3>3, <4>1, <4>2 DEF WasAt
    <3>4. CASE p > n
      <4>1. p - n \in DOMAIN bytes /\ buf[p] = bytes[p - n]
        BY <1>2, <1>13, <3>2, <3>4
      <4>2. <<"block", b, p - n, bytes[p - n]>> \in Spots
        BY <1>11, <4>1, SpotKinds DEF Spots
      <4>3. QED BY <1>13, <3>4, <4>1, <4>2 DEF WasAt
    <3>5. QED BY <1>13, <3>2, <3>3, <3>4
  <2>2. QED BY <2>1
<1> DEFINE PartOf(y) == IF y[1] = "buf" THEN r + 1 ELSE y[2] - m
           Cuts(y) == y[1] = "buf" \/ (y[1] = "queue" /\ y[2] > m)
<1>16. PICK f : f = [y \in Y |-> IF Cuts(y) THEN WasAt(at[PartOf(y)] + y[3], n, b, y[4]) ELSE y]
  OBVIOUS
<1>17. ASSUME NEW k \in 1 .. r + 1, NEW i \in 1 .. Len(Part(c, k))
       PROVE  at[k] + i \in 1 .. Len(buf) /\ at[k] + i \in Nat /\ buf[at[k] + i] = Part(c, k)[i]
  <2>1. at[k] \in Nat /\ at[k] + Len(Part(c, k)) <= Len(buf) /\ Len(Part(c, k)) \in Nat
    <3>1. Part(c, k) \in Seq(Byte)
      BY <1>13, PartIs
    <3>2. at[k] \in Nat /\ at[k] + Len(Part(c, k)) <= Len(buf)
      BY <1>5, <1>13 DEF PartsAt
    <3>3. QED BY <3>1, <3>2
  <2>2. buf[at[k] + i] = Part(c, k)[i]
    BY <1>5, <1>13 DEF PartsAt
  <2>3. Len(buf) \in Nat
    OBVIOUS
  <2>4. QED BY <2>1, <2>2, <2>3
<1>18. ASSUME NEW y \in Y
       PROVE  \/ \E k \in 1 .. r + 1 : \E i \in 1 .. Len(Part(c, k)) :
                   /\ f[y] = WasAt(at[k] + i, n, b, Part(c, k)[i])
                   /\ y = IF k = r + 1 THEN <<"buf", 0, i, Part(c, k)[i]>>
                          ELSE <<"queue", k + m, i, Part(c, k)[i]>>
              \/ /\ y \in Spots /\ f[y] = y
                 /\ \E a, o, i, d : y = <<a, o, i, d>> /\ a # "buf" /\ ~(a = "block" /\ o = b)
  <2>1. f[y] = IF Cuts(y) THEN WasAt(at[PartOf(y)] + y[3], n, b, y[4]) ELSE y
    BY <1>16
  <2>2. ASSUME NEW i \in DOMAIN c.rest, y = <<"buf", 0, i, c.rest[i]>>
        PROVE  \E k \in 1 .. r + 1 : \E j \in 1 .. Len(Part(c, k)) :
                   /\ f[y] = WasAt(at[k] + j, n, b, Part(c, k)[j])
                   /\ y = IF k = r + 1 THEN <<"buf", 0, j, Part(c, k)[j]>>
                          ELSE <<"queue", k + m, j, Part(c, k)[j]>>
    <3>1. Part(c, r + 1) = c.rest /\ i \in 1 .. Len(Part(c, r + 1))
      BY <1>13 DEF Part, CutOf
    <3>2. f[y] = WasAt(at[r + 1] + i, n, b, c.rest[i])
      BY <2>1, <2>2
    <3>3. r + 1 \in 1 .. r + 1
      BY <1>13
    <3>4. QED BY <2>2, <3>1, <3>2, <3>3
  <2>3. ASSUME NEW l \in DOMAIN q, NEW i \in DOMAIN q[l], y = <<"queue", l, i, q[l][i]>>, l > m
        PROVE  \E k \in 1 .. r + 1 : \E j \in 1 .. Len(Part(c, k)) :
                   /\ f[y] = WasAt(at[k] + j, n, b, Part(c, k)[j])
                   /\ y = IF k = r + 1 THEN <<"buf", 0, j, Part(c, k)[j]>>
                          ELSE <<"queue", k + m, j, Part(c, k)[j]>>
    <3>1. l \in 1 .. Len(q) /\ Len(q) \in Nat /\ Len(q) <= m + r
      BY <1>12, <1>13
    <3>2. l - m \in 1 .. r /\ l - m \in 1 .. r + 1 /\ l = (l - m) + m /\ l - m # r + 1
      <4>1. m \in Nat /\ r \in Nat /\ l \in Nat /\ m < l /\ l <= m + r
        BY <1>13, <2>3, <3>1
      <4>2. QED BY ONLY <4>1
    <3>3. q[l] = c.frames[l - m]
      <4>1. q[l] = IF l <= m THEN queue[l] ELSE c.frames[l - m]
        BY <1>12, <1>13, <3>1
      <4>2. ~(l <= m)
        BY <1>13, <2>3, <3>1
      <4>3. QED BY <4>1, <4>2
    <3>4. Part(c, l - m) = q[l]
      BY <1>13, <3>2, <3>3 DEF Part
    <3>5. i \in 1 .. Len(Part(c, l - m))
      BY <1>12, <3>1, <3>4
    <3>6. f[y] = WasAt(at[l - m] + i, n, b, q[l][i])
      BY <2>1, <2>3
    <3>7. QED BY <2>3, <3>2, <3>4, <3>5, <3>6
  <2>4. ASSUME y \in Spots, NEW a, NEW o, NEW i, NEW d, y = <<a, o, i, d>>, a # "buf", a # "queue",
               ~(a = "block" /\ o = b)
        PROVE  /\ y \in Spots /\ f[y] = y
               /\ \E a1, o1, i1, d1 : y = <<a1, o1, i1, d1>> /\ a1 # "buf" /\ ~(a1 = "block" /\ o1 = b)
    <3>1. f[y] = y
      BY <2>1, <2>4
    <3>2. QED BY <2>4, <3>1
  <2>5. ASSUME NEW l \in DOMAIN q, NEW i \in DOMAIN q[l], y = <<"queue", l, i, q[l][i]>>, ~(l > m)
        PROVE  /\ y \in Spots /\ f[y] = y
               /\ \E a1, o1, i1, d1 : y = <<a1, o1, i1, d1>> /\ a1 # "buf" /\ ~(a1 = "block" /\ o1 = b)
    <3>1. l \in 1 .. Len(q) /\ l <= m /\ l \in DOMAIN queue
      <4>1. queue \in Seq(Seq(Byte))
        BY DEF TypeInv, TypeOK
      <4>2. l \in 1 .. Len(q) /\ Len(q) \in Nat
        BY <1>12
      <4>3. l <= m /\ l >= 1 /\ l \in Nat
        BY <1>13, <2>5, <4>2
      <4>4. l \in DOMAIN queue
        BY <1>13, <4>1, <4>3
      <4>5. QED BY <4>2, <4>3, <4>4
    <3>2. q[l] = queue[l]
      BY <1>12, <1>13, <3>1
    <3>3. y \in Spots
      BY <2>5, <3>1, <3>2, SpotKinds DEF Spots
    <3>4. f[y] = y
      BY <2>1, <2>5
    <3>5. QED BY <2>5, <3>3, <3>4
  <2>6. \/ \E i \in DOMAIN c.rest : y = <<"buf", 0, i, c.rest[i]>>
        \/ \E l \in DOMAIN q : \E i \in DOMAIN q[l] : y = <<"queue", l, i, q[l][i]>>
        \/ y \in Spots /\ \E a, o, i, d : /\ y = <<a, o, i, d>> /\ a # "buf" /\ a # "queue"
                                          /\ ~(a = "block" /\ o = b)
    <3>1. \/ \E l \in Link : \E i \in DOMAIN wire[l] : y = <<"wire", l, i, wire[l][i]>>
          \/ \E o \in Block : \E i \in DOMAIN lives[o] : y = <<"block", o, i, lives[o][i]>>
          \/ \E i \in DOMAIN put.piece : y = <<"put", 0, i, put.piece[i]>>
          \/ \E i \in DOMAIN c.rest : y = <<"buf", 0, i, c.rest[i]>>
          \/ \E l \in DOMAIN q : \E i \in DOMAIN q[l] : y = <<"queue", l, i, q[l][i]>>
          \/ \E i \in DOMAIN handled : y = <<"handled", 0, i, handled[i]>>
      BY <1>14, SpotKinds
    <3>2. ASSUME NEW l \in Link, NEW i \in DOMAIN wire[l], y = <<"wire", l, i, wire[l][i]>>
          PROVE  y \in Spots /\ \E a, o, j, d : /\ y = <<a, o, j, d>> /\ a # "buf" /\ a # "queue"
                                                /\ ~(a = "block" /\ o = b)
      BY <3>2, SpotKinds DEF Spots
    <3>3. ASSUME NEW e \in Block, NEW i \in DOMAIN lives[e], y = <<"block", e, i, lives[e][i]>>
          PROVE  y \in Spots /\ \E a, o, j, d : /\ y = <<a, o, j, d>> /\ a # "buf" /\ a # "queue"
                                                /\ ~(a = "block" /\ o = b)
      <4>0. DOMAIN << >> = {}
        OBVIOUS
      <4>1. e # b /\ lives[e] = Lives[e]
        BY <1>11, <3>3, <4>0
      <4>2. y \in Spots
        BY <3>3, <4>1, SpotKinds DEF Spots
      <4>3. QED BY <3>3, <4>1, <4>2
    <3>4. ASSUME NEW i \in DOMAIN put.piece, y = <<"put", 0, i, put.piece[i]>>
          PROVE  y \in Spots /\ \E a, o, j, d : /\ y = <<a, o, j, d>> /\ a # "buf" /\ a # "queue"
                                                /\ ~(a = "block" /\ o = b)
      BY <3>4, SpotKinds DEF Spots
    <3>5. ASSUME NEW i \in DOMAIN handled, y = <<"handled", 0, i, handled[i]>>
          PROVE  y \in Spots /\ \E a, o, j, d : /\ y = <<a, o, j, d>> /\ a # "buf" /\ a # "queue"
                                                /\ ~(a = "block" /\ o = b)
      BY <3>5, SpotKinds DEF Spots
    <3>6. QED BY <3>1, <3>2, <3>3, <3>4, <3>5
  <2>7. QED BY <2>2, <2>3, <2>4, <2>5, <2>6
<1> HIDE DEF PartOf, Cuts
<1>19. ASSUME NEW y \in Y PROVE f[y] \in Spots /\ f[y][4] = y[4]
  <2>1. ASSUME NEW k \in 1 .. r + 1, NEW i \in 1 .. Len(Part(c, k)),
               f[y] = WasAt(at[k] + i, n, b, Part(c, k)[i]),
               y = IF k = r + 1 THEN <<"buf", 0, i, Part(c, k)[i]>>
                   ELSE <<"queue", k + m, i, Part(c, k)[i]>>
        PROVE  f[y] \in Spots /\ f[y][4] = y[4]
    <3>1. f[y] \in Spots
      BY <1>15, <1>17, <2>1
    <3>2. f[y][4] = Part(c, k)[i]
      BY <2>1 DEF WasAt
    <3>3. y[4] = Part(c, k)[i]
      BY <2>1
    <3>4. QED BY <3>1, <3>2, <3>3
  <2>2. QED BY <1>18, <2>1
<1>20. ASSUME NEW y \in Y, NEW z \in Y, f[y] = f[z] PROVE y = z
  <2> DEFINE Moves(x, k, i) ==
               /\ f[x] = WasAt(at[k] + i, n, b, Part(c, k)[i])
               /\ x = IF k = r + 1 THEN <<"buf", 0, i, Part(c, k)[i]>>
                      ELSE <<"queue", k + m, i, Part(c, k)[i]>>
             Stays(x) == /\ f[x] = x
                         /\ \E a, o, i, d : x = <<a, o, i, d>> /\ a # "buf" /\ ~(a = "block" /\ o = b)
  <2>1. \A x \in Y : Stays(x) \/ \E k \in 1 .. r + 1 : \E i \in 1 .. Len(Part(c, k)) : Moves(x, k, i)
    BY <1>18
  <2>2. ASSUME NEW x, NEW v, Stays(x), NEW k \in 1 .. r + 1, NEW i \in 1 .. Len(Part(c, k)), Moves(v, k, i)
        PROVE  f[x] # f[v]
    <3>1. PICK a, o, j, d : f[x] = <<a, o, j, d>> /\ a # "buf" /\ ~(a = "block" /\ o = b)
      BY <2>2
    <3>2. \E e, d1 : f[v] = <<"buf", 0, e, d1>> \/ f[v] = <<"block", b, e, d1>>
      BY <2>2 DEF WasAt
    <3>3. QED BY <3>1, <3>2
  <2>3. ASSUME NEW k \in 1 .. r + 1, NEW i \in 1 .. Len(Part(c, k)), Moves(y, k, i),
               NEW l \in 1 .. r + 1, NEW j \in 1 .. Len(Part(c, l)), Moves(z, l, j)
        PROVE  y = z
    <3>1. WasAt(at[k] + i, n, b, Part(c, k)[i]) = WasAt(at[l] + j, n, b, Part(c, l)[j])
      BY <1>20, <2>3
    <3>2. at[k] + i \in Nat /\ at[l] + j \in Nat
      BY <1>17
    <3>3. at[k] + i = at[l] + j
      BY <3>1, <3>2, WasAtOnce
    <3>4. k = l /\ i = j
      BY <1>5, <1>13, <3>3, PartsApart
    <3>5. QED BY <2>3, <3>4
  <2>4. Stays(y) /\ Stays(z) => y = z
    BY <1>20
  <2> HIDE DEF Moves, Stays
  <2>5. QED BY <1>20, <2>1, <2>2, <2>3, <2>4
<1>21. EachOnce(Y) /\ UpTo(Y, sent)
  <2>1. Traces(Y, Spots, f)
    BY <1>19, <1>20 DEF Traces
  <2>2. EachOnce(Spots) /\ UpTo(Spots, sent)
    BY DEF Once
  <2>3. QED BY <2>1, <2>2, Traced
<1>22. QED BY <1>9, <1>14, <1>21 DEF Once, EachOnce, UpTo

LEMMA OncePoll ==
  TypeInv /\ OnceInv /\ (Poll4G \/ PollEth) => OnceInv'
<1> SUFFICES ASSUME TypeInv, OnceInv, Poll4G \/ PollEth, trouble' # "torn" PROVE Once'
  BY DEF OnceInv
<1>1. RecvNetFrameAndPushToRxQueue
  BY DEF Poll4G, PollEth
<1>2. wire' = wire /\ put' = put /\ handled' = handled /\ sent' = sent
  BY <1>1 DEF RecvNetFrameAndPushToRxQueue, net
<1>3. CASE Used # {} /\ TakeBlock
  <2>1. trouble # "torn"
    <3>1. trouble' = "torn" \/ \E h : trouble' = Worse("rough", h)
      BY <1>3 DEF TakeBlock, Push
    <3>2. QED BY <3>1, WorseTorn
  <2>2. Once
    BY <2>1 DEF OnceInv
  <2>3. QED BY <1>2, <1>3, <2>2, OnceTakes
<1>4. CASE Used = {} /\ TakeNothing
  <2>1. Once
    BY <1>4, WorseTorn DEF TakeNothing, OnceInv
  <2>2. blocks' = blocks /\ queue' = queue /\ (recv_buf' = recv_buf \/ recv_buf' = << >>)
    BY <1>4 DEF TakeNothing
  <2>3. \A b \in Block : Live(b)' = Live(b) /\ (blocks[b].count)' <= 1
    BY <1>2, <2>1, <2>2 DEF Live, Used, Free, Once
  <2>4. QED BY <1>2, <2>1, <2>2, <2>3, OnceLost
<1>5. QED BY <1>1, <1>3, <1>4 DEF RecvNetFrameAndPushToRxQueue

LEMMA OnceStep == TypeInv /\ OnceInv /\ [Next]_vars => OnceInv'
BY OnceQuiet, OnceUSART6, OnceReceive, OnceFill, OnceServerSends, OnceHandle, OncePoll DEF Next

(* No request of the server is handled twice, unless a block was torn.       *)
THEOREM RequestsHandledOnce == Spec => []HandledOnce
<1>1. TypeInv /\ OnceInv => HandledOnce
  <2> SUFFICES ASSUME TypeInv, OnceInv, trouble # "torn",
                      NEW i \in DOMAIN handled, NEW j \in DOMAIN handled, handled[i] = handled[j]
               PROVE  i = j
    BY DEF HandledOnce, IsInjective
  <2>0. handled \in Seq(1 .. NFrame)
    BY DEF TypeInv, TypeOK
  <2>1. handled[i] \in 1 .. NFrame
    <3>1. PICK S : S = 1 .. NFrame
      OBVIOUS
    <3>2. handled \in Seq(S)
      BY <2>0, <3>1
    <3>3. i \in 1 .. Len(handled)
      BY <3>2
    <3>4. handled[i] \in S
      BY <3>2, <3>3, ElementOfSeq
    <3>5. QED BY <3>1, <3>4
  <2>2. <<"handled", 0, i, handled[i]>> \in Spots /\ <<"handled", 0, j, handled[j]>> \in Spots
    BY SpotKinds DEF Spots
  <2>3. <<"handled", 0, i, handled[i]>> = <<"handled", 0, j, handled[j]>>
    <3>1. EachOnce(Spots) /\ handled[i] >= 1
      BY <2>1, StreamAssumption DEF OnceInv, Once
    <3>2. QED BY <2>2, <3>1 DEF EachOnce
  <2>4. QED BY <2>3
<1>2. QED BY TypeInit, TypeStep, OnceInit, OnceStep, <1>1, PTL DEF Spec

-----------------------------------------------------------------------------
(* The sequences of a list, one behind the other: what FlattenSeq computes,  *)
(* front by front.                                                           *)
Fronts(s, f) == f = [i \in 1 .. Len(s) |-> IF i = 1 THEN s[i] ELSE f[i - 1] \o s[i]]

(* What holds of the empty sequence and of each one longer by an element     *)
(* than one of which it holds, holds of all.                                 *)
LEMMA EachAppend ==
  ASSUME NEW S, NEW Q \in SUBSET Seq(S), << >> \in Q,
         \A s \in Q : \A e \in S : Append(s, e) \in Q
  PROVE  Q = Seq(S)
<1>1. ASSUME NEW s \in Seq(S), \A t \in Seq(S) : Len(t) < Len(s) => t \in Q PROVE s \in Q
  <2>1. CASE s = << >>
    BY <2>1
  <2>2. CASE s # << >>
    <3>1. PICK t \in Seq(S), e \in S : s = Append(t, e)
      BY <2>2, SequenceEmptyOrAppend
    <3>2. Len(t) < Len(s)
      BY <3>1
    <3>3. t \in Q
      BY <1>1, <3>2
    <3>4. QED BY <3>1, <3>3
  <2>3. QED BY <2>1, <2>2
<1>2. QED BY ONLY <1>1, Q \in SUBSET Seq(S), EachSequence

LEMMA FrontsAppend ==
  ASSUME NEW S, NEW s \in Seq(Seq(S)), NEW e \in Seq(S), NEW f, Fronts(s, f)
  PROVE  LET last == IF s = << >> THEN e ELSE f[Len(s)] \o e
         IN Fronts(Append(s, e), [i \in 1 .. Len(s) + 1 |-> IF i <= Len(s) THEN f[i] ELSE last])
<1> DEFINE last == IF s = << >> THEN e ELSE f[Len(s)] \o e
           g == [i \in 1 .. Len(s) + 1 |-> IF i <= Len(s) THEN f[i] ELSE last]
<1>1. PICK n \in Nat : n = Len(s)
  OBVIOUS
<1>2. PICK t : t = Append(s, e) /\ Len(t) = n + 1 /\ \A i \in 1 .. n + 1 : t[i] = IF i <= n THEN s[i] ELSE e
  <2>1. PICK E : E = Seq(S)
    OBVIOUS
  <2>2. s \in Seq(E) /\ e \in E
    BY <2>1
  <2>3. PICK t : t = Append(s, e)
    OBVIOUS
  <2>4. Len(t) = Len(s) + 1 /\ (\A i \in 1 .. Len(s) : t[i] = s[i]) /\ t[Len(s) + 1] = e
    BY <2>2, <2>3, AppendProperties
  <2>5. ASSUME NEW i \in 1 .. n + 1 PROVE t[i] = IF i <= n THEN s[i] ELSE e
    BY <1>1, <2>4
  <2>6. QED BY <1>1, <2>3, <2>4, <2>5
<1>3. g = [i \in 1 .. n + 1 |-> IF i <= n THEN f[i] ELSE last]
  BY <1>1
<1>4. last = IF n = 0 THEN e ELSE f[n] \o e
  BY <1>1, EmptySeq
<1>5. f = [i \in 1 .. n |-> IF i = 1 THEN s[i] ELSE f[i - 1] \o s[i]]
  BY <1>1 DEF Fronts
<1> HIDE DEF g, last
<1>6. ASSUME NEW i \in 1 .. n + 1 PROVE g[i] = IF i = 1 THEN t[i] ELSE g[i - 1] \o t[i]
  <2>1. CASE i <= n
    <3>1. i \in 1 .. n /\ g[i] = f[i] /\ t[i] = s[i] /\ (i # 1 => i - 1 \in 1 .. n /\ g[i - 1] = f[i - 1])
      BY <1>2, <1>3, <2>1
    <3>2. f[i] = IF i = 1 THEN s[i] ELSE f[i - 1] \o s[i]
      BY <1>5, <3>1
    <3>3. QED BY <3>1, <3>2
  <2>2. CASE ~(i <= n)
    <3>1. i = n + 1 /\ g[i] = last /\ t[i] = e
      BY <1>2, <1>3, <2>2
    <3>2. n # 0 => i # 1 /\ i - 1 = n /\ g[n] = f[n]
      BY <1>3, <3>1
    <3>3. QED BY <1>4, <3>1, <3>2
  <2>3. QED BY <2>1, <2>2
<1>7. g = [i \in 1 .. n + 1 |-> IF i = 1 THEN t[i] ELSE g[i - 1] \o t[i]]
  BY <1>3, <1>6
<1>8. Fronts(t, g)
  BY <1>2, <1>7 DEF Fronts
<1>9. QED BY <1>2, <1>8 DEF g, last

LEMMA FrontsExist ==
  ASSUME NEW S
  PROVE  \A s \in Seq(Seq(S)) : \E f : Fronts(s, f)
<1> DEFINE Q == {s \in Seq(Seq(S)) : \E f : Fronts(s, f)}
<1>1. << >> \in Q
  <2>1. [i \in 1 .. 0 |-> << >>] = [i \in 1 .. 0 |-> IF i = 1 THEN << >>[i] ELSE [j \in 1 .. 0 |-> << >>][i - 1] \o << >>[i]]
    OBVIOUS
  <2>2. Fronts(<< >>, [i \in 1 .. 0 |-> << >>])
    BY <2>1 DEF Fronts
  <2>3. QED BY <2>2
<1>2. ASSUME NEW s \in Q, NEW e \in Seq(S) PROVE Append(s, e) \in Q
  <2>1. PICK f : Fronts(s, f)
    OBVIOUS
  <2>2. \E g : Fronts(Append(s, e), g)
    BY <2>1, FrontsAppend
  <2>3. QED BY <2>2
<1> HIDE DEF Q
<1>3. Q \in SUBSET Seq(Seq(S))
  BY DEF Q
<1>4. Q = Seq(Seq(S))
  BY ONLY <1>1, <1>2, <1>3, EachAppend
<1>5. QED BY <1>4 DEF Q

LEMMA FrontsAgree ==
  ASSUME NEW s, NEW f, NEW g, Len(s) \in Nat, Fronts(s, f), Fronts(s, g)
  PROVE  f = g
<1> DEFINE N == {n \in Nat : n + 1 \in 1 .. Len(s) => f[n + 1] = g[n + 1]}
<1>1. PICK k \in Nat : k = Len(s)
  OBVIOUS
<1>2. /\ f = [i \in 1 .. k |-> IF i = 1 THEN s[i] ELSE f[i - 1] \o s[i]]
      /\ g = [i \in 1 .. k |-> IF i = 1 THEN s[i] ELSE g[i - 1] \o s[i]]
  BY <1>1 DEF Fronts
<1>3. 0 \in N
  BY <1>1, <1>2
<1>4. ASSUME NEW n \in N PROVE n + 1 \in N
  <2>1. SUFFICES ASSUME n + 1 + 1 \in 1 .. k PROVE f[n + 1 + 1] = g[n + 1 + 1]
    BY <1>1
  <2>2. n \in Nat /\ n + 1 \in 1 .. k /\ n + 1 + 1 # 1 /\ n + 1 + 1 - 1 = n + 1
    BY <1>1, <2>1
  <2>3. f[n + 1] = g[n + 1]
    BY <1>1, <2>2
  <2>4. f[n + 1 + 1] = f[n + 1] \o s[n + 1 + 1] /\ g[n + 1 + 1] = g[n + 1] \o s[n + 1 + 1]
    <3>1. PICK i \in 1 .. k : i = n + 1 + 1
      BY <2>1
    <3>2. i # 1 /\ i - 1 = n + 1
      BY <2>2, <3>1
    <3>3. f[i] = f[i - 1] \o s[i]
      BY <1>2, <3>2
    <3>4. g[i] = g[i - 1] \o s[i]
      BY <1>2, <3>2
    <3>5. QED BY <3>1, <3>2, <3>3, <3>4
  <2>5. QED BY ONLY <2>3, <2>4, Zenon
<1> HIDE DEF N
<1>5. N = Nat
  <2>1. N \in SUBSET Nat
    BY DEF N
  <2>2. QED BY <1>3, <1>4, <2>1, EachNumber
<1>6. ASSUME NEW i \in 1 .. k PROVE f[i] = g[i]
  <2>1. i - 1 \in N /\ i - 1 + 1 = i
    BY <1>5
  <2>2. QED BY <1>1, <2>1 DEF N
<1>7. QED BY <1>2, <1>6

LEMMA FlattenIs ==
  ASSUME NEW s, Len(s) \in Nat, NEW f, Fronts(s, f)
  PROVE  FlattenSeq(s) = IF Len(s) = 0 THEN s ELSE f[Len(s)]
<1> DEFINE h == CHOOSE flatten : flatten = [i \in 1 .. Len(s) |-> IF i = 1 THEN s[i] ELSE flatten[i - 1] \o s[i]]
<1>1. FlattenSeq(s) = IF Len(s) = 0 THEN s ELSE h[Len(s)]
  BY DEF FlattenSeq
<1>2. Fronts(s, h)
  BY DEF Fronts
<1> HIDE DEF h
<1>3. h = f
  BY <1>2, FrontsAgree
<1>4. QED BY <1>1, <1>3

LEMMA FlattenAppend ==
  ASSUME NEW S, NEW s \in Seq(Seq(S)), NEW e \in Seq(S)
  PROVE  FlattenSeq(Append(s, e)) = IF s = << >> THEN e ELSE FlattenSeq(s) \o e
<1> DEFINE last(f) == IF s = << >> THEN e ELSE f[Len(s)] \o e
           g(f) == [i \in 1 .. Len(s) + 1 |-> IF i <= Len(s) THEN f[i] ELSE last(f)]
<1>1. PICK f : Fronts(s, f)
  BY FrontsExist
<1>2. PICK t : t = Append(s, e)
  OBVIOUS
<1>3. Fronts(t, g(f))
  BY <1>1, <1>2, FrontsAppend
<1>4. Len(t) = Len(s) + 1 /\ Len(s) \in Nat
  <2>1. PICK E : E = Seq(S)
    OBVIOUS
  <2>2. s \in Seq(E) /\ e \in E
    BY <2>1
  <2>3. QED BY <1>2, <2>2, AppendProperties
<1>5. FlattenSeq(t) = g(f)[Len(t)]
  <2>1. Len(t) \in Nat /\ Len(t) # 0
    BY <1>4
  <2> HIDE DEF g
  <2>2. QED BY <1>3, <2>1, FlattenIs
<1>6. g(f)[Len(t)] = last(f)
  BY <1>4
<1>7. s # << >> => FlattenSeq(s) = f[Len(s)]
  <2>1. s # << >> => Len(s) # 0
    BY EmptySeq
  <2>2. QED BY <1>1, <1>4, <2>1, FlattenIs
<1>8. QED BY <1>2, <1>5, <1>6, <1>7

LEMMA FlattenEmpty == FlattenSeq(<< >>) = << >>
BY DEF FlattenSeq

LEMMA FlattenType ==
  ASSUME NEW S
  PROVE  \A s \in Seq(Seq(S)) : FlattenSeq(s) \in Seq(S)
<1> DEFINE Q == {s \in Seq(Seq(S)) : FlattenSeq(s) \in Seq(S)}
<1>1. << >> \in Q
  <2>1. << >> \in Seq(Seq(S)) /\ << >> \in Seq(S)
    BY EmptySeq
  <2>2. QED BY <2>1, FlattenEmpty
<1>2. ASSUME NEW s \in Q, NEW e \in Seq(S) PROVE Append(s, e) \in Q
  <2>1. PICK p \in Seq(S) : p = FlattenSeq(s)
    OBVIOUS
  <2>2. FlattenSeq(Append(s, e)) = e \/ FlattenSeq(Append(s, e)) = p \o e
    BY <2>1, FlattenAppend
  <2>3. FlattenSeq(Append(s, e)) \in Seq(S)
    <3>1. e \in Seq(S) /\ p \o e \in Seq(S)
      OBVIOUS
    <3>2. QED BY ONLY <2>2, <3>1
  <2>4. Append(s, e) \in Seq(Seq(S))
    OBVIOUS
  <2>5. QED BY <2>3, <2>4
<1> HIDE DEF Q
<1>3. Q \in SUBSET Seq(Seq(S))
  BY DEF Q
<1>4. Q = Seq(Seq(S))
  BY ONLY <1>1, <1>2, <1>3, EachAppend
<1>5. QED BY <1>4 DEF Q

LEMMA FlattenAppends ==
  ASSUME NEW S, NEW s \in Seq(Seq(S)), NEW e \in Seq(S)
  PROVE  FlattenSeq(Append(s, e)) = FlattenSeq(s) \o e
<1>1. s = << >> => FlattenSeq(s) \o e = e
  BY FlattenEmpty, ConcatEmptySeq
<1>2. QED BY <1>1, FlattenAppend

LEMMA FlattenConcat ==
  ASSUME NEW S, NEW s \in Seq(Seq(S)), NEW t \in Seq(Seq(S))
  PROVE  FlattenSeq(s \o t) = FlattenSeq(s) \o FlattenSeq(t)
<1> DEFINE Q == {u \in Seq(Seq(S)) : FlattenSeq(s \o u) = FlattenSeq(s) \o FlattenSeq(u)}
<1>1. << >> \in Q
  <2>1. s \o << >> = s
    BY ConcatEmptySeq
  <2>2. FlattenSeq(s) \o << >> = FlattenSeq(s)
    BY FlattenType, ConcatEmptySeq
  <2>3. << >> \in Seq(Seq(S))
    BY EmptySeq
  <2>4. QED BY <2>1, <2>2, <2>3, FlattenEmpty
<1>2. ASSUME NEW u \in Q, NEW e \in Seq(S) PROVE Append(u, e) \in Q
  <2>1. PICK E : E = Seq(S)
    OBVIOUS
  <2>2. s \in Seq(E) /\ u \in Seq(E) /\ e \in E
    BY <2>1
  <2>3. s \o Append(u, e) = Append(s \o u, e) /\ s \o u \in Seq(E) /\ Append(u, e) \in Seq(E)
    <3>1. s \o Append(u, e) = Append(s \o u, e)
      BY ONLY <2>2
    <3>2. s \o u \in Seq(E) /\ Append(u, e) \in Seq(E)
      BY <2>2, ConcatProperties, AppendProperties
    <3>3. QED BY <3>1, <3>2
  <2>4. PICK p \in Seq(S), q \in Seq(S) : p = FlattenSeq(s) /\ q = FlattenSeq(u)
    BY <2>1, <2>2, FlattenType
  <2>5. FlattenSeq(s \o Append(u, e)) = FlattenSeq(s \o u) \o e
    BY <2>1, <2>3, FlattenAppends
  <2>6. FlattenSeq(Append(u, e)) = q \o e
    BY <2>1, <2>2, <2>4, FlattenAppends
  <2>7. FlattenSeq(s \o u) = p \o q
    BY <2>4
  <2>8. (p \o q) \o e = p \o (q \o e)
    BY ONLY p \in Seq(S), q \in Seq(S), e \in Seq(S)
  <2>9. FlattenSeq(s \o Append(u, e)) = FlattenSeq(s) \o FlattenSeq(Append(u, e))
    BY ONLY <2>4, <2>5, <2>6, <2>7, <2>8
  <2>10. QED BY <2>1, <2>3, <2>9
<1> HIDE DEF Q
<1>3. Q \in SUBSET Seq(Seq(S))
  BY DEF Q
<1>4. Q = Seq(Seq(S))
  BY ONLY <1>1, <1>2, <1>3, EachAppend
<1>5. QED BY <1>4 DEF Q

(* One of them alone, when the others are empty.                             *)
LEMMA FlattenOne ==
  ASSUME NEW n \in Nat, NEW b \in 1 .. n, NEW s \in [1 .. n -> Seq(Byte)],
         \A i \in 1 .. n : i # b => s[i] = << >>
  PROVE  FlattenSeq(s) = s[b]
<1> DEFINE f == [i \in 1 .. n |-> IF i < b THEN << >> ELSE s[b]]
<1>1. Len(s) = n /\ \A i \in 1 .. n : s[i] \in Seq(Byte)
  OBVIOUS
<1>2. ASSUME NEW i \in 1 .. n PROVE f[i] = IF i = 1 THEN s[i] ELSE f[i - 1] \o s[i]
  <2>1. s[b] \o << >> = s[b] /\ << >> \o s[b] = s[b] /\ << >> \o << >> = << >>
    BY <1>1, ConcatEmptySeq
  <2>2. i # 1 => i - 1 \in 1 .. n
    OBVIOUS
  <2>3. CASE i < b
    BY <2>1, <2>2, <2>3
  <2>4. CASE i = b
    <3>1. f[i] = s[i] /\ (i # 1 => f[i - 1] = << >>)
      BY <2>2, <2>4
    <3>2. QED BY <2>1, <2>4, <3>1
  <2>5. CASE i > b
    <3>1. s[i] = << >> /\ i # 1 /\ f[i] = s[b] /\ f[i - 1] = s[b]
      BY <2>2, <2>5
    <3>2. QED BY <2>1, <3>1
  <2>6. QED BY <2>3, <2>4, <2>5
<1>3. Fronts(s, f)
  BY <1>1, <1>2 DEF Fronts
<1>4. f[Len(s)] = s[b] /\ Len(s) \in Nat /\ Len(s) # 0
  BY <1>1
<1> HIDE DEF f
<1>5. QED BY <1>3, <1>4, FlattenIs

(* What the server writes: a frame behind the other.  Framed is any front of  *)
(* that, Complete one that ends where a frame does.                          *)
Follows(a, b) ==
  \/ a = T /\ b = H
  \/ a = H /\ b \in 1 .. NFrame
  \/ a \in 1 .. NFrame /\ b = T

Framed(s) ==
  /\ s # << >> => s[1] = H
  /\ \A i \in 1 .. Len(s) - 1 : Follows(s[i], s[i + 1])

Complete(s) == Framed(s) /\ (s # << >> => s[Len(s)] = T)

LEMMA FollowsFacts ==
  ASSUME NEW a, NEW b
  PROVE  /\ Follows(a, b) /\ b = H => a = T
         /\ Follows(a, b) /\ a = T => b = H
         /\ Follows(a, b) /\ a = H => b \in 1 .. NFrame /\ b # T
         /\ Follows(a, b) /\ a \in 1 .. NFrame => b = T
         /\ Follows(T, H) /\ T # H
<1>1. H \notin 1 .. NFrame /\ T \notin 1 .. NFrame /\ T # H
  BY StreamAssumption DEF H, T
<1> HIDE DEF H, T
<1>2. QED BY <1>1 DEF Follows

LEMMA Joined ==
  ASSUME NEW x \in Seq(Byte), NEW y \in Seq(Byte)
  PROVE  /\ x \o y \in Seq(Byte) /\ Len(x) \in Nat /\ Len(y) \in Nat
         /\ Len(x \o y) = Len(x) + Len(y)
         /\ \A i \in 1 .. Len(x) : (x \o y)[i] = x[i]
         /\ \A i \in 1 .. Len(y) : (x \o y)[Len(x) + i] = y[i]
         /\ (x = << >> <=> Len(x) = 0) /\ (y = << >> <=> Len(y) = 0) /\ (x \o y = << >> <=> Len(x \o y) = 0)
         /\ x = << >> => x \o y = y
         /\ y = << >> => x \o y = x
<1>1. /\ x \o y \in Seq(Byte) /\ Len(x) \in Nat /\ Len(y) \in Nat
      /\ Len(x \o y) = Len(x) + Len(y)
  BY ConcatProperties
<1>2. /\ (x = << >> <=> Len(x) = 0) /\ (y = << >> <=> Len(y) = 0) /\ (x \o y = << >> <=> Len(x \o y) = 0)
  BY <1>1, EmptySeq
<1>3. (x = << >> => x \o y = y) /\ (y = << >> => x \o y = x)
  BY ConcatEmptySeq
<1>4. ASSUME NEW i \in 1 .. Len(x) PROVE (x \o y)[i] = x[i]
  OBVIOUS
<1>5. ASSUME NEW i \in 1 .. Len(y) PROVE (x \o y)[Len(x) + i] = y[i]
  OBVIOUS
<1>6. QED BY <1>1, <1>2, <1>3, <1>4, <1>5

Join(c, m, n, x, y) ==
  /\ c = x \o y /\ m = Len(x) /\ n = Len(y) /\ Len(c) = m + n
  /\ \A i \in 1 .. m : c[i] = x[i]
  /\ \A i \in 1 .. n : c[m + i] = y[i]
  /\ (x = << >> <=> m = 0) /\ (y = << >> <=> n = 0) /\ (c = << >> <=> m + n = 0)

LEMMA JoinedAs ==
  ASSUME NEW x \in Seq(Byte), NEW y \in Seq(Byte)
  PROVE  \E c \in Seq(Byte), m \in Nat, n \in Nat : Join(c, m, n, x, y)
<1>1. x \o y \in Seq(Byte) /\ Len(x) \in Nat /\ Len(y) \in Nat
  BY Joined
<1> WITNESS x \o y \in Seq(Byte), Len(x) \in Nat, Len(y) \in Nat
<1>2. Len(x \o y) = Len(x) + Len(y)
  BY Joined
<1>3. QED BY <1>2, Joined DEF Join

LEMMA FramedFront ==
  ASSUME NEW x \in Seq(Byte), NEW y \in Seq(Byte), Framed(x \o y)
  PROVE  Framed(x)
<1>0. PICK c \in Seq(Byte), m \in Nat, n \in Nat : Join(c, m, n, x, y)
  BY JoinedAs
<1>1. /\ c = x \o y /\ m = Len(x) /\ n = Len(y) /\ Len(c) = m + n
      /\ \A i \in 1 .. m : c[i] = x[i]
      /\ \A i \in 1 .. n : c[m + i] = y[i]
      /\ (x = << >> <=> m = 0) /\ (y = << >> <=> n = 0) /\ (c = << >> <=> m + n = 0)
  BY <1>0 DEF Join
<1>2. (c # << >> => c[1] = H) /\ \A i \in 1 .. m + n - 1 : Follows(c[i], c[i + 1])
  BY <1>1 DEF Framed
<1>3. x # << >> => x[1] = H
  BY <1>1, <1>2
<1>4. ASSUME NEW i \in 1 .. m - 1 PROVE Follows(x[i], x[i + 1])
  <2>1. i \in 1 .. m + n - 1 /\ i \in 1 .. m /\ i + 1 \in 1 .. m
    BY <1>1
  <2>2. QED BY <1>1, <1>2, <2>1
<1>5. QED BY <1>1, <1>3, <1>4 DEF Framed

LEMMA FramedBehind ==
  ASSUME NEW x \in Seq(Byte), NEW y \in Seq(Byte), Complete(x), Framed(x \o y)
  PROVE  Framed(y)
<1>0. PICK c \in Seq(Byte), m \in Nat, n \in Nat : Join(c, m, n, x, y)
  BY JoinedAs
<1>1. /\ c = x \o y /\ m = Len(x) /\ n = Len(y) /\ Len(c) = m + n
      /\ \A i \in 1 .. m : c[i] = x[i]
      /\ \A i \in 1 .. n : c[m + i] = y[i]
      /\ (x = << >> <=> m = 0) /\ (y = << >> <=> n = 0) /\ (c = << >> <=> m + n = 0)
  BY <1>0 DEF Join
<1>2. /\ c # << >> => c[1] = H
      /\ \A i \in 1 .. m + n - 1 : Follows(c[i], c[i + 1])
      /\ x # << >> => x[m] = T
  BY <1>1 DEF Framed, Complete
<1>3. ASSUME y # << >> PROVE y[1] = H
  <2>1. n # 0 /\ c[m + 1] = y[1] /\ c # << >>
    BY <1>1, <1>3
  <2>2. CASE m = 0
    BY <1>2, <2>1, <2>2
  <2>3. CASE m # 0
    <3>1. m \in 1 .. m + n - 1 /\ c[m] = x[m] /\ x # << >>
      BY <1>1, <2>1, <2>3
    <3>2. Follows(T, c[m + 1])
      BY <1>2, <3>1
    <3>3. QED BY <2>1, <3>2, FollowsFacts
  <2>4. QED BY <2>2, <2>3
<1>4. ASSUME NEW i \in 1 .. n - 1 PROVE Follows(y[i], y[i + 1])
  <2>1. m + i \in 1 .. m + n - 1 /\ i \in 1 .. n /\ i + 1 \in 1 .. n /\ m + i + 1 = m + (i + 1)
    BY <1>1
  <2>2. c[m + i] = y[i] /\ c[m + (i + 1)] = y[i + 1]
    BY <1>1, <2>1
  <2>3. Follows(c[m + i], c[m + i + 1])
    BY <1>2, <2>1
  <2>4. QED BY <2>1, <2>2, <2>3
<1>5. QED BY <1>1, <1>3, <1>4 DEF Framed

LEMMA CompleteBehind ==
  ASSUME NEW x \in Seq(Byte), NEW y \in Seq(Byte), Complete(x), Complete(x \o y)
  PROVE  Complete(y)
<1>1. Framed(y)
  BY FramedBehind DEF Complete
<1>2. y # << >> => y[Len(y)] = T
  <2>1. SUFFICES ASSUME y # << >> PROVE y[Len(y)] = T
    OBVIOUS
  <2>2. Len(y) \in 1 .. Len(y) /\ x \o y # << >>
    BY <2>1, Joined
  <2>3. (x \o y)[Len(x \o y)] = T
    BY <2>2 DEF Complete
  <2>4. QED BY <2>2, <2>3, Joined
<1>3. QED BY <1>1, <1>2 DEF Complete

LEMMA CompleteBoth ==
  ASSUME NEW x \in Seq(Byte), NEW y \in Seq(Byte), Complete(x), Complete(y)
  PROVE  Complete(x \o y)
<1>0. PICK c \in Seq(Byte), m \in Nat, n \in Nat : Join(c, m, n, x, y)
  BY JoinedAs
<1>1. /\ c = x \o y /\ m = Len(x) /\ n = Len(y) /\ Len(c) = m + n
      /\ \A i \in 1 .. m : c[i] = x[i]
      /\ \A i \in 1 .. n : c[m + i] = y[i]
      /\ (x = << >> <=> m = 0) /\ (y = << >> <=> n = 0) /\ (c = << >> <=> m + n = 0)
  BY <1>0 DEF Join
<1>2. /\ x # << >> => x[1] = H /\ x[m] = T
      /\ \A i \in 1 .. m - 1 : Follows(x[i], x[i + 1])
      /\ y # << >> => y[1] = H /\ y[n] = T
      /\ \A i \in 1 .. n - 1 : Follows(y[i], y[i + 1])
  BY <1>1 DEF Framed, Complete
<1>3. ASSUME c # << >> PROVE c[1] = H /\ c[m + n] = T
  <2>1. CASE m = 0
    <3>1. n # 0 /\ c[m + 1] = y[1] /\ c[m + n] = y[n]
      BY <1>1, <1>3, <2>1
    <3>2. QED BY <1>1, <1>2, <2>1, <3>1
  <2>2. CASE m # 0 /\ n = 0
    <3>1. c[1] = x[1] /\ c[m] = x[m] /\ m + n = m
      BY <1>1, <2>2
    <3>2. QED BY <1>1, <1>2, <2>2, <3>1
  <2>3. CASE m # 0 /\ n # 0
    <3>1. c[1] = x[1] /\ c[m + n] = y[n]
      BY <1>1, <2>3
    <3>2. QED BY <1>1, <1>2, <2>3, <3>1
  <2>4. QED BY <2>1, <2>2, <2>3
<1>4. ASSUME NEW i \in 1 .. m + n - 1 PROVE Follows(c[i], c[i + 1])
  <2>1. CASE i < m
    <3>1. i \in 1 .. m - 1 /\ c[i] = x[i] /\ c[i + 1] = x[i + 1]
      BY <1>1, <2>1
    <3>2. QED BY <1>2, <3>1
  <2>2. CASE i = m
    <3>1. c[i] = x[m] /\ c[m + 1] = y[1] /\ m # 0 /\ n # 0
      BY <1>1, <2>2
    <3>2. QED BY <1>1, <1>2, <2>2, <3>1, FollowsFacts
  <2>3. CASE i > m
    <3>1. PICK j \in 1 .. n - 1 : j = i - m
      BY <2>3
    <3>2. c[m + j] = y[j] /\ c[m + (j + 1)] = y[j + 1]
      <4>1. j \in 1 .. n /\ j + 1 \in 1 .. n
        OBVIOUS
      <4>2. QED BY <1>1, <4>1
    <3>3. m + j = i /\ m + (j + 1) = i + 1
      BY <3>1
    <3>4. QED BY <1>2, <3>2, <3>3
  <2>4. QED BY <2>1, <2>2, <2>3
<1>5. QED BY <1>1, <1>3, <1>4 DEF Framed, Complete

(* Before a frame's start is the end of one.                                 *)
LEMMA CompleteApart ==
  ASSUME NEW x \in Seq(Byte), NEW y \in Seq(Byte), Complete(x \o y), y = << >> \/ y[1] = H
  PROVE  Complete(x) /\ Complete(y)
<1>1. Complete(x)
  <2>1. CASE y = << >>
    BY <2>1, Joined
  <2>2. CASE y # << >>
    <3>0. PICK c \in Seq(Byte), m \in Nat, n \in Nat : Join(c, m, n, x, y)
      BY JoinedAs
    <3>1. /\ c = x \o y /\ m = Len(x) /\ n = Len(y) /\ Len(c) = m + n
          /\ \A i \in 1 .. m : c[i] = x[i]
          /\ \A i \in 1 .. n : c[m + i] = y[i]
          /\ (x = << >> <=> m = 0) /\ (y = << >> <=> n = 0) /\ (c = << >> <=> m + n = 0)
      BY <3>0 DEF Join
    <3>2. ASSUME x # << >> PROVE x[m] = T
      <4>1. m \in 1 .. m + n - 1 /\ c[m] = x[m] /\ c[m + 1] = H
        BY <2>2, <3>1, <3>2
      <4>2. \A i \in 1 .. m + n - 1 : Follows(c[i], c[i + 1])
        BY <3>1 DEF Complete, Framed
      <4>3. Follows(x[m], H)
        BY <4>1, <4>2
      <4>4. QED BY <4>3, FollowsFacts
    <3>3. Framed(x)
      BY FramedFront DEF Complete
    <3>4. QED BY <3>1, <3>2, <3>3 DEF Complete
  <2>3. QED BY <2>1, <2>2
<1>2. QED BY <1>1, CompleteBehind

LEMMA FrameComplete == \A n \in 1 .. NFrame : Complete(Frame(n))
<1> SUFFICES ASSUME NEW n \in 1 .. NFrame PROVE Complete(Frame(n))
  OBVIOUS
<1>1. PICK f \in Seq(Byte) : f = Frame(n) /\ Len(f) = 3 /\ f[1] = H /\ f[2] = n /\ f[3] = T
  BY Bytes
<1>2. \A i \in 1 .. 3 - 1 : i = 1 \/ i = 2
  OBVIOUS
<1>3. Follows(H, n) /\ Follows(n, T)
  BY DEF Follows
<1>4. \A i \in 1 .. 3 - 1 : Follows(f[i], f[i + 1])
  BY <1>1, <1>2, <1>3
<1>5. QED BY <1>1, <1>4 DEF Complete, Framed

IsFrame(f) == \E n \in 1 .. NFrame : f = Frame(n)

LEMMA FlattenSingle ==
  ASSUME NEW f \in Seq(Byte)
  PROVE  FlattenSeq(<<f>>) = f
<1>1. Append(<< >>, f) = <<f>>
  OBVIOUS
<1>2. << >> \in Seq(Seq(Byte))
  BY EmptySeq
<1>3. FlattenSeq(Append(<< >>, f)) = f
  BY <1>2, FlattenAppend
<1>4. QED BY <1>1, <1>3

LEMMA FramesComplete ==
  ASSUME NEW fs \in Seq(Seq(Byte)), \A i \in 1 .. Len(fs) : IsFrame(fs[i])
  PROVE  Complete(FlattenSeq(fs)) /\ FlattenSeq(fs) \in Seq(Byte)
<1> DEFINE Q == {u \in Seq(Seq(Byte)) : (\A i \in 1 .. Len(u) : IsFrame(u[i])) => Complete(FlattenSeq(u))}
<1>1. << >> \in Q
  <2>1. << >> \in Seq(Seq(Byte))
    BY EmptySeq
  <2>2. Complete(<< >>)
    BY DEF Complete, Framed
  <2>3. QED BY <2>1, <2>2, FlattenEmpty
<1>2. ASSUME NEW u \in Q, NEW e \in Seq(Byte) PROVE Append(u, e) \in Q
  <2>1. PICK E : E = Seq(Byte)
    OBVIOUS
  <2>2. u \in Seq(E) /\ e \in E
    BY <2>1
  <2>3. PICK v \in Seq(E) : v = Append(u, e) /\ Len(v) = Len(u) + 1 /\ Len(u) \in Nat
                            /\ (\A i \in 1 .. Len(u) : v[i] = u[i]) /\ v[Len(u) + 1] = e
    <3>1. PICK v : v = Append(u, e)
      OBVIOUS
    <3>2. v \in Seq(E) /\ Len(v) = Len(u) + 1 /\ Len(u) \in Nat
      BY <2>2, <3>1, AppendProperties
    <3>3. (\A i \in 1 .. Len(u) : v[i] = u[i]) /\ v[Len(u) + 1] = e
      BY <2>2, <3>1, AppendProperties
    <3>4. QED BY <3>1, <3>2, <3>3
  <2>4. ASSUME \A i \in 1 .. Len(v) : IsFrame(v[i]) PROVE Complete(FlattenSeq(v))
    <3>1. ASSUME NEW i \in 1 .. Len(u) PROVE IsFrame(u[i])
      <4>1. i \in 1 .. Len(v) /\ v[i] = u[i]
        BY <2>3
      <4>2. QED BY <2>4, <4>1
    <3>2. IsFrame(e)
      <4>1. Len(u) + 1 \in 1 .. Len(v)
        BY <2>3
      <4>2. QED BY <2>3, <2>4, <4>1
    <3>3. PICK p \in Seq(Byte) : p = FlattenSeq(u)
      BY <2>1, <2>2, FlattenType
    <3>4. Complete(p) /\ Complete(e)
      BY <3>1, <3>2, <3>3, FrameComplete DEF IsFrame
    <3>5. FlattenSeq(v) = p \o e
      BY <2>1, <2>2, <2>3, <3>3, FlattenAppends
    <3>6. QED BY <3>4, <3>5, CompleteBoth
  <2>5. QED BY <2>1, <2>3, <2>4
<1> HIDE DEF Q
<1>3. Q \in SUBSET Seq(Seq(Byte))
  BY DEF Q
<1>4. Q = Seq(Seq(Byte))
  BY ONLY <1>1, <1>2, <1>3, EachAppend
<1>5. FlattenSeq(fs) \in Seq(Byte)
  BY FlattenType
<1>6. QED BY <1>4, <1>5 DEF Q

(* Where the first start and the first end are in what the server wrote.     *)
LEMMA FramedPos ==
  ASSUME NEW s \in Seq(Byte), Framed(s)
  PROVE  /\ Len(s) < 3 => ~(FirstPos(s, H) # 0 /\ FirstPos(s, T) > FirstPos(s, H))
         /\ Len(s) >= 3 => FirstPos(s, H) = 1 /\ FirstPos(s, T) = 3 /\ IsFrame(SubSeq(s, 1, 3))
<1>1. PICK n \in Nat : n = Len(s)
  OBVIOUS
<1>2. s \in Seq(Int)
  BY Bytes, SeqMonotonic
<1>3. /\ FirstPos(s, H) \in 0 .. n /\ FirstPos(s, T) \in 0 .. n
      /\ FirstPos(s, H) = 0 => \A i \in 1 .. n : s[i] # H
      /\ FirstPos(s, T) = 0 => \A i \in 1 .. n : s[i] # T
      /\ FirstPos(s, H) # 0 => \A i \in 1 .. FirstPos(s, H) - 1 : s[i] # H
      /\ FirstPos(s, T) # 0 => s[FirstPos(s, T)] = T /\ \A i \in 1 .. FirstPos(s, T) - 1 : s[i] # T
  BY <1>1, <1>2, FirstPosIs
<1>4. n >= 1 => s[1] = H /\ s[1] # T
  BY <1>1, FollowsFacts DEF Framed
<1>5. n >= 2 => s[2] \in 1 .. NFrame /\ s[2] # T
  <2>1. n >= 2 => Follows(s[1], s[1 + 1])
    BY <1>1 DEF Framed
  <2>2. QED BY <1>4, <2>1, FollowsFacts
<1>6. n >= 3 => s[3] = T
  <2>1. n >= 3 => Follows(s[2], s[2 + 1])
    BY <1>1 DEF Framed
  <2>2. QED BY <1>5, <2>1, FollowsFacts
<1>7. PICK h \in Nat, t \in Nat : h = FirstPos(s, H) /\ t = FirstPos(s, T)
  BY <1>3
<1>8. n >= 1 => h = 1
  <2>1. ASSUME n >= 1 PROVE h # 0 /\ ~(h > 1)
    <3>1. 1 \in 1 .. n /\ (h > 1 => 1 \in 1 .. h - 1)
      BY <2>1
    <3>2. QED BY <1>3, <1>4, <1>7, <2>1, <3>1
  <2>2. QED BY <2>1
<1>9. n < 3 => t = 0
  <2>1. SUFFICES ASSUME n < 3, t # 0 PROVE FALSE
    OBVIOUS
  <2>2. (t = 1 \/ t = 2) /\ t <= n /\ s[t] = T
    BY <1>3, <1>7, <2>1
  <2>3. QED BY <1>4, <1>5, <2>2
<1>10. n >= 3 => t = 3
  <2>1. SUFFICES ASSUME n >= 3 PROVE t = 3
    OBVIOUS
  <2>2. 3 \in 1 .. n /\ (t > 3 => 3 \in 1 .. t - 1)
    BY <2>1
  <2>3. t # 0 /\ ~(t > 3)
    BY <1>3, <1>6, <1>7, <2>1, <2>2
  <2>4. t # 1 /\ t # 2
    BY <1>3, <1>4, <1>5, <1>7, <2>1
  <2>5. QED BY <2>3, <2>4
<1>11. ASSUME n >= 3 PROVE IsFrame(SubSeq(s, 1, 3))
  <2>1. PICK f \in Seq(Byte) : f = SubSeq(s, 1, 3) /\ Len(f) = 3 /\ f[1] = s[1] /\ f[2] = s[2] /\ f[3] = s[3]
    <3>1. 1 \in Nat \ {0} /\ 3 \in Nat /\ 3 <= Len(s)
      BY <1>1, <1>11
    <3>2. SubSeq(s, 1, 3) \in Seq(Byte) /\ Len(SubSeq(s, 1, 3)) = IF 1 <= 3 THEN 3 - 1 + 1 ELSE 0
      BY <3>1, SubSeqIs
    <3>3. \A i \in 1 .. 3 - 1 + 1 : SubSeq(s, 1, 3)[i] = s[1 + i - 1]
      BY <3>1, SubSeqIs
    <3>4. PICK f : f = SubSeq(s, 1, 3)
      OBVIOUS
    <3>5. f \in Seq(Byte) /\ Len(f) = 3
      BY <3>2, <3>4
    <3>6. f[1] = s[1 + 1 - 1] /\ f[2] = s[1 + 2 - 1] /\ f[3] = s[1 + 3 - 1]
      BY <3>3, <3>4
    <3>7. f[1] = s[1] /\ f[2] = s[2] /\ f[3] = s[3]
      BY <3>6
    <3>8. QED BY <3>4, <3>5, <3>7
  <2>2. PICK m \in 1 .. NFrame : m = s[2]
    BY <1>5, <1>11
  <2>3. PICK g \in Seq(Byte) : g = Frame(m) /\ Len(g) = 3 /\ g[1] = H /\ g[2] = m /\ g[3] = T
    BY Bytes
  <2>4. \A i \in 1 .. 3 : i = 1 \/ i = 2 \/ i = 3
    OBVIOUS
  <2>5. \A i \in 1 .. 3 : f[i] = g[i]
    BY <1>4, <1>6, <1>11, <2>1, <2>2, <2>3, <2>4
  <2>6. f = g
    BY <2>1, <2>3, <2>5, SeqEqual
  <2>7. QED BY <2>1, <2>3, <2>6 DEF IsFrame
<1>12. QED BY <1>1, <1>7, <1>8, <1>9, <1>10, <1>11

Uncut(c, s) ==
  /\ \A i \in 1 .. Len(c.frames) : IsFrame(c.frames[i])
  /\ FlattenSeq(c.frames) \o c.rest = s

LEMMA CutExact ==
  \A s \in Seq(Byte) : Framed(s) => Uncut(Cut[s], s)
<1> DEFINE Q == {s \in Seq(Byte) : Framed(s) => Uncut(Cut[s], s)}
<1>1. ASSUME NEW s \in Seq(Byte), \A t \in Seq(Byte) : Len(t) < Len(s) => t \in Q
      PROVE  s \in Q
  <2>0. SUFFICES ASSUME Framed(s) PROVE Uncut(Cut[s], s)
    OBVIOUS
  <2>1. s \in Seq(Int)
    BY Bytes, SeqMonotonic
  <2>2. Cut[s] = Turn(Cut, s)
    BY <2>1, CutTurns
  <2>3. PICK n \in Nat : n = Len(s)
    OBVIOUS
  <2>4. CASE n < 3
    <3>1. ~(FirstPos(s, H) # 0 /\ FirstPos(s, T) > FirstPos(s, H))
      BY <2>0, <2>3, <2>4, FramedPos
    <3>2. Cut[s] = [frames |-> << >>, rest |-> s]
      BY <2>2, <3>1 DEF Turn
    <3>3. Cut[s].frames = << >> /\ Cut[s].rest = s /\ Len(<< >>) = 0
      BY <3>2
    <3>4. << >> \o s = s
      BY ConcatEmptySeq
    <3>5. QED BY <3>3, <3>4, FlattenEmpty DEF Uncut
  <2>5. CASE n >= 3
    <3>1. FirstPos(s, H) = 1 /\ FirstPos(s, T) = 3 /\ IsFrame(SubSeq(s, 1, 3))
      BY <2>0, <2>3, <2>5, FramedPos
    <3>2. PICK f \in Seq(Byte) : f = SubSeq(s, 1, 3) /\ IsFrame(f)
      BY <3>1, Bytes DEF IsFrame
    <3>3. PICK left \in Seq(Byte) : left = SubSeq(s, 4, n) /\ (n = 3 => left = << >>) /\ Len(left) < n /\ f \o left = s
      <4>1. 4 \in Nat \ {0} /\ n \in Nat /\ n <= Len(s)
        BY <2>3
      <4>2. SubSeq(s, 4, n) \in Seq(Byte) /\ Len(SubSeq(s, 4, n)) = IF 4 <= n THEN n - 4 + 1 ELSE 0
        BY <4>1, SubSeqIs
      <4>3. n = 3 => SubSeq(s, 4, n) = << >>
        BY <4>2, EmptySeq
      <4>4. SubSeq(s, 1, 3) \o SubSeq(s, 3 + 1, n) = SubSeq(s, 1, n)
        BY <2>3, <2>5, ConcatAdjacentSubSeq
      <4>5. SubSeq(s, 1, n) = s
        BY <2>3, SubSeqFull
      <4>6. Len(SubSeq(s, 4, n)) < n
        BY <2>5, <4>2
      <4>7. 3 + 1 = 4
        OBVIOUS
      <4>8. QED BY <3>2, <4>2, <4>3, <4>4, <4>5, <4>6, <4>7
    <3>4. Cut[s] = IF n > 3 THEN [frames |-> <<f>> \o Cut[left].frames, rest |-> Cut[left].rest]
                   ELSE [frames |-> <<f>>, rest |-> << >>]
      <4>1. 3 + 1 - 1 = 3 /\ 3 + 1 = 4
        OBVIOUS
      <4>2. QED BY <2>2, <2>3, <3>1, <3>2, <3>3, <4>1 DEF Turn
    <3>5. FlattenSeq(<<f>>) = f /\ <<f>> \in Seq(Seq(Byte)) /\ Len(<<f>>) = 1 /\ <<f>>[1] = f
      BY FlattenSingle
    <3>6. CASE n = 3
      <4>1. Cut[s].frames = <<f>> /\ Cut[s].rest = << >>
        BY <3>4, <3>6
      <4>2. f \o << >> = s
        BY <3>3, <3>6
      <4>3. PICK g : g = <<f>> /\ Len(g) = 1 /\ g[1] = f
        BY <3>5
      <4>4. \A i \in 1 .. Len(g) : IsFrame(g[i])
        <5>1. \A i \in 1 .. 1 : i = 1
          OBVIOUS
        <5>2. QED BY <3>2, <4>3, <5>1
      <4>5. FlattenSeq(g) \o << >> = s
        BY <3>5, <4>2, <4>3
      <4>6. QED BY <4>1, <4>3, <4>4, <4>5 DEF Uncut
    <3>7. CASE n > 3
      <4>1. PICK fs \in Seq(Seq(Byte)), r \in Seq(Byte) : fs = Cut[left].frames /\ r = Cut[left].rest
        BY Bytes, CutParts DEF CutOf
      <4>2. Cut[s].frames = <<f>> \o fs /\ Cut[s].rest = r
        BY <3>4, <3>7, <4>1
      <4>3. Framed(left)
        <5>1. Complete(f)
          BY <3>2, FrameComplete DEF IsFrame
        <5>2. QED BY <2>0, <3>3, <5>1, FramedBehind
      <4>4. (\A i \in 1 .. Len(fs) : IsFrame(fs[i])) /\ FlattenSeq(fs) \o r = left
        <5>1. Uncut(Cut[left], left)
          BY <1>1, <2>3, <3>3, <4>3
        <5>2. QED BY <4>1, <5>1 DEF Uncut
      <4>5. PICK p \in Seq(Byte) : p = FlattenSeq(fs)
        BY FlattenType
      <4>6. FlattenSeq(<<f>> \o fs) = f \o p
        BY <3>5, <4>5, FlattenConcat
      <4>7. (f \o p) \o r = f \o (p \o r)
        <5>1. Regroups(f, p, r)
          BY ONLY Regroup, f \in Seq(Byte), p \in Seq(Byte), r \in Seq(Byte)
        <5>2. QED BY ONLY <5>1 DEF Regroups
      <4>8. FlattenSeq(Cut[s].frames) \o Cut[s].rest = s
        BY ONLY <3>3, <4>2, <4>4, <4>5, <4>6, <4>7
      <4>9. ASSUME NEW i \in 1 .. Len(<<f>> \o fs) PROVE IsFrame((<<f>> \o fs)[i])
        <5>1. PICK E : E = Seq(Byte)
          OBVIOUS
        <5>2. PICK g : g = <<f>> \o fs
          OBVIOUS
        <5>3. Len(g) = Len(fs) + 1 /\ g[1] = f /\ \A j \in 1 .. Len(fs) : g[j + 1] = fs[j]
          BY <5>1, <5>2
        <5>4. CASE i = 1
          BY <3>2, <5>2, <5>3, <5>4
        <5>5. CASE i # 1
          <6>1. PICK j \in 1 .. Len(fs) : i = j + 1
            <7>1. i - 1 \in 1 .. Len(fs) /\ i = i - 1 + 1
              BY <5>2, <5>3, <5>5
            <7>2. QED BY <7>1
          <6>2. QED BY <4>4, <5>2, <5>3, <6>1
        <5>6. QED BY <5>4, <5>5
      <4>10. QED BY <4>2, <4>8, <4>9 DEF Uncut
    <3>8. QED BY <2>5, <3>6, <3>7
  <2>6. QED BY <2>3, <2>4, <2>5
<1> HIDE DEF Q
<1>2. Q \in SUBSET Seq(Byte)
  BY DEF Q
<1>3. Q = Seq(Byte)
  BY ONLY <1>1, <1>2, EachSequence
<1>4. QED BY <1>3 DEF Q

(* Untroubled, one piece at most is on its way to the buffer: in the put, or  *)
(* in the block in use.                                                      *)
Flight == IF Used # {} /\ put.at = "none" THEN blocks[Min(Used)].data ELSE put.piece

OneOnTheWay ==
  /\ put.at = "none" => put = NoPut
  /\ \E b \in Block :
       /\ Used \subseteq {b} /\ blocks[b].count <= 1
       /\ put.at \in {"find", "mark"} => Used = {}
       /\ put.at = "fill" => put.block = b /\ Used = {b}

(* The buffer, what is on its way to it and one wire make whole frames, and  *)
(* so does the other wire.                                                   *)
Aligned ==
  \E l \in Link :
    /\ Complete((recv_buf \o Flight) \o wire[l])
    /\ \A o \in Link \ {l} : Complete(wire[o])

PastOf(h, q) == FlattenSeq([i \in DOMAIN h |-> Frame(h[i])]) \o FlattenSeq(q)

Exact ==
  /\ OneOnTheWay /\ Aligned
  /\ \A i \in 1 .. Len(queue) : IsFrame(queue[i])
  /\ arrived = PastOf(handled, queue) \o (recv_buf \o Flight)

ExactInv == trouble = "none" => Exact

LEMMA BlockUsed ==
  ASSUME NEW b \in Block, Used \subseteq {b}, Used # {}
  PROVE  Used = {b} /\ Min(Used) = b
<1>1. Used = {b}
  OBVIOUS
<1>2. QED BY <1>1, FirstBlock

LEMMA FlightIs ==
  ASSUME TypeInv, OneOnTheWay
  PROVE  /\ Flight \in Seq(Byte)
         /\ FlattenSeq([b \in Block |-> Live(b)]) \o put.piece = Flight
<1>1. PICK b \in Block : /\ Used \subseteq {b}
                         /\ put.at \in {"find", "mark"} => Used = {}
                         /\ put.at = "fill" => put.block = b /\ Used = {b}
  BY DEF OneOnTheWay
<1>2. put.piece \in Seq(Byte) /\ put.at \in {"none", "find", "mark", "fill"}
  BY DEF TypeInv, TypeOK
<1>3. \A c \in Block : blocks[c].data \in Seq(Byte)
  BY DEF TypeInv, TypeOK
<1>4. \A c \in Block : c # b => Live(c) = << >>
  BY <1>1 DEF Live
<1>5. \A c \in Block : Live(c) \in Seq(Byte)
  BY <1>3, EmptySeq DEF Live
<1>6. FlattenSeq([c \in Block |-> Live(c)]) = Live(b)
  <2>1. PICK s : s = [c \in Block |-> Live(c)]
    OBVIOUS
  <2>2. PICK n \in Nat : n = NBlock
    BY StreamAssumption
  <2>3. s \in [1 .. n -> Seq(Byte)] /\ b \in 1 .. n
        /\ (\A c \in 1 .. n : c # b => s[c] = << >>) /\ s[b] = Live(b)
    BY <1>4, <1>5, <2>1, <2>2 DEF Block
  <2>4. FlattenSeq(s) = s[b]
    BY ONLY <2>3, n \in Nat, FlattenOne
  <2>5. QED BY <2>1, <2>3, <2>4
<1>7. CASE Used # {} /\ put.at = "none"
  <2>1. Used = {b} /\ Min(Used) = b
    BY <1>1, <1>7, BlockUsed
  <2>2. Flight = blocks[b].data /\ Live(b) = blocks[b].data
    BY <1>7, <2>1 DEF Flight, Live
  <2>3. put.piece = << >>
    BY <1>7 DEF OneOnTheWay, NoPut
  <2>4. QED BY <1>3, <1>6, <2>2, <2>3, ConcatEmptySeq
<1>8. CASE ~(Used # {} /\ put.at = "none")
  <2>1. Flight = put.piece
    BY <1>8 DEF Flight
  <2>2. Live(b) = << >>
    BY <1>1, <1>2, <1>8 DEF Live
  <2>3. QED BY <1>2, <1>6, <2>1, <2>2, ConcatEmptySeq
<1>9. QED BY <1>7, <1>8

LEMMA WorseNone ==
  ASSUME NEW what, NEW holds, Worse(what, holds) = "none", what # "none"
  PROVE  trouble = "none" /\ ~holds
BY DEF Worse

LEMMA HandledFrames ==
  ASSUME NEW h \in Seq(1 .. NFrame)
  PROVE  [i \in DOMAIN h |-> Frame(h[i])] \in Seq(Seq(Byte))
<1>1. PICK n \in Nat : n = Len(h)
  OBVIOUS
<1>2. \A i \in 1 .. n : Frame(h[i]) \in Seq(Byte)
  <2>1. PICK S : S = 1 .. NFrame
    OBVIOUS
  <2>2. h \in Seq(S)
    BY <2>1
  <2>3. \A i \in 1 .. n : h[i] \in S
    BY <1>1, <2>2, ElementOfSeq
  <2>4. QED BY <2>1, <2>3, Bytes
<1>3. DOMAIN h = 1 .. n
  BY <1>1
<1>4. [i \in 1 .. n |-> Frame(h[i])] \in Seq(Seq(Byte))
  BY <1>2, IsASeq
<1>5. QED BY <1>3, <1>4

LEMMA PastType ==
  ASSUME NEW h \in Seq(1 .. NFrame), NEW q \in Seq(Seq(Byte))
  PROVE  PastOf(h, q) \in Seq(Byte)
<1>1. PICK s \in Seq(Byte), t \in Seq(Byte) :
        s = FlattenSeq([i \in DOMAIN h |-> Frame(h[i])]) /\ t = FlattenSeq(q)
  BY HandledFrames, FlattenType
<1>2. QED BY <1>1 DEF PastOf

(* Nothing moves.                                                            *)
LEMMA ExactSame ==
  ASSUME Exact, OneOnTheWay', Flight' = Flight, wire' = wire, recv_buf' = recv_buf,
         queue' = queue, handled' = handled, arrived' = arrived
  PROVE  Exact'
<1>1. Aligned'
  BY DEF Exact, Aligned
<1>2. QED BY <1>1 DEF Exact

LEMMA ExactQuiet ==
  TypeInv /\ ExactInv /\ (LinkChanges \/ Check \/ Connect \/ Second \/ UNCHANGED vars) => ExactInv'
<1> SUFFICES ASSUME TypeInv, ExactInv, trouble' = "none",
                    LinkChanges \/ Check \/ Connect \/ Second \/ UNCHANGED vars
             PROVE  Exact'
  BY DEF ExactInv
<1>1. trouble = "none" /\ wire' = wire
  <2>1. CASE LinkChanges
    BY <2>1, WorseNone DEF LinkChanges
  <2>2. CASE Check
    BY <2>2, WorseNone DEF Check
  <2>3. CASE Connect \/ Second \/ UNCHANGED vars
    BY <2>3 DEF Connect, Second, vars, net, ghost
  <2>4. QED BY <2>1, <2>2, <2>3
<1>2. /\ blocks' = blocks /\ put' = put /\ recv_buf' = recv_buf /\ queue' = queue
      /\ handled' = handled /\ arrived' = arrived
  BY DEF LinkChanges, Check, Connect, Second, vars, net, pool, frame, ghost
<1>3. Exact /\ OneOnTheWay' /\ Flight' = Flight
  BY <1>1, <1>2 DEF ExactInv, Exact, OneOnTheWay, Flight, Used, Free
<1>4. QED BY <1>1, <1>2, <1>3, ExactSame

LEMMA ExactFind ==
  TypeInv /\ ExactInv /\ Find => ExactInv'
<1> SUFFICES ASSUME TypeInv, ExactInv, Find, trouble' = "none" PROVE Exact'
  BY DEF ExactInv
<1>1. trouble = "none" /\ Free # {}
  BY WorseNone DEF Find
<1>2. /\ wire' = wire /\ blocks' = blocks /\ recv_buf' = recv_buf /\ queue' = queue
      /\ handled' = handled /\ arrived' = arrived
      /\ put.at = "find" /\ put' = [put EXCEPT !.at = "mark", !.block = Min(Free)]
  BY <1>1 DEF Find, net, frame
<1>3. put'.at = "mark" /\ put'.piece = put.piece
  BY <1>2 DEF TypeInv, TypeOK
<1>4. Exact
  BY <1>1 DEF ExactInv
<1>5. Used' = Used /\ Used = {}
  BY <1>2, <1>4 DEF Exact, OneOnTheWay, Used, Free
<1>6. OneOnTheWay'
  BY <1>2, <1>3, <1>4, <1>5 DEF Exact, OneOnTheWay
<1>7. Flight' = Flight
  BY <1>2, <1>3 DEF Flight
<1>8. QED BY <1>2, <1>4, <1>6, <1>7, ExactSame

LEMMA ExactMark ==
  TypeInv /\ ExactInv /\ Mark => ExactInv'
<1> SUFFICES ASSUME TypeInv, ExactInv, Mark, trouble' = "none" PROVE Exact'
  BY DEF ExactInv
<1>1. trouble = "none" /\ put.block \notin Used
  BY WorseNone DEF Mark
<1>2. /\ wire' = wire /\ blocks' = Marked(put.block) /\ recv_buf' = recv_buf /\ queue' = queue
      /\ handled' = handled /\ arrived' = arrived
      /\ put.at = "mark" /\ put' = [put EXCEPT !.at = "fill"]
  BY DEF Mark, net, frame
<1>3. put'.at = "fill" /\ put'.piece = put.piece /\ put'.block = put.block
  BY <1>2 DEF TypeInv, TypeOK
<1>4. Exact /\ put.block \in Block
  BY <1>1, <1>2 DEF ExactInv, TypeInv, PutInv
<1>5. Used = {}
  BY <1>2, <1>4 DEF Exact, OneOnTheWay
<1>6. \A b \in Block : blocks[b].count = 0
  BY <1>5 DEF Used, Free
<1>7. /\ blocks'[put.block].count = 1
      /\ \A b \in Block \ {put.block} : blocks'[b] = blocks[b]
  BY <1>2, <1>4, <1>6 DEF Marked, TypeInv, TypeOK
<1>8. Used' = {put.block}
  BY <1>4, <1>6, <1>7 DEF Used, Free
<1>9. OneOnTheWay'
  BY <1>3, <1>4, <1>7, <1>8 DEF OneOnTheWay
<1>10. Flight' = Flight
  BY <1>2, <1>3 DEF Flight
<1>11. QED BY <1>2, <1>4, <1>9, <1>10, ExactSame

LEMMA ExactFill ==
  TypeInv /\ ExactInv /\ Fill => ExactInv'
<1> SUFFICES ASSUME TypeInv, ExactInv, Fill, trouble' = "none" PROVE Exact'
  BY DEF ExactInv
<1>1. /\ trouble = "none" /\ wire' = wire /\ blocks' = Filled(blocks, put.block, put.piece)
      /\ recv_buf' = recv_buf /\ queue' = queue /\ handled' = handled /\ arrived' = arrived
      /\ put.at = "fill" /\ put' = NoPut
  BY DEF Fill, net, frame, ghost
<1>2. PICK b \in Block : b = put.block /\ Used = {b} /\ blocks[b].count <= 1
  <2>1. Exact
    BY <1>1 DEF ExactInv
  <2>2. QED BY <1>1, <2>1 DEF Exact, OneOnTheWay
<1>3. put'.at = "none"
  BY <1>1 DEF NoPut
<1>4. /\ blocks'[b].count = blocks[b].count /\ blocks'[b].data = put.piece
      /\ \A c \in Block : blocks'[c].count = blocks[c].count
  BY <1>1, <1>2 DEF Filled, TypeInv, TypeOK
<1>5. Used' = {b}
  BY <1>2, <1>4 DEF Used, Free
<1>6. OneOnTheWay'
  BY <1>1, <1>2, <1>3, <1>4, <1>5 DEF OneOnTheWay
<1>7. Flight' = put.piece /\ Flight = put.piece
  <2>1. Min({b}) = b
    BY <1>2, BlockUsed
  <2>2. QED BY <1>1, <1>3, <1>4, <1>5, <2>1 DEF Flight
<1>8. Exact
  BY <1>1 DEF ExactInv
<1>9. QED BY <1>1, <1>6, <1>7, <1>8, ExactSame

(* A piece arrives and is all that is on its way.                            *)
LEMMA ExactArrives ==
  ASSUME TypeInv, Exact, NEW l \in Link, NEW k \in PieceOf(l), Arrive(l, k),
         Flight = << >>, ~OtherInside(l), OneOnTheWay', Flight' = SubSeq(wire[l], 1, k),
         recv_buf' = recv_buf, queue' = queue, handled' = handled
  PROVE  Exact'
<1>1. PICK w \in Seq(Byte), p \in Seq(Byte), r \in Seq(Byte) :
        /\ w = wire[l] /\ p = SubSeq(w, 1, k) /\ r = SubSeq(w, k + 1, Len(w)) /\ p \o r = w
  <2>1. PICK w \in Seq(Byte) : w = wire[l] /\ k \in 1 .. Len(w) /\ Len(w) \in Nat
                               /\ SubSeq(w, 1, k) \in Seq(Byte) /\ SubSeq(w, k + 1, Len(w)) \in Seq(Byte)
    BY PieceIs DEF TypeInv
  <2>2. SubSeq(w, 1, k) \o SubSeq(w, k + 1, Len(w)) = SubSeq(w, 1, Len(w))
    BY <2>1, ConcatAdjacentSubSeq
  <2>3. SubSeq(w, 1, Len(w)) = w
    BY SubSeqFull
  <2>4. QED BY <2>1, <2>2, <2>3
<1>2. PICK buf \in Seq(Byte), past \in Seq(Byte) : buf = recv_buf /\ past = PastOf(handled, queue)
  BY PastType DEF TypeInv, TypeOK
<1>3. buf \o << >> = buf
  BY ConcatEmptySeq
<1>4. \A o \in Link : wire[o] \in Seq(Byte)
  BY DEF TypeInv, TypeOK
<1>5. Complete(buf \o w) /\ \A o \in Link \ {l} : Complete(wire[o])
  <2>1. PICK q \in Link : Complete(buf \o wire[q]) /\ \A o \in Link \ {q} : Complete(wire[o])
    BY <1>2, <1>3 DEF Exact, Aligned
  <2>2. CASE q = l
    BY <1>1, <2>1, <2>2
  <2>3. CASE q # l
    <3>1. PICK v \in Seq(Byte) : v = wire[q]
      BY <1>4
    <3>2. v = << >> \/ v[1] = H
      BY <2>3, <3>1 DEF OtherInside
    <3>3. Complete(buf) /\ Complete(v)
      BY <2>1, <3>1, <3>2, CompleteApart
    <3>4. Complete(w)
      BY <1>1, <2>1, <2>3
    <3>5. QED BY <2>1, <3>1, <3>3, <3>4, CompleteBoth
  <2>4. QED BY <2>2, <2>3
<1>6. /\ wire'[l] = r /\ \A o \in Link \ {l} : wire'[o] = wire[o]
      /\ arrived' = arrived \o p
  BY <1>1 DEF Arrive, TypeInv, TypeOK
<1>7. (buf \o p) \o r = buf \o w
  <2>1. (buf \o p) \o r = buf \o (p \o r)
    <3>1. Regroups(buf, p, r)
      BY ONLY Regroup, buf \in Seq(Byte), p \in Seq(Byte), r \in Seq(Byte)
    <3>2. QED BY ONLY <3>1 DEF Regroups
  <2>2. QED BY <1>1, <2>1
<1>8. Aligned'
  <2>1. Complete((buf \o p) \o r) /\ \A o \in Link \ {l} : Complete(wire'[o])
    BY <1>5, <1>6, <1>7
  <2>2. recv_buf' = buf /\ Flight' = p
    BY <1>1, <1>2
  <2>3. QED BY <1>6, <2>1, <2>2 DEF Aligned
<1>9. arrived' = PastOf(handled, queue)' \o (recv_buf' \o Flight')
  <2>1. arrived = past \o buf
    BY <1>2, <1>3 DEF Exact
  <2>2. (past \o buf) \o p = past \o (buf \o p)
    <3>1. Regroups(past, buf, p)
      BY ONLY Regroup, past \in Seq(Byte), buf \in Seq(Byte), p \in Seq(Byte)
    <3>2. QED BY ONLY <3>1 DEF Regroups
  <2>3. QED BY <1>1, <1>2, <1>6, <2>1, <2>2
<1>10. QED BY <1>8, <1>9 DEF Exact

LEMMA ExactReceive ==
  TypeInv /\ ExactInv /\ Receive => ExactInv'
<1> SUFFICES ASSUME TypeInv, ExactInv, Receive, trouble' = "none" PROVE Exact'
  BY DEF ExactInv
<1>1. PICK k \in PieceOf("ETH") :
        /\ Arrive("ETH", k)
        /\ put' = [at |-> "find", block |-> 0, piece |-> SubSeq(wire["ETH"], 1, k)]
        /\ trouble' = Worse("rough", Used # {} \/ OtherInside("ETH"))
  BY DEF Receive
<1>2. /\ trouble = "none" /\ Used = {} /\ ~OtherInside("ETH")
      /\ blocks' = blocks /\ recv_buf' = recv_buf /\ queue' = queue /\ handled' = handled
  BY <1>1, WorseNone DEF Receive, frame
<1>3. put = NoPut
  BY DEF Receive, TypeInv, PutInv
<1>4. Exact
  BY <1>2 DEF ExactInv
<1>5. put'.at = "find" /\ put'.piece = SubSeq(wire["ETH"], 1, k)
  BY <1>1
<1>6. Used' = {}
  BY <1>2 DEF Used, Free
<1>7. OneOnTheWay'
  BY <1>2, <1>4, <1>5, <1>6 DEF Exact, OneOnTheWay
<1>8. Flight = << >> /\ Flight' = SubSeq(wire["ETH"], 1, k)
  BY <1>2, <1>3, <1>5 DEF Flight, NoPut
<1>9. "ETH" \in Link
  BY DEF Link
<1>10. QED BY <1>1, <1>2, <1>4, <1>7, <1>8, <1>9, ExactArrives

LEMMA ExactUSART6 ==
  TypeInv /\ ExactInv /\ USART6_IRQHandler => ExactInv'
<1> SUFFICES ASSUME TypeInv, ExactInv, USART6_IRQHandler, trouble' = "none" PROVE Exact'
  BY DEF ExactInv
<1>1. PICK k \in PieceOf("4G") :
        /\ Arrive("4G", k)
        /\ blocks' = IF Free = {} THEN blocks
                     ELSE Filled(Marked(Min(Free)), Min(Free), SubSeq(wire["4G"], 1, k))
        /\ trouble' = Worse("rough", Used # {} \/ put # NoPut \/ OtherInside("4G"))
  BY DEF USART6_IRQHandler
<1>2. /\ trouble = "none" /\ Used = {} /\ ~OtherInside("4G") /\ put = NoPut
      /\ put' = put /\ recv_buf' = recv_buf /\ queue' = queue /\ handled' = handled
  BY <1>1, WorseNone DEF USART6_IRQHandler, frame
<1>3. \A c \in Block : blocks[c].count = 0
  BY <1>2 DEF Used, Free
<1>4. Exact
  BY <1>2 DEF ExactInv
<1>5. Free # {}
  BY <1>2, StreamAssumption DEF Used, Block
<1>6. PICK b \in Block : b = Min(Free)
  BY <1>5, FirstBlock
<1>7. PICK piece \in Seq(Byte) : piece = SubSeq(wire["4G"], 1, k)
  BY PieceIs DEF TypeInv, Link
<1>8. /\ blocks'[b].count = 1 /\ blocks'[b].data = piece
      /\ \A c \in Block \ {b} : blocks'[c].count = 0
  <2>1. TypeOK /\ blocks[b].count <= 1
    BY <1>3 DEF TypeInv
  <2>2. PICK bs : bs = Marked(b) /\ bs \in [Block -> [count : 0 .. 2, data : Seq(Byte)]]
                  /\ \A c \in Block : bs[c].count = IF c = b THEN 1 ELSE 0
    <3>1. Marked(b) \in [Block -> [count : 0 .. 2, data : Seq(Byte)]]
      BY <2>1, MarkedType
    <3>2. \A c \in Block :
            Marked(b)[c].count = IF c = b THEN blocks[c].count + 1 ELSE blocks[c].count
      BY <2>1, MarkedType
    <3>3. \A c \in Block : Marked(b)[c].count = IF c = b THEN 1 ELSE 0
      BY ONLY <1>3, <3>2
    <3>4. QED BY <3>1, <3>3, Zenon
  <2>3. blocks' = Filled(bs, b, piece)
    BY <1>1, <1>5, <1>6, <1>7, <2>2
  <2>4. QED BY <2>1, <2>2, <2>3, FilledType
<1>9. Used' = {b}
  BY <1>8 DEF Used, Free
<1>10. put'.at = "none" /\ put'.piece = << >> /\ put.piece = << >>
  BY <1>2 DEF NoPut
<1>11. OneOnTheWay'
  BY <1>2, <1>8, <1>9, <1>10 DEF OneOnTheWay
<1>12. Flight = << >> /\ Flight' = SubSeq(wire["4G"], 1, k)
  <2>1. Min({b}) = b
    <3>1. {b} \in SUBSET Nat
      BY StreamAssumption DEF Block
    <3>2. QED BY <3>1, Least
  <2>2. QED BY <1>2, <1>7, <1>8, <1>9, <1>10, <2>1 DEF Flight
<1>13. "4G" \in Link
  BY DEF Link
<1>14. QED BY <1>1, <1>2, <1>4, <1>11, <1>12, <1>13, ExactArrives

LEMMA ExactServerSends ==
  TypeInv /\ ExactInv /\ ServerSends => ExactInv'
<1> SUFFICES ASSUME TypeInv, ExactInv, ServerSends, trouble' = "none" PROVE Exact'
  BY DEF ExactInv
<1>1. /\ trouble = "none" /\ blocks' = blocks /\ put' = put /\ recv_buf' = recv_buf
      /\ queue' = queue /\ handled' = handled /\ arrived' = arrived /\ sent < NFrame
  BY DEF ServerSends, pool, frame, ghost
<1>2. PICK l \in Link : wire' = [wire EXCEPT ![l] = @ \o Frame(sent + 1)]
  BY DEF ServerSends
<1>3. Exact
  BY <1>1 DEF ExactInv
<1>4. OneOnTheWay' /\ Flight' = Flight
  BY <1>1, <1>3 DEF Exact, OneOnTheWay, Flight, Used, Free
<1>5. PICK f \in Seq(Byte) : f = Frame(sent + 1) /\ Complete(f)
  <2>1. sent + 1 \in 1 .. NFrame
    BY <1>1, StreamAssumption DEF TypeInv, TypeOK
  <2>2. QED BY <2>1, Bytes, FrameComplete
<1>6. /\ \A o \in Link : wire[o] \in Seq(Byte)
      /\ wire'[l] = wire[l] \o f /\ \A o \in Link \ {l} : wire'[o] = wire[o]
  BY <1>2, <1>5 DEF TypeInv, TypeOK
<1>7. PICK x \in Seq(Byte) : x = recv_buf \o Flight
  <2>1. Flight \in Seq(Byte) /\ recv_buf \in Seq(Byte)
    BY <1>3, FlightIs DEF Exact, TypeInv, TypeOK
  <2>2. QED BY <2>1, ConcatProperties
<1>8. PICK q \in Link : Complete(x \o wire[q]) /\ \A o \in Link \ {q} : Complete(wire[o])
  BY <1>3, <1>7 DEF Exact, Aligned
<1>9. Complete(x \o wire'[q])
  <2>1. CASE q = l
    <3>1. PICK w \in Seq(Byte) : w = wire[l]
      BY <1>6
    <3>2. (x \o w) \o f = x \o (w \o f)
      <4>1. Regroups(x, w, f)
        BY ONLY Regroup, x \in Seq(Byte), w \in Seq(Byte), f \in Seq(Byte)
      <4>2. QED BY ONLY <4>1 DEF Regroups
    <3>3. x \o w \in Seq(Byte) /\ Complete(x \o w)
      BY <1>8, <2>1, <3>1
    <3>4. Complete((x \o w) \o f)
      BY <1>5, <3>3, CompleteBoth
    <3>5. QED BY <1>6, <2>1, <3>1, <3>2, <3>4
  <2>2. CASE q # l
    BY <1>6, <1>8, <2>2
  <2>3. QED BY <2>1, <2>2
<1>10. ASSUME NEW o \in Link \ {q} PROVE Complete(wire'[o])
  <2>1. CASE o = l
    BY <1>5, <1>6, <1>8, <2>1, CompleteBoth
  <2>2. CASE o # l
    BY <1>6, <1>8, <2>2
  <2>3. QED BY <2>1, <2>2
<1>11. Aligned'
  <2>1. recv_buf' \o Flight' = x
    BY <1>1, <1>4, <1>7
  <2>2. QED BY <1>9, <1>10, <2>1 DEF Aligned
<1>12. QED BY <1>1, <1>3, <1>4, <1>11 DEF Exact

(* The block is taken and what it completes is cut.                          *)
LEMMA ExactTakes ==
  ASSUME TypeInv, Exact, Used # {}, TakeBlock, trouble' = "none",
         wire' = wire, put' = put, arrived' = arrived, handled' = handled
  PROVE  Exact'
<1>1. PICK b \in Block : b = Min(Used) /\ Used = {b} /\ blocks[b].count <= 1
                         /\ (put.at = "fill" => put.block = b)
                         /\ put.at \notin {"find", "mark"}
  <2>1. PICK b \in Block : /\ Used \subseteq {b} /\ blocks[b].count <= 1
                           /\ put.at \in {"find", "mark"} => Used = {}
                           /\ put.at = "fill" => put.block = b /\ Used = {b}
    BY DEF Exact, OneOnTheWay
  <2>2. QED BY <2>1, BlockUsed
<1>2. PICK d \in Seq(Byte), buf \in Seq(Byte) : d = blocks[b].data /\ buf = recv_buf
  BY DEF TypeInv, TypeOK
<1>3. PICK s \in Seq(Byte) : s = buf \o d
  BY ConcatProperties
<1>4. PICK fs \in Seq(Seq(Byte)), r \in Seq(Byte) : fs = Cut[s].frames /\ r = Cut[s].rest
  BY Bytes, CutParts DEF CutOf
<1>5. /\ blocks' = Get(b) /\ recv_buf' = r
      /\ IF put.at = "fill" /\ put.block = b
         THEN trouble' = "torn" /\ queue' = Kept(fs) ELSE Push(fs)
  BY <1>1, <1>2, <1>3, <1>4 DEF TakeBlock, Analysis
<1>6. put.at = "none" /\ put = NoPut /\ Push(fs)
  <2>1. put.at # "fill" /\ Push(fs)
    BY <1>1, <1>5
  <2>2. put.at \in {"none", "find", "mark", "fill"}
    BY DEF TypeInv, TypeOK
  <2>3. QED BY <1>1, <2>1, <2>2 DEF Exact, OneOnTheWay
<1>7. queue' = queue \o fs
  <2>1. ~(Len(queue) + Len(fs) > QueueLen)
    BY <1>6, WorseNone DEF Push
  <2>2. Len(queue) + Len(fs) <= QueueLen
    BY <2>1, StreamAssumption DEF TypeInv, TypeOK
  <2>3. Kept(fs) = queue \o fs
    BY <2>2, KeptIs DEF TypeInv
  <2>4. QED BY <1>6, <2>3 DEF Push
<1>8. Used' = {} /\ blocks'[b].count <= 1
  <2>1. \A c \in Block : blocks'[c].count = IF c = b THEN blocks[c].count - 1 ELSE blocks[c].count
    BY <1>1, <1>5, GetType DEF TypeInv
  <2>2. blocks[b].count = 1 /\ \A c \in Block \ {b} : blocks[c].count = 0
    <3>1. blocks[b].count # 0 /\ \A c \in Block \ {b} : c \notin Used
      BY <1>1 DEF Used, Free
    <3>2. blocks[b].count \in 0 .. 2
      BY DEF TypeInv, TypeOK
    <3>3. \A c \in Block \ {b} : blocks[c].count = 0
      BY <3>1 DEF Used, Free
    <3>4. blocks[b].count = 1
      BY <1>1, <3>1, <3>2
    <3>5. QED BY <3>3, <3>4
  <2>3. ASSUME NEW c \in Block PROVE blocks'[c].count = 0
    <3>1. CASE c = b
      <4>1. blocks'[c].count = blocks[c].count - 1 /\ blocks[c].count = 1
        BY <2>1, <2>2, <3>1
      <4>2. QED BY <4>1
    <3>2. CASE c # b
      BY <2>1, <2>2, <3>2
    <3>3. QED BY <3>1, <3>2
  <2>4. QED BY <2>3 DEF Used, Free
<1>9. OneOnTheWay'
  BY <1>6, <1>8 DEF OneOnTheWay, NoPut
<1>10. Flight = d /\ Flight' = << >>
  BY <1>1, <1>2, <1>6, <1>8 DEF Flight, NoPut
<1>11. PICK l \in Link : Complete(s \o wire[l]) /\ \A o \in Link \ {l} : Complete(wire[o])
  BY <1>2, <1>3, <1>10 DEF Exact, Aligned
<1>12. PICK w \in Seq(Byte) : w = wire[l]
  BY DEF TypeInv, TypeOK
<1>13. Uncut(Cut[s], s)
  BY <1>11, <1>12, FramedFront, CutExact DEF Complete
<1>14. (\A i \in 1 .. Len(fs) : IsFrame(fs[i])) /\ FlattenSeq(fs) \o r = s
  BY <1>4, <1>13 DEF Uncut
<1>15. PICK p \in Seq(Byte) : p = FlattenSeq(fs) /\ Complete(p)
  BY <1>14, FramesComplete
<1>16. Complete(r \o w)
  <2>1. (p \o r) \o w = p \o (r \o w)
    <3>1. Regroups(p, r, w)
      BY ONLY Regroup, p \in Seq(Byte), r \in Seq(Byte), w \in Seq(Byte)
    <3>2. QED BY ONLY <3>1 DEF Regroups
  <2>2. Complete(p \o (r \o w)) /\ r \o w \in Seq(Byte)
    BY <1>11, <1>12, <1>14, <1>15, <2>1, ConcatProperties
  <2>3. QED BY <1>15, <2>2, CompleteBehind
<1>17. Aligned'
  <2>1. (recv_buf' \o Flight') \o wire'[l] = r \o w
    BY <1>5, <1>10, <1>12, ConcatEmptySeq
  <2>2. \A o \in Link \ {l} : Complete(wire'[o])
    BY <1>11
  <2>3. QED BY <1>16, <2>1, <2>2 DEF Aligned
<1>18. arrived' = PastOf(handled, queue)' \o (recv_buf' \o Flight')
  <2>1. PICK h \in Seq(Byte), q \in Seq(Byte) :
          h = FlattenSeq([i \in DOMAIN handled |-> Frame(handled[i])]) /\ q = FlattenSeq(queue)
    BY HandledFrames, FlattenType DEF TypeInv, TypeOK
  <2>2. arrived = (h \o q) \o (p \o r)
    BY <1>2, <1>3, <1>10, <1>14, <1>15, <2>1 DEF Exact, PastOf
  <2>3. FlattenSeq(queue \o fs) = q \o p
    <3>1. PICK fq \in Seq(Seq(Byte)) : fq = queue
      BY DEF TypeInv, TypeOK
    <3>2. FlattenSeq(fq \o fs) = FlattenSeq(fq) \o FlattenSeq(fs)
      BY FlattenConcat
    <3>3. QED BY <1>15, <2>1, <3>1, <3>2
  <2>4. PastOf(handled, queue \o fs) = h \o (q \o p)
    BY <2>1, <2>3 DEF PastOf
  <2>5. (h \o q) \o (p \o r) = (h \o (q \o p)) \o r
    <3>1. (h \o q) \o (p \o r) = ((h \o q) \o p) \o r
      <4>1. PICK a \in Seq(Byte) : a = h \o q
        BY ConcatProperties
      <4>2. (a \o p) \o r = a \o (p \o r)
        <5>1. Regroups(a, p, r)
          BY ONLY Regroup, a \in Seq(Byte), p \in Seq(Byte), r \in Seq(Byte)
        <5>2. QED BY ONLY <5>1 DEF Regroups
      <4>3. QED BY <4>1, <4>2
    <3>2. (h \o q) \o p = h \o (q \o p)
      <4>1. Regroups(h, q, p)
        BY ONLY Regroup, h \in Seq(Byte), q \in Seq(Byte), p \in Seq(Byte)
      <4>2. QED BY ONLY <4>1 DEF Regroups
    <3>3. QED BY <3>1, <3>2
  <2>6. PastOf(handled, queue)' = PastOf(handled, queue \o fs)
    BY <1>7
  <2>7. recv_buf' \o Flight' = r
    BY <1>5, <1>10, ConcatEmptySeq
  <2>8. QED BY <2>2, <2>4, <2>5, <2>6, <2>7
<1>19. ASSUME NEW i \in 1 .. Len(queue \o fs) PROVE IsFrame((queue \o fs)[i])
  <2>1. PICK E : E = Seq(Byte)
    OBVIOUS
  <2>2. PICK q \in Seq(E), g \in Seq(E) : q = queue /\ g = queue \o fs
    <3>1. queue \in Seq(E) /\ fs \in Seq(E)
      BY <2>1 DEF TypeInv, TypeOK
    <3>2. queue \o fs \in Seq(E)
      BY <3>1, ConcatProperties
    <3>3. QED BY <3>1, <3>2
  <2>3. /\ Len(g) = Len(q) + Len(fs) /\ Len(q) \in Nat /\ Len(fs) \in Nat
        /\ \A j \in 1 .. Len(g) : g[j] = IF j <= Len(q) THEN q[j] ELSE fs[j - Len(q)]
    BY <2>1, <2>2
  <2>4. \A j \in 1 .. Len(q) : IsFrame(q[j])
    BY <2>2 DEF Exact
  <2>5. CASE i <= Len(q)
    BY <2>2, <2>3, <2>4, <2>5
  <2>6. CASE ~(i <= Len(q))
    <3>1. PICK j \in 1 .. Len(fs) : j = i - Len(q)
      <4>1. i \in 1 .. Len(q) + Len(fs)
        BY <2>2, <2>3
      <4>2. i - Len(q) \in 1 .. Len(fs)
        BY <2>3, <2>6, <4>1
      <4>3. QED BY <4>2
    <3>2. QED BY <1>14, <2>2, <2>3, <2>6, <3>1
  <2>7. QED BY <2>5, <2>6
<1>20. QED BY <1>7, <1>9, <1>17, <1>18, <1>19 DEF Exact

LEMMA ExactPoll ==
  TypeInv /\ ExactInv /\ (Poll4G \/ PollEth) => ExactInv'
<1> SUFFICES ASSUME TypeInv, ExactInv, Poll4G \/ PollEth, trouble' = "none" PROVE Exact'
  BY DEF ExactInv
<1>1. RecvNetFrameAndPushToRxQueue
  BY DEF Poll4G, PollEth
<1>2. wire' = wire /\ put' = put /\ handled' = handled /\ arrived' = arrived
  BY <1>1 DEF RecvNetFrameAndPushToRxQueue, net
<1>3. CASE Used # {} /\ TakeBlock
  <2>1. trouble = "none"
    <3>1. trouble' = "torn" \/ \E h : trouble' = Worse("rough", h)
      BY <1>3 DEF TakeBlock, Push
    <3>2. QED BY <3>1, WorseNone
  <2>2. QED BY <1>2, <1>3, <2>1, ExactTakes DEF ExactInv
<1>4. CASE Used = {} /\ TakeNothing
  <2>1. trouble = "none" /\ recv_buf' = recv_buf /\ blocks' = blocks /\ queue' = queue
    BY <1>4, WorseNone DEF TakeNothing
  <2>2. Exact /\ OneOnTheWay' /\ Flight' = Flight
    BY <1>2, <2>1 DEF ExactInv, Exact, OneOnTheWay, Flight, Used, Free
  <2>3. QED BY <1>2, <2>1, <2>2, ExactSame
<1>5. QED BY <1>1, <1>3, <1>4 DEF RecvNetFrameAndPushToRxQueue

(* The first frame leaves the queue for those that were handled.             *)
LEMMA ExactHandle ==
  TypeInv /\ ExactInv /\ ServerFrameHandle => ExactInv'
<1> SUFFICES ASSUME TypeInv, ExactInv, ServerFrameHandle, trouble' = "none" PROVE Exact'
  BY DEF ExactInv
<1>1. /\ trouble = "none" /\ wire' = wire /\ blocks' = blocks /\ put' = put /\ recv_buf' = recv_buf
      /\ arrived' = arrived /\ queue # << >> /\ queue' = Tail(queue)
      /\ handled' = IF \E n \in 1 .. NFrame : Head(queue) = Frame(n)
                    THEN Append(handled, Head(queue)[2]) ELSE handled
  BY DEF ServerFrameHandle, net, pool
<1>2. Exact
  BY <1>1 DEF ExactInv
<1>3. OneOnTheWay' /\ Flight' = Flight
  BY <1>1, <1>2 DEF Exact, OneOnTheWay, Flight, Used, Free
<1>4. Aligned'
  BY <1>1, <1>2, <1>3 DEF Exact, Aligned
<1>5. PICK E : E = Seq(Byte)
  OBVIOUS
<1>6. PICK q \in Seq(E), m \in Nat : q = queue /\ m = Len(q) /\ m # 0
  BY <1>1, <1>5, EmptySeq DEF TypeInv, TypeOK
<1>7. PICK t \in Seq(E), f \in E :
        t = Tail(q) /\ f = Head(q) /\ f = q[1] /\ Len(t) = m - 1 /\ (\A i \in 1 .. m - 1 : t[i] = q[i + 1])
        /\ q = <<f>> \o t
  <2>1. q # << >>
    BY <1>1, <1>6
  <2>2. PICK t, f : t = Tail(q) /\ f = Head(q)
    OBVIOUS
  <2>3. t \in Seq(E) /\ f \in E /\ f = q[1] /\ Len(t) = m - 1 /\ \A i \in 1 .. m - 1 : t[i] = q[i + 1]
    BY <1>6, <2>1, <2>2, HeadTailProperties
  <2>4. q = <<f>> \o t
    BY <1>6, <2>3
  <2>5. QED BY <2>2, <2>3, <2>4
<1>8. \A i \in 1 .. m : IsFrame(q[i])
  BY <1>2, <1>6 DEF Exact
<1>9. PICK n \in 1 .. NFrame : f = Frame(n) /\ f[2] = n
  <2>1. IsFrame(f)
    BY <1>6, <1>7, <1>8
  <2>2. QED BY <2>1, Bytes DEF IsFrame
<1>10. handled' = Append(handled, n)
  BY <1>1, <1>6, <1>7, <1>9
<1>11. PICK h \in Seq(1 .. NFrame) : h = handled
  BY DEF TypeInv, TypeOK
<1>12. PICK F \in Seq(E) : F = [i \in DOMAIN h |-> Frame(h[i])]
  BY <1>5, HandledFrames
<1>13. [i \in DOMAIN Append(h, n) |-> Frame(Append(h, n)[i])] = Append(F, f)
  <2>1. PICK S : S = 1 .. NFrame
    OBVIOUS
  <2>2. PICK k \in Nat : k = Len(h) /\ DOMAIN h = 1 .. k
    OBVIOUS
  <2>3. PICK a : a = Append(h, n)
    OBVIOUS
  <2>4. DOMAIN a = 1 .. k + 1 /\ (\A i \in 1 .. k : a[i] = h[i]) /\ a[k + 1] = n
    <3>1. h \in Seq(S) /\ n \in S
      BY <2>1
    <3>2. a \in Seq(S) /\ Len(a) = k + 1 /\ (\A i \in 1 .. k : a[i] = h[i]) /\ a[k + 1] = n
      BY <2>2, <2>3, <3>1, AppendProperties
    <3>3. QED BY <3>2
  <2>5. PICK G : G = Append(F, f)
    OBVIOUS
  <2>6. Len(F) = k /\ \A i \in 1 .. k : F[i] = Frame(h[i])
    BY <1>12, <2>2
  <2>7. G \in Seq(E) /\ Len(G) = k + 1 /\ (\A i \in 1 .. k : G[i] = F[i]) /\ G[k + 1] = f
    BY <2>5, <2>6, AppendProperties
  <2>8. \A i \in 1 .. k + 1 : Frame(a[i]) = G[i]
    <3>1. ASSUME NEW i \in 1 .. k + 1 PROVE Frame(a[i]) = G[i]
      <4>1. i \in 1 .. k \/ i = k + 1
        OBVIOUS
      <4>2. QED BY <1>9, <2>4, <2>6, <2>7, <4>1
    <3>2. QED BY <3>1
  <2>9. G = [i \in 1 .. k + 1 |-> G[i]]
    BY <2>7
  <2>10. QED BY <2>3, <2>4, <2>5, <2>8, <2>9
<1>14. PICK x \in Seq(Byte), y \in Seq(Byte), g \in Seq(Byte) :
         x = FlattenSeq(F) /\ y = FlattenSeq(t) /\ g = f
  BY <1>5, FlattenType
<1>15. FlattenSeq(q) = g \o y
  <2>1. <<f>> \in Seq(Seq(Byte)) /\ FlattenSeq(<<f>>) = f
    BY <1>5, FlattenSingle
  <2>2. QED BY <1>5, <1>7, <1>14, <2>1, FlattenConcat
<1>16. PastOf(handled, queue) = x \o (g \o y)
  BY <1>6, <1>11, <1>12, <1>14, <1>15 DEF PastOf
<1>17. PastOf(handled, queue)' = (x \o g) \o y
  <2>1. FlattenSeq(Append(F, f)) = x \o g
    BY <1>5, <1>14, FlattenAppends
  <2>2. PastOf(Append(h, n), t) = (x \o g) \o y
    BY <1>13, <1>14, <2>1 DEF PastOf
  <2>3. handled' = Append(h, n) /\ queue' = t
    BY <1>1, <1>6, <1>7, <1>10, <1>11
  <2>4. QED BY <2>2, <2>3
<1>18. x \o (g \o y) = (x \o g) \o y
  <2>1. Regroups(x, g, y)
    BY ONLY Regroup, x \in Seq(Byte), g \in Seq(Byte), y \in Seq(Byte)
  <2>2. QED BY ONLY <2>1 DEF Regroups
<1>19. arrived' = PastOf(handled, queue)' \o (recv_buf' \o Flight')
  BY <1>1, <1>2, <1>3, <1>16, <1>17, <1>18 DEF Exact
<1>20. ASSUME NEW i \in 1 .. Len(t) PROVE IsFrame(t[i])
  BY <1>7, <1>8
<1>21. \A i \in 1 .. Len(queue') : IsFrame(queue'[i])
  BY <1>1, <1>6, <1>7, <1>20
<1>22. QED BY <1>3, <1>4, <1>19, <1>21 DEF Exact

LEMMA ExactInit == Init => ExactInv
<1> SUFFICES ASSUME Init PROVE Exact
  BY DEF ExactInv
<1>1. (\A b \in Block : blocks[b].count = 0) /\ put = NoPut /\ recv_buf = << >> /\ queue = << >>
      /\ handled = << >> /\ arrived = << >> /\ \A l \in Link : wire[l] = << >>
  BY DEF Init
<1>2. Used = {} /\ put.at = "none" /\ put.piece = << >>
  BY <1>1 DEF Used, Free, NoPut
<1>3. OneOnTheWay
  <2>1. 1 \in Block
    BY StreamAssumption DEF Block
  <2>2. QED BY <1>1, <1>2, <2>1 DEF OneOnTheWay
<1>4. Flight = << >>
  BY <1>2 DEF Flight
<1>5. << >> \o << >> = << >> /\ Complete(<< >>)
  BY ConcatEmptySeq, EmptySeq DEF Complete, Framed
<1>6. Aligned
  <2>1. "4G" \in Link
    BY DEF Link
  <2>2. QED BY <1>1, <1>4, <1>5, <2>1 DEF Aligned
<1>7. PastOf(handled, queue) = << >>
  <2>1. [i \in DOMAIN << >> |-> Frame(<< >>[i])] = << >>
    OBVIOUS
  <2>2. QED BY <1>1, <1>5, <2>1, FlattenEmpty DEF PastOf
<1>8. QED BY <1>1, <1>3, <1>4, <1>5, <1>6, <1>7 DEF Exact

LEMMA ExactStep == TypeInv /\ ExactInv /\ [Next]_vars => ExactInv'
BY ExactQuiet, ExactFind, ExactMark, ExactFill, ExactReceive, ExactUSART6, ExactServerSends,
   ExactPoll, ExactHandle DEF Next

(* While pieces are taken before the next arrives, on one link at a time,    *)
(* and nothing times out or overflows, no byte is lost, repeated or moved.   *)
THEOREM StreamAlwaysExact == Spec => []ExactStream
<1>1. TypeInv /\ ExactInv => ExactStream
  <2> SUFFICES ASSUME TypeInv, Exact
               PROVE  arrived = FlattenSeq([i \in DOMAIN handled |-> Frame(handled[i])]) \o FlattenSeq(queue)
                                \o recv_buf \o FlattenSeq([b \in Block |-> Live(b)]) \o put.piece
    BY DEF ExactInv, ExactStream
  <2>1. PICK past \in Seq(Byte) : past = PastOf(handled, queue)
    BY PastType DEF TypeInv, TypeOK
  <2>2. PICK live \in Seq(Byte) : live = FlattenSeq([b \in Block |-> Live(b)])
    <3>1. \A b \in 1 .. NBlock : Live(b) \in Seq(Byte)
      BY EmptySeq DEF TypeInv, TypeOK, Live, Block
    <3>2. [b \in 1 .. NBlock |-> Live(b)] \in Seq(Seq(Byte))
      BY <3>1, StreamAssumption, IsASeq
    <3>3. QED BY <3>2, FlattenType DEF Block
  <2>3. PICK buf \in Seq(Byte), piece \in Seq(Byte) : buf = recv_buf /\ piece = put.piece
    BY DEF TypeInv, TypeOK
  <2>4. arrived = past \o (buf \o (live \o piece))
    BY <2>1, <2>2, <2>3, FlightIs DEF Exact
  <2>5. past \o (buf \o (live \o piece)) = ((past \o buf) \o live) \o piece
    <3>1. PICK in \in Seq(Byte) : in = past \o buf
      BY ConcatProperties
    <3>2. PICK out \in Seq(Byte) : out = live \o piece
      BY ConcatProperties
    <3>3. (past \o buf) \o out = past \o (buf \o out)
      <4>1. Regroups(past, buf, out)
        BY ONLY Regroup, past \in Seq(Byte), buf \in Seq(Byte), out \in Seq(Byte)
      <4>2. QED BY ONLY <4>1 DEF Regroups
    <3>4. (in \o live) \o piece = in \o (live \o piece)
      <4>1. Regroups(in, live, piece)
        BY ONLY Regroup, in \in Seq(Byte), live \in Seq(Byte), piece \in Seq(Byte)
      <4>2. QED BY ONLY <4>1 DEF Regroups
    <3>5. QED BY ONLY <3>1, <3>2, <3>3, <3>4
  <2>6. QED BY <2>1, <2>2, <2>3, <2>4, <2>5 DEF PastOf
<1>2. QED BY TypeInit, TypeStep, ExactInit, ExactStep, <1>1, PTL DEF Spec

-----------------------------------------------------------------------------
(* What the frames are about: ServerSession is the login that the server's   *)
(* answers in the queue decide, over the same two links.  Of its variables   *)
(* none but the loop of the TCP client is also one of FrameStream, and there *)
(* it says other things.                                                     *)
CONSTANTS Modes, TxLen, RxLen, Times, MaxChange     \* and NBlock, the same pool of blocks

VARIABLES connection_mode, LoginResponse, retry_times1, FlagReConnectToServer, EC20ConnectState,
          task4G, asked, socket, pdp, urc, tcp, tx, up, down, dl_buf, rx, known, changes, again,
          excused

Session == INSTANCE ServerSession WITH eth <- tcp

(* What the server knows, and what is under way to or from it, is of a      *)
(* connection that is open.                                                 *)
KnownOpen ==
  /\ \A l \in Session!Link : up[l] \/ known[l] => Session!Open(l)
  /\ down => known["ETH"]

(* An answer in a block or in the queue that is not old is of a login on    *)
(* the connection that is still there.                                      *)
Fresh(a) == a \in Session!Link => known[a]
FreshAnswers ==
  /\ \A b \in Session!Blocks : Fresh(dl_buf[b])
  /\ \A i \in DOMAIN rx : Fresh(rx[i])

(* A login holds for a connection, or that one has ended and this is still  *)
(* to be noticed.                                                           *)
Holds(l) == IF l = "ETH" THEN known["ETH"] \/ tcp \in {"closed", "reset"}
            ELSE known["4G"] \/ socket = "closed" \/ (socket = "none" /\ again)

(* The login flag, where nothing excuses it, speaks for the link in use.    *)
Speaks == LoginResponse = 1 /\ ~excused => Holds(Session!Use)

SessionInv == KnownOpen /\ FreshAnswers /\ Speaks

-----------------------------------------------------------------------------
(* The bounds are numbers, the modes are modes: what ServerSession assumes.   *)
SessionBounds ==
  /\ Modes \subseteq {"INSIDE", "4G", "ETH"}
  /\ TxLen \in Nat \ {0} /\ RxLen \in Nat \ {0} /\ Times \in Nat \ {0} /\ MaxChange \in Nat
  /\ NBlock \in Nat \ {0}

LEMMA SessionLimits ==
  ASSUME SessionBounds
  PROVE  /\ Modes \subseteq {"INSIDE", "4G", "ETH"}
         /\ TxLen \in Nat \ {0} /\ RxLen \in Nat \ {0} /\ Times \in Nat \ {0} /\ MaxChange \in Nat
         /\ NBlock \in Nat \ {0}
BY DEF SessionBounds

AnswerType == Session!Answers
BlockType == [Session!Blocks -> AnswerType \cup {Session!Free}]

(* The types of what is under way, and those of the rest.                   *)
NetType ==
  /\ up \in [Session!Link -> BOOLEAN] /\ down \in BOOLEAN
  /\ known \in [Session!Link -> BOOLEAN]
  /\ dl_buf \in BlockType
  /\ rx \in Seq(AnswerType) /\ Len(rx) <= RxLen
TaskType ==
  /\ connection_mode \in Modes
  /\ LoginResponse \in 0 .. 1 /\ retry_times1 \in 0 .. Times
  /\ FlagReConnectToServer \in 0 .. 2
  /\ EC20ConnectState \in Session!State /\ asked \in Session!State
  /\ task4G \in {"init", "loop", "asking", "switch"}
  /\ socket \in {"none", "open", "closed"} /\ tcp \in {"none", "open", "closed", "reset"}
  /\ tx \in [Session!Link -> 0 .. TxLen]
  /\ changes \in 0 .. MaxChange
FlagType == pdp \in BOOLEAN /\ urc \in BOOLEAN /\ again \in BOOLEAN /\ excused \in BOOLEAN

LEMMA TypeParts == NetType /\ TaskType /\ FlagType <=> Session!TypeOK
BY Zenon DEF Session!TypeOK, NetType, TaskType, FlagType, AnswerType, BlockType

(* The two links.                                                           *)
LEMMA LinkFacts == "4G" \in Session!Link /\ "ETH" \in Session!Link
BY DEF Session!Link

(* No link is "old" or "free".                                              *)
LEMMA AnswerFacts ==
  /\ Session!Link \subseteq AnswerType /\ "old" \in AnswerType
  /\ "old" \notin Session!Link /\ Session!Free \notin Session!Link
BY DEF AnswerType, Session!Answers, Session!Link, Session!Free

(* An answer stays one when it becomes old, and says nothing any more.      *)
LEMMA OutdatedAnswer ==
  ASSUME NEW l \in Session!Link, NEW a
  PROVE  /\ a \in AnswerType => Session!Outdated(l, a) \in AnswerType
         /\ a = Session!Free => Session!Outdated(l, a) = Session!Free
         /\ Session!Outdated(l, a) \in Session!Link => Session!Outdated(l, a) = a /\ a # l
BY AnswerFacts DEF Session!Outdated

(* When a connection ends, nothing of it is left but answers marked old.    *)
LEMMA EndsType ==
  ASSUME NetType, NEW l \in Session!Link, Session!Ends(l)
  PROVE  NetType'
<1>1. /\ up' \in [Session!Link -> BOOLEAN] /\ known' \in [Session!Link -> BOOLEAN]
  BY DEF NetType, Session!Ends
<1>d. down' \in BOOLEAN
  BY Zenon DEF Session!Ends
<1>b. dl_buf' \in BlockType
  <2>1. dl_buf \in BlockType /\ dl_buf' = [b \in Session!Blocks |-> Session!Outdated(l, dl_buf[b])]
    BY DEF NetType, Session!Ends
  <2>2. \A b \in Session!Blocks :
          Session!Outdated(l, dl_buf[b]) \in AnswerType \cup {Session!Free}
    BY <2>1, OutdatedAnswer DEF BlockType
  <2>3. QED BY <2>1, <2>2 DEF BlockType
<1>2. rx \in Seq(AnswerType) /\ Len(rx) <= RxLen
  BY DEF NetType
<1>3. Len(rx) \in Nat /\ DOMAIN rx = 1 .. Len(rx) /\ \A i \in DOMAIN rx : rx[i] \in AnswerType
  BY <1>2
<1>4. \A i \in DOMAIN rx : Session!Outdated(l, rx[i]) \in AnswerType
  BY <1>3, OutdatedAnswer
<1>5. rx' \in [1 .. Len(rx) -> AnswerType]
  BY <1>3, <1>4 DEF Session!Ends
<1>6. rx' \in Seq(AnswerType)
  BY <1>3, <1>5, SeqDef
<1>7. Len(rx') = Len(rx)
  BY <1>3, <1>5, <1>6
<1>8. QED BY <1>1, <1>d, <1>b, <1>2, <1>6, <1>7 DEF NetType

LEMMA EndsFlags ==
  ASSUME NetType, NEW l \in Session!Link, Session!Ends(l)
  PROVE  /\ ~known'[l] /\ ~up'[l]
         /\ \A k \in Session!Link \ {l} : (known'[k] <=> known[k]) /\ (up'[k] <=> up[k])
         /\ down' => down /\ l # "ETH"
<1>1. /\ ~known'[l] /\ ~up'[l]
      /\ \A k \in Session!Link \ {l} : (known'[k] <=> known[k]) /\ (up'[k] <=> up[k])
  BY DEF NetType, Session!Ends
<1>2. down' => down /\ l # "ETH"
  BY Zenon DEF Session!Ends
<1>3. QED BY <1>1, <1>2

LEMMA EndsFresh ==
  ASSUME NetType, NEW l \in Session!Link, Session!Ends(l), FreshAnswers
  PROVE  FreshAnswers'
<1>1. ASSUME NEW a, Fresh(a), Session!Outdated(l, a) \in Session!Link
      PROVE  known'[Session!Outdated(l, a)]
  <2>1. Session!Outdated(l, a) = a /\ a \in Session!Link \ {l}
    BY <1>1, OutdatedAnswer
  <2>2. known'[a] <=> known[a]
    BY <2>1, EndsFlags, Zenon
  <2>3. known[a]
    BY <1>1, <2>1 DEF Fresh
  <2>4. QED BY <2>1, <2>2, <2>3, Zenon
<1>2. ASSUME NEW b \in Session!Blocks PROVE Fresh(dl_buf[b])'
  <2>1. dl_buf'[b] = Session!Outdated(l, dl_buf[b])
    BY <1>2 DEF Session!Ends
  <2>2. Fresh(dl_buf[b])
    BY <1>2, Zenon DEF FreshAnswers
  <2>3. QED BY <1>1, <2>1, <2>2, Zenon DEF Fresh
<1>3. ASSUME NEW i \in DOMAIN rx' PROVE Fresh(rx[i])'
  <2>1. i \in DOMAIN rx /\ rx'[i] = Session!Outdated(l, rx[i])
    BY <1>3 DEF Session!Ends
  <2>2. Fresh(rx[i])
    BY <2>1, Zenon DEF FreshAnswers
  <2>3. QED BY <1>1, <2>1, <2>2, Zenon DEF Fresh
<1>4. QED BY <1>2, <1>3, Zenon DEF FreshAnswers

-----------------------------------------------------------------------------
(* The lowest of some blocks is one of them.                                *)
LEMMA LowestBlock ==
  ASSUME SessionBounds, NEW S \in SUBSET Session!Blocks, S # {}
  PROVE  Session!Lowest(S) \in S
<1>1. S \in SUBSET Nat
  BY SessionLimits DEF Session!Blocks
<1>2. \E b \in S : \A c \in S : b <= c
  BY <1>1, Least, Zenon
<1>3. QED BY <1>2, Zenon DEF Session!Lowest

(* An answer that is put changes a block at most, which holds it then.      *)
LEMMA PutBlock ==
  ASSUME SessionBounds, NEW buf \in BlockType, NEW l \in Session!Link
  PROVE  /\ Session!fifo_put(l, buf) \in BlockType
         /\ \A b \in Session!Blocks : Session!fifo_put(l, buf)[b] \in {buf[b], l}
<1> DEFINE free == {b \in Session!Blocks : buf[b] = Session!Free}
           low == Session!Lowest(free)
           filled == [buf EXCEPT ![low] = l]
<1>1. CASE free = {}
  <2>1. Session!fifo_put(l, buf) = buf
    BY <1>1 DEF Session!fifo_put
  <2>2. QED BY <2>1
<1>2. CASE free # {}
  <2>1. Session!fifo_put(l, buf) = filled
    BY <1>2 DEF Session!fifo_put
  <2>2. low \in free
    BY <1>2, LowestBlock
  <2>3. low \in Session!Blocks
    BY <2>2
  <2> HIDE DEF low
  <2>4. filled \in BlockType /\ \A b \in Session!Blocks : filled[b] \in {buf[b], l}
    BY <2>3, AnswerFacts DEF BlockType
  <2>5. QED BY <2>1, <2>4
<1>3. QED BY <1>1, <1>2

(* The answer in the lowest block is taken, and queued where there is room. *)
LEMMA ReceivedNet ==
  ASSUME SessionBounds, NetType, FreshAnswers, known' = known, NEW buf \in BlockType,
         \A b \in Session!Blocks : Fresh(buf[b]),
         Session!RecvNetFrameAndPushToRxQueue(buf)
  PROVE  dl_buf' \in BlockType /\ rx' \in Seq(AnswerType) /\ Len(rx') <= RxLen /\ FreshAnswers'
<1> DEFINE used == {b \in Session!Blocks : buf[b] # Session!Free}
           low == Session!Lowest(used)
<1>1. rx \in Seq(AnswerType) /\ Len(rx) \in Nat /\ Len(rx) <= RxLen
      /\ \A i \in DOMAIN rx : Fresh(rx[i])
  BY Zenon, LenProperties DEF NetType, FreshAnswers
<1>2. CASE used = {}
  <2>1. dl_buf' = buf /\ rx' = rx
    BY <1>2 DEF Session!RecvNetFrameAndPushToRxQueue
  <2>2. FreshAnswers'
    BY <1>1, <2>1, Zenon DEF FreshAnswers, Fresh
  <2>3. QED BY <1>1, <2>1, <2>2
<1>3. CASE used # {}
  <2>1. /\ dl_buf' = [buf EXCEPT ![low] = Session!Free]
        /\ rx' = IF Len(rx) < RxLen THEN Append(rx, buf[low]) ELSE rx
    BY <1>3 DEF Session!RecvNetFrameAndPushToRxQueue
  <2>2. low \in used
    BY <1>3, LowestBlock
  <2>3. low \in Session!Blocks /\ buf[low] \in AnswerType
    BY <2>2 DEF BlockType
  <2> HIDE DEF low
  <2>4. dl_buf' \in BlockType /\ \A b \in Session!Blocks : dl_buf'[b] \in {buf[b], Session!Free}
    BY <2>1, <2>3 DEF BlockType
  <2>5. \A b \in Session!Blocks : Fresh(dl_buf[b])'
    BY <2>4, AnswerFacts DEF Fresh
  <2>6. CASE Len(rx) < RxLen
    <3>1. rx' = Append(rx, buf[low])
      BY <2>1, <2>6
    <3>2. rx' \in Seq(AnswerType) /\ Len(rx') = Len(rx) + 1
      BY <1>1, <2>3, <3>1, AppendProperties
    <3>3. Len(rx') <= RxLen
      BY <1>1, <2>6, <3>2, SessionLimits
    <3>4. ASSUME NEW i \in DOMAIN rx' PROVE Fresh(rx[i])'
      <4>1. CASE i \in DOMAIN rx
        <5>1. rx'[i] = rx[i]
          BY <1>1, <2>3, <3>1, <4>1
        <5>2. QED BY <1>1, <4>1, <5>1, Zenon DEF Fresh
      <4>2. CASE i \notin DOMAIN rx
        <5>1. rx'[i] = buf[low]
          BY <1>1, <2>3, <3>1, <4>2
        <5>2. Fresh(buf[low])
          BY <2>3, Zenon
        <5>3. QED BY <5>1, <5>2, Zenon DEF Fresh
      <4>3. QED BY <4>1, <4>2
    <3>5. FreshAnswers'
      BY <2>5, <3>4, Zenon DEF FreshAnswers
    <3>6. QED BY <2>4, <3>2, <3>3, <3>5
  <2>7. CASE ~(Len(rx) < RxLen)
    <3>1. rx' = rx
      BY <2>1, <2>7
    <3>2. FreshAnswers'
      BY <1>1, <2>5, <3>1, Zenon DEF FreshAnswers, Fresh
    <3>3. QED BY <1>1, <2>4, <3>1, <3>2
  <2>8. QED BY <2>6, <2>7
<1>4. QED BY <1>2, <1>3

(* A frame goes out where the connection is open.                           *)
LEMMA SentNet ==
  ASSUME SessionBounds, Session!TypeOK, NEW l \in Session!Link, NEW open,
         Session!PullTxQueueAndSendFrame(l, open)
  PROVE  /\ tx' \in [Session!Link -> 0 .. TxLen] /\ up' \in [Session!Link -> BOOLEAN]
         /\ known' = known
         /\ \A k \in Session!Link : up'[k] => up[k] \/ (k = l /\ open)
<1>1. up \in [Session!Link -> BOOLEAN] /\ tx \in [Session!Link -> 0 .. TxLen]
  BY TypeParts DEF TaskType, NetType
<1>2. CASE tx[l] > 0
  <2>1. tx' = [tx EXCEPT ![l] = @ - 1] /\ (up' = IF open THEN [up EXCEPT ![l] = TRUE] ELSE up)
    BY <1>2 DEF Session!PullTxQueueAndSendFrame
  <2>2. tx[l] - 1 \in 0 .. TxLen
    BY <1>1, <1>2, SessionLimits
  <2>3. tx' \in [Session!Link -> 0 .. TxLen]
    BY <1>1, <2>1, <2>2
  <2>4. up' \in [Session!Link -> BOOLEAN] /\ \A k \in Session!Link : up'[k] => up[k] \/ (k = l /\ open)
    <3>1. CASE open
      BY <1>1, <2>1, <3>1
    <3>2. CASE ~open
      BY <1>1, <2>1, <3>2
    <3>3. QED BY <3>1, <3>2
  <2>5. QED BY <2>3, <2>4, Zenon DEF Session!PullTxQueueAndSendFrame
<1>3. CASE ~(tx[l] > 0)
  <2>1. tx' = tx /\ up' = up /\ known' = known
    BY <1>3 DEF Session!PullTxQueueAndSendFrame
  <2>2. QED BY <1>1, <2>1
<1>4. QED BY <1>2, <1>3

(* The loop of the TCP client puts the answer it was waiting for first, ... *)
LEMMA LoopNet ==
  ASSUME SessionBounds, NetType, KnownOpen, FreshAnswers, known' = known, Session!EthLoop
  PROVE  dl_buf' \in BlockType /\ rx' \in Seq(AnswerType) /\ Len(rx') <= RxLen /\ FreshAnswers'
<1> DEFINE buf == IF down THEN Session!fifo_put("ETH", dl_buf) ELSE dl_buf
<1>1. Session!RecvNetFrameAndPushToRxQueue(buf)
  BY DEF Session!EthLoop
<1>2. dl_buf \in BlockType /\ \A b \in Session!Blocks : Fresh(dl_buf[b])
  BY Zenon DEF NetType, FreshAnswers
<1>3. buf \in BlockType /\ \A b \in Session!Blocks : Fresh(buf[b])
  <2>1. CASE down
    <3>1. buf = Session!fifo_put("ETH", dl_buf)
      BY <2>1
    <3>2. buf \in BlockType /\ \A b \in Session!Blocks : buf[b] \in {dl_buf[b], "ETH"}
      BY <1>2, <3>1, PutBlock, LinkFacts
    <3>3. Fresh("ETH")
      BY <2>1 DEF KnownOpen, Fresh
    <3>4. ASSUME NEW b \in Session!Blocks PROVE Fresh(buf[b])
      <4>1. buf[b] = dl_buf[b] \/ buf[b] = "ETH"
        BY <3>2
      <4>2. QED BY <1>2, <3>3, <4>1, Zenon DEF Fresh
    <3>5. QED BY <3>2, <3>4
  <2>2. CASE ~down
    BY <1>2, <2>2
  <2>3. QED BY <2>1, <2>2
<1> HIDE DEF buf
<1>4. QED BY <1>1, <1>3, ReceivedNet

(* ... and what the server answers is put or waits for it.                  *)
LEMMA AcceptedNet ==
  ASSUME SessionBounds, NetType, KnownOpen, FreshAnswers, NEW l \in Session!Link,
         Session!ServerAccepts(l)
  PROVE  NetType' /\ FreshAnswers' /\ (down' => down \/ l = "ETH")
<1>1. /\ up' \in [Session!Link -> BOOLEAN] /\ known' \in [Session!Link -> BOOLEAN] /\ rx' = rx
      /\ \A k \in Session!Link : known[k] \/ k = l => known'[k]
  BY DEF NetType, Session!ServerAccepts
<1>2. \A a : Fresh(a) \/ a = l => Fresh(a)'
  BY <1>1, Zenon DEF Fresh
<1>3. \A i \in DOMAIN rx : Fresh(rx[i])'
  BY <1>1, <1>2, Zenon DEF FreshAnswers, Fresh
<1>4. CASE l = "4G" /\ dl_buf' = Session!fifo_put(l, dl_buf) /\ UNCHANGED down
  <2>1. dl_buf' \in BlockType /\ \A b \in Session!Blocks : dl_buf'[b] \in {dl_buf[b], l}
    BY <1>4, PutBlock DEF NetType
  <2>2. ASSUME NEW b \in Session!Blocks PROVE Fresh(dl_buf[b])'
    <3>1. Fresh(dl_buf[b])
      BY Zenon DEF FreshAnswers
    <3>2. dl_buf'[b] = dl_buf[b] \/ dl_buf'[b] = l
      BY <2>1
    <3>3. QED BY <1>1, <3>1, <3>2, Zenon DEF Fresh
  <2>3. NetType'
    BY <1>1, <1>4, <2>1 DEF NetType
  <2>4. FreshAnswers'
    BY <1>1, <1>3, <2>2, Zenon DEF FreshAnswers, Fresh
  <2>5. QED BY <1>4, <2>3, <2>4
<1>5. CASE l = "ETH" /\ down' = TRUE /\ UNCHANGED dl_buf
  <2>1. NetType'
    BY <1>1, <1>5 DEF NetType
  <2>2. \A b \in Session!Blocks : Fresh(dl_buf[b])'
    BY <1>1, <1>5, Zenon DEF FreshAnswers, Fresh
  <2>3. FreshAnswers'
    BY <1>1, <1>3, <2>2, Zenon DEF FreshAnswers, Fresh
  <2>4. QED BY <1>5, <2>1, <2>3
<1>6. QED BY <1>4, <1>5 DEF Session!ServerAccepts, Session!Delivered

-----------------------------------------------------------------------------
(* The link in use is a link.                                               *)
LEMMA UseType == Session!Use \in Session!Link /\ Session!Use' \in Session!Link
BY DEF Session!Use, Session!LinkFor, Session!Link

(* A change is counted up to its bound.                                     *)
LEMMA ChangeType ==
  ASSUME SessionBounds, Session!TypeOK, Session!Change PROVE changes' \in 0 .. MaxChange
BY SessionLimits DEF Session!TypeOK, Session!Change

(* What excuses the flag is a truth value.                                  *)
LEMMA CreditType == ASSUME NEW e, Session!Credit(e) PROVE excused' \in BOOLEAN
BY Zenon DEF Session!Credit

(* RE_INIT.                                                                 *)
LEMMA ReInitType ==
  ASSUME Session!TypeOK, Session!ReInit
  PROVE  /\ NetType' /\ pdp' \in BOOLEAN /\ urc' \in BOOLEAN /\ again' \in BOOLEAN
         /\ LoginResponse' = 0 /\ retry_times1' = retry_times1 /\ EC20ConnectState' \in Session!State
         /\ asked' = asked /\ task4G' = "init" /\ socket' = "none"
<1>1. NetType' /\ pdp' \in BOOLEAN /\ urc' \in BOOLEAN /\ again' \in BOOLEAN
  BY TypeParts, EndsType, LinkFacts, Zenon DEF Session!ReInit
<1>2. QED BY <1>1 DEF Session!ReInit, Session!ClearLogin, Session!State

(* The types at the start.                                                  *)
LEMMA SessionTypeInit ==
  ASSUME SessionBounds PROVE Session!Init => Session!TypeOK
<1> SUFFICES ASSUME Session!Init PROVE Session!TypeOK
  OBVIOUS
<1> USE DEF Session!Init
<1>1. NetType
  <2>1. /\ up \in [Session!Link -> BOOLEAN] /\ down \in BOOLEAN
        /\ known \in [Session!Link -> BOOLEAN]
    BY DEF Session!Both
  <2>b. dl_buf \in BlockType
    BY DEF BlockType
  <2>2. rx \in Seq(AnswerType) /\ Len(rx) = 0
    OBVIOUS
  <2>3. Len(rx) <= RxLen
    BY <2>2, SessionLimits
  <2>4. QED BY <2>1, <2>b, <2>2, <2>3 DEF NetType
<1>2. TaskType
  <2>1. tx \in [Session!Link -> 0 .. TxLen]
    BY SessionLimits DEF Session!Both
  <2>2. QED BY <2>1, SessionLimits DEF TaskType, Session!State
<1>3. FlagType
  BY Zenon DEF FlagType
<1>4. QED BY <1>1, <1>2, <1>3, TypeParts

(* What the modem's commands leave.                                         *)
LEMMA SwitchType ==
  ASSUME SessionBounds, Session!TypeOK, KnownOpen, FreshAnswers, Session!Switch
  PROVE  NetType' /\ TaskType' /\ pdp' \in BOOLEAN /\ urc' \in BOOLEAN /\ again' \in BOOLEAN
<1>1. NetType /\ TaskType /\ pdp \in BOOLEAN /\ urc \in BOOLEAN /\ again \in BOOLEAN
  BY TypeParts, Zenon DEF FlagType
<1>2. UNCHANGED <<connection_mode, FlagReConnectToServer, tcp>>
  BY DEF Session!Switch
<1>3. CASE Session!Fails
  <2>1. Session!ReInit /\ tx' = tx /\ Session!Change
    BY <1>3 DEF Session!Fails
  <2>2. QED BY <1>1, <1>2, <2>1, ReInitType, ChangeType DEF TaskType
<1>4. CASE /\ Session!Succeeds /\ socket' \in {"none", "open", "closed"}
           /\ pdp' \in BOOLEAN /\ urc' \in BOOLEAN /\ again' \in BOOLEAN
           /\ tx' \in [Session!Link -> 0 .. TxLen] /\ NetType'
  BY <1>1, <1>2, <1>4 DEF TaskType, Session!Succeeds, Session!login
<1>l. Session!Left => again' \in BOOLEAN
  BY Zenon DEF Session!Left
<1>5. CASE Session!ec20_set_AT_QIACT
  <2>1. ASSUME Session!Succeeds, pdp' = TRUE, UNCHANGED <<socket, urc, tx, Session!net, again>>
        PROVE  NetType'
    BY <1>1, <2>1 DEF Session!net, NetType
  <2>2. CASE Session!Succeeds /\ pdp' = TRUE /\ UNCHANGED <<socket, urc, tx, Session!net, again>>
    BY <1>1, <1>4, <2>1, <2>2 DEF TaskType
  <2>3. CASE /\ Session!Succeeds /\ pdp' = TRUE /\ socket' = "none" /\ Session!Left
             /\ Session!Ends("4G") /\ UNCHANGED <<urc, tx>>
    <3>1. NetType'
      BY <1>1, <2>3, EndsType, LinkFacts
    <3>2. QED BY <1>1, <1>4, <1>l, <2>3, <3>1 DEF TaskType
  <2>4. QED BY <1>3, <1>5, <2>2, <2>3 DEF Session!ec20_set_AT_QIACT
<1>6. CASE Session!ec20_set_AT_QICLOSE
  <2>1. CASE /\ Session!Succeeds /\ socket' = "none" /\ Session!Left /\ Session!Ends("4G")
             /\ UNCHANGED <<pdp, urc, tx>>
    <3>1. NetType'
      BY <1>1, <2>1, EndsType, LinkFacts
    <3>2. QED BY <1>1, <1>4, <1>l, <2>1, <3>1 DEF TaskType
  <2>2. QED BY <1>3, <1>6, <2>1 DEF Session!ec20_set_AT_QICLOSE
<1>7. CASE Session!ec20_set_AT_QIOPEN
  BY <1>1, <1>3, <1>4, <1>7, EndsType, LinkFacts DEF Session!ec20_set_AT_QIOPEN, TaskType
<1>8. CASE Session!Opening
  <2>1. ASSUME Session!Succeeds, UNCHANGED <<Session!modem, tx, Session!net, again>>
        PROVE  NetType'
    BY <1>1, <2>1 DEF Session!net, NetType
  <2>2. QED BY <1>1, <1>3, <1>4, <1>8, <2>1 DEF Session!Opening, TaskType, Session!modem
<1>9. CASE Session!Poll4G
  <2>1. /\ Session!RecvNetFrameAndPushToRxQueue(dl_buf)
        /\ Session!PullTxQueueAndSendFrame("4G", socket = "open")
        /\ Session!Succeeds /\ UNCHANGED <<down, Session!modem, again>>
    BY <1>9 DEF Session!Poll4G
  <2>2. NetType' /\ tx' \in [Session!Link -> 0 .. TxLen]
    <3>1. /\ tx' \in [Session!Link -> 0 .. TxLen] /\ up' \in [Session!Link -> BOOLEAN]
          /\ known' = known
      BY <2>1, SentNet, LinkFacts
    <3>2. dl_buf \in BlockType /\ \A b \in Session!Blocks : Fresh(dl_buf[b])
      BY <1>1, Zenon DEF NetType, FreshAnswers
    <3>3. dl_buf' \in BlockType /\ rx' \in Seq(AnswerType) /\ Len(rx') <= RxLen
      BY <1>1, <2>1, <3>1, <3>2, ReceivedNet
    <3>4. QED BY <1>1, <2>1, <3>1, <3>3 DEF NetType
  <2>3. QED BY <1>1, <1>4, <2>1, <2>2 DEF Session!modem, TaskType
<1>10. QED BY <1>5, <1>6, <1>7, <1>8, <1>9 DEF Session!Switch

(* No step leaves the types.                                                *)
LEMMA SessionTypeNext ==
  ASSUME SessionBounds
  PROVE  Session!TypeOK /\ SessionInv /\ [Session!Next]_Session!vars => Session!TypeOK'
<1> SUFFICES ASSUME Session!TypeOK, SessionInv, [Session!Next]_Session!vars PROVE Session!TypeOK'
  OBVIOUS
<1> USE DEF Session!login, Session!ec20, Session!modem, Session!net
<1>a. NetType /\ TaskType /\ FlagType
  BY TypeParts
<1>b. KnownOpen /\ FreshAnswers
  BY DEF SessionInv
<1>c. ASSUME UNCHANGED Session!net PROVE NetType'
  BY <1>a, <1>c DEF NetType
<1>d. ASSUME excused' \in BOOLEAN, UNCHANGED <<pdp, urc, again>> PROVE FlagType'
  BY <1>a, <1>d, Zenon DEF FlagType
<1>e. ASSUME excused' = excused, UNCHANGED <<pdp, urc, again>> PROVE FlagType'
  BY <1>a, <1>e, Zenon DEF FlagType
<1>f. ASSUME NetType', TaskType', FlagType' PROVE Session!TypeOK'
  BY <1>f, Zenon DEF Session!TypeOK, NetType, TaskType, FlagType, AnswerType, BlockType
<1>1. CASE Session!Initialised
  <2>1. NetType' /\ FlagType'
    BY <1>1, <1>c, <1>e DEF Session!Initialised
  <2>2. TaskType'
    BY <1>1, <1>a DEF Session!Initialised, TaskType
  <2>3. QED BY <2>1, <2>2, <1>f
<1>2. CASE Session!ReConnect4G
  <2>1. Session!ReInit /\ Session!Credit(FALSE)
    BY <1>2 DEF Session!ReConnect4G
  <2>2. NetType' /\ FlagType'
    BY <2>1, ReInitType, CreditType, Zenon DEF FlagType
  <2>3. TaskType'
    BY <1>2, <1>a, <2>1, ReInitType DEF Session!ReConnect4G, TaskType
  <2>4. QED BY <2>2, <2>3, <1>f
<1>3. CASE Session!ec20_get_AT_QISTATE
  <2>1. NetType' /\ FlagType'
    BY <1>3, <1>c, <1>e DEF Session!ec20_get_AT_QISTATE
  <2>2. changes' \in 0 .. MaxChange
    BY <1>3, <1>a, ChangeType DEF Session!ec20_get_AT_QISTATE, TaskType
  <2>3. asked' \in Session!State
    <3>1. Session!Answer \in Session!State
      BY DEF Session!Answer, Session!State
    <3>2. asked' = Session!Answer \/ asked' \in {"UNKNOW", "INITIAL", "OPENING", "GOT_IP"}
      BY <1>3 DEF Session!ec20_get_AT_QISTATE
    <3>3. QED BY <3>1, <3>2 DEF Session!State
  <2>4. TaskType'
    BY <1>3, <1>a, <2>2, <2>3 DEF Session!ec20_get_AT_QISTATE, TaskType
  <2>5. QED BY <2>1, <2>4, <1>f
<1>4. CASE Session!Asked
  <2>1. NetType' /\ FlagType'
    BY <1>4, <1>c, <1>d, CreditType DEF Session!Asked
  <2>2. TaskType'
    BY <1>4, <1>a DEF Session!Asked, TaskType, Session!State
  <2>3. QED BY <2>1, <2>2, <1>f
<1>5. CASE Session!NotYet
  <2>1. NetType' /\ FlagType'
    BY <1>5, <1>c, <1>e DEF Session!NotYet
  <2>2. TaskType'
    BY <1>5, <1>a DEF Session!NotYet, TaskType
  <2>3. QED BY <2>1, <2>2, <1>f
<1>6. CASE Session!Switch
  <2>1. excused' \in BOOLEAN
    BY <1>6, CreditType DEF Session!Switch
  <2>2. NetType' /\ TaskType' /\ pdp' \in BOOLEAN /\ urc' \in BOOLEAN /\ again' \in BOOLEAN
    BY <1>6, <1>b, SwitchType
  <2>3. FlagType'
    BY <2>1, <2>2, Zenon DEF FlagType
  <2>4. QED BY <2>2, <2>3, <1>f
<1>7. CASE Session!Closed
  <2>1. NetType'
    BY <1>7, <1>c DEF Session!Closed
  <2>2. FlagType'
    <3>1. excused' \in BOOLEAN /\ urc' = FALSE /\ UNCHANGED <<pdp, again>>
      BY <1>7, CreditType DEF Session!Closed
    <3>2. QED BY <1>a, <3>1, Zenon DEF FlagType
  <2>3. TaskType'
    BY <1>7, <1>a DEF Session!Closed, TaskType, Session!State
  <2>4. QED BY <2>1, <2>2, <2>3, <1>f
<1>8. CASE Session!EthConnect
  <2>1. NetType' /\ FlagType'
    BY <1>8, <1>c, <1>d, CreditType DEF Session!EthConnect
  <2>2. TaskType'
    BY <1>8, <1>a DEF Session!EthConnect, TaskType
  <2>3. QED BY <2>1, <2>2, <1>f
<1>9. CASE Session!EthKeptOff
  <2>1. Session!EthClose /\ tx' = tx
    BY <1>9 DEF Session!EthKeptOff
  <2>2. NetType'
    BY <1>a, <2>1, EndsType, LinkFacts DEF Session!EthClose
  <2>3. FlagType'
    BY <2>1, <1>d, CreditType DEF Session!EthClose
  <2>4. TaskType'
    BY <1>a, <2>1 DEF Session!EthClose, TaskType
  <2>5. QED BY <2>2, <2>3, <2>4, <1>f
<1>21. CASE Session!EthClosed
  <2>1. NetType' /\ tx' \in [Session!Link -> 0 .. TxLen]
    <3>1. /\ Session!RecvNetFrameAndPushToRxQueue(dl_buf)
          /\ Session!PullTxQueueAndSendFrame("ETH", FALSE) /\ UNCHANGED down
      BY <1>21 DEF Session!EthClosed
    <3>2. /\ tx' \in [Session!Link -> 0 .. TxLen] /\ up' \in [Session!Link -> BOOLEAN]
          /\ known' = known
      BY <3>1, SentNet, LinkFacts
    <3>3. dl_buf \in BlockType /\ \A b \in Session!Blocks : Fresh(dl_buf[b])
      BY <1>a, <1>b, Zenon DEF NetType, FreshAnswers
    <3>4. dl_buf' \in BlockType /\ rx' \in Seq(AnswerType) /\ Len(rx') <= RxLen
      BY <1>a, <1>b, <3>1, <3>2, <3>3, ReceivedNet
    <3>5. QED BY <1>a, <3>1, <3>2, <3>4 DEF NetType
  <2>2. FlagType'
    BY <1>21, <1>d, CreditType DEF Session!EthClosed
  <2>3. TaskType'
    BY <1>21, <1>a, <2>1 DEF Session!EthClosed, TaskType
  <2>4. QED BY <2>1, <2>2, <2>3, <1>f
<1>10. CASE Session!EthLoop
  <2>1. NetType' /\ tx' \in [Session!Link -> 0 .. TxLen]
    <3>1. down' = FALSE /\ Session!PullTxQueueAndSendFrame("ETH", tcp = "open")
      BY <1>10 DEF Session!EthLoop
    <3>2. /\ tx' \in [Session!Link -> 0 .. TxLen] /\ up' \in [Session!Link -> BOOLEAN]
          /\ known' = known
      BY <3>1, SentNet, LinkFacts
    <3>3. dl_buf' \in BlockType /\ rx' \in Seq(AnswerType) /\ Len(rx') <= RxLen
      BY <1>10, <1>a, <1>b, <3>2, LoopNet
    <3>4. QED BY <1>a, <3>1, <3>2, <3>3 DEF NetType
  <2>2. FlagType'
    BY <1>10, <1>e DEF Session!EthLoop
  <2>3. TaskType'
    BY <1>10, <1>a, <2>1 DEF Session!EthLoop, TaskType
  <2>4. QED BY <2>1, <2>2, <2>3, <1>f
<1>11. ASSUME NEW l \in Session!Link, Session!ServerAccepts(l) PROVE Session!TypeOK'
  <2>1. NetType'
    BY <1>11, <1>a, <1>b, AcceptedNet
  <2>2. FlagType'
    BY <1>11, <1>e DEF Session!ServerAccepts
  <2>3. TaskType'
    BY <1>11, <1>a DEF Session!ServerAccepts, TaskType
  <2>4. QED BY <2>1, <2>2, <2>3, <1>f
<1>12. CASE Session!ServerCloses
  <2>1. \E l \in Session!Link : Session!Ends(l)
    BY <1>12, LinkFacts DEF Session!ServerCloses
  <2>2. NetType'
    BY <1>a, <2>1, EndsType
  <2>3. FlagType'
    <3>1. urc' \in BOOLEAN /\ UNCHANGED <<pdp, again, excused>>
      BY <1>12, <1>a, Zenon DEF Session!ServerCloses, FlagType
    <3>2. QED BY <1>a, <3>1, Zenon DEF FlagType
  <2>4. TaskType'
    BY <1>12, <1>a, ChangeType DEF Session!ServerCloses, TaskType
  <2>5. QED BY <2>2, <2>3, <2>4, <1>f
<1>13. CASE Session!SendLogin
  <2>1. NetType' /\ FlagType'
    BY <1>13, <1>c, <1>e DEF Session!SendLogin
  <2>2. tx \in [Session!Link -> 0 .. TxLen] /\ tx[Session!Use] \in 0 .. TxLen
    BY <1>a, UseType DEF TaskType
  <2>3. CASE retry_times1 < Times
    <3>1. /\ retry_times1' = retry_times1 + 1
          /\ tx' = [tx EXCEPT ![Session!Use] = IF tx[Session!Use] < TxLen THEN tx[Session!Use] + 1
                                              ELSE tx[Session!Use]]
      BY <1>13, <2>3 DEF Session!SendLogin
    <3>2. (IF tx[Session!Use] < TxLen THEN tx[Session!Use] + 1 ELSE tx[Session!Use]) \in 0 .. TxLen
      BY <2>2, SessionLimits
    <3>3. tx' \in [Session!Link -> 0 .. TxLen]
      BY <2>2, <3>1, <3>2, UseType
    <3>4. retry_times1' \in 0 .. Times
      BY <1>a, <2>3, <3>1, SessionLimits DEF TaskType
    <3>5. TaskType'
      BY <1>13, <1>a, <3>3, <3>4 DEF Session!SendLogin, TaskType
    <3>6. QED BY <2>1, <3>5, <1>f
  <2>4. CASE ~(retry_times1 < Times)
    <3>1. retry_times1' \in 0 .. Times /\ tx' = tx
      BY <1>13, <2>4, SessionLimits DEF Session!SendLogin, Session!StartAgain
    <3>2. TaskType'
      BY <1>13, <1>a, <3>1 DEF Session!SendLogin, TaskType
    <3>3. QED BY <2>1, <3>2, <1>f
  <2>5. QED BY <2>3, <2>4
<1>14. CASE Session!LoggedIn
  <2>1. NetType' /\ FlagType'
    BY <1>14, <1>c, <1>e DEF Session!LoggedIn
  <2>2. TaskType'
    BY <1>14, <1>a, SessionLimits DEF Session!LoggedIn, TaskType
  <2>3. QED BY <2>1, <2>2, <1>f
<1>15. CASE Session!HandleLogin
  <2>1. rx \in Seq(AnswerType) /\ rx # << >> /\ rx' = Tail(rx) /\ Len(rx) <= RxLen
    BY <1>15, <1>a DEF Session!HandleLogin, NetType
  <2>2. rx' \in Seq(AnswerType) /\ Len(rx') <= RxLen
    BY <2>1, SessionLimits
  <2>3. NetType'
    BY <1>15, <1>a, <2>2 DEF Session!HandleLogin, NetType
  <2>4. FlagType'
    BY <1>15, <1>d, CreditType DEF Session!HandleLogin
  <2>5. TaskType'
    BY <1>15, <1>a DEF Session!HandleLogin, TaskType
  <2>6. QED BY <2>3, <2>4, <2>5, <1>f
<1>16. CASE Session!ReConnectToServer
  <2>1. NetType' /\ FlagType'
    BY <1>16, <1>c, <1>e DEF Session!ReConnectToServer
  <2>2. TaskType'
    BY <1>16, <1>a, ChangeType DEF Session!ReConnectToServer, TaskType
  <2>3. QED BY <2>1, <2>2, <1>f
<1>17. CASE Session!PassOn
  <2>1. NetType' /\ FlagType'
    BY <1>17, <1>c, <1>d, CreditType DEF Session!PassOn
  <2>2. TaskType'
    BY <1>17, <1>a DEF Session!PassOn, TaskType
  <2>3. QED BY <2>1, <2>2, <1>f
<1>18. CASE Session!SetBasicConfiguration
  <2>1. NetType' /\ FlagType'
    BY <1>18, <1>c, <1>d, CreditType DEF Session!SetBasicConfiguration
  <2>2. TaskType'
    BY <1>18, <1>a, ChangeType DEF Session!SetBasicConfiguration, TaskType
  <2>3. QED BY <2>1, <2>2, <1>f
<1>19. CASE UNCHANGED Session!vars
  <2>1. NetType' /\ FlagType'
    BY <1>19, <1>c, <1>e DEF Session!vars
  <2>2. TaskType'
    BY <1>19, <1>a DEF Session!vars, TaskType
  <2>3. QED BY <2>1, <2>2, <1>f
<1>20. QED
  BY <1>1, <1>2, <1>3, <1>4, <1>5, <1>6, <1>7, <1>8, <1>9, <1>21, <1>10, <1>11, <1>12, <1>13,
     <1>14, <1>15, <1>16, <1>17, <1>18, <1>19 DEF Session!Next

-----------------------------------------------------------------------------
(* A connection that ends takes with it what the server knew.               *)
LEMMA EndsKnownOpen ==
  ASSUME NetType, KnownOpen, NEW l \in Session!Link, Session!Ends(l),
         \A k \in Session!Link \ {l} : Session!Open(k) => Session!Open(k)'
  PROVE  KnownOpen'
<1>1. ASSUME NEW k \in Session!Link PROVE up'[k] \/ known'[k] => Session!Open(k)'
  <2>1. CASE k = l
    BY <2>1, EndsFlags, Zenon
  <2>2. CASE k # l
    <3>1. (known'[k] <=> known[k]) /\ (up'[k] <=> up[k])
      BY <2>2, EndsFlags
    <3>2. up[k] \/ known[k] => Session!Open(k)
      BY Zenon DEF KnownOpen
    <3>3. QED BY <2>2, <3>1, <3>2, Zenon
  <2>3. QED BY <2>1, <2>2
<1>2. ASSUME down' PROVE known'["ETH"]
  <2>1. known["ETH"] /\ l # "ETH"
    BY <1>2, EndsFlags, Zenon DEF KnownOpen
  <2>2. QED BY <2>1, EndsFlags, LinkFacts
<1>3. QED BY <1>1, <1>2, Zenon DEF KnownOpen

(* Where nothing is under way anew and no connection ends, it still holds.  *)
LEMMA KnownOpenStays ==
  ASSUME KnownOpen, UNCHANGED <<up, down, known>>,
         \A k \in Session!Link : Session!Open(k) => Session!Open(k)'
  PROVE  KnownOpen'
BY Zenon DEF KnownOpen

LEMMA FreshStays == ASSUME FreshAnswers, UNCHANGED <<dl_buf, rx, known>> PROVE FreshAnswers'
BY Zenon DEF FreshAnswers, Fresh

(* What the flag says survives a step that neither credits it elsewhere nor *)
(* changes the link in use.                                                 *)
LEMMA CreditSpeaks ==
  ASSUME Speaks, NEW e, Session!Credit(e), LoginResponse' = 1 => LoginResponse = 1,
         ASSUME Session!Use' = Session!Use, ~e, Holds(Session!Use) PROVE Holds(Session!Use)'
  PROVE  Speaks'
BY Zenon DEF Speaks, Session!Credit

LEMMA QuietSpeaks ==
  ASSUME Speaks,
         UNCHANGED <<connection_mode, LoginResponse, EC20ConnectState, tcp, excused>>,
         ASSUME Session!Use' = Session!Use, Holds(Session!Use) PROVE Holds(Session!Use)'
  PROVE  Speaks'
<1>1. Session!Use' = Session!Use
  BY DEF Session!Use, Session!LinkFor
<1>2. QED BY <1>1, Zenon DEF Speaks

(* A login that is cleared says nothing.                                    *)
LEMMA ClearedSpeaks == ASSUME LoginResponse' = 0 PROVE Speaks'
BY DEF Speaks

(* RE_INIT clears the login with the connection.                            *)
LEMMA ReInitInv ==
  ASSUME Session!TypeOK, SessionInv, Session!ReInit, UNCHANGED tcp
  PROVE  SessionInv'
<1>1. NetType /\ Session!Ends("4G") /\ LoginResponse' = 0
  BY TypeParts DEF Session!ReInit, Session!ClearLogin
<1>2. KnownOpen'
  <2>1. \A k \in Session!Link \ {"4G"} : Session!Open(k) => Session!Open(k)'
    BY DEF Session!Link, Session!Open
  <2>2. QED BY <1>1, <2>1, EndsKnownOpen, LinkFacts DEF SessionInv
<1>3. FreshAnswers'
  BY <1>1, EndsFresh, LinkFacts DEF SessionInv
<1>4. QED BY <1>1, <1>2, <1>3, ClearedSpeaks DEF SessionInv

(* Only a socket reopened without RE_INIT could leave the flag behind, and  *)
(* that is excused.                                                         *)
LEMMA SwitchInv ==
  ASSUME SessionBounds, Session!TypeOK, SessionInv, Session!Switch
  PROVE  SessionInv'
<1> USE DEF Session!net, Session!modem, Session!login
<1>1. NetType /\ KnownOpen /\ FreshAnswers /\ Speaks
  BY TypeParts DEF SessionInv
<1>2. UNCHANGED <<connection_mode, tcp>>
  BY DEF Session!Switch
<1>3. Session!Credit(EC20ConnectState = "GOT_IP" /\ socket' = "open" /\ (again \/ socket # "none"))
  BY DEF Session!Switch
<1>4. CASE Session!Fails
  BY <1>2, <1>4, ReInitInv DEF Session!Fails
<1>5. ASSUME Session!Succeeds, UNCHANGED <<socket, Session!net, again>> PROVE SessionInv'
  <2>1. KnownOpen'
    BY <1>1, <1>2, <1>5, KnownOpenStays DEF Session!Open
  <2>2. FreshAnswers'
    BY <1>1, <1>5, FreshStays
  <2>3. ASSUME Session!Use' = Session!Use, Holds(Session!Use) PROVE Holds(Session!Use)'
    BY <1>2, <1>5, <2>3, Zenon DEF Holds
  <2>4. Speaks'
    BY <1>1, <1>3, <1>5, <2>3, CreditSpeaks, Zenon DEF Session!Succeeds
  <2>5. QED BY <2>1, <2>2, <2>4 DEF SessionInv
<1>7. CASE Session!Succeeds /\ socket' = "none" /\ Session!Left /\ Session!Ends("4G")
  <2>1. Session!Succeeds /\ socket' = "none" /\ Session!Ends("4G")
    BY <1>7
  <2>2. again' <=> again \/ socket # "none"
    BY <1>7, Zenon DEF Session!Left
  <2>3. \A k \in Session!Link \ {"4G"} : Session!Open(k) => Session!Open(k)'
    BY <1>2 DEF Session!Link, Session!Open
  <2>4. KnownOpen' /\ FreshAnswers'
    BY <1>1, <2>1, <2>3, EndsKnownOpen, EndsFresh, LinkFacts
  <2>5. ASSUME Session!Use' = Session!Use, Holds(Session!Use) PROVE Holds(Session!Use)'
    <3>1. CASE Session!Use = "ETH"
      <4>1. known'["ETH"] <=> known["ETH"]
        BY <1>1, <2>1, EndsFlags, LinkFacts
      <4>2. QED BY <1>2, <2>5, <3>1, <4>1, Zenon DEF Holds
    <3>2. CASE Session!Use # "ETH"
      <4>1. known["4G"] \/ socket = "closed" \/ (socket = "none" /\ again)
        BY <2>5, <3>2, Zenon DEF Holds
      <4>2. known["4G"] => socket # "none"
        BY <1>1, LinkFacts DEF KnownOpen, Session!Open
      <4>3. socket = "closed" => socket # "none"
        OBVIOUS
      <4>4. again'
        BY <2>2, <4>1, <4>2, <4>3, Zenon
      <4>5. QED BY <2>1, <2>5, <3>2, <4>4, Zenon DEF Holds
    <3>3. QED BY <3>1, <3>2
  <2>6. Speaks'
    BY <1>1, <1>3, <2>1, <2>5, CreditSpeaks, Zenon DEF Session!Succeeds
  <2>7. QED BY <2>4, <2>6 DEF SessionInv
<1>6. CASE Session!ec20_set_AT_QIACT
  BY <1>4, <1>5, <1>6, <1>7 DEF Session!ec20_set_AT_QIACT
<1>13. CASE Session!ec20_set_AT_QICLOSE
  BY <1>4, <1>7, <1>13 DEF Session!ec20_set_AT_QICLOSE
<1>8. CASE EC20ConnectState = "GOT_IP" /\ Session!ec20_set_AT_QIOPEN /\ ~Session!Fails
  <2>1. Session!Succeeds /\ socket' = "open" /\ Session!Ends("4G")
    BY <1>8 DEF Session!ec20_set_AT_QIOPEN
  <2>3. \A k \in Session!Link \ {"4G"} : Session!Open(k) => Session!Open(k)'
    BY <1>2 DEF Session!Link, Session!Open
  <2>4. KnownOpen' /\ FreshAnswers'
    BY <1>1, <2>1, <2>3, EndsKnownOpen, EndsFresh, LinkFacts
  <2>5. ASSUME Session!Use' = Session!Use, Holds(Session!Use),
               ~(EC20ConnectState = "GOT_IP" /\ socket' = "open" /\ (again \/ socket # "none"))
        PROVE  Holds(Session!Use)'
    <3>1. CASE Session!Use = "ETH"
      <4>1. known'["ETH"] <=> known["ETH"]
        BY <1>1, <2>1, EndsFlags, LinkFacts
      <4>2. QED BY <1>2, <2>5, <3>1, <4>1, Zenon DEF Holds
    <3>2. CASE Session!Use # "ETH"
      <4>1. ~again /\ socket = "none"
        BY <1>8, <2>1, <2>5, Zenon
      <4>2. known["4G"]
        <5>1. socket # "closed"
          BY <4>1
        <5>2. QED BY <2>5, <3>2, <4>1, <5>1, Zenon DEF Holds
      <4>3. Session!Open("4G")
        BY <1>1, <4>2, LinkFacts, Zenon DEF KnownOpen
      <4>4. socket = "open"
        BY <4>3 DEF Session!Open
      <4>5. QED BY <4>1, <4>4
    <3>3. QED BY <3>1, <3>2
  <2>6. Speaks'
    BY <1>1, <1>3, <2>1, <2>5, CreditSpeaks, Zenon DEF Session!Succeeds
  <2>7. QED BY <2>4, <2>6 DEF SessionInv
<1>9. CASE Session!Opening
  BY <1>4, <1>5, <1>9 DEF Session!Opening
<1>10. CASE Session!Poll4G
  <2>1. /\ Session!RecvNetFrameAndPushToRxQueue(dl_buf)
        /\ Session!PullTxQueueAndSendFrame("4G", socket = "open")
        /\ Session!Succeeds /\ UNCHANGED <<down, socket, again>>
    BY <1>10 DEF Session!Poll4G
  <2>2. /\ known' = known
        /\ \A k \in Session!Link : up'[k] => up[k] \/ (k = "4G" /\ socket = "open")
    BY <2>1, SentNet, LinkFacts
  <2>4. FreshAnswers'
    <3>1. dl_buf \in BlockType /\ \A b \in Session!Blocks : Fresh(dl_buf[b])
      BY <1>1, Zenon DEF NetType, FreshAnswers
    <3>2. QED BY <1>1, <2>1, <2>2, <3>1, ReceivedNet
  <2>3. \A k \in Session!Link : Session!Open(k) => Session!Open(k)'
    BY <1>2, <2>1 DEF Session!Open
  <2>5. KnownOpen'
    <3>1. ASSUME NEW k \in Session!Link PROVE up'[k] \/ known'[k] => Session!Open(k)'
      <4>2. k = "4G" /\ socket = "open" => Session!Open(k)
        BY DEF Session!Open
      <4>3. (up'[k] => up[k] \/ (k = "4G" /\ socket = "open")) /\ known'[k] = known[k]
        BY <2>2, Zenon
      <4>4. up[k] \/ known[k] => Session!Open(k)
        BY <1>1, Zenon DEF KnownOpen
      <4>5. QED BY <2>3, <4>2, <4>3, <4>4, Zenon
    <3>2. down' => known'["ETH"]
      BY <1>1, <2>1, <2>2, Zenon DEF KnownOpen
    <3>3. QED BY <3>1, <3>2, Zenon DEF KnownOpen
  <2>6. ASSUME Session!Use' = Session!Use, Holds(Session!Use) PROVE Holds(Session!Use)'
    BY <1>2, <2>1, <2>2, <2>6, Zenon DEF Holds
  <2>7. Speaks'
    BY <1>1, <1>3, <2>1, <2>6, CreditSpeaks, Zenon DEF Session!Succeeds
  <2>8. QED BY <2>4, <2>5, <2>7 DEF SessionInv
<1>11. \/ Session!ec20_set_AT_QIACT \/ Session!ec20_set_AT_QICLOSE
       \/ EC20ConnectState = "GOT_IP" /\ Session!ec20_set_AT_QIOPEN
       \/ Session!Opening \/ Session!Poll4G
  <2>1. CASE EC20ConnectState = "UNKNOW"
    BY <2>1 DEF Session!Switch
  <2>2. CASE EC20ConnectState \in {"INITIAL", "CLOSING"}
    BY <2>2 DEF Session!Switch
  <2>3. CASE EC20ConnectState = "GOT_IP"
    BY <2>3 DEF Session!Switch
  <2>4. CASE EC20ConnectState = "OPENING"
    BY <2>4 DEF Session!Switch
  <2>5. CASE EC20ConnectState \notin {"UNKNOW", "INITIAL", "CLOSING", "GOT_IP", "OPENING"}
    BY <2>5 DEF Session!Switch
  <2>6. QED BY <2>1, <2>2, <2>3, <2>4, <2>5
<1>12. QED BY <1>4, <1>6, <1>13, <1>8, <1>9, <1>10, <1>11, Zenon

(* Init => IInv: nobody has logged in.                                      *)
LEMMA SessionInvInit == Session!Init => SessionInv
<1> SUFFICES ASSUME Session!Init PROVE SessionInv
  OBVIOUS
<1>1. ~down /\ \A l \in Session!Link : ~up[l] /\ ~known[l]
  <2>1. up = Session!Both(FALSE) /\ down = FALSE /\ known = Session!Both(FALSE)
    BY DEF Session!Init
  <2>2. QED BY <2>1, Zenon DEF Session!Both
<1>2. KnownOpen
  BY <1>1, Zenon DEF KnownOpen
<1>3. FreshAnswers
  <2>1. \A b \in Session!Blocks : dl_buf[b] = Session!Free
    BY DEF Session!Init
  <2>2. \A b \in Session!Blocks : Fresh(dl_buf[b])
    BY <2>1, AnswerFacts, Zenon DEF Fresh
  <2>3. DOMAIN rx = {}
    BY DEF Session!Init
  <2>4. QED BY <2>2, <2>3, Zenon DEF FreshAnswers
<1>4. Speaks
  BY DEF Session!Init, Speaks
<1>5. QED BY <1>2, <1>3, <1>4 DEF SessionInv

(* No step of a task, the interrupt or the server breaks it.                *)
LEMMA SessionInvNext ==
  ASSUME SessionBounds
  PROVE  Session!TypeOK /\ SessionInv /\ [Session!Next]_Session!vars => SessionInv'
<1> SUFFICES ASSUME Session!TypeOK, SessionInv, [Session!Next]_Session!vars PROVE SessionInv'
  OBVIOUS
<1> USE DEF Session!login, Session!ec20, Session!modem, Session!net
<1>a. NetType /\ KnownOpen /\ FreshAnswers /\ Speaks
  BY TypeParts DEF SessionInv
<1>b. ASSUME UNCHANGED <<connection_mode, Session!login, EC20ConnectState, socket, tcp, Session!net,
                         again, excused>>
      PROVE  SessionInv'
  <2>1. KnownOpen' /\ FreshAnswers'
    BY <1>a, <1>b, KnownOpenStays, FreshStays DEF Session!Open
  <2>2. ASSUME Session!Use' = Session!Use, Holds(Session!Use) PROVE Holds(Session!Use)'
    BY <1>b, <2>2, Zenon DEF Holds
  <2>3. Speaks'
    BY <1>a, <1>b, <2>2, QuietSpeaks
  <2>4. QED BY <2>1, <2>3 DEF SessionInv
<1>c. ASSUME Session!Credit(FALSE), UNCHANGED <<socket, tcp, Session!net, again>>,
             LoginResponse' = 1 => LoginResponse = 1
      PROVE  SessionInv'
  <2>1. KnownOpen' /\ FreshAnswers'
    BY <1>a, <1>c, KnownOpenStays, FreshStays DEF Session!Open
  <2>2. ASSUME Session!Use' = Session!Use, Holds(Session!Use) PROVE Holds(Session!Use)'
    BY <1>c, <2>2, Zenon DEF Holds
  <2>3. Speaks'
    BY <1>a, <1>c, <2>2, CreditSpeaks
  <2>4. QED BY <2>1, <2>3 DEF SessionInv
<1>1. CASE Session!Initialised \/ Session!ec20_get_AT_QISTATE \/ Session!NotYet
  BY <1>1, <1>b DEF Session!Initialised, Session!ec20_get_AT_QISTATE, Session!NotYet
<1>2. CASE Session!ReConnect4G
  BY <1>2, ReInitInv DEF Session!ReConnect4G
<1>3. CASE Session!Asked
  BY <1>3, <1>c DEF Session!Asked
<1>4. CASE Session!Switch
  BY <1>4, SwitchInv
<1>5. CASE Session!Closed
  BY <1>5, <1>c DEF Session!Closed
<1>6. CASE Session!EthConnect
  <2>1. tcp = "none" /\ Session!Credit(FALSE) /\ UNCHANGED <<LoginResponse, socket, Session!net, again>>
    BY <1>6 DEF Session!EthConnect
  <2>2. KnownOpen' /\ FreshAnswers'
    BY <1>a, <2>1, KnownOpenStays, FreshStays DEF Session!Open
  <2>3. ~Holds("ETH")
    <3>1. ~Session!Open("ETH") /\ tcp \notin {"closed", "reset"}
      BY <2>1 DEF Session!Open
    <3>2. QED BY <1>a, <3>1, LinkFacts, Zenon DEF Holds, KnownOpen
  <2>4. ASSUME Session!Use' = Session!Use, Holds(Session!Use) PROVE Holds(Session!Use)'
    <3>1. Session!Use # "ETH"
      BY <2>3, <2>4, Zenon
    <3>2. QED BY <2>1, <2>4, <3>1, Zenon DEF Holds
  <2>5. Speaks'
    BY <1>a, <2>1, <2>4, CreditSpeaks
  <2>6. QED BY <2>2, <2>5 DEF SessionInv
<1>7. CASE Session!EthKeptOff
  <2>1. Session!EthClose
    BY <1>7 DEF Session!EthKeptOff
  <2>2. Session!Ends("ETH") /\ LoginResponse' = 0 /\ socket' = socket
    BY <2>1 DEF Session!EthClose
  <2>3. \A k \in Session!Link \ {"ETH"} : Session!Open(k) => Session!Open(k)'
    BY <2>2 DEF Session!Link, Session!Open
  <2>4. KnownOpen' /\ FreshAnswers'
    BY <1>a, <2>2, <2>3, EndsKnownOpen, EndsFresh, LinkFacts
  <2>5. QED BY <2>2, <2>4, ClearedSpeaks DEF SessionInv
<1>18. CASE Session!EthClosed
  <2>1. /\ tcp = "closed" /\ LoginResponse' = 0 /\ UNCHANGED <<socket, down>>
        /\ Session!RecvNetFrameAndPushToRxQueue(dl_buf)
        /\ Session!PullTxQueueAndSendFrame("ETH", FALSE)
    BY <1>18 DEF Session!EthClosed
  <2>2. /\ known' = known
        /\ \A k \in Session!Link : up'[k] => up[k] \/ (k = "ETH" /\ FALSE)
    BY <2>1, SentNet, LinkFacts
  <2>3. FreshAnswers'
    <3>1. dl_buf \in BlockType /\ \A b \in Session!Blocks : Fresh(dl_buf[b])
      BY <1>a, Zenon DEF NetType, FreshAnswers
    <3>2. QED BY <1>a, <2>1, <2>2, <3>1, ReceivedNet
  <2>4. \A k \in Session!Link : Session!Open(k) => Session!Open(k)'
    BY <2>1 DEF Session!Open
  <2>5. KnownOpen'
    BY <1>a, <2>1, <2>2, <2>4, Zenon DEF KnownOpen
  <2>6. QED BY <2>1, <2>3, <2>5, ClearedSpeaks DEF SessionInv
<1>8. CASE Session!EthLoop
  <2>1. /\ down' = FALSE /\ Session!PullTxQueueAndSendFrame("ETH", tcp = "open")
        /\ UNCHANGED <<connection_mode, Session!login, EC20ConnectState, socket, tcp, again, excused>>
    BY <1>8 DEF Session!EthLoop
  <2>2. /\ known' = known
        /\ \A k \in Session!Link : up'[k] => up[k] \/ (k = "ETH" /\ tcp = "open")
    BY <2>1, SentNet, LinkFacts
  <2>8. FreshAnswers'
    BY <1>8, <1>a, <2>2, LoopNet
  <2>3. /\ \A k \in Session!Link : Session!Open(k) => Session!Open(k)'
        /\ tcp = "open" => Session!Open("ETH")
    BY <2>1 DEF Session!Open
  <2>4. KnownOpen'
    BY <1>a, <2>1, <2>2, <2>3, Zenon DEF KnownOpen
  <2>5. ASSUME Session!Use' = Session!Use, Holds(Session!Use) PROVE Holds(Session!Use)'
    BY <2>1, <2>2, <2>5, Zenon DEF Holds
  <2>6. Speaks'
    BY <1>a, <2>1, <2>5, QuietSpeaks
  <2>7. QED BY <2>8, <2>4, <2>6 DEF SessionInv
<1>9. ASSUME NEW l \in Session!Link, Session!ServerAccepts(l) PROVE SessionInv'
  <2>1. /\ UNCHANGED <<connection_mode, Session!login, EC20ConnectState, socket, tcp, rx, again, excused>>
    BY <1>9 DEF Session!ServerAccepts
  <2>2. /\ known'[l]
        /\ \A k \in Session!Link \ {l} : (known'[k] <=> known[k]) /\ (up'[k] <=> up[k])
    BY <1>9, <1>a DEF Session!ServerAccepts, NetType
  <2>3. up[l]
    BY <1>9, Zenon DEF Session!ServerAccepts
  <2>4. \A k \in Session!Link : Session!Open(k) => Session!Open(k)'
    BY <2>1 DEF Session!Open
  <2>5. KnownOpen'
    <3>1. ASSUME NEW k \in Session!Link PROVE up'[k] \/ known'[k] => Session!Open(k)'
      <4>1. CASE k = l
        BY <1>a, <2>2, <2>3, <2>4, <4>1, Zenon DEF KnownOpen
      <4>2. CASE k # l
        BY <1>a, <2>2, <2>4, <4>2, Zenon DEF KnownOpen
      <4>3. QED BY <4>1, <4>2
    <3>2. down' => down \/ l = "ETH"
      BY <1>9, <1>a, AcceptedNet
    <3>3. ASSUME down' PROVE known'["ETH"]
      <4>1. CASE l = "ETH"
        BY <2>2, <4>1
      <4>2. CASE l # "ETH"
        <5>1. known["ETH"]
          BY <1>a, <3>2, <3>3, <4>2, Zenon DEF KnownOpen
        <5>2. QED BY <2>2, <4>2, <5>1, LinkFacts
      <4>3. QED BY <4>1, <4>2
    <3>4. QED BY <3>1, <3>3, Zenon DEF KnownOpen
  <2>6. \A k \in Session!Link : known[k] => known'[k]
    BY <2>2, Zenon
  <2>7. FreshAnswers'
    BY <1>9, <1>a, AcceptedNet
  <2>8. ASSUME Session!Use' = Session!Use, Holds(Session!Use) PROVE Holds(Session!Use)'
    BY <2>1, <2>6, <2>8, LinkFacts, Zenon DEF Holds
  <2>9. Speaks'
    BY <1>a, <2>1, <2>8, QuietSpeaks
  <2>10. QED BY <2>5, <2>7, <2>9 DEF SessionInv
<1>10. CASE Session!ServerCloses
  <2>1. UNCHANGED <<connection_mode, Session!login, EC20ConnectState, again, excused>>
    BY <1>10 DEF Session!ServerCloses
  <2>2. CASE socket' = "closed" /\ Session!Ends("4G") /\ UNCHANGED tcp
    <3>1. \A k \in Session!Link \ {"4G"} : Session!Open(k) => Session!Open(k)'
      BY <2>2 DEF Session!Link, Session!Open
    <3>2. KnownOpen' /\ FreshAnswers'
      BY <1>a, <2>2, <3>1, EndsKnownOpen, EndsFresh, LinkFacts
    <3>3. known'["ETH"] <=> known["ETH"]
      BY <1>a, <2>2, EndsFlags, LinkFacts
    <3>4. ASSUME Session!Use' = Session!Use, Holds(Session!Use) PROVE Holds(Session!Use)'
      BY <2>2, <3>3, <3>4, Zenon DEF Holds
    <3>5. Speaks'
      BY <1>a, <2>1, <2>2, <3>4, QuietSpeaks
    <3>6. QED BY <3>2, <3>5 DEF SessionInv
  <2>3. CASE tcp' \in {"closed", "reset"} /\ Session!Ends("ETH") /\ UNCHANGED socket
    <3>1. \A k \in Session!Link \ {"ETH"} : Session!Open(k) => Session!Open(k)'
      BY <2>3 DEF Session!Link, Session!Open
    <3>2. KnownOpen' /\ FreshAnswers'
      BY <1>a, <2>3, <3>1, EndsKnownOpen, EndsFresh, LinkFacts
    <3>3. Speaks'
      <4>1. ASSUME LoginResponse' = 1, ~excused' PROVE Holds(Session!Use)'
        <5>1. CASE Session!Use' = "ETH"
          BY <2>3, <5>1, Zenon DEF Holds
        <5>2. CASE Session!Use' # "ETH"
          <6>1. Session!Use = Session!Use'
            BY <1>10, <2>1, <5>2, UseType
            DEF Session!Use, Session!LinkFor, Session!Link, Session!ServerCloses
          <6>2. known'["4G"] <=> known["4G"]
            BY <1>a, <2>3, EndsFlags, LinkFacts
          <6>3. Holds(Session!Use)
            BY <1>a, <2>1, <4>1, Zenon DEF Speaks
          <6>4. QED BY <2>1, <2>3, <5>2, <6>1, <6>2, <6>3, Zenon DEF Holds
        <5>3. QED BY <5>1, <5>2
      <4>2. QED BY <4>1, Zenon DEF Speaks
    <3>4. QED BY <3>2, <3>3 DEF SessionInv
  <2>4. QED BY <1>10, <2>2, <2>3 DEF Session!ServerCloses
<1>11. CASE Session!SendLogin \/ Session!LoggedIn
  <2>1. UNCHANGED <<connection_mode, LoginResponse, EC20ConnectState, socket, tcp, Session!net, again,
                    excused>>
    BY <1>11 DEF Session!SendLogin, Session!LoggedIn
  <2>2. KnownOpen' /\ FreshAnswers'
    BY <1>a, <2>1, KnownOpenStays, FreshStays DEF Session!Open
  <2>3. ASSUME Session!Use' = Session!Use, Holds(Session!Use) PROVE Holds(Session!Use)'
    BY <2>1, <2>3, Zenon DEF Holds
  <2>4. Speaks'
    BY <1>a, <2>1, <2>3, QuietSpeaks
  <2>5. QED BY <2>2, <2>4 DEF SessionInv
<1>12. CASE Session!HandleLogin
  <2>1. /\ rx # << >> /\ rx' = Tail(rx) /\ Session!Credit(Head(rx) # Session!Use)
        /\ UNCHANGED <<socket, tcp, up, down, dl_buf, known, again>>
    BY <1>12 DEF Session!HandleLogin
  <2>2. rx \in Seq(AnswerType)
    BY <1>a DEF NetType
  <2>3. KnownOpen'
    BY <1>a, <2>1, KnownOpenStays DEF Session!Open
  <2>4. FreshAnswers'
    <3>1. \A i \in DOMAIN rx' : i + 1 \in DOMAIN rx /\ rx'[i] = rx[i + 1]
      BY <2>1, <2>2
    <3>2. \A i \in DOMAIN rx' : Fresh(rx[i])'
      BY <1>a, <2>1, <3>1, Zenon DEF FreshAnswers, Fresh
    <3>3. \A b \in Session!Blocks : Fresh(dl_buf[b])'
      BY <1>a, <2>1, Zenon DEF FreshAnswers, Fresh
    <3>4. QED BY <3>2, <3>3, Zenon DEF FreshAnswers
  <2>5. Speaks'
    <3>1. ASSUME LoginResponse' = 1, ~excused' PROVE Holds(Session!Use)'
      <4>1. Head(rx) = Session!Use /\ Session!Use' = Session!Use
        BY <2>1, <3>1, Zenon DEF Session!Credit
      <4>2. 1 \in DOMAIN rx /\ Head(rx) = rx[1]
        BY <2>1, <2>2
      <4>3. known[Session!Use]
        BY <1>a, <4>1, <4>2, UseType, Zenon DEF FreshAnswers, Fresh
      <4>4. Session!Use = "ETH" \/ Session!Use = "4G"
        BY UseType DEF Session!Link
      <4>5. QED BY <2>1, <4>1, <4>3, <4>4, Zenon DEF Holds
    <3>2. QED BY <3>1, Zenon DEF Speaks
  <2>6. QED BY <2>3, <2>4, <2>5 DEF SessionInv
<1>13. CASE Session!ReConnectToServer
  BY <1>13, <1>b DEF Session!ReConnectToServer
<1>14. CASE Session!PassOn
  BY <1>14, <1>c DEF Session!PassOn
<1>15. CASE Session!SetBasicConfiguration
  BY <1>15, <1>c DEF Session!SetBasicConfiguration
<1>16. CASE UNCHANGED Session!vars
  BY <1>16, <1>b DEF Session!vars
<1>17. QED
  BY <1>1, <1>2, <1>3, <1>4, <1>5, <1>6, <1>7, <1>18, <1>8, <1>9, <1>10, <1>11, <1>12, <1>13,
     <1>14, <1>15, <1>16 DEF Session!Next

-----------------------------------------------------------------------------
(* The types hold in every state of every instance.                         *)
THEOREM SessionTypeCorrect ==
  ASSUME SessionBounds PROVE Session!Spec => []Session!TypeOK
<1>1. Session!Init => Session!TypeOK /\ SessionInv
  BY SessionTypeInit, SessionInvInit
<1>2. Session!TypeOK /\ SessionInv /\ [Session!Next]_Session!vars => (Session!TypeOK /\ SessionInv)'
  BY SessionTypeNext, SessionInvNext
<1>3. QED BY <1>1, <1>2, PTL DEF Session!Spec

(* The flag, the answers that arrived and what the server knows belong      *)
(* together, whatever the order in which links come and go.                 *)
THEOREM SessionInvariant ==
  ASSUME SessionBounds PROVE Session!Spec => []SessionInv
<1>1. Session!Init => Session!TypeOK /\ SessionInv
  BY SessionTypeInit, SessionInvInit
<1>2. Session!TypeOK /\ SessionInv /\ [Session!Next]_Session!vars => (Session!TypeOK /\ SessionInv)'
  BY SessionTypeNext, SessionInvNext
<1>3. QED BY <1>1, <1>2, PTL DEF Session!Spec

(* A device that takes itself for logged in is known to the server on the   *)
(* link it uses, unless its login was credited to another connection or its *)
(* socket was reopened without RE_INIT: for any queues, attempts, failures. *)
THEOREM KnownAlways ==
  ASSUME SessionBounds PROVE Session!Spec => []Session!KnownUnlessExcused
<1>1. SessionInv => Session!KnownUnlessExcused
  <2> SUFFICES ASSUME SessionInv, LoginResponse = 1, Session!Open(Session!Use), ~excused
               PROVE  known[Session!Use]
    BY DEF Session!KnownUnlessExcused
  <2>1. Holds(Session!Use)
    BY Zenon DEF SessionInv, Speaks
  <2>2. CASE Session!Use = "ETH"
    <3>1. tcp \notin {"closed", "reset"}
      BY <2>2 DEF Session!Open
    <3>2. QED BY <2>1, <2>2, <3>1, Zenon DEF Holds
  <2>3. CASE Session!Use = "4G"
    <3>1. Session!Use # "ETH" /\ socket # "closed" /\ socket # "none"
      BY <2>3 DEF Session!Open
    <3>2. QED BY <2>1, <2>3, <3>1, Zenon DEF Holds
  <2>4. QED BY <2>2, <2>3, UseType DEF Session!Link
<1>2. QED BY <1>1, SessionInvariant, PTL
=============================================================================
