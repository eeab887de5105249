---------------------------- MODULE ConsoleProofs ----------------------------
(***************************************************************************)
(* The bytes of the console keep their order on the way from the physical  *)
(* UART to the guest, for any number of CPUs, any size of the ring and of  *)
(* the buffers, and anything the guest does.                               *)
(***************************************************************************)
EXTENDS MultiPcpuProofs

-----------------------------------------------------------------------------
(* Sequences.                                                              *)

\* The bytes of a sequence.
Vals(s) == {s[i] : i \in DOMAIN s}

\* The order of two sequences is that of the values in them.
LEMMA AboveVals ==
  ASSUME NEW s, NEW t
  PROVE  Above(s, t) <=> \A x \in Vals(s), y \in Vals(t) : x > y
PROOF
  BY DEF Above, Vals

\* The values of a sequence of numbers are numbers.
LEMMA ValsNat ==
  ASSUME NEW s \in Seq(Nat)
  PROVE  Vals(s) \subseteq Nat
PROOF
  BY DEF Vals

\* Sequences of no value and of one.
LEMMA ShortSeqs ==
  /\ Vals(<<>>) = {} /\ Falling(<<>>) /\ <<>> \in Seq(Nat)
  /\ \A x \in Nat : Vals(<<x>>) = {x} /\ Falling(<<x>>) /\ <<x>> \in Seq(Nat)
PROOF
<1>1. Vals(<<>>) = {} /\ Falling(<<>>) /\ <<>> \in Seq(Nat)
  BY DEF Vals, Falling
<1>2. ASSUME NEW x \in Nat PROVE Vals(<<x>>) = {x} /\ Falling(<<x>>) /\ <<x>> \in Seq(Nat)
  <2>1. DOMAIN <<x>> = {1} /\ <<x>>[1] = x
    OBVIOUS
  <2>2. ~(1 < 1)
    OBVIOUS
  <2>3. Falling(<<x>>)
    BY <2>1, <2>2 DEF Falling
  <2> QED
    BY <2>1, <2>3 DEF Vals
<1> QED
  BY <1>1, <1>2

\* A byte behind the others.
LEMMA AppendSeq ==
  ASSUME NEW s \in Seq(Nat), NEW x \in Nat
  PROVE  /\ Append(s, x) \in Seq(Nat) /\ Vals(Append(s, x)) = Vals(s) \cup {x}
         /\ Falling(s) /\ (\A y \in Vals(s) : y > x) => Falling(Append(s, x))
PROOF
<1> DEFINE t == Append(s, x)
           n == Len(s)
<1>0. n \in Nat /\ DOMAIN s = 1 .. n /\ t \in Seq(Nat) /\ Len(t) = n + 1
  OBVIOUS
<1>a. t[n + 1] = x /\ \A i \in 1 .. n : t[i] = s[i]
  OBVIOUS
<1> HIDE DEF t, n
<1>b. DOMAIN t = 1 .. n + 1
  BY <1>0
<1>1. /\ t \in Seq(Nat) /\ n \in Nat /\ DOMAIN s = 1 .. n /\ DOMAIN t = 1 .. n + 1
      /\ t[n + 1] = x /\ \A i \in 1 .. n : t[i] = s[i]
  BY <1>0, <1>a, <1>b, Zenon
<1>2. \A i \in 1 .. n + 1 : i \in 1 .. n \/ i = n + 1
  BY <1>1
<1>3. \A i \in 1 .. n : i \in 1 .. n + 1
  BY <1>1
<1>4. n + 1 \in 1 .. n + 1
  BY <1>1
<1>5. Vals(t) = Vals(s) \cup {x}
  BY <1>1, <1>2, <1>3, <1>4 DEF Vals
<1>6. ASSUME Falling(s), \A y \in Vals(s) : y > x PROVE Falling(t)
  <2>1. SUFFICES ASSUME NEW i \in 1 .. n + 1, NEW j \in 1 .. n + 1, i < j PROVE t[i] > t[j]
    BY <1>1 DEF Falling
  <2>2. i \in 1 .. n
    BY <1>1, <2>1
  <2>3. CASE j \in 1 .. n
    BY <1>1, <1>6, <2>1, <2>2, <2>3, Zenon DEF Falling
  <2>4. CASE j = n + 1
    <3>1. s[i] \in Vals(s)
      BY <1>1, <2>2, Zenon DEF Vals
    <3> QED
      BY <1>1, <1>6, <2>2, <2>4, <3>1
  <2> QED
    BY <1>2, <2>3, <2>4
<1> QED
  BY <1>1, <1>5, <1>6, Zenon DEF t

\* The first byte, and the others behind it.
LEMMA TailSeq ==
  ASSUME NEW s \in Seq(Nat), s # <<>>
  PROVE  /\ Head(s) \in Vals(s) /\ Vals(Tail(s)) \subseteq Vals(s)
         /\ Falling(s) => Falling(Tail(s)) /\ \A y \in Vals(Tail(s)) : Head(s) > y
PROOF
<1> DEFINE t == Tail(s)
           n == Len(s)
<1>1. /\ n \in Nat \ {0} /\ DOMAIN s = 1 .. n
      /\ t \in Seq(Nat) /\ DOMAIN t = 1 .. n - 1 /\ Head(s) = s[1]
      /\ \A i \in 1 .. n - 1 : t[i] = s[i + 1]
  <2>1. DOMAIN t = 1 .. Len(t)
    BY HeadTail
  <2> QED
    BY <2>1, HeadTail
<1> HIDE DEF t, n
<1>2. \A i \in 1 .. n - 1 : i + 1 \in 1 .. n /\ 1 < i + 1
  BY <1>1
<1>3. 1 \in 1 .. n
  BY <1>1
<1>4. Head(s) \in Vals(s) /\ Vals(t) \subseteq Vals(s)
  BY <1>1, <1>2, <1>3, Zenon DEF Vals
<1>5. ASSUME Falling(s) PROVE Falling(t) /\ \A y \in Vals(t) : Head(s) > y
  <2>1. ASSUME NEW i \in 1 .. n - 1 PROVE s[1] > t[i]
    <3>1. t[i] = s[i + 1] /\ i + 1 \in 1 .. n /\ 1 < i + 1
      BY <1>1, <1>2
    <3> QED
      BY <1>1, <1>3, <1>5, <3>1, Zenon DEF Falling
  <2>2. ASSUME NEW i \in 1 .. n - 1, NEW j \in 1 .. n - 1, i < j PROVE t[i] > t[j]
    <3>1. i + 1 < j + 1
      BY <2>2
    <3>2. s[i + 1] > s[j + 1]
      BY <1>1, <1>2, <1>5, <3>1, Zenon DEF Falling
    <3> QED
      BY <1>1, <3>2
  <2> QED
    BY <1>1, <2>1, <2>2 DEF Falling, Vals
<1> QED
  BY <1>4, <1>5 DEF t

\* Two sequences, one after the other.
LEMMA ConcatSeq ==
  ASSUME NEW s \in Seq(Nat), NEW t \in Seq(Nat)
  PROVE  /\ s \o t \in Seq(Nat) /\ Vals(s \o t) = Vals(s) \cup Vals(t)
         /\ Falling(s) /\ Falling(t) /\ Above(s, t) => Falling(s \o t)
PROOF
<1> DEFINE u == s \o t
           n == Len(s)
           m == Len(t)
<1>1. /\ u \in Seq(Nat) /\ n \in Nat /\ m \in Nat
      /\ DOMAIN s = 1 .. n /\ DOMAIN t = 1 .. m /\ DOMAIN u = 1 .. n + m
  OBVIOUS
<1>2. \A i \in 1 .. n : u[i] = s[i]
  OBVIOUS
<1>3. \A i \in 1 .. m : u[n + i] = t[i]
  OBVIOUS
<1> HIDE DEF u, n, m
<1>4. \A i \in 1 .. n + m : i \in 1 .. n \/ (i - n \in 1 .. m /\ n + (i - n) = i)
  BY <1>1
<1>5. \A i \in 1 .. n : i \in 1 .. n + m
  BY <1>1
<1>6. \A i \in 1 .. m : n + i \in 1 .. n + m
  BY <1>1
<1>7. Vals(u) = Vals(s) \cup Vals(t)
  <2>1. \A i \in 1 .. n + m : u[i] \in Vals(s) \cup Vals(t)
    <3> TAKE i \in 1 .. n + m
    <3>1. CASE i \in 1 .. n
      BY <1>1, <1>2, <3>1, Zenon DEF Vals
    <3>2. CASE i - n \in 1 .. m /\ n + (i - n) = i
      <4>1. u[i] = t[i - n]
        BY <1>3, <3>2
      <4> QED
        BY <1>1, <3>2, <4>1, Zenon DEF Vals
    <3> QED
      BY <1>4, <3>1, <3>2
  <2>2. Vals(s) \subseteq Vals(u)
    BY <1>1, <1>2, <1>5 DEF Vals
  <2>3. Vals(t) \subseteq Vals(u)
    BY <1>1, <1>3, <1>6, Zenon DEF Vals
  <2>4. Vals(u) \subseteq Vals(s) \cup Vals(t)
    BY <1>1, <2>1, Zenon DEF Vals
  <2> QED
    BY <2>2, <2>3, <2>4
<1>8. ASSUME Falling(s), Falling(t), Above(s, t) PROVE Falling(u)
  <2>1. SUFFICES ASSUME NEW i \in 1 .. n + m, NEW j \in 1 .. n + m, i < j PROVE u[i] > u[j]
    BY <1>1 DEF Falling
  <2>2. CASE i \in 1 .. n /\ j \in 1 .. n
    BY <1>1, <1>2, <1>8, <2>1, <2>2, Zenon DEF Falling
  <2>3. CASE i \in 1 .. n /\ j - n \in 1 .. m /\ n + (j - n) = j
    <3>1. u[i] = s[i] /\ u[j] = t[j - n]
      BY <1>2, <1>3, <2>3, Zenon
    <3> QED
      BY <1>1, <1>8, <2>3, <3>1, Zenon DEF Above
  <2>4. CASE /\ i - n \in 1 .. m /\ n + (i - n) = i
             /\ j - n \in 1 .. m /\ n + (j - n) = j
    <3>1. u[i] = t[i - n] /\ u[j] = t[j - n] /\ i - n < j - n
      BY <1>1, <1>3, <2>1, <2>4
    <3> QED
      BY <1>1, <1>8, <2>4, <3>1, Zenon DEF Falling
  <2>5. i \notin 1 .. n => j \notin 1 .. n
    BY <1>1, <2>1
  <2> QED
    BY <1>4, <2>2, <2>3, <2>4, <2>5
<1> QED
  BY <1>1, <1>7, <1>8 DEF u

\* The first bytes.
LEMMA PrefixSeq ==
  ASSUME NEW s \in Seq(Nat), NEW n \in 0 .. Len(s)
  PROVE  /\ SubSeq(s, 1, n) \in Seq(Nat) /\ Vals(SubSeq(s, 1, n)) \subseteq Vals(s)
         /\ Falling(s) => Falling(SubSeq(s, 1, n))
PROOF
<1> DEFINE t == SubSeq(s, 1, n)
<1>0. t \in Seq(Nat)
  OBVIOUS
<1>1. /\ DOMAIN s = 1 .. Len(s) /\ DOMAIN t = 1 .. n /\ \A i \in 1 .. n : t[i] = s[i]
      /\ Len(s) \in Nat /\ n \in Nat /\ n <= Len(s)
  OBVIOUS
<1> HIDE DEF t
<1>2. \A i \in 1 .. n : i \in 1 .. Len(s)
  BY <1>1
<1>3. Vals(t) \subseteq Vals(s)
  BY <1>1, <1>2 DEF Vals
<1>4. Falling(s) => Falling(t)
  BY <1>1, <1>2 DEF Falling
<1> QED
  BY <1>0, <1>3, <1>4 DEF t

\* Stages in order, with n the next byte to come.
Ordered(s, n) ==
  /\ \A k \in 1 .. 6 : Falling(s[k]) /\ Above(s[k], <<n>>)
  /\ \A k, l \in 1 .. 6 : k < l => Above(s[k], s[l])

\* Bytes that are dropped, or go from a stage to the one before it.
LEMMA Moved ==
  ASSUME NEW s \in [1 .. 6 -> Seq(Nat)], NEW t \in [1 .. 6 -> Seq(Nat)], NEW n \in Nat, NEW m \in Nat,
         m <= n, Ordered(s, n),
         NEW k \in 1 .. 6, NEW l \in 1 .. 6, l = k + 1,
         \A j \in 1 .. 6 : Falling(t[j]),
         \A j \in 1 .. 6 \ {k} : Vals(t[j]) \subseteq Vals(s[j]),
         Vals(t[k]) \subseteq Vals(s[k]) \cup Vals(s[l]),
         Above(t[k], t[l])
  PROVE  Ordered(t, m)
PROOF
<1>1. \A j \in 1 .. 6 : Vals(s[j]) \subseteq Nat
  BY ValsNat, Zenon
<1>2. \A j \in 1 .. 6 : \A x \in Vals(s[j]) : x > n
  BY AboveVals, ShortSeqs, Zenon DEF Ordered
<1>3. \A i, j \in 1 .. 6 : i < j => \A x \in Vals(s[i]), y \in Vals(s[j]) : x > y
  BY AboveVals, Zenon DEF Ordered
<1>4. k \in 1 .. 6 /\ l \in 1 .. 6 /\ l # k
  OBVIOUS
<1>5. ASSUME NEW j \in 1 .. 6 PROVE Above(t[j], <<m>>)
  <2>1. \A x \in Vals(t[j]) : x \in Nat /\ x > n
    <3>1. CASE j = k
      BY <1>1, <1>2, <1>4, <3>1, Zenon
    <3>2. CASE j # k
      BY <1>1, <1>2, <3>2, Zenon
    <3> QED
      BY <3>1, <3>2, Zenon
  <2>2. \A x \in Vals(t[j]) : x > m
    <3>1. \A x \in Nat : x > n => x > m
      OBVIOUS
    <3> QED
      BY <2>1, <3>1, Zenon
  <2> QED
    BY <2>2, AboveVals, ShortSeqs
<1>6. ASSUME NEW i \in 1 .. 6, NEW j \in 1 .. 6, i < j PROVE Above(t[i], t[j])
  <2>1. CASE i # k /\ j # k
    <3>1. Vals(t[i]) \subseteq Vals(s[i]) /\ Vals(t[j]) \subseteq Vals(s[j])
      BY <2>1, Zenon
    <3> QED
      BY <1>3, <1>6, <3>1, AboveVals, Zenon
  <2>2. CASE i = k /\ j = l
    BY <2>2
  <2>3. CASE i = k /\ j # l
    <3>1. k < j /\ l < j
      BY <1>6, <2>3
    <3>2. Vals(t[j]) \subseteq Vals(s[j])
      <4>1. j # k
        BY <1>6, <2>3
      <4> QED
        BY <4>1, Zenon
    <3>3. ASSUME NEW x \in Vals(t[k]), NEW y \in Vals(s[j]) PROVE x > y
      <4>1. x \in Vals(s[k]) \/ x \in Vals(s[l])
        OBVIOUS
      <4> QED
        BY <1>3, <1>4, <3>1, <4>1, Zenon
    <3> QED
      BY <2>3, <3>2, <3>3, AboveVals, Zenon
  <2>4. CASE j = k
    <3>1. i < k /\ i < l
      BY <1>6, <2>4
    <3>2. Vals(t[i]) \subseteq Vals(s[i])
      <4>1. i # k
        BY <1>6, <2>4
      <4> QED
        BY <4>1, Zenon
    <3>3. ASSUME NEW x \in Vals(s[i]), NEW y \in Vals(t[k]) PROVE x > y
      <4>1. y \in Vals(s[k]) \/ y \in Vals(s[l])
        OBVIOUS
      <4> QED
        BY <1>3, <1>4, <3>1, <4>1, Zenon
    <3> QED
      BY <2>4, <3>2, <3>3, AboveVals, Zenon
  <2> QED
    BY <2>1, <2>2, <2>3, <2>4
<1> QED
  BY <1>5, <1>6 DEF Ordered

\* The next byte arrives.
LEMMA Arrived ==
  ASSUME NEW s \in [1 .. 6 -> Seq(Nat)], NEW t \in [1 .. 6 -> Seq(Nat)], NEW n \in Nat \ {0},
         Ordered(s, n),
         \A j \in 1 .. 5 : t[j] = s[j],
         t[6] = Append(s[6], n)
  PROVE  Ordered(t, n - 1)
PROOF
<1>1. \A j \in 1 .. 6 : Vals(s[j]) \subseteq Nat
  BY ValsNat, Zenon
<1>2. \A j \in 1 .. 6 : \A x \in Vals(s[j]) : x > n
  BY AboveVals, ShortSeqs, Zenon DEF Ordered
<1>3. Vals(t[6]) = Vals(s[6]) \cup {n} /\ Falling(t[6])
  <2>1. PICK u \in Seq(Nat) : u = s[6]
    OBVIOUS
  <2>2. Falling(u) /\ \A x \in Vals(u) : x > n
    BY <1>2, <2>1 DEF Ordered
  <2> QED
    BY <2>1, <2>2, AppendSeq
<1>4. n - 1 \in Nat /\ \A x \in Nat : x > n \/ x = n => x > n - 1
  OBVIOUS
<1>5. ASSUME NEW j \in 1 .. 6 PROVE Falling(t[j]) /\ Above(t[j], <<n - 1>>)
  <2>1. j \in 1 .. 5 \/ j = 6
    OBVIOUS
  <2>2. \A x \in Vals(t[j]) : x \in Nat /\ (x > n \/ x = n)
    BY <1>1, <1>2, <1>3, <2>1, Zenon
  <2>3. Falling(t[j])
    BY <1>3, <2>1, Zenon DEF Ordered
  <2> QED
    BY <1>4, <2>2, <2>3, AboveVals, ShortSeqs, Zenon
<1>6. ASSUME NEW i \in 1 .. 6, NEW j \in 1 .. 6, i < j PROVE Above(t[i], t[j])
  <2>1. i \in 1 .. 5 /\ (j \in 1 .. 5 \/ j = 6)
    BY <1>6
  <2>2. Above(s[i], s[j])
    BY <1>6, Zenon DEF Ordered
  <2>3. CASE j \in 1 .. 5
    BY <2>1, <2>2, <2>3, Zenon
  <2>4. CASE j = 6
    BY <1>2, <1>3, <2>1, <2>2, <2>4, AboveVals, Zenon
  <2> QED
    BY <2>1, <2>3, <2>4
<1> QED
  BY <1>5, <1>6 DEF Ordered

\* Stages in order make the way from the guest to the wire one sequence in order.
LEMMA WholeWay ==
  ASSUME NEW a \in Seq(Nat), NEW b \in Seq(Nat), NEW c \in Seq(Nat), NEW d \in Seq(Nat),
         NEW e \in Seq(Nat), NEW f \in Seq(Nat), NEW n \in Nat,
         Ordered(<<a, b, c, d, e, f>>, n)
  PROVE  Falling(a \o b \o c \o d \o e \o f)
PROOF
<1>1. PICK s : s = <<a, b, c, d, e, f>>
  OBVIOUS
<1>2. s[1] = a /\ s[2] = b /\ s[3] = c /\ s[4] = d /\ s[5] = e /\ s[6] = f
  BY <1>1
<1>3. Falling(a) /\ Falling(b) /\ Falling(c) /\ Falling(d) /\ Falling(e) /\ Falling(f)
  BY <1>1, <1>2 DEF Ordered
<1>4. /\ Above(a, b) /\ Above(a, c) /\ Above(a, d) /\ Above(a, e) /\ Above(a, f)
      /\ Above(b, c) /\ Above(b, d) /\ Above(b, e) /\ Above(b, f)
      /\ Above(c, d) /\ Above(c, e) /\ Above(c, f)
      /\ Above(d, e) /\ Above(d, f)
      /\ Above(e, f)
  BY <1>1, <1>2 DEF Ordered
<1>5. PICK ab : ab = a \o b
  BY Zenon
<1>6. ab \in Seq(Nat) /\ Vals(ab) = Vals(a) \cup Vals(b) /\ Falling(ab)
  BY <1>3, <1>4, <1>5, ConcatSeq, Zenon
<1>7. Above(ab, c) /\ Above(ab, d) /\ Above(ab, e) /\ Above(ab, f)
  BY <1>4, <1>6, AboveVals, Zenon
<1>8. PICK abc : abc = ab \o c
  BY Zenon
<1>9. abc \in Seq(Nat) /\ Vals(abc) = Vals(ab) \cup Vals(c) /\ Falling(abc)
  BY <1>3, <1>6, <1>7, <1>8, ConcatSeq, Zenon
<1>10. Above(abc, d) /\ Above(abc, e) /\ Above(abc, f)
  BY <1>4, <1>7, <1>9, AboveVals, Zenon
<1>11. PICK abcd : abcd = abc \o d
  BY Zenon
<1>12. abcd \in Seq(Nat) /\ Vals(abcd) = Vals(abc) \cup Vals(d) /\ Falling(abcd)
  BY <1>3, <1>9, <1>10, <1>11, ConcatSeq, Zenon
<1>13. Above(abcd, e) /\ Above(abcd, f)
  BY <1>4, <1>10, <1>12, AboveVals, Zenon
<1>14. PICK abcde : abcde = abcd \o e
  BY Zenon
<1>15. abcde \in Seq(Nat) /\ Vals(abcde) = Vals(abcd) \cup Vals(e) /\ Falling(abcde)
  BY <1>3, <1>12, <1>13, <1>14, ConcatSeq, Zenon
<1>16. Above(abcde, f)
  BY <1>4, <1>13, <1>15, AboveVals, Zenon
<1>17. Falling(abcde \o f)
  BY <1>3, <1>15, <1>16, ConcatSeq, Zenon
<1> QED
  BY <1>5, <1>8, <1>11, <1>14, <1>17, Zenon

-----------------------------------------------------------------------------
(* The ring.                                                               *)

\* Where the bytes are.
LEMMA RingPlaces ==
  ASSUME NEW h \in 0 .. RingSize - 1, NEW l \in 0 .. RingSize - 1,
         NEW i \in 1 .. (IF h <= l THEN l - h ELSE l - h + RingSize)
  PROVE  LET w == IF h + i - 1 < RingSize THEN h + i - 1 ELSE h + i - 1 - RingSize
         IN  w \in 0 .. RingSize - 1 /\ w # l
PROOF
  BY MultiPcpuAssumption

\* The bytes in the ring, as a sequence.
LEMMA RingIsSeq ==
  ASSUME NEW h \in 0 .. RingSize - 1, NEW l \in 0 .. RingSize - 1, NEW b \in [0 .. RingSize - 1 -> Nat]
  PROVE  /\ RingOf(h, l, b) \in Seq(Nat)
         /\ Len(RingOf(h, l, b)) = IF h <= l THEN l - h ELSE l - h + RingSize
PROOF
<1> DEFINE n == IF h <= l THEN l - h ELSE l - h + RingSize
           W(i) == IF h + i - 1 < RingSize THEN h + i - 1 ELSE h + i - 1 - RingSize
<1>1. n \in Nat
  BY MultiPcpuAssumption
<1>2. \A i \in 1 .. n : W(i) \in 0 .. RingSize - 1
  BY RingPlaces, Zenon
<1>3. RingOf(h, l, b) = [i \in 1 .. n |-> b[W(i)]]
  BY DEF RingOf
<1> HIDE DEF n, W
<1>4. \A i \in 1 .. n : b[W(i)] \in Nat
  BY <1>2
<1>5. RingOf(h, l, b) \in [1 .. n -> Nat]
  BY <1>3, <1>4
<1>6. RingOf(h, l, b) \in Seq(Nat) /\ Len(RingOf(h, l, b)) = n
  BY <1>1, <1>5
<1> QED
  BY <1>6 DEF n

\* A store to the tail's place is not in it.
LEMMA RingStore ==
  ASSUME NEW h \in 0 .. RingSize - 1, NEW l \in 0 .. RingSize - 1, NEW b \in [0 .. RingSize - 1 -> Nat],
         NEW x \in Nat
  PROVE  RingOf(h, l, [b EXCEPT ![l] = x]) = RingOf(h, l, b)
PROOF
<1> DEFINE n == IF h <= l THEN l - h ELSE l - h + RingSize
           W(i) == IF h + i - 1 < RingSize THEN h + i - 1 ELSE h + i - 1 - RingSize
<1>1. \A i \in 1 .. n : W(i) \in 0 .. RingSize - 1 /\ W(i) # l
  BY RingPlaces, Zenon
<1>2. \A c : RingOf(h, l, c) = [i \in 1 .. n |-> c[W(i)]]
  BY DEF RingOf
<1> HIDE DEF n, W
<1>3. \A i \in 1 .. n : [b EXCEPT ![l] = x][W(i)] = b[W(i)]
  BY <1>1
<1>4. /\ RingOf(h, l, [b EXCEPT ![l] = x]) = [i \in 1 .. n |-> [b EXCEPT ![l] = x][W(i)]]
      /\ RingOf(h, l, b) = [i \in 1 .. n |-> b[W(i)]]
  BY <1>2, Zenon
<1> QED
  BY <1>3, <1>4, Zenon

\* Sequences of the same length with the same members.
LEMMA SameSeq ==
  ASSUME NEW s \in Seq(Nat), NEW t \in Seq(Nat), Len(s) = Len(t), \A i \in 1 .. Len(s) : s[i] = t[i]
  PROVE  s = t
PROOF
<1>1. s = [i \in 1 .. Len(s) |-> s[i]] /\ t = [i \in 1 .. Len(t) |-> t[i]]
  OBVIOUS
<1> QED
  BY <1>1, Zenon

\* Places on a ring of R: one more before l, one less after h.
LEMMA CountMore ==
  ASSUME NEW R \in Nat \ {0}, NEW h \in 0 .. R - 1, NEW l \in 0 .. R - 1, NEW m \in 0 .. R - 1,
         m = IF l = R - 1 THEN 0 ELSE l + 1, m # h,
         NEW c, c = IF h <= l THEN l - h ELSE l - h + R,
         NEW d, d = IF h <= m THEN m - h ELSE m - h + R
  PROVE  c \in Nat /\ d = c + 1 /\ (l = IF h + (c + 1) - 1 < R THEN h + (c + 1) - 1 ELSE h + (c + 1) - 1 - R)
PROOF
<1>1. CASE h <= l
  BY <1>1
<1>2. CASE ~(h <= l)
  BY <1>2
<1> QED
  BY <1>1, <1>2

\* One less when the head moves on: arithmetic only.
LEMMA CountLess ==
  ASSUME NEW R \in Nat \ {0}, NEW h \in 0 .. R - 1, NEW l \in 0 .. R - 1, NEW m \in 0 .. R - 1,
         m = IF h = R - 1 THEN 0 ELSE h + 1, h # l,
         NEW c, c = IF h <= l THEN l - h ELSE l - h + R,
         NEW d, d = IF m <= l THEN l - m ELSE l - m + R
  PROVE  /\ c \in Nat \ {0} /\ d = c - 1
         /\ (IF h + 1 - 1 < R THEN h + 1 - 1 ELSE h + 1 - 1 - R) = h
         /\ \A i \in 1 .. c - 1 :
              /\ i + 1 \in 1 .. c
              /\ (IF m + i - 1 < R THEN m + i - 1 ELSE m + i - 1 - R)
                   = IF h + (i + 1) - 1 < R THEN h + (i + 1) - 1 ELSE h + (i + 1) - 1 - R
PROOF
<1>1. CASE h <= l
  <2>1. c = l - h /\ m = h + 1
    BY <1>1
  <2> QED
    BY <1>1, <2>1
<1>2. CASE ~(h <= l) /\ h = R - 1
  <2>1. c = l + 1 /\ m = 0 /\ d = l
    BY <1>2
  <2> QED
    BY <1>2, <2>1
<1>3. CASE ~(h <= l) /\ h # R - 1
  <2>1. c = l - h + R /\ m = h + 1 /\ d = l - h - 1 + R
    BY <1>3
  <2> QED
    BY <1>3, <2>1
<1> QED
  BY <1>1, <1>2, <1>3

\* Publishing makes the byte at the tail's place the last.
LEMMA RingPublish ==
  ASSUME NEW h \in 0 .. RingSize - 1, NEW l \in 0 .. RingSize - 1, NEW b \in [0 .. RingSize - 1 -> Nat],
         After(l) # h
  PROVE  RingOf(h, After(l), b) = Append(RingOf(h, l, b), b[l])
PROOF
<1> DEFINE Count(k) == IF h <= k THEN k - h ELSE k - h + RingSize
           W(i) == IF h + i - 1 < RingSize THEN h + i - 1 ELSE h + i - 1 - RingSize
<1>1. PICK m : m = After(l)
  OBVIOUS
<1>2. m \in 0 .. RingSize - 1 /\ (m = IF l = RingSize - 1 THEN 0 ELSE l + 1) /\ m # h
  BY <1>1, AfterIs
<1>3. Count(l) \in Nat /\ Count(m) = Count(l) + 1 /\ W(Count(l) + 1) = l
  <2>1. RingSize \in Nat \ {0}
    BY MultiPcpuAssumption
  <2>2. PICK c, d : c = Count(l) /\ d = Count(m)
    OBVIOUS
  <2>3. c \in Nat /\ d = c + 1 /\ l = W(c + 1)
    BY <1>2, <2>1, <2>2, CountMore
  <2> HIDE DEF Count, W
  <2> QED
    BY <2>2, <2>3
<1>4. \A k : RingOf(h, k, b) = [i \in 1 .. Count(k) |-> b[W(i)]]
  BY Zenon DEF RingOf
<1>5. /\ RingOf(h, l, b) \in Seq(Nat) /\ Len(RingOf(h, l, b)) = Count(l)
      /\ RingOf(h, m, b) \in Seq(Nat) /\ Len(RingOf(h, m, b)) = Count(m)
  BY <1>2, RingIsSeq, Zenon
<1>6. b[l] \in Nat
  OBVIOUS
<1> HIDE DEF Count, W
<1>7. PICK s, n : s = RingOf(h, l, b) /\ n = Count(l)
  OBVIOUS
<1>8. /\ s \in Seq(Nat) /\ Len(s) = n /\ n \in Nat
      /\ s = [i \in 1 .. n |-> b[W(i)]] /\ RingOf(h, m, b) = [i \in 1 .. n + 1 |-> b[W(i)]]
      /\ W(n + 1) = l
  BY <1>3, <1>4, <1>5, <1>7
<1>9. PICK a, r : a = Append(s, b[l]) /\ r = RingOf(h, m, b)
  BY Zenon
<1>10. /\ a \in Seq(Nat) /\ Len(a) = n + 1 /\ a[n + 1] = b[l]
       /\ \A i \in 1 .. n : a[i] = s[i]
  BY <1>6, <1>8, <1>9
<1>11. r \in Seq(Nat) /\ Len(r) = n + 1 /\ \A i \in 1 .. n + 1 : r[i] = b[W(i)]
  BY <1>3, <1>5, <1>7, <1>8, <1>9
<1>12. \A i \in 1 .. n : s[i] = b[W(i)]
  BY <1>8
<1>13. \A i \in 1 .. n + 1 : r[i] = a[i]
  <2> TAKE i \in 1 .. n + 1
  <2>1. i \in 1 .. n \/ i = n + 1
    BY <1>8
  <2> QED
    BY <1>8, <1>10, <1>11, <1>12, <2>1, Zenon
<1>14. r = a
  BY <1>10, <1>11, <1>13, SameSeq
<1> QED
  BY <1>1, <1>7, <1>9, <1>14, Zenon

\* Popping takes the byte at the head's place, which is the first.
LEMMA RingPop ==
  ASSUME NEW h \in 0 .. RingSize - 1, NEW l \in 0 .. RingSize - 1, NEW b \in [0 .. RingSize - 1 -> Nat],
         h # l
  PROVE  /\ RingOf(h, l, b) # <<>>
         /\ Head(RingOf(h, l, b)) = b[h]
         /\ RingOf(After(h), l, b) = Tail(RingOf(h, l, b))
PROOF
<1> DEFINE Count(k) == IF k <= l THEN l - k ELSE l - k + RingSize
           W(k, i) == IF k + i - 1 < RingSize THEN k + i - 1 ELSE k + i - 1 - RingSize
<1>1. PICK m : m = After(h)
  OBVIOUS
<1>2. m \in 0 .. RingSize - 1 /\ (m = IF h = RingSize - 1 THEN 0 ELSE h + 1)
  BY <1>1, AfterIs
<1>3. /\ Count(h) \in Nat \ {0} /\ Count(m) = Count(h) - 1 /\ W(h, 1) = h
      /\ \A i \in 1 .. Count(h) - 1 : W(m, i) = W(h, i + 1) /\ i + 1 \in 1 .. Count(h)
  <2>1. RingSize \in Nat \ {0}
    BY MultiPcpuAssumption
  <2>2. PICK c, d : c = Count(h) /\ d = Count(m)
    OBVIOUS
  <2>3. /\ c \in Nat \ {0} /\ d = c - 1 /\ W(h, 1) = h
        /\ \A i \in 1 .. c - 1 : W(m, i) = W(h, i + 1) /\ i + 1 \in 1 .. c
    BY <1>2, <2>1, <2>2, CountLess
  <2> HIDE DEF Count, W
  <2> QED
    BY <2>2, <2>3
<1>5. \A k : RingOf(k, l, b) = [i \in 1 .. Count(k) |-> b[W(k, i)]]
  BY Zenon DEF RingOf
<1>6. /\ RingOf(h, l, b) \in Seq(Nat) /\ Len(RingOf(h, l, b)) = Count(h)
      /\ RingOf(m, l, b) \in Seq(Nat) /\ Len(RingOf(m, l, b)) = Count(m)
  BY <1>2, RingIsSeq, Zenon
<1> HIDE DEF Count, W
<1>7. PICK s, r, n : s = RingOf(h, l, b) /\ r = RingOf(m, l, b) /\ n = Count(h)
  OBVIOUS
<1>8. /\ s \in Seq(Nat) /\ Len(s) = n /\ n \in Nat \ {0} /\ r \in Seq(Nat) /\ Len(r) = n - 1
      /\ s = [i \in 1 .. n |-> b[W(h, i)]] /\ r = [i \in 1 .. n - 1 |-> b[W(m, i)]]
  BY <1>3, <1>5, <1>6, <1>7
<1>9. s # <<>>
  BY <1>8, EmptyLen, Zenon
<1>10. Head(s) = b[h]
  <2>1. 1 \in 1 .. n /\ Head(s) = s[1]
    BY <1>8, <1>9, HeadTail
  <2>2. s[1] = b[W(h, 1)]
    BY <1>8, <2>1
  <2> QED
    BY <1>3, <2>1, <2>2
<1>11. PICK t : t = Tail(s)
  BY Zenon
<1>12. t \in Seq(Nat) /\ Len(t) = n - 1 /\ \A i \in 1 .. n - 1 : t[i] = s[i + 1]
  BY <1>8, <1>9, <1>11, HeadTail, Zenon
<1>13. \A i \in 1 .. n - 1 : r[i] = t[i]
  <2> TAKE i \in 1 .. n - 1
  <2>1. W(m, i) = W(h, i + 1) /\ i + 1 \in 1 .. n
    BY <1>3, <1>7
  <2>2. r[i] = b[W(m, i)] /\ s[i + 1] = b[W(h, i + 1)]
    BY <1>8, <2>1
  <2> QED
    BY <1>12, <2>1, <2>2
<1>14. r = t
  BY <1>8, <1>12, <1>13, SameSeq
<1> QED
  BY <1>1, <1>7, <1>9, <1>10, <1>11, <1>14, Zenon

\* One byte goes from a stage to the one before it.
LEMMA MoveOne ==
  ASSUME NEW s \in [1 .. 6 -> Seq(Nat)], NEW t \in [1 .. 6 -> Seq(Nat)], NEW n \in Nat, Ordered(s, n),
         NEW k \in 1 .. 6, NEW l \in 1 .. 6, l = k + 1, s[l] # <<>>,
         t[k] = Append(s[k], Head(s[l])), t[l] = Tail(s[l]),
         \A j \in 1 .. 6 : j # k /\ j # l => t[j] = s[j]
  PROVE  Ordered(t, n)
PROOF
<1>1. k \in 1 .. 6 /\ l \in 1 .. 6 /\ k < l
  OBVIOUS
<1>2. PICK u, v, x : u = s[k] /\ v = s[l] /\ x = Head(v)
  BY Zenon
<1>3. u \in Seq(Nat) /\ v \in Seq(Nat) /\ v # <<>>
  BY <1>1, <1>2, Zenon
<1>4. Falling(u) /\ Falling(v) /\ Above(u, v)
  BY <1>1, <1>2, Zenon DEF Ordered
<1>5. /\ x \in Nat /\ x \in Vals(v) /\ Vals(Tail(v)) \subseteq Vals(v)
      /\ Falling(Tail(v)) /\ \A y \in Vals(Tail(v)) : x > y
  BY <1>2, <1>3, <1>4, TailSeq, HeadTail, Zenon
<1>6. \A y \in Vals(u), z \in Vals(v) : y > z
  BY <1>4, AboveVals, Zenon
<1>7. Vals(Append(u, x)) = Vals(u) \cup {x} /\ Falling(Append(u, x))
  BY <1>3, <1>4, <1>5, <1>6, AppendSeq, Zenon
<1>8. t[k] = Append(u, x) /\ t[l] = Tail(v)
  BY <1>2
<1>9. Above(t[k], t[l])
  BY <1>5, <1>6, <1>7, <1>8, AboveVals, Zenon
<1>10. \A j \in 1 .. 6 : Falling(t[j])
  BY <1>5, <1>7, <1>8, Zenon DEF Ordered
<1>11. \A j \in 1 .. 6 \ {k} : Vals(t[j]) \subseteq Vals(s[j])
  BY <1>2, <1>5, <1>8, Zenon
<1>12. Vals(t[k]) \subseteq Vals(s[k]) \cup Vals(s[l])
  BY <1>2, <1>5, <1>7, <1>8, Zenon
<1>13. n <= n
  OBVIOUS
<1> QED
  BY <1>1, <1>9, <1>10, <1>11, <1>12, <1>13, Moved, Zenon

\* The first byte of a stage is dropped.
LEMMA DropOne ==
  ASSUME NEW s \in [1 .. 6 -> Seq(Nat)], NEW t \in [1 .. 6 -> Seq(Nat)], NEW n \in Nat, Ordered(s, n),
         NEW k \in 1 .. 6, s[k] # <<>>, t[k] = Tail(s[k]),
         \A j \in 1 .. 6 : j # k => t[j] = s[j]
  PROVE  Ordered(t, n)
PROOF
<1>1. Falling(s[k]) /\ s[k] \in Seq(Nat)
  BY Zenon DEF Ordered
<1>2. Falling(t[k]) /\ Vals(t[k]) \subseteq Vals(s[k])
  BY <1>1, TailSeq, Zenon
<1>3. \A j \in 1 .. 6 : Falling(t[j]) /\ Vals(t[j]) \subseteq Vals(s[j])
  BY <1>2, Zenon DEF Ordered
<1>4. Above(t[1], t[2])
  <2>1. 1 \in 1 .. 6 /\ 2 \in 1 .. 6 /\ 1 < 2
    OBVIOUS
  <2>2. Above(s[1], s[2])
    BY <2>1 DEF Ordered
  <2> QED
    BY <1>3, <2>1, <2>2, AboveVals
<1>5. 2 = 1 + 1 /\ 1 \in 1 .. 6 /\ 2 \in 1 .. 6 /\ n <= n
  OBVIOUS
<1>6. /\ \A j \in 1 .. 6 \ {1} : Vals(t[j]) \subseteq Vals(s[j])
      /\ Vals(t[1]) \subseteq Vals(s[1]) \cup Vals(s[2])
  BY <1>3, <1>5, Zenon
<1> QED
  BY <1>3, <1>4, <1>5, <1>6, Moved, Zenon

\* The first bytes of a stage go to the one before it, the others are dropped.
LEMMA MoveSome ==
  ASSUME NEW s \in [1 .. 6 -> Seq(Nat)], NEW t \in [1 .. 6 -> Seq(Nat)], NEW n \in Nat, Ordered(s, n),
         NEW m \in 0 .. Len(s[3]),
         t[2] = s[2] \o SubSeq(s[3], 1, m), t[3] = <<>>,
         t[1] = s[1] /\ t[4] = s[4] /\ t[5] = s[5] /\ t[6] = s[6]
  PROVE  Ordered(t, n)
PROOF
<1>1. PICK u, v, w : u = s[2] /\ v = s[3] /\ w = SubSeq(v, 1, m)
  BY Zenon
<1>2. u \in Seq(Nat) /\ v \in Seq(Nat) /\ Falling(u) /\ Falling(v) /\ Above(u, v)
  BY <1>1 DEF Ordered
<1>3. w \in Seq(Nat) /\ Vals(w) \subseteq Vals(v) /\ (Falling(v) => Falling(w))
  BY <1>1, <1>2, PrefixSeq, Zenon
<1>4. Vals(w) \subseteq Vals(v) /\ Falling(w)
  BY <1>2, <1>3
<1>5. Above(u, w)
  BY <1>2, <1>4, AboveVals
<1>6. t[2] = u \o w
  BY <1>1, Zenon
<1>7. Vals(t[2]) = Vals(u) \cup Vals(w) /\ Falling(t[2])
  BY <1>2, <1>3, <1>4, <1>5, <1>6, ConcatSeq, Zenon
<1>8. Vals(t[3]) = {} /\ Falling(t[3])
  BY ShortSeqs
<1>9. Falling(s[1]) /\ Falling(s[4]) /\ Falling(s[5]) /\ Falling(s[6])
  BY DEF Ordered
<1>10. ASSUME NEW j \in 1 .. 6
       PROVE  Falling(t[j]) /\ (j # 2 => Vals(t[j]) \subseteq Vals(s[j]))
  <2>1. j = 1 \/ j = 2 \/ j = 3 \/ j = 4 \/ j = 5 \/ j = 6
    OBVIOUS
  <2> QED
    BY <1>7, <1>8, <1>9, <2>1, Zenon
<1>11. Vals(t[2]) \subseteq Vals(s[2]) \cup Vals(s[3])
  BY <1>1, <1>4, <1>7, Zenon
<1>12. Above(t[2], t[3])
  BY <1>8, AboveVals
<1>13. 3 = 2 + 1 /\ 2 \in 1 .. 6 /\ 3 \in 1 .. 6 /\ n <= n
  OBVIOUS
<1>14. \A j \in 1 .. 6 \ {2} : Vals(t[j]) \subseteq Vals(s[j])
  BY <1>10, Zenon
<1> QED
  BY <1>10, <1>11, <1>12, <1>13, <1>14, Moved, Zenon

-----------------------------------------------------------------------------
(* The steps.                                                              *)

\* Only pCPU 0 reads the ring and one CPU at a time fills it; neither passes the other.
RingInv ==
  \A p \in Cpus :
    /\ at[p] = "popped" => p = 0 /\ ring.head # ring.tail
    /\ at[p] = "rx_publish" => After(ring.tail) # ring.head
    /\ \A q \in Cpus : {at[p], at[q]} \subseteq {"rx", "rx_publish"} => p = q

OrderInv == Ordered(Stages, ToCome) /\ RingInv

\* The stages are sequences.
LEMMA StageTypes ==
  ASSUME ConsTypes
  PROVE  /\ ring.head \in 0 .. RingSize - 1 /\ ring.tail \in 0 .. RingSize - 1
         /\ ring.buf \in [0 .. RingSize - 1 -> Nat] /\ From \in 0 .. RingSize - 1
         /\ typed \in Seq(Nat) /\ uart.rx \in Seq(Nat) /\ buf \in Seq(Nat)
         /\ RingBytes \in Seq(Nat) /\ Flight \in Seq(Nat) /\ fifo \in Seq(Nat)
PROOF
<1>1. /\ ring.head \in 0 .. RingSize - 1 /\ ring.tail \in 0 .. RingSize - 1
      /\ ring.buf \in [0 .. RingSize - 1 -> Nat]
  BY DEF ConsTypes
<1>2. From \in 0 .. RingSize - 1
  BY <1>1, AfterIs DEF From
<1>3. RingBytes \in Seq(Nat)
  BY <1>1, <1>2, RingIsSeq, Zenon DEF RingBytes
<1>4. Flight \in Seq(Nat)
  <2>1. ring.buf[ring.tail] \in Nat
    BY <1>1, Zenon
  <2> QED
    BY <2>1, ShortSeqs DEF Flight
<1> QED
  BY <1>1, <1>2, <1>3, <1>4 DEF ConsTypes, Uart

\* A tuple of six sequences, as a function.
LEMMA SixSeqs ==
  ASSUME NEW a \in Seq(Nat), NEW b \in Seq(Nat), NEW c \in Seq(Nat), NEW d \in Seq(Nat),
         NEW e \in Seq(Nat), NEW f \in Seq(Nat), NEW s, s = <<a, b, c, d, e, f>>
  PROVE  /\ s \in [1 .. 6 -> Seq(Nat)]
         /\ s[1] = a /\ s[2] = b /\ s[3] = c /\ s[4] = d /\ s[5] = e /\ s[6] = f
PROOF
<1>1. DOMAIN s = 1 .. 6
  OBVIOUS
<1>2. s[1] = a /\ s[2] = b /\ s[3] = c /\ s[4] = d /\ s[5] = e /\ s[6] = f
  OBVIOUS
<1>3. \A i \in 1 .. 6 : i = 1 \/ i = 2 \/ i = 3 \/ i = 4 \/ i = 5 \/ i = 6
  OBVIOUS
<1>4. \A i \in 1 .. 6 : s[i] \in Seq(Nat)
  BY <1>2, <1>3, Zenon
<1>5. s = [i \in 1 .. 6 |-> s[i]]
  BY <1>1
<1> QED
  BY <1>2, <1>4, <1>5

\* The stages a byte goes through, one by one.
LEMMA StagesAre ==
  ASSUME ConsTypes
  PROVE  /\ Stages \in [1 .. 6 -> Seq(Nat)]
         /\ Stages[1] = typed /\ Stages[2] = uart.rx /\ Stages[3] = buf
         /\ Stages[4] = RingBytes /\ Stages[5] = Flight /\ Stages[6] = fifo
PROOF
<1>1. PICK a, b, c, d, e, f : /\ a = typed /\ b = uart.rx /\ c = buf
                              /\ d = RingBytes /\ e = Flight /\ f = fifo
  OBVIOUS
<1>2. /\ a \in Seq(Nat) /\ b \in Seq(Nat) /\ c \in Seq(Nat)
      /\ d \in Seq(Nat) /\ e \in Seq(Nat) /\ f \in Seq(Nat)
  BY <1>1, StageTypes, Zenon
<1>3. PICK s : s = Stages
  OBVIOUS
<1>4. s = <<a, b, c, d, e, f>>
  BY <1>1, <1>3, Zenon DEF Stages
<1>5. /\ s \in [1 .. 6 -> Seq(Nat)]
      /\ s[1] = a /\ s[2] = b /\ s[3] = c /\ s[4] = d /\ s[5] = e /\ s[6] = f
  BY <1>2, <1>4, SixSeqs
<1> QED
  BY <1>1, <1>3, <1>5, Zenon

\* The CPUs that fill and empty the ring go on being the same.
RingSteps == {"popped", "rx", "rx_publish"}
Still == \A q \in Cpus : \A w \in RingSteps : at'[q] = w <=> at[q] = w

\* A step outside the ring's sections leaves every CPU in or out of them.
LEMMA GotoStill ==
  ASSUME StartTypes, NEW p \in Cpus, NEW w, Goto(p, w), at[p] \notin RingSteps, w \notin RingSteps
  PROVE  Still
PROOF
  BY DEF StartTypes, Goto, Still

\* If they are the same and the ring is unchanged, so is what it holds.
LEMMA StillRing ==
  ASSUME RingInv, Still, UNCHANGED ring
  PROVE  RingInv' /\ From' = From /\ Flight' = Flight /\ RingBytes' = RingBytes
PROOF
<1>1. \A q \in Cpus : /\ at'[q] = "popped" <=> at[q] = "popped"
                      /\ at'[q] = "rx" <=> at[q] = "rx"
                      /\ at'[q] = "rx_publish" <=> at[q] = "rx_publish"
  BY DEF Still, RingSteps
<1>2. From' = From /\ Flight' = Flight
  BY <1>1 DEF From, Flight
<1>3. RingInv'
  BY <1>1, Zenon DEF RingInv
<1> QED
  BY <1>2, <1>3 DEF RingBytes

\* The bytes still to arrive only become fewer.
LEMMA ToComeNat == StartTypes => ToCome \in Nat
PROOF
  BY DEF StartTypes, ToCome

\* An operation is counted once when it begins.
LEMMA UsesToCome ==
  ASSUME StartTypes, NEW o, Uses(o) \/ UNCHANGED todo
  PROVE  ToCome' \in Nat /\ ToCome' <= ToCome
PROOF
<1>1. ToCome \in Nat
  BY ToComeNat
<1>2. CASE UNCHANGED todo
  BY <1>1, <1>2 DEF ToCome
<1>3. CASE Uses(o)
  <2>1. o \in DOMAIN todo /\ todo[o] \in Nat \ {0} /\ todo' = [todo EXCEPT ![o] = @ - 1]
    BY <1>3 DEF Uses, StartTypes
  <2>2. DOMAIN todo' = DOMAIN todo
    BY <2>1
  <2>3. CASE Byte \in DOMAIN todo /\ o = Byte
    <3>1. todo'[Byte] = todo[Byte] - 1
      BY <2>1, <2>3
    <3> QED
      BY <2>1, <2>2, <2>3, <3>1 DEF ToCome
  <2>4. CASE ~(Byte \in DOMAIN todo /\ o = Byte)
    <3>1. ToCome' = ToCome
      BY <2>1, <2>2, <2>4 DEF ToCome
    <3> QED
      BY <1>1, <3>1
  <2> QED
    BY <2>3, <2>4
<1> QED
  BY <1>2, <1>3

\* A step that leaves the console alone.
LEMMA QuietOrder ==
  ASSUME OrderInv, ConsTypes, StartInv, Still, UNCHANGED cons, ToCome' \in Nat, ToCome' <= ToCome
  PROVE  OrderInv'
PROOF
<1>1. RingInv' /\ Flight' = Flight /\ RingBytes' = RingBytes
  BY StillRing DEF OrderInv, cons
<1>2. Stages' = Stages
  BY <1>1 DEF Stages, cons
<1>3. PICK n, m : n = ToCome /\ m = ToCome'
  OBVIOUS
<1>4. n \in Nat /\ m \in Nat /\ m <= n
  BY <1>3, ToComeNat DEF StartInv
<1>5. PICK s : s = Stages
  OBVIOUS
<1>6. s \in [1 .. 6 -> Seq(Nat)]
  BY <1>5, StagesAre
<1>7. Ordered(s, n)
  BY <1>3, <1>5 DEF OrderInv
<1>8. Above(s[1], s[2]) /\ \A j \in 1 .. 6 : Falling(s[j])
  BY <1>7 DEF Ordered
<1>9. 2 = 1 + 1 /\ 1 \in 1 .. 6 /\ 2 \in 1 .. 6
  OBVIOUS
<1>10. Ordered(s, m)
  BY <1>4, <1>6, <1>7, <1>8, <1>9, Moved, Zenon
<1>11. Ordered(Stages, ToCome)'
  BY <1>2, <1>3, <1>5, <1>10
<1> QED
  BY <1>1, <1>11 DEF OrderInv

\* The steps of this kind, apart from the receive interrupt.
LEMMA QuietSteps ==
  ASSUME OrderInv, ConsTypes, StartInv, NEW p \in Cpus,
         \/ wfe(p) \/ take(p) \/ secondary_enter_guest(p) \/ release(p) \/ raise(p)
         \/ inject_pending_sgis(p) \/ inject_pending_spis(p) \/ sgi_irq(p) \/ send_physical_sgi(p)
         \/ request(p) \/ sev(p) \/ unlock(p) \/ flush_pending_spis_to_hardware(p)
  PROVE  OrderInv'
PROOF
<1>1. UNCHANGED cons /\ UNCHANGED todo
  BY Zenon DEF wfe, take, secondary_enter_guest, release, raise, inject_pending_sgis, inject_pending_spis,
         sgi_irq, send_physical_sgi, request, sev, unlock, flush_pending_spis_to_hardware
<1>2. PICK w : Goto(p, w) /\ at[p] \notin RingSteps /\ w \notin RingSteps
  <2>1. Top(p) \notin RingSteps
    BY DEF Top, RingSteps
  <2>2. CASE wfe(p) \/ take(p) \/ secondary_enter_guest(p)
    BY <2>1, <2>2 DEF wfe, take, secondary_enter_guest, RingSteps
  <2>3. CASE release(p) \/ raise(p) \/ inject_pending_sgis(p) \/ inject_pending_spis(p)
    <3>1. /\ at[p] \in {"release", "raise", "sgis", "spis"}
          /\ \E w \in {"raise", "sgis", "ipi_raise", "spis", "guest"} : Goto(p, w)
      BY <2>3, Zenon DEF release, raise, inject_pending_sgis, inject_pending_spis
    <3> QED
      BY <3>1 DEF RingSteps
  <2>4. CASE sgi_irq(p) \/ request(p) \/ sev(p) \/ unlock(p) \/ flush_pending_spis_to_hardware(p)
    <3>1. /\ at[p] \in {"guest", "request", "sev", "drop", "flush"}
          /\ \E w \in {Top(p), "sev", "flush", "guest"} : Goto(p, w)
      BY <2>4, Zenon DEF sgi_irq, request, sev, unlock, flush_pending_spis_to_hardware
    <3> QED
      BY <2>1, <3>1 DEF RingSteps
  <2>5. CASE send_physical_sgi(p)
    <3>1. /\ at[p] \in {"ipi", "ipi_all", "ipi_mmio", "ipi_raise"}
          /\ \E w \in {"guest", "drop", "sgis"} : Goto(p, w)
      BY <2>5, SendGoes, Zenon
    <3> QED
      BY <3>1 DEF RingSteps
  <2> QED
    BY <2>2, <2>3, <2>4, <2>5
<1>3. Still
  BY <1>2, GotoStill, Zenon DEF StartInv
<1>4. ToCome' \in Nat /\ ToCome' <= ToCome
  BY <1>1, UsesToCome DEF StartInv
<1> QED
  BY <1>1, <1>3, <1>4, QuietOrder

\* What the guest does without the lock, and its interrupts.
LEMMA OperationOrder ==
  ASSUME OrderInv, ConsTypes, StartInv, NEW p \in Cpus, Virq(p) \/ Operation(p)
  PROVE  OrderInv'
PROOF
<1>1. CASE Virq(p)
  <2>1. UNCHANGED <<at, todo, cons>>
    BY <1>1 DEF Virq, virq
  <2>2. Still
    BY <2>1 DEF Still
  <2>3. ToCome' \in Nat /\ ToCome' <= ToCome
    BY <2>1, UsesToCome DEF StartInv
  <2> QED
    BY <2>1, <2>2, <2>3, QuietOrder
<1>2. CASE Operation(p)
  <2>1. PICK o : handle_sgi_trap(p, o) \/ cpu_on(p, o) \/ cpu_off(p, o) \/ mmio(p, o)
    BY <1>2 DEF Operation
  <2>2. UNCHANGED cons /\ Uses(o) /\ at[p] = "guest"
    BY <2>1, Zenon DEF handle_sgi_trap, cpu_on, cpu_off, mmio
  <2>3. PICK w : Goto(p, w) /\ w \notin RingSteps
    <3>1. Top(p) \notin RingSteps
      BY DEF Top, RingSteps
    <3>2. \E w \in {"guest", "ipi_all", "ipi", "request", Top(p), "off", "wfe", "mmio"} : Goto(p, w)
      BY <2>1, Zenon DEF handle_sgi_trap, cpu_on, cpu_off, mmio
    <3> QED
      BY <3>1, <3>2 DEF RingSteps
  <2>4. Still
    BY <2>2, <2>3, GotoStill, Zenon DEF StartInv, RingSteps
  <2>5. ToCome' \in Nat /\ ToCome' <= ToCome
    BY <2>2, UsesToCome, Zenon DEF StartInv
  <2> QED
    BY <2>2, <2>4, <2>5, QuietOrder
<1> QED
  BY <1>1, <1>2

StagesFit ==
  /\ Stages \in [1 .. 6 -> Seq(Nat)]
  /\ Stages[1] = typed /\ Stages[2] = uart.rx /\ Stages[3] = buf
  /\ Stages[4] = RingBytes /\ Stages[5] = Flight /\ Stages[6] = fifo

\* The same for the next state.
LEMMA NewStages == ConsTypes' => StagesFit'
PROOF
<1>1. ConsTypes => StagesFit
  BY StagesAre DEF StagesFit
<1> QED
  BY <1>1, PTL

\* A byte arrives.
LEMMA ByteOrder ==
  ASSUME OrderInv, ConsTypes, ConsTypes', StartInv, byte
  PROVE  OrderInv'
PROOF
<1>1. /\ Uses(Byte) /\ fifo' = Append(fifo, todo[Byte])
      /\ UNCHANGED <<at, uart, ring, buf, typed>>
  BY DEF byte
<1>2. Still
  BY <1>1 DEF Still
<1>3. RingInv' /\ Flight' = Flight /\ RingBytes' = RingBytes
  BY <1>1, <1>2, StillRing DEF OrderInv
<1>4. PICK s, t, n : s = Stages /\ t = Stages' /\ n = ToCome
  OBVIOUS
<1>5. n \in Nat \ {0} /\ n = todo[Byte] /\ ToCome' = n - 1
  <2>1. Byte \in DOMAIN todo /\ todo[Byte] \in Nat \ {0} /\ todo' = [todo EXCEPT ![Byte] = @ - 1]
    BY <1>1 DEF Uses, StartInv, StartTypes
  <2>2. DOMAIN todo' = DOMAIN todo /\ todo'[Byte] = todo[Byte] - 1
    BY <2>1
  <2> QED
    BY <1>4, <2>1, <2>2 DEF ToCome
<1>6. /\ s \in [1 .. 6 -> Seq(Nat)] /\ s[1] = typed /\ s[2] = uart.rx /\ s[3] = buf
      /\ s[4] = RingBytes /\ s[5] = Flight /\ s[6] = fifo
  BY <1>4, StagesAre
<1>7. /\ t \in [1 .. 6 -> Seq(Nat)] /\ t[1] = typed' /\ t[2] = uart'.rx /\ t[3] = buf'
      /\ t[4] = RingBytes' /\ t[5] = Flight' /\ t[6] = fifo'
  BY <1>4, NewStages DEF StagesFit
<1>8. /\ t[1] = s[1] /\ t[2] = s[2] /\ t[3] = s[3] /\ t[4] = s[4] /\ t[5] = s[5]
      /\ t[6] = Append(s[6], n)
  BY <1>1, <1>3, <1>5, <1>6, <1>7
<1>9. \A j \in 1 .. 5 : t[j] = s[j]
  BY <1>8
<1>10. Ordered(s, n)
  BY <1>4 DEF OrderInv
<1>11. Ordered(t, n - 1)
  BY <1>5, <1>6, <1>7, <1>8, <1>9, <1>10, Arrived, Zenon
<1> QED
  BY <1>3, <1>4, <1>5, <1>11, Zenon DEF OrderInv

\* The receive interrupt is taken by one CPU.
LEMMA UartIrqOrder ==
  ASSUME OrderInv, ConsTypes, StartInv, NEW p \in Cpus, uart_irq(p)
  PROVE  OrderInv'
PROOF
<1>1. /\ at[p] = "guest" /\ at' = [at EXCEPT ![p] = "rx"] /\ UNCHANGED <<todo, uart, fifo, ring, buf, typed>>
      /\ \A q \in Cpus : at[q] \notin {"rx", "rx_publish"}
  BY Zenon DEF uart_irq, UartIrq, Goto, cons
<1>2. \A q \in Cpus : at'[q] = IF q = p THEN "rx" ELSE at[q]
  BY <1>1 DEF StartInv, StartTypes
<1>3. \A q \in Cpus : /\ at'[q] = "popped" <=> at[q] = "popped"
                      /\ at'[q] # "rx_publish" /\ at[q] # "rx_publish"
                      /\ at'[q] = "rx" => q = p
  BY <1>1, <1>2
<1>4. From' = From /\ Flight' = Flight
  BY <1>1, <1>3, Zenon DEF From, Flight
<1>5. RingInv'
  BY <1>1, <1>3, Zenon DEF RingInv, OrderInv
<1>6. Stages' = Stages /\ ToCome' = ToCome
  BY <1>1, <1>4 DEF Stages, RingBytes, ToCome
<1> QED
  BY <1>5, <1>6 DEF OrderInv

\* Publishing a byte.
LEMMA PublishOrder ==
  ASSUME OrderInv, ConsTypes, ConsTypes', StartInv, NEW p \in Cpus, rx_publish(p)
  PROVE  OrderInv'
PROOF
<1>1. /\ at[p] = "rx_publish" /\ at' = [at EXCEPT ![p] = "rx"] /\ UNCHANGED <<todo, uart, fifo, buf, typed>>
      /\ ring' = [ring EXCEPT !.tail = After(@)]
  BY DEF rx_publish, Goto
<1>2. \A q \in Cpus : at'[q] = IF q = p THEN "rx" ELSE at[q]
  BY <1>1 DEF StartInv, StartTypes
<1>3. \A q \in Cpus : q # p => at[q] # "rx" /\ at[q] # "rx_publish"
  BY <1>1 DEF RingInv, OrderInv
<1>4. \A q \in Cpus : /\ at'[q] = "popped" <=> at[q] = "popped"
                      /\ at'[q] # "rx_publish" /\ (at'[q] = "rx" => q = p)
  BY <1>1, <1>2, <1>3
<1>5. /\ ring.head \in 0 .. RingSize - 1 /\ ring.tail \in 0 .. RingSize - 1
      /\ ring.buf \in [0 .. RingSize - 1 -> Nat] /\ From \in 0 .. RingSize - 1
  BY StageTypes
<1>6. ring'.head = ring.head /\ ring'.buf = ring.buf /\ ring'.tail = After(ring.tail)
  BY <1>1 DEF ConsTypes
<1>7. After(ring.tail) # ring.head
  BY <1>1 DEF RingInv, OrderInv
<1>8. \A q \in Cpus : at[q] = "popped" => q = 0 /\ ring.head # ring.tail
  BY DEF RingInv, OrderInv
<1>9. From' = From /\ After(ring.tail) # From
  <2>1. From' = From
    BY <1>4, <1>6 DEF From
  <2>2. CASE \E q \in Cpus : at[q] = "popped"
    <3>1. From = After(ring.head) /\ ring.head # ring.tail
      BY <1>8, <2>2 DEF From
    <3>2. After(ring.head) # After(ring.tail)
      BY <1>5, <3>1, AfterIs, MultiPcpuAssumption
    <3> QED
      BY <2>1, <3>1, <3>2
  <2>3. CASE ~ \E q \in Cpus : at[q] = "popped"
    BY <1>7, <2>1, <2>3 DEF From
  <2> QED
    BY <2>2, <2>3
<1>10. RingInv'
  BY <1>4, <1>6, <1>7, <1>8 DEF RingInv
<1>11. RingBytes' = Append(RingBytes, ring.buf[ring.tail])
  BY <1>5, <1>6, <1>9, RingPublish, Zenon DEF RingBytes
<1>12. Flight = <<ring.buf[ring.tail]>> /\ Flight' = <<>>
  BY <1>1, <1>4 DEF Flight
<1>13. Head(Flight) = ring.buf[ring.tail] /\ Flight # <<>> /\ Tail(Flight) = <<>>
  <2>1. PICK x : x = ring.buf[ring.tail]
    OBVIOUS
  <2>2. Head(<<x>>) = x /\ <<x>> # <<>> /\ Tail(<<x>>) = <<>>
    OBVIOUS
  <2> QED
    BY <1>12, <2>1, <2>2, Zenon
<1>14. PICK s, t, n : s = Stages /\ t = Stages' /\ n = ToCome
  OBVIOUS
<1>15. n \in Nat /\ n = ToCome'
  BY <1>1, <1>14, ToComeNat DEF StartInv, ToCome
<1>16. /\ s \in [1 .. 6 -> Seq(Nat)] /\ s[1] = typed /\ s[2] = uart.rx /\ s[3] = buf
       /\ s[4] = RingBytes /\ s[5] = Flight /\ s[6] = fifo
  BY <1>14, StagesAre
<1>17. /\ t \in [1 .. 6 -> Seq(Nat)] /\ t[1] = typed' /\ t[2] = uart'.rx /\ t[3] = buf'
       /\ t[4] = RingBytes' /\ t[5] = Flight' /\ t[6] = fifo'
  BY <1>14, NewStages DEF StagesFit
<1>18. /\ t[1] = s[1] /\ t[2] = s[2] /\ t[3] = s[3] /\ t[6] = s[6]
       /\ s[5] # <<>> /\ t[4] = Append(s[4], Head(s[5])) /\ t[5] = Tail(s[5])
  BY <1>1, <1>11, <1>12, <1>13, <1>16, <1>17, Zenon
<1>19. \A j \in 1 .. 6 : j # 4 /\ j # 5 => t[j] = s[j]
  <2>1. \A j \in 1 .. 6 : j # 4 /\ j # 5 => j = 1 \/ j = 2 \/ j = 3 \/ j = 6
    OBVIOUS
  <2> QED
    BY <1>18, <2>1, Zenon
<1>20. Ordered(s, n) /\ 4 \in 1 .. 6 /\ 5 \in 1 .. 6 /\ 5 = 4 + 1
  BY <1>14 DEF OrderInv
<1>21. Ordered(t, n)
  BY <1>15, <1>16, <1>17, <1>18, <1>19, <1>20, MoveOne, Zenon
<1> QED
  BY <1>10, <1>14, <1>15, <1>21, Zenon DEF OrderInv

\* The handler takes a byte from the UART: it is dropped if the ring is full, and in flight
\* otherwise; without a byte, the handler ends.
LEMMA RxOrder ==
  ASSUME OrderInv, ConsTypes, ConsTypes', StartInv, NEW p \in Cpus, rx(p)
  PROVE  OrderInv'
PROOF
<1>1. at[p] = "rx" /\ UNCHANGED <<todo, uart, buf, typed>>
  BY DEF rx
<1>2. \A q \in Cpus : at[q] # "rx_publish" /\ (at[q] = "rx" => q = p)
  BY <1>1 DEF RingInv, OrderInv
<1>3. \A q \in Cpus : at[q] = "popped" => q = 0 /\ ring.head # ring.tail
  BY DEF RingInv, OrderInv
<1>4. Flight = <<>>
  BY <1>2 DEF Flight
<1>5. PICK s, t, n : s = Stages /\ t = Stages' /\ n = ToCome
  OBVIOUS
<1>6. n \in Nat /\ n = ToCome'
  BY <1>1, <1>5, ToComeNat, Zenon DEF StartInv, ToCome
<1>7. /\ s \in [1 .. 6 -> Seq(Nat)] /\ s[1] = typed /\ s[2] = uart.rx /\ s[3] = buf
      /\ s[4] = RingBytes /\ s[5] = Flight /\ s[6] = fifo
  BY <1>5, StagesAre
<1>8. /\ t \in [1 .. 6 -> Seq(Nat)] /\ t[1] = typed' /\ t[2] = uart'.rx /\ t[3] = buf'
      /\ t[4] = RingBytes' /\ t[5] = Flight' /\ t[6] = fifo'
  BY <1>5, NewStages DEF StagesFit
<1>9. Ordered(s, n)
  BY <1>5 DEF OrderInv
<1>10. CASE fifo = <<>>
  <2>1. Goto(p, Top(p)) /\ UNCHANGED <<fifo, ring>>
    BY <1>10 DEF rx
  <2>2. \A q \in Cpus : /\ at'[q] = "popped" <=> at[q] = "popped"
                        /\ at'[q] # "rx_publish" /\ at'[q] # "rx"
    BY <1>1, <1>2, <2>1 DEF Goto, Top, StartInv, StartTypes
  <2>3. From' = From /\ Flight' = Flight
    BY <1>2, <2>1, <2>2, Zenon DEF From, Flight
  <2>4. RingInv'
    BY <1>3, <2>1, <2>2, Zenon DEF RingInv
  <2>5. Stages' = Stages
    BY <1>1, <2>1, <2>3 DEF Stages, RingBytes
  <2> QED
    BY <1>5, <1>6, <1>9, <2>4, <2>5, Zenon DEF OrderInv
<1>11. CASE fifo # <<>> /\ After(ring.tail) = ring.head
  <2>1. fifo' = Tail(fifo) /\ UNCHANGED <<at, ring>>
    BY <1>11 DEF rx
  <2>2. Still
    BY <2>1 DEF Still
  <2>3. RingInv' /\ RingBytes' = RingBytes /\ Flight' = Flight
    BY <2>1, <2>2, StillRing DEF OrderInv
  <2>4. /\ t[1] = s[1] /\ t[2] = s[2] /\ t[3] = s[3] /\ t[4] = s[4] /\ t[5] = s[5]
        /\ s[6] # <<>> /\ t[6] = Tail(s[6])
    BY <1>1, <1>7, <1>8, <1>11, <2>1, <2>3, Zenon
  <2>5. \A j \in 1 .. 6 : j # 6 => t[j] = s[j]
    <3>1. \A j \in 1 .. 6 : j # 6 => j = 1 \/ j = 2 \/ j = 3 \/ j = 4 \/ j = 5
      OBVIOUS
    <3> QED
      BY <2>4, <3>1, Zenon
  <2>6. 6 \in 1 .. 6
    OBVIOUS
  <2>7. Ordered(t, n)
    BY <1>6, <1>7, <1>8, <1>9, <2>4, <2>5, <2>6, DropOne, Zenon
  <2> QED
    BY <1>5, <1>6, <2>3, <2>7, Zenon DEF OrderInv
<1>12. CASE fifo # <<>> /\ After(ring.tail) # ring.head
  <2>1. /\ fifo' = Tail(fifo) /\ ring' = [ring EXCEPT !.buf[ring.tail] = Head(fifo)]
        /\ at' = [at EXCEPT ![p] = "rx_publish"]
    BY <1>12 DEF rx, Goto
  <2>2. \A q \in Cpus : at'[q] = IF q = p THEN "rx_publish" ELSE at[q]
    BY <2>1 DEF StartInv, StartTypes
  <2>3. \A q \in Cpus : /\ at'[q] = "popped" <=> at[q] = "popped"
                        /\ at'[q] # "rx" /\ (at'[q] = "rx_publish" => q = p)
    BY <1>1, <1>2, <2>2
  <2>4. PICK x : x = Head(fifo)
    OBVIOUS
  <2>5. x \in Nat
    BY <1>12, <2>4, HeadTail, StageTypes, Zenon
  <2>6. ring'.head = ring.head /\ ring'.tail = ring.tail /\ ring'.buf = [ring.buf EXCEPT ![ring.tail] = x]
    BY <2>1, <2>4 DEF ConsTypes
  <2>7. /\ ring.head \in 0 .. RingSize - 1 /\ ring.tail \in 0 .. RingSize - 1
        /\ ring.buf \in [0 .. RingSize - 1 -> Nat] /\ From \in 0 .. RingSize - 1
    BY StageTypes
  <2>8. From' = From
    BY <2>3, <2>6 DEF From
  <2>9. RingBytes' = RingBytes
    BY <2>5, <2>6, <2>7, <2>8, RingStore DEF RingBytes
  <2>10. Flight' = <<x>>
    <3>1. Flight' = <<ring'.buf[ring'.tail]>>
      BY <2>2 DEF Flight
    <3>2. ring'.buf[ring'.tail] = x
      BY <2>6, <2>7, Zenon
    <3> QED
      BY <3>1, <3>2
  <2>11. RingInv'
    BY <1>3, <1>12, <2>3, <2>6 DEF RingInv
  <2>12. Append(<<>>, x) = <<x>>
    OBVIOUS
  <2>13. /\ t[1] = s[1] /\ t[2] = s[2] /\ t[3] = s[3] /\ t[4] = s[4]
         /\ s[6] # <<>> /\ t[5] = Append(s[5], Head(s[6])) /\ t[6] = Tail(s[6])
    BY <1>1, <1>4, <1>7, <1>8, <1>12, <2>1, <2>4, <2>9, <2>10, <2>12, Zenon
  <2>14. \A j \in 1 .. 6 : j # 5 /\ j # 6 => t[j] = s[j]
    <3>1. \A j \in 1 .. 6 : j # 5 /\ j # 6 => j = 1 \/ j = 2 \/ j = 3 \/ j = 4
      OBVIOUS
    <3> QED
      BY <2>13, <3>1, Zenon
  <2>15. 5 \in 1 .. 6 /\ 6 \in 1 .. 6 /\ 6 = 5 + 1
    OBVIOUS
  <2>16. Ordered(t, n)
    BY <1>6, <1>7, <1>8, <1>9, <2>13, <2>14, <2>15, MoveOne, Zenon
  <2> QED
    BY <1>5, <1>6, <2>11, <2>16, Zenon DEF OrderInv
<1> QED
  BY <1>10, <1>11, <1>12

\* Only pCPU 0 pops.
LEMMA PopOrder ==
  ASSUME OrderInv, ConsTypes, ConsTypes', StartInv, NEW p \in Cpus, pop(p)
  PROVE  OrderInv'
PROOF
<1>1. p = 0 /\ at[p] = "drain" /\ UNCHANGED <<todo, uart, fifo, ring, typed>>
  BY Zenon DEF pop
<1>2. CASE ring.head = ring.tail
  <2>1. UNCHANGED buf /\ \E w \in {"sgis", "push"} : Goto(p, w)
    BY <1>2, Zenon DEF pop
  <2>2. Still
    BY <1>1, <2>1, GotoStill, Zenon DEF RingSteps, StartInv
  <2>3. ToCome' \in Nat /\ ToCome' <= ToCome
    BY <1>1, UsesToCome DEF StartInv
  <2> QED
    BY <1>1, <2>1, <2>2, <2>3, QuietOrder DEF cons
<1>3. CASE ring.head # ring.tail
  <2>1. buf' = Popped /\ at' = [at EXCEPT ![p] = "popped"]
    BY <1>3 DEF pop, Goto
  <2>2. \A q \in Cpus : at'[q] = IF q = p THEN "popped" ELSE at[q]
    BY <2>1 DEF StartInv, StartTypes
  <2>3. \A q \in Cpus : at[q] = "popped" => q = p
    BY <1>1, Zenon DEF RingInv, OrderInv
  <2>4. \A q \in Cpus : /\ at'[q] = "popped" <=> q = p
                        /\ at[q] # "popped"
                        /\ at'[q] = "rx" <=> at[q] = "rx"
                        /\ at'[q] = "rx_publish" <=> at[q] = "rx_publish"
    BY <1>1, <2>2, <2>3
  <2>5. From = ring.head /\ From' = After(ring.head) /\ Flight' = Flight
    BY <1>1, <2>4, Zenon DEF From, Flight
  <2>6. RingInv'
    <3>1. ring' = ring /\ p = 0 /\ RingInv
      BY <1>1, Zenon DEF OrderInv, cons
    <3>2. ASSUME NEW q \in Cpus
          PROVE  /\ at'[q] = "popped" => q = 0 /\ ring'.head # ring'.tail
                 /\ at'[q] = "rx_publish" => After(ring'.tail) # ring'.head
      BY <1>3, <2>4, <3>1, Zenon DEF RingInv
    <3>3. ASSUME NEW q \in Cpus, NEW r \in Cpus, {at'[q], at'[r]} \subseteq {"rx", "rx_publish"} PROVE q = r
      <4>1. at[q] \in {"rx", "rx_publish"} /\ at[r] \in {"rx", "rx_publish"}
        BY <2>4, <3>3
      <4> QED
        BY <3>1, <4>1, Zenon DEF RingInv
    <3> QED
      BY <3>2, <3>3, Zenon DEF RingInv
  <2>7. /\ ring.head \in 0 .. RingSize - 1 /\ ring.tail \in 0 .. RingSize - 1
        /\ ring.buf \in [0 .. RingSize - 1 -> Nat]
    BY StageTypes
  <2>8. /\ RingBytes # <<>> /\ Head(RingBytes) = ring.buf[ring.head]
        /\ RingBytes' = Tail(RingBytes)
    BY <1>1, <1>3, <2>5, <2>7, RingPop, Zenon DEF RingBytes
  <2>9. PICK s, t, n : s = Stages /\ t = Stages' /\ n = ToCome
    OBVIOUS
  <2>10. n \in Nat /\ n = ToCome'
    BY <1>1, <2>9, ToComeNat, Zenon DEF StartInv, ToCome
  <2>11. /\ s \in [1 .. 6 -> Seq(Nat)] /\ s[1] = typed /\ s[2] = uart.rx /\ s[3] = buf
         /\ s[4] = RingBytes /\ s[5] = Flight /\ s[6] = fifo
    BY <2>9, StagesAre
  <2>12. /\ t \in [1 .. 6 -> Seq(Nat)] /\ t[1] = typed' /\ t[2] = uart'.rx /\ t[3] = buf'
         /\ t[4] = RingBytes' /\ t[5] = Flight' /\ t[6] = fifo'
    BY <2>9, NewStages DEF StagesFit
  <2>13. Ordered(s, n)
    BY <2>9 DEF OrderInv
  <2>14. /\ t[1] = s[1] /\ t[2] = s[2] /\ t[5] = s[5] /\ t[6] = s[6]
         /\ s[4] # <<>> /\ t[4] = Tail(s[4])
         /\ t[3] = s[3] \/ t[3] = Append(s[3], Head(s[4]))
    <3>1. buf' = buf \/ buf' = Append(buf, Head(RingBytes))
      BY <2>1, <2>8 DEF Popped
    <3> QED
      BY <1>1, <2>5, <2>8, <2>11, <2>12, <3>1, Zenon
  <2>15. \A j \in 1 .. 6 : j # 3 /\ j # 4 => t[j] = s[j]
    <3>1. \A j \in 1 .. 6 : j # 3 /\ j # 4 => j = 1 \/ j = 2 \/ j = 5 \/ j = 6
      OBVIOUS
    <3> QED
      BY <2>14, <3>1, Zenon
  <2>16. 3 \in 1 .. 6 /\ 4 \in 1 .. 6 /\ 4 = 3 + 1
    OBVIOUS
  <2>17. CASE t[3] = s[3]
    <3>1. \A j \in 1 .. 6 : j # 4 => t[j] = s[j]
      BY <2>15, <2>17, Zenon
    <3>2. Ordered(t, n)
      BY <2>10, <2>11, <2>12, <2>13, <2>14, <2>16, <3>1, DropOne, Zenon
    <3> QED
      BY <2>6, <2>9, <2>10, <3>2, Zenon DEF OrderInv
  <2>18. CASE t[3] = Append(s[3], Head(s[4]))
    <3>1. Ordered(t, n)
      BY <2>10, <2>11, <2>12, <2>13, <2>14, <2>15, <2>16, <2>18, MoveOne, Zenon
    <3> QED
      BY <2>6, <2>9, <2>10, <3>1, Zenon DEF OrderInv
  <2> QED
    BY <2>14, <2>17, <2>18, Zenon
<1> QED
  BY <1>2, <1>3

\* The head moves on, which the stages know already.
LEMMA PoppedOrder ==
  ASSUME OrderInv, ConsTypes, StartInv, NEW p \in Cpus, popped(p)
  PROVE  OrderInv'
PROOF
<1>1. /\ at[p] = "popped" /\ at' = [at EXCEPT ![p] = "drain"] /\ UNCHANGED <<todo, uart, fifo, buf, typed>>
      /\ ring' = [ring EXCEPT !.head = After(@)]
  BY DEF popped, Goto
<1>2. \A q \in Cpus : at'[q] = IF q = p THEN "drain" ELSE at[q]
  BY <1>1 DEF StartInv, StartTypes
<1>3. p = 0 /\ ring.head # ring.tail /\ \A q \in Cpus : at[q] = "popped" => q = p
  BY <1>1 DEF RingInv, OrderInv
<1>4. \A q \in Cpus : /\ at'[q] # "popped"
                      /\ at'[q] = "rx" <=> at[q] = "rx"
                      /\ at'[q] = "rx_publish" <=> at[q] = "rx_publish"
  BY <1>1, <1>2, <1>3
<1>5. ring'.head = After(ring.head) /\ ring'.buf = ring.buf /\ ring'.tail = ring.tail
  BY <1>1 DEF ConsTypes
<1>6. From' = From /\ Flight' = Flight
  BY <1>1, <1>4, <1>5 DEF From, Flight
<1>7. After(ring.head) # After(ring.tail)
  <2>1. ring.head \in 0 .. RingSize - 1 /\ ring.tail \in 0 .. RingSize - 1
    BY StageTypes
  <2> QED
    BY <1>3, <2>1, AfterIs, MultiPcpuAssumption
<1>8. RingInv'
  <2>1. RingInv
    BY DEF OrderInv
  <2>2. ASSUME NEW q \in Cpus
        PROVE  at'[q] # "popped" /\ (at'[q] = "rx_publish" => After(ring'.tail) # ring'.head)
    BY <1>4, <1>5, <1>7, Zenon
  <2>3. ASSUME NEW q \in Cpus, NEW r \in Cpus, {at'[q], at'[r]} \subseteq {"rx", "rx_publish"} PROVE q = r
    <3>1. at[q] \in {"rx", "rx_publish"} /\ at[r] \in {"rx", "rx_publish"}
      BY <1>4, <2>3
    <3> QED
      BY <2>1, <3>1 DEF RingInv
  <2> QED
    BY <2>2, <2>3, Zenon DEF RingInv
<1>9. Stages' = Stages /\ ToCome' = ToCome
  BY <1>1, <1>5, <1>6 DEF Stages, RingBytes, ToCome
<1> QED
  BY <1>8, <1>9 DEF OrderInv

\* The bytes enter the VirtualUart, as many as there is room for.
LEMMA PushOrder ==
  ASSUME OrderInv, ConsTypes, ConsTypes', StartInv, NEW p \in Cpus, push(p)
  PROVE  OrderInv'
PROOF
<1>1. /\ at[p] = "push" /\ Goto(p, "release") /\ UNCHANGED <<todo, fifo, ring, typed>>
      /\ uart' = push_all(uart, buf) /\ buf' = <<>>
  BY DEF push
<1>2. Still
  BY <1>1, GotoStill DEF RingSteps, StartInv
<1>3. RingInv' /\ RingBytes' = RingBytes /\ Flight' = Flight
  BY <1>1, <1>2, StillRing DEF OrderInv
<1>4. PICK s, t, n, m : s = Stages /\ t = Stages' /\ n = ToCome /\ m = Fitting(uart, buf)
  OBVIOUS
<1>5. n \in Nat /\ n = ToCome'
  BY <1>1, <1>4, ToComeNat, Zenon DEF StartInv, ToCome
<1>6. /\ s \in [1 .. 6 -> Seq(Nat)] /\ s[1] = typed /\ s[2] = uart.rx /\ s[3] = buf
      /\ s[4] = RingBytes /\ s[5] = Flight /\ s[6] = fifo
  BY <1>4, StagesAre
<1>7. /\ t \in [1 .. 6 -> Seq(Nat)] /\ t[1] = typed' /\ t[2] = uart'.rx /\ t[3] = buf'
      /\ t[4] = RingBytes' /\ t[5] = Flight' /\ t[6] = fifo'
  BY <1>4, NewStages DEF StagesFit
<1>8. Ordered(s, n)
  BY <1>4 DEF OrderInv
<1>9. m \in 0 .. Len(buf) /\ uart'.rx = uart.rx \o SubSeq(buf, 1, m)
  BY <1>1, <1>4, PushAll, Zenon DEF ConsTypes
<1>10. /\ m \in 0 .. Len(s[3]) /\ t[2] = s[2] \o SubSeq(s[3], 1, m) /\ t[3] = <<>>
       /\ t[1] = s[1] /\ t[4] = s[4] /\ t[5] = s[5] /\ t[6] = s[6]
  BY <1>1, <1>3, <1>6, <1>7, <1>9, Zenon
<1>11. Ordered(t, n)
  BY <1>5, <1>6, <1>7, <1>8, <1>10, MoveSome, Zenon
<1> QED
  BY <1>3, <1>4, <1>5, <1>11, Zenon DEF OrderInv

\* The guest reads a byte.
LEMMA MmioOrder ==
  ASSUME OrderInv, ConsTypes, ConsTypes', StartInv, NEW p \in Cpus, handle_mmio(p)
  PROVE  OrderInv'
PROOF
<1>1. /\ at[p] = "mmio" /\ UNCHANGED <<todo, fifo, ring, buf>>
      /\ \E w \in {"ipi_mmio", "drop"} : Goto(p, w)
  BY Zenon DEF handle_mmio
<1>2. Still
  BY <1>1, GotoStill, Zenon DEF RingSteps, StartInv
<1>3. RingInv' /\ RingBytes' = RingBytes /\ Flight' = Flight
  BY <1>1, <1>2, StillRing DEF OrderInv
<1>4. \/ uart'.rx = uart.rx /\ typed' = typed
      \/ uart.rx # <<>> /\ uart'.rx = Tail(uart.rx) /\ typed' = Append(typed, Head(uart.rx))
  <2>1. acc[p] \in Operations \cup {None}
    BY DEF StartInv, StartTypes
  <2>2. CASE acc[p].dev = "uart"
    <3>1. acc[p] \in UartAccesses
      BY <2>1, <2>2, OperationShapes, Zenon
    <3>2. uart' = uart_access(uart, acc[p])
      BY <2>2, Zenon DEF handle_mmio
    <3>3. uart'.rx = IF acc[p].reg = "read" /\ uart.rx # <<>> THEN Tail(uart.rx) ELSE uart.rx
      BY <3>1, <3>2, UartAccess, Zenon DEF ConsTypes
    <3>4. typed' = IF acc[p].reg = "read" /\ uart.rx # <<>> THEN Append(typed, Head(uart.rx)) ELSE typed
      BY <2>2, Zenon DEF handle_mmio, RxEmpty
    <3> QED
      BY <3>3, <3>4
  <2>3. CASE acc[p].dev # "uart"
    BY <2>3, Zenon DEF handle_mmio
  <2> QED
    BY <2>2, <2>3
<1>5. PICK s, t, n : s = Stages /\ t = Stages' /\ n = ToCome
  OBVIOUS
<1>6. n \in Nat /\ n = ToCome'
  BY <1>1, <1>5, ToComeNat, Zenon DEF StartInv, ToCome
<1>7. /\ s \in [1 .. 6 -> Seq(Nat)] /\ s[1] = typed /\ s[2] = uart.rx /\ s[3] = buf
      /\ s[4] = RingBytes /\ s[5] = Flight /\ s[6] = fifo
  BY <1>5, StagesAre
<1>8. /\ t \in [1 .. 6 -> Seq(Nat)] /\ t[1] = typed' /\ t[2] = uart'.rx /\ t[3] = buf'
      /\ t[4] = RingBytes' /\ t[5] = Flight' /\ t[6] = fifo'
  BY <1>5, NewStages DEF StagesFit
<1>9. Ordered(s, n)
  BY <1>5 DEF OrderInv
<1>10. CASE uart'.rx = uart.rx /\ typed' = typed
  <2>1. Stages' = Stages
    BY <1>1, <1>3, <1>10, Zenon DEF Stages
  <2> QED
    BY <1>3, <1>5, <1>6, <1>9, <2>1, Zenon DEF OrderInv
<1>11. CASE uart.rx # <<>> /\ uart'.rx = Tail(uart.rx) /\ typed' = Append(typed, Head(uart.rx))
  <2>1. /\ t[3] = s[3] /\ t[4] = s[4] /\ t[5] = s[5] /\ t[6] = s[6]
        /\ s[2] # <<>> /\ t[1] = Append(s[1], Head(s[2])) /\ t[2] = Tail(s[2])
    BY <1>1, <1>3, <1>7, <1>8, <1>11, Zenon
  <2>2. \A j \in 1 .. 6 : j # 1 /\ j # 2 => t[j] = s[j]
    <3>1. \A j \in 1 .. 6 : j # 1 /\ j # 2 => j = 3 \/ j = 4 \/ j = 5 \/ j = 6
      OBVIOUS
    <3> QED
      BY <2>1, <3>1, Zenon
  <2>3. 1 \in 1 .. 6 /\ 2 \in 1 .. 6 /\ 2 = 1 + 1
    OBVIOUS
  <2>4. Ordered(t, n)
    BY <1>6, <1>7, <1>8, <1>9, <2>1, <2>2, <2>3, MoveOne, Zenon
  <2> QED
    BY <1>3, <1>5, <1>6, <2>4, Zenon DEF OrderInv
<1> QED
  BY <1>4, <1>10, <1>11

\* Every step keeps the order.
LEMMA NextOrder == OrderInv /\ ConsTypes /\ StartInv /\ [Next]_vars => OrderInv'
PROOF
<1> SUFFICES ASSUME OrderInv, ConsTypes, StartInv, [Next]_vars PROVE OrderInv'
  OBVIOUS
<1>1. ConsTypes'
  BY NextCons
<1>2. CASE UNCHANGED vars
  <2>1. UNCHANGED <<at, todo, cons>>
    BY <1>2 DEF vars
  <2>2. Still
    BY <2>1 DEF Still
  <2>3. ToCome' \in Nat /\ ToCome' <= ToCome
    BY <2>1, UsesToCome, Zenon DEF StartInv
  <2> QED
    BY <2>1, <2>2, <2>3, QuietOrder
<1>3. CASE byte
  BY <1>1, <1>3, ByteOrder
<1>4. ASSUME NEW p \in Cpus, Run(p) PROVE OrderInv'
  BY <1>1, <1>4, QuietSteps, UartIrqOrder, PublishOrder, RxOrder, PopOrder, PoppedOrder, PushOrder,
     MmioOrder DEF Run
<1>5. ASSUME NEW p \in Cpus, Virq(p) \/ Operation(p) PROVE OrderInv'
  BY <1>5, OperationOrder
<1> QED
  BY <1>2, <1>3, <1>4, <1>5 DEF Next

\* All stages are empty at first.
LEMMA InitOrder == Init => OrderInv
PROOF
<1> SUFFICES ASSUME Init PROVE OrderInv
  OBVIOUS
<1>1. ConsTypes /\ StartInv
  BY InitCons, InitStart
<1>2. /\ typed = <<>> /\ uart.rx = <<>> /\ buf = <<>> /\ fifo = <<>> /\ ring.head = 0 /\ ring.tail = 0
  BY DEF Init, NewUart
<1>3. \A p \in Cpus : at[p] \notin RingSteps
  BY DEF Init, RingSteps
<1>4. Flight = <<>> /\ From = 0
  BY <1>2, <1>3 DEF Flight, From, RingSteps
<1>5. RingBytes = <<>>
  <2>1. RingBytes = RingOf(0, 0, ring.buf)
    BY <1>2, <1>4 DEF RingBytes
  <2>2. RingBytes \in Seq(Nat)
    BY <1>1, StageTypes
  <2>3. 0 \in 0 .. RingSize - 1 /\ ring.buf \in [0 .. RingSize - 1 -> Nat]
    BY <1>1, <1>2, StageTypes
  <2>4. Len(RingBytes) = 0
    BY <2>1, <2>3, RingIsSeq
  <2> QED
    BY <2>2, <2>4, EmptyLen
<1>6. PICK s, n : s = Stages /\ n = ToCome
  OBVIOUS
<1>7. ASSUME NEW j \in 1 .. 6 PROVE s[j] = <<>>
  <2>1. /\ s[1] = <<>> /\ s[2] = <<>> /\ s[3] = <<>> /\ s[4] = <<>> /\ s[5] = <<>> /\ s[6] = <<>>
    BY <1>1, <1>2, <1>4, <1>5, <1>6, StagesAre, Zenon
  <2>2. j = 1 \/ j = 2 \/ j = 3 \/ j = 4 \/ j = 5 \/ j = 6
    OBVIOUS
  <2> QED
    BY <2>1, <2>2, Zenon
<1>8. Ordered(s, n)
  <2>1. \A v : Above(<<>>, v)
    BY ShortSeqs, AboveVals
  <2> QED
    BY <1>7, <2>1, ShortSeqs, Zenon DEF Ordered
<1>9. RingInv
  BY <1>3 DEF RingInv, RingSteps
<1> QED
  BY <1>6, <1>8, <1>9, Zenon DEF OrderInv

\* Bytes reach the guest in order and at most once.
THEOREM ByteTheorem == Spec => []ByteInv
PROOF
<1>1. OrderInv /\ ConsTypes /\ StartInv => ByteInv
  <2> SUFFICES ASSUME OrderInv, ConsTypes, StartInv PROVE ByteInv
    OBVIOUS
  <2>1. PICK a, b, c, d, e, f, n : /\ a = typed /\ b = uart.rx /\ c = buf
                                   /\ d = RingBytes /\ e = Flight /\ f = fifo /\ n = ToCome
    OBVIOUS
  <2>2. /\ a \in Seq(Nat) /\ b \in Seq(Nat) /\ c \in Seq(Nat)
        /\ d \in Seq(Nat) /\ e \in Seq(Nat) /\ f \in Seq(Nat)
    BY <2>1, StageTypes, Zenon
  <2>3. Stages = <<a, b, c, d, e, f>>
    BY <2>1, Zenon DEF Stages
  <2>4. n \in Nat /\ Ordered(<<a, b, c, d, e, f>>, n)
    BY <2>1, <2>3, ToComeNat, Zenon DEF OrderInv, StartInv
  <2>5. Falling(a \o b \o c \o d \o e \o f)
    BY <2>2, <2>4, WholeWay, Zenon
  <2>6. BytesInOrder
    BY <2>1, <2>5, Zenon DEF BytesInOrder
  <2> QED
    BY <2>6, Zenon DEF ByteInv, OrderInv, Ordered, RingInv
<1> QED
  BY <1>1, StartInvariance, InitCons, NextCons, InitOrder, NextOrder, PTL DEF Spec
=============================================================================
