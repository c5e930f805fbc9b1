--------------------------- MODULE Extract_proofs ---------------------------
(***************************************************************************)
(* For every database, whatever its types are made of and however deep     *)
(* they are nested: a container is shown part by part (ContainersRight),   *)
(* and one that is cut is not shown as a shorter whole one (CutsShown).    *)
(*                                                                         *)
(* The argument is what is left of the shared buffer.  What is sent of a   *)
(* list is its parts one after the other; a decoder that stands before     *)
(* part k stands before part k + 1 after one step, and has seen a cut if   *)
(* and only if the buffer ended before that part did (ElementsAre,         *)
(* CompositeIs, RangeIs, MultirangeIs).  Induction over the parts, and     *)
(* over the levels of the decoder, is by the least place where the claim   *)
(* would fail (LeastOne).                                                  *)
(***************************************************************************)
EXTENDS Extract, SequenceTheorems, WellFoundedInduction, TLAPS

-----------------------------------------------------------------------------
(* Bytes. *)

\* Every nonempty set of naturals has a least member.
LEMMA LeastOne ==
  ASSUME NEW T \in SUBSET Nat, T # {}
  PROVE  \E n \in T : \A m \in T : n <= m
<1>1. IsWellFoundedOn(OpToRel(<, Nat), Nat)
  BY NatLessThanWellFounded
<1>2. PICK n \in T : \A m \in T : <<m, n>> \notin OpToRel(<, Nat)
  BY <1>1, WFMin, Zenon
<1>3. \A m \in T : ~(m < n)
  BY <1>2 DEF OpToRel
<1>4. QED
  BY <1>3

\* What is in a set of one member.
LEMMA TheOne ==
  ASSUME NEW x
  PROVE  The({x}) = x
  BY DEF The

\* Two sequences, one after the other.
LEMMA Joined ==
  ASSUME NEW S, NEW a \in Seq(S), NEW b \in Seq(S)
  PROVE  /\ a \o b \in Seq(S) /\ Len(a) \in Nat /\ Len(b) \in Nat
         /\ Len(a \o b) = Len(a) + Len(b)
         /\ \A i \in 1 .. Len(a) : (a \o b)[i] = a[i]
         /\ \A i \in 1 .. Len(b) : (a \o b)[Len(a) + i] = b[i]
<1>1. Len(a) \in Nat /\ Len(b) \in Nat
  BY LenProperties
<1>2. a \o b \in Seq(S)
  BY <1>1, ConcatProperties
<1>3. Len(a \o b) = Len(a) + Len(b)
  BY <1>1, ConcatProperties
<1>4. \A i \in 1 .. Len(a) + Len(b) : (a \o b)[i] = IF i <= Len(a) THEN a[i] ELSE b[i - Len(a)]
  BY <1>1, ConcatProperties
<1> DEFINE v == a \o b
<1> HIDE DEF v
<1>5. /\ \A i \in 1 .. Len(a) : v[i] = a[i]
      /\ \A i \in 1 .. Len(b) : v[Len(a) + i] = b[i]
  <2>1. \A i \in 1 .. Len(a) + Len(b) : v[i] = IF i <= Len(a) THEN a[i] ELSE b[i - Len(a)]
    BY <1>4 DEF v
  <2>2. ASSUME NEW i \in 1 .. Len(a) PROVE v[i] = a[i]
    BY <1>1, <2>1
  <2>3. ASSUME NEW i \in 1 .. Len(b) PROVE v[Len(a) + i] = b[i]
    <3>1. Len(a) + i \in 1 .. Len(a) + Len(b) /\ ~(Len(a) + i <= Len(a)) /\ (Len(a) + i) - Len(a) = i
      BY <1>1, <2>3
    <3>2. QED
      BY <2>1, <3>1
  <2>4. QED
    BY <2>2, <2>3
<1>6. QED
  BY <1>1, <1>2, <1>3, <1>5 DEF v

\* The first n bytes, and the others.
LEMMA TakeIs ==
  ASSUME NEW buf \in Bytes, NEW n \in 0 .. Len(buf)
  PROVE  /\ Take(buf, n) \in Bytes /\ Len(Take(buf, n)) = n
         /\ \A i \in 1 .. n : Take(buf, n)[i] = buf[i]
<1>1. Len(buf) \in Nat /\ \A i \in 1 .. Len(buf) : buf[i] \in Byte
  BY LenProperties, ElementOfSeq DEF Bytes
<1>2. QED
  BY <1>1, SubSeqProperties DEF Bytes, Take

LEMMA DropIs ==
  ASSUME NEW buf \in Bytes, NEW n \in 0 .. Len(buf)
  PROVE  /\ Drop(buf, n) \in Bytes /\ Len(Drop(buf, n)) = Len(buf) - n
         /\ \A i \in 1 .. Len(buf) - n : Drop(buf, n)[i] = buf[n + i]
<1>1. Len(buf) \in Nat /\ \A i \in 1 .. Len(buf) : buf[i] \in Byte
  BY LenProperties, ElementOfSeq DEF Bytes
<1> DEFINE rest == SubSeq(buf, n + 1, Len(buf))
<1>2. rest \in Bytes
  BY <1>1, SubSeqProperties DEF Bytes
<1>3. Len(rest) = Len(buf) - n
  BY <1>1, SubSeqProperties
<1>4. \A i \in 1 .. Len(buf) - n : rest[i] = buf[n + i]
  BY <1>1, SubSeqProperties
<1>5. QED
  BY <1>2, <1>3, <1>4 DEF Drop

\* Put in front of a buffer, bytes are the first of it.
LEMMA FrontIs ==
  ASSUME NEW a \in Bytes, NEW b \in Bytes
  PROVE  /\ a \o b \in Bytes /\ Len(a) \in Nat /\ Len(b) \in Nat /\ Len(a \o b) = Len(a) + Len(b)
         /\ Take(a \o b, Len(a)) = a /\ Drop(a \o b, Len(a)) = b
<1> DEFINE v == a \o b
<1>1. /\ v \in Bytes /\ Len(a) \in Nat /\ Len(b) \in Nat /\ Len(v) = Len(a) + Len(b)
      /\ \A i \in 1 .. Len(a) : v[i] = a[i]
      /\ \A i \in 1 .. Len(b) : v[Len(a) + i] = b[i]
  BY Joined DEF Bytes
<1> HIDE DEF v
<1>2. Len(a) \in 0 .. Len(v) /\ Len(v) - Len(a) = Len(b)
  BY <1>1
<1>3. Take(v, Len(a)) = a
  <2>1. /\ Take(v, Len(a)) \in Bytes /\ Len(Take(v, Len(a))) = Len(a)
        /\ \A i \in 1 .. Len(a) : Take(v, Len(a))[i] = v[i]
    BY <1>1, <1>2, TakeIs
  <2>2. \A i \in 1 .. Len(a) : Take(v, Len(a))[i] = a[i]
    BY <1>1, <2>1
  <2>3. QED
    BY <2>1, <2>2, SeqEqual DEF Bytes
<1>4. Drop(v, Len(a)) = b
  <2>1. /\ Drop(v, Len(a)) \in Bytes /\ Len(Drop(v, Len(a))) = Len(b)
        /\ \A i \in 1 .. Len(b) : Drop(v, Len(a))[i] = v[Len(a) + i]
    BY <1>1, <1>2, DropIs
  <2>2. \A i \in 1 .. Len(b) : Drop(v, Len(a))[i] = b[i]
    BY <1>1, <2>1
  <2>3. QED
    BY <2>1, <2>2, SeqEqual DEF Bytes
<1>5. QED
  BY <1>1, <1>3, <1>4 DEF v

\* A buffer cut behind the bytes in front of it, and one cut in them.
LEMMA CutBehind ==
  ASSUME NEW a \in Bytes, NEW b \in Bytes, NEW m \in Len(a) .. Len(a) + Len(b)
  PROVE  m - Len(a) \in 0 .. Len(b) /\ Take(b, m - Len(a)) \in Bytes /\ Take(a \o b, m) = a \o Take(b, m - Len(a))
<1> DEFINE v == a \o b
<1>1. /\ v \in Bytes /\ Len(a) \in Nat /\ Len(b) \in Nat /\ Len(v) = Len(a) + Len(b)
      /\ \A i \in 1 .. Len(a) : v[i] = a[i]
      /\ \A i \in 1 .. Len(b) : v[Len(a) + i] = b[i]
  BY Joined DEF Bytes
<1> HIDE DEF v
<1>2. m \in 0 .. Len(v) /\ m - Len(a) \in 0 .. Len(b)
  BY <1>1
<1> DEFINE r == m - Len(a)
           c == Take(b, r)
           w == a \o c
           x == Take(v, m)
<1>3. c \in Bytes /\ Len(c) = r /\ \A i \in 1 .. r : c[i] = b[i]
  BY <1>2, TakeIs
<1>4. x \in Bytes /\ Len(x) = m /\ \A i \in 1 .. m : x[i] = v[i]
  BY <1>1, <1>2, TakeIs
<1> HIDE DEF c, x
<1>5. /\ w \in Bytes /\ Len(w) = Len(a) + r
      /\ \A i \in 1 .. Len(a) : w[i] = a[i]
      /\ \A i \in 1 .. r : w[Len(a) + i] = c[i]
  <2>1. /\ w \in Bytes /\ Len(w) = Len(a) + Len(c)
        /\ \A i \in 1 .. Len(a) : w[i] = a[i]
        /\ \A i \in 1 .. Len(c) : w[Len(a) + i] = c[i]
    BY <1>3, Joined DEF Bytes
  <2> HIDE DEF w
  <2>2. QED
    BY <1>3, <2>1
<1> HIDE DEF w
<1>6. ASSUME NEW i \in 1 .. m PROVE x[i] = w[i]
  <2>1. CASE i <= Len(a)
    <3>1. i \in 1 .. Len(a)
      BY <1>1, <2>1
    <3>2. QED
      BY <1>1, <1>4, <1>5, <3>1
  <2>2. CASE ~(i <= Len(a))
    <3>1. i - Len(a) \in 1 .. r /\ i - Len(a) \in 1 .. Len(b) /\ Len(a) + (i - Len(a)) = i
      BY <1>1, <1>2, <2>2
    <3>2. w[i] = b[i - Len(a)] /\ v[i] = b[i - Len(a)]
      BY <1>1, <1>3, <1>5, <3>1
    <3>3. QED
      BY <1>4, <3>2
  <2>3. QED
    BY <2>1, <2>2
<1>7. Len(x) = Len(w)
  BY <1>1, <1>2, <1>4, <1>5
<1>8. x = w
  BY <1>4, <1>5, <1>6, <1>7, SeqEqual DEF Bytes
<1>9. QED
  BY <1>2, <1>3, <1>8 DEF x, w, c, v

LEMMA CutInside ==
  ASSUME NEW a \in Bytes, NEW b \in Bytes, NEW m \in 0 .. Len(a)
  PROVE  Take(a \o b, m) = Take(a, m)
<1>1. Len(a) \in Nat
  BY LenProperties DEF Bytes
<1>2. /\ a \o b \in Bytes /\ Len(a \o b) = Len(a) + Len(b) /\ Len(b) \in Nat
      /\ \A i \in 1 .. Len(a) : (a \o b)[i] = a[i]
  BY Joined DEF Bytes
<1> DEFINE v == a \o b
<1>3. /\ v \in Bytes /\ Len(v) = Len(a) + Len(b) /\ \A i \in 1 .. Len(a) : v[i] = a[i]
  BY <1>2
<1> HIDE DEF v
<1>4. m \in 0 .. Len(v)
  BY <1>1, <1>2, <1>3
<1> DEFINE x == Take(v, m)
           y == Take(a, m)
<1>5. x \in Bytes /\ Len(x) = m /\ \A i \in 1 .. m : x[i] = v[i]
  BY <1>3, <1>4, TakeIs
<1>6. y \in Bytes /\ Len(y) = m /\ \A i \in 1 .. m : y[i] = a[i]
  BY TakeIs
<1> HIDE DEF x, y
<1>7. \A i \in 1 .. m : i \in 1 .. Len(a)
  BY <1>1
<1>8. x = y
  BY <1>3, <1>5, <1>6, <1>7, SeqEqual DEF Bytes
<1>9. QED
  BY <1>8 DEF x, y, v

LEMMA Associated ==
  ASSUME NEW a \in Bytes, NEW b \in Bytes, NEW c \in Bytes
  PROVE  (a \o b) \o c = a \o (b \o c)
  BY ConcatAssociative DEF Bytes
-----------------------------------------------------------------------------
(* Numbers of four bytes, and parts with their length in front. *)

\* The three bytes of a number.
LEMMA HugeIs ==
  /\ Huge \in Nat /\ Huge > 1000
  /\ \A n \in 0 .. Huge - 1 :
       (n \div 256) \div 256 \in 0 .. 255 /\ (n \div 256) % 256 \in 0 .. 255 /\ n % 256 \in 0 .. 255
         /\ n = 256 * (256 * ((n \div 256) \div 256) + ((n \div 256) % 256)) + (n % 256)
<1> DEFINE square == Radix * Radix
<1>1. Radix = 256
  BY DEF Radix
<1>2. square = 256 * Radix
  BY <1>1, Zenon
<1>3. Huge = 256 * square
  BY <1>1, Zenon DEF Huge
<1> HIDE DEF square
<1>4. Huge \in Nat /\ Huge > 1000 /\ square \in Nat
  BY <1>1, <1>2, <1>3
<1>5. ASSUME NEW q \in Nat, NEW m \in Nat, q < 256 * m
      PROVE  q \div 256 \in 0 .. m - 1 /\ q % 256 \in 0 .. 255 /\ q = 256 * (q \div 256) + (q % 256)
  BY <1>5
<1>6. ASSUME NEW n \in 0 .. Huge - 1
      PROVE  (n \div 256) \div 256 \in 0 .. 255 /\ (n \div 256) % 256 \in 0 .. 255 /\ n % 256 \in 0 .. 255
               /\ n = 256 * (256 * ((n \div 256) \div 256) + ((n \div 256) % 256)) + (n % 256)
  <2> DEFINE q == n \div 256
  <2>1. n \in Nat /\ n < 256 * square
    BY <1>3, <1>4
  <2>2. q \in 0 .. square - 1 /\ n % 256 \in 0 .. 255 /\ n = 256 * q + (n % 256)
    BY <1>4, <1>5, <2>1, SMTT(30)
  <2> HIDE DEF q
  <2>3. q \in Nat /\ q < 256 * Radix /\ Radix \in Nat
    BY <1>1, <1>2, <1>4, <2>2
  <2>4. q \div 256 \in 0 .. Radix - 1 /\ q % 256 \in 0 .. 255 /\ q = 256 * (q \div 256) + (q % 256)
    BY <1>5, <2>3, SMTT(60)
  <2>5. q \div 256 \in 0 .. 255
    BY <1>1, <2>4
  <2>6. QED
    BY <2>2, <2>4, <2>5 DEF q
<1>7. QED
  BY <1>4, <1>6

\* What a number of four bytes is.
LEMMA FourBytes ==
  ASSUME NEW n \in -Huge .. Huge - 1
  PROVE  Be(4, n) \in Bytes /\ Len(Be(4, n)) = 4 /\ Signed(Be(4, n)) = n
<1> DEFINE low == IF n < 0 THEN n + Huge ELSE n
           top == IF n < 0 THEN 255 ELSE 0
           b == (low \div 256) \div 256
           c == (low \div 256) % 256
           d == low % 256
           h == [k \in 1 .. 4 - 3 |-> top]
           t == <<b, c, d>>
           v == Be(4, n)
<1>0. top \in {0, 255}
  OBVIOUS
<1>1. low \in 0 .. Huge - 1
  BY HugeIs
<1>2. v = h \o t
  BY DEF Be
<1> HIDE DEF low, top
<1>3. b \in 0 .. 255 /\ c \in 0 .. 255 /\ d \in 0 .. 255 /\ low = 256 * (256 * b + c) + d
  BY <1>1, HugeIs
<1> HIDE DEF b, c, d
<1>4. h \in Seq(Byte) /\ Len(h) = 1 /\ h[1] = top
  BY <1>0 DEF Byte
<1>5. t \in Seq(Byte) /\ Len(t) = 3 /\ t[1] = b /\ t[2] = c /\ t[3] = d
  BY <1>3 DEF Byte
<1> HIDE DEF h, t, v
<1>6. v \in Seq(Byte) /\ Len(v) = 4 /\ v[1] = top /\ v[2] = b /\ v[3] = c /\ v[4] = d
  <2>0. h \in Bytes /\ t \in Bytes
    BY <1>4, <1>5 DEF Bytes
  <2>1. /\ h \o t \in Seq(Byte) /\ Len(h \o t) = Len(h) + Len(t)
        /\ \A i \in 1 .. Len(h) : (h \o t)[i] = h[i]
        /\ \A i \in 1 .. Len(t) : (h \o t)[Len(h) + i] = t[i]
    BY <2>0, Joined DEF Bytes
  <2>2. /\ v \in Seq(Byte) /\ Len(v) = 4 /\ v[1] = h[1]
        /\ \A i \in 1 .. 3 : v[1 + i] = t[i]
    BY <1>2, <1>4, <1>5, <2>1
  <2>3. v[1 + 1] = t[1] /\ v[1 + 2] = t[2] /\ v[1 + 3] = t[3]
    BY <2>2
  <2>4. 1 + 1 = 2 /\ 1 + 2 = 3 /\ 1 + 3 = 4
    OBVIOUS
  <2>5. QED
    BY <1>4, <1>5, <2>2, <2>3, <2>4
<1>7. {v[k] : k \in 1 .. Len(v) - 3} = {top}
  <2>1. 1 .. Len(v) - 3 = {1}
    BY <1>6
  <2>2. QED
    BY <1>6, <2>1
<1>8. 256 * (256 * v[Len(v) - 2] + v[Len(v) - 1]) + v[Len(v)] = low
  <2>1. Len(v) - 2 = 2 /\ Len(v) - 1 = 3
    BY <1>6
  <2>2. QED
    BY <1>3, <1>6, <2>1, SMT
<1>9. Signed(v) = n
  <2>1. CASE n < 0
    <3>1. top = 255 /\ low = n + Huge /\ {top} = {255} /\ {top} # {0}
      BY <2>1 DEF top, low
    <3>2. Signed(v) = low - Huge
      BY <1>7, <1>8, <3>1, Zenon DEF Signed
    <3>3. QED
      BY <1>1, <3>1, <3>2, HugeIs
  <2>2. CASE ~(n < 0)
    <3>1. top = 0 /\ low = n
      BY <2>2 DEF top, low
    <3>2. Signed(v) = low
      BY <1>7, <1>8, <3>1, Zenon DEF Signed
    <3>3. QED
      BY <3>1, <3>2
  <2>3. QED
    BY <2>1, <2>2
<1>10. QED
  BY <1>6, <1>9 DEF v, Bytes

\* A number in front of a buffer.
LEMMA NumberInFront ==
  ASSUME NEW n \in -Huge .. Huge - 1, NEW rest \in Bytes
  PROVE  /\ Be(4, n) \o rest \in Bytes /\ Len(Be(4, n) \o rest) = 4 + Len(rest) /\ Len(rest) \in Nat
         /\ I32(Be(4, n) \o rest) = n /\ Drop(Be(4, n) \o rest, 4) = rest
<1>1. Be(4, n) \in Bytes /\ Len(Be(4, n)) = 4 /\ Signed(Be(4, n)) = n
  BY FourBytes
<1> DEFINE a == Be(4, n)
<1> HIDE DEF a
<1>2. /\ a \o rest \in Bytes /\ Len(rest) \in Nat /\ Len(a \o rest) = Len(a) + Len(rest)
      /\ Take(a \o rest, Len(a)) = a /\ Drop(a \o rest, Len(a)) = rest
  BY <1>1, FrontIs DEF a
<1>3. Len(a) = 4 /\ Signed(a) = n
  BY <1>1 DEF a
<1>4. I32(a \o rest) = n
  BY <1>2, <1>3 DEF I32
<1>5. QED
  BY <1>2, <1>3, <1>4 DEF a
-----------------------------------------------------------------------------
(* Lists. *)

\* A function on 1 .. n is a sequence.
LEMMA ListIs ==
  ASSUME NEW S, NEW n \in Nat, NEW s \in [1 .. n -> S]
  PROVE  s \in Seq(S) /\ Len(s) = n /\ DOMAIN s = 1 .. n
<1>1. s \in [1 .. n -> S]
  OBVIOUS
<1>2. s \in Seq(S)
  BY <1>1, SeqDef
<1>3. DOMAIN s = 1 .. n /\ DOMAIN s = 1 .. Len(s) /\ Len(s) \in Nat
  BY <1>1, <1>2, LenProperties
<1>4. Len(s) = n
  BY <1>3
<1>5. QED
  BY <1>2, <1>3, <1>4

\* One more member at its end.
LEMMA OneMore ==
  ASSUME NEW g, NEW n \in Nat, NEW x
  PROVE  Append([k \in 1 .. n |-> g[k]], x) = [k \in 1 .. n + 1 |-> IF k <= n THEN g[k] ELSE x]
<1> DEFINE S == {g[k] : k \in 1 .. n} \cup {x}
           s == [k \in 1 .. n |-> g[k]]
           t == [k \in 1 .. n + 1 |-> IF k <= n THEN g[k] ELSE x]
<1>1. s \in [1 .. n -> S] /\ \A k \in 1 .. n : s[k] \in S /\ s[k] = g[k]
  OBVIOUS
<1>2. n + 1 \in Nat /\ t \in [1 .. n + 1 -> S]
  <2>1. ASSUME NEW k \in 1 .. n + 1 PROVE t[k] \in S
    OBVIOUS
  <2>2. QED
    BY <2>1
<1>3. (\A k \in 1 .. n : t[k] = g[k]) /\ t[n + 1] = x /\ x \in S
  OBVIOUS
<1> HIDE DEF S, s, t
<1>4. s \in Seq(S) /\ Len(s) = n
  BY <1>1, ListIs
<1>5. t \in Seq(S) /\ Len(t) = n + 1
  BY <1>2, ListIs
<1>6. /\ Append(s, x) \in Seq(S) /\ Len(Append(s, x)) = n + 1
      /\ \A k \in 1 .. n : Append(s, x)[k] = s[k]
      /\ Append(s, x)[n + 1] = x
  BY <1>3, <1>4, AppendProperties
<1>7. ASSUME NEW k \in 1 .. n + 1 PROVE Append(s, x)[k] = t[k]
  BY <1>1, <1>3, <1>6
<1>8. Append(s, x) = t
  BY <1>5, <1>6, <1>7, SeqEqual
<1>9. QED
  BY <1>8 DEF s, t
-----------------------------------------------------------------------------
(* What is sent one after the other: what is left of it after each. *)

Before(seqs, n, last) == seqs[Len(seqs) + 1 - n] \o last
LastOf(f, seqs, m) == f = [n \in 0 .. m |-> IF n = 0 THEN <<>> ELSE Before(seqs, n, f[n - 1])]

LEMMA LastExists ==
  ASSUME NEW seqs, NEW m \in Nat
  PROVE  \E f : LastOf(f, seqs, m)
<1> DEFINE T == {n \in Nat : ~ \E f : LastOf(f, seqs, n)}
<1>1. CASE T # {}
  <2>1. PICK n \in T : \A k \in T : n <= k
    BY <1>1, LeastOne
  <2>2. CASE n = 0
    <3> DEFINE f == [k \in 0 .. 0 |-> <<>>]
    <3>1. LastOf(f, seqs, 0)
      BY DEF LastOf
    <3>2. QED
      BY <2>1, <2>2, <3>1
  <2>3. CASE n # 0
    <3>1. n \in Nat /\ n - 1 \in Nat /\ n - 1 \notin T
      BY <2>1, <2>3
    <3>2. PICK g : LastOf(g, seqs, n - 1)
      BY <3>1
    <3> DEFINE f == [k \in 0 .. n |-> IF k = n THEN Before(seqs, n, g[n - 1]) ELSE g[k]]
    <3>3. f[n - 1] = g[n - 1]
      BY <3>1
    <3>4. \A k \in 0 .. n - 1 : g[k] = IF k = 0 THEN <<>> ELSE Before(seqs, k, g[k - 1])
      BY <3>1, <3>2 DEF LastOf
    <3>5. \A k \in 0 .. n : f[k] = IF k = 0 THEN <<>> ELSE Before(seqs, k, f[k - 1])
      BY <2>3, <3>1, <3>3, <3>4
    <3>6. LastOf(f, seqs, n)
      BY <3>5 DEF LastOf
    <3>7. QED
      BY <2>1, <3>6
  <2>4. QED
    BY <2>2, <2>3
<1>2. QED
  BY <1>1

\* r[n] is what is left after the first n.
LEMMA WhatIsLeft ==
  ASSUME NEW n \in Nat, NEW s \in [1 .. n -> Bytes]
  PROVE  \E r : /\ r[0] = Concat(s) /\ r[n] = <<>>
                /\ \A k \in 0 .. n : r[k] \in Bytes
                /\ \A k \in 1 .. n : r[k - 1] = s[k] \o r[k]
<1>1. s \in Seq(Bytes) /\ Len(s) = n
  BY ListIs
<1>2. \E f : LastOf(f, s, n)
  BY LastExists
<1> DEFINE f == CHOOSE u : u = [k \in 0 .. Len(s) |-> IF k = 0 THEN <<>> ELSE s[Len(s) + 1 - k] \o u[k - 1]]
           rest == [k \in 0 .. n |-> f[n - k]]
<1>3. Concat(s) = f[n]
  BY <1>1 DEF Concat
<1>4. LastOf(f, s, n)
  BY <1>1, <1>2 DEF LastOf, Before
<1>5. \A k \in 0 .. n : f[k] = IF k = 0 THEN <<>> ELSE s[n + 1 - k] \o f[k - 1]
  BY <1>1, <1>4 DEF LastOf, Before
<1> HIDE DEF f
<1>6. rest[0] = Concat(s) /\ rest[n] = <<>>
  BY <1>3, <1>5
<1>7. ASSUME NEW k \in 1 .. n PROVE rest[k - 1] = s[k] \o rest[k]
  <2>1. n - (k - 1) \in 0 .. n /\ n - (k - 1) # 0 /\ n + 1 - (n - (k - 1)) = k /\ (n - (k - 1)) - 1 = n - k
    OBVIOUS
  <2>2. f[n - (k - 1)] = s[k] \o f[n - k]
    BY <1>5, <2>1
  <2>3. QED
    BY <2>2
<1>8. ASSUME NEW k \in 0 .. n PROVE rest[k] \in Bytes
  <2> DEFINE T == {j \in 0 .. n : f[j] \notin Bytes}
  <2>1. CASE T # {}
    <3>1. T \in SUBSET Nat
      OBVIOUS
    <3>2. PICK j \in T : \A i \in T : j <= i
      BY <2>1, <3>1, LeastOne, Zenon
    <3>3. CASE j = 0
      <4>1. 0 \in 0 .. n /\ <<>> \in Bytes
        BY EmptySeq DEF Bytes
      <4>2. f[0] = <<>>
        BY <1>5, <4>1
      <4>3. QED
        BY <3>2, <3>3, <4>1, <4>2
    <3>4. CASE j # 0
      <4>1. j \in 0 .. n /\ j - 1 \in 0 .. n /\ j - 1 \notin T /\ n + 1 - j \in 1 .. n
        BY <3>2, <3>4
      <4>2. f[j - 1] \in Bytes /\ s[n + 1 - j] \in Bytes
        BY <4>1
      <4>3. f[j] = s[n + 1 - j] \o f[j - 1]
        BY <1>5, <3>4, <4>1
      <4>4. f[j] \in Bytes
        BY <4>2, <4>3, FrontIs
      <4>5. QED
        BY <3>2, <4>4
    <3>5. QED
      BY <3>3, <3>4
  <2>2. n - k \in 0 .. n
    OBVIOUS
  <2>3. QED
    BY <2>1, <2>2
<1> HIDE DEF rest
<1>9. QED
  BY <1>6, <1>7, <1>8

LEMMA AllOfThem ==
  ASSUME NEW n \in Nat, NEW s \in [1 .. n -> Bytes]
  PROVE  Concat(s) \in Bytes
<1>1. \E r : /\ r[0] = Concat(s) /\ r[n] = <<>>
             /\ \A k \in 0 .. n : r[k] \in Bytes
             /\ \A k \in 1 .. n : r[k - 1] = s[k] \o r[k]
  BY WhatIsLeft, Zenon
<1>2. 0 \in 0 .. n
  OBVIOUS
<1>3. QED
  BY <1>1, <1>2
-----------------------------------------------------------------------------
(* One part, and what is read of it. *)

\* What parts reads of a part.
PartOf(parts, t, o) == IF o = {} THEN Null ELSE parts[<<t, Wire[<<t, The(o)>>]>>]

\* The bytes of a part: a length, and as many bytes, or a negative length.
LEMMA PartSent ==
  ASSUME NEW t, NEW o, IsPart(t, o)
  PROVE  \E n \in -Huge .. Huge - 1, bytes \in Bytes :
           /\ OptSend(t, o, Wire) = Be(4, n) \o bytes
           /\ (o = {}) => n < 0 /\ bytes = <<>>
           /\ (o # {}) => n = Len(bytes) /\ bytes = Wire[<<t, The(o)>>]
<1>1. CASE o = {}
  <2>1. <<>> \in Bytes
    BY EmptySeq DEF Bytes
  <2>2. -1 \in -Huge .. Huge - 1
    BY HugeIs
  <2>3. Be(4, -1) \in Bytes
    BY <2>2, FourBytes
  <2>4. Be(4, -1) \o <<>> = Be(4, -1)
    BY <2>3, ConcatEmptySeq DEF Bytes
  <2>5. OptSend(t, o, Wire) = Be(4, -1)
    BY <1>1, Zenon DEF OptSend
  <2>6. -1 < 0
    OBVIOUS
  <2>7. OptSend(t, o, Wire) = Be(4, -1) \o <<>>
    BY <2>4, <2>5, Zenon
  <2>8. QED
    BY <1>1, <2>1, <2>2, <2>6, <2>7, Zenon
<1>2. CASE o # {}
  <2>1. <<t, The(o)>> \in Value
    BY <1>2 DEF IsPart
  <2> DEFINE bytes == Wire[<<t, The(o)>>]
  <2>2. bytes \in Bytes /\ Len(bytes) < Huge
    BY <2>1, ValuesOK, Zenon
  <2>3. OptSend(t, o, Wire) = Be(4, Len(bytes)) \o bytes
    BY <1>2, Zenon DEF OptSend, Prefixed
  <2> HIDE DEF bytes
  <2>4. Len(bytes) \in -Huge .. Huge - 1
    <3>1. Len(bytes) \in Nat
      BY <2>2, LenProperties DEF Bytes
    <3>2. QED
      BY <2>2, <3>1, HugeIs
  <2>5. QED
    BY <1>2, <2>2, <2>3, <2>4 DEF bytes
<1>3. QED
  BY <1>1, <1>2

\* A part in front of a buffer is read, and the buffer is left.
LEMMA PartRead ==
  ASSUME NEW parts, NEW t, NEW o, IsPart(t, o), NEW rest \in Bytes
  PROVE  /\ OptSend(t, o, Wire) \in Bytes
         /\ FieldValue(parts, t, OptSend(t, o, Wire) \o rest) = [val |-> {PartOf(parts, t, o)}, rest |-> rest]
<1>1. PICK n \in -Huge .. Huge - 1, bytes \in Bytes :
           /\ OptSend(t, o, Wire) = Be(4, n) \o bytes
           /\ (o = {}) => n < 0 /\ bytes = <<>>
           /\ (o # {}) => n = Len(bytes) /\ bytes = Wire[<<t, The(o)>>]
  BY PartSent
<1> DEFINE sent == OptSend(t, o, Wire)
           value == bytes \o rest
           buf == Be(4, n) \o value
<1>2. /\ value \in Bytes /\ Len(bytes) \in Nat /\ Len(rest) \in Nat /\ Len(value) = Len(bytes) + Len(rest)
      /\ Take(value, Len(bytes)) = bytes /\ Drop(value, Len(bytes)) = rest
  BY FrontIs
<1>3. Be(4, n) \in Bytes
  BY FourBytes
<1>4. sent \in Bytes /\ sent \o rest = buf
  <2>1. Be(4, n) \o bytes \in Bytes
    BY <1>3, FrontIs
  <2>2. (Be(4, n) \o bytes) \o rest = Be(4, n) \o (bytes \o rest)
    BY <1>3, Associated
  <2>3. QED
    BY <1>1, <2>1, <2>2, Zenon
<1> HIDE DEF value
<1>5. Len(buf) = 4 + Len(value) /\ Len(value) \in Nat /\ I32(buf) = n /\ Drop(buf, 4) = value
  BY <1>2, NumberInFront
<1> HIDE DEF buf, sent
<1>6. FieldValue(parts, t, buf) = [val |-> {PartOf(parts, t, o)}, rest |-> rest]
  <2>1. ~(Len(buf) < 4)
    BY <1>5
  <2>2. CASE o = {}
    <3>1. n < 0 /\ Len(bytes) = 0 /\ value = rest
      <4>1. bytes = <<>> /\ n < 0
        BY <1>1, <2>2
      <4>2. <<>> \o rest = rest
        BY ConcatEmptySeq DEF Bytes
      <4>3. QED
        BY <4>1, <4>2 DEF value
    <3>2. FieldValue(parts, t, buf) = [val |-> {Null}, rest |-> value]
      BY <1>5, <2>1, <3>1, Zenon DEF FieldValue
    <3>3. PartOf(parts, t, o) = Null
      BY <2>2, Zenon DEF PartOf
    <3>4. QED
      BY <3>1, <3>2, <3>3, Zenon
  <2>3. CASE o # {}
    <3>1. n = Len(bytes) /\ ~(n < 0) /\ ~(Len(value) < n)
      BY <1>1, <1>2, <2>3
    <3>2. FieldValue(parts, t, buf) = [val |-> {parts[<<t, Take(value, n)>>]}, rest |-> Drop(value, n)]
      BY <1>5, <2>1, <3>1, Zenon DEF FieldValue
    <3>3. Take(value, n) = bytes /\ Drop(value, n) = rest
      BY <1>2, <3>1, Zenon
    <3>4. PartOf(parts, t, o) = parts[<<t, bytes>>]
      BY <1>1, <2>3, Zenon DEF PartOf
    <3>5. QED
      BY <3>2, <3>3, <3>4, Zenon
  <2>4. QED
    BY <2>2, <2>3
<1>7. QED
  BY <1>4, <1>6 DEF sent

\* A part that is cut is no value.
LEMMA PartCut ==
  ASSUME NEW parts, NEW t, NEW o, IsPart(t, o), NEW m \in 0 .. Len(OptSend(t, o, Wire)) - 1
  PROVE  FieldValue(parts, t, Take(OptSend(t, o, Wire), m)).val = {}
<1>1. PICK n \in -Huge .. Huge - 1, bytes \in Bytes :
           /\ OptSend(t, o, Wire) = Be(4, n) \o bytes
           /\ (o = {}) => n < 0 /\ bytes = <<>>
           /\ (o # {}) => n = Len(bytes) /\ bytes = Wire[<<t, The(o)>>]
  BY PartSent
<1> DEFINE sent == OptSend(t, o, Wire)
           head == Be(4, n)
           buf == Take(sent, m)
<1>2. head \in Bytes /\ Len(head) = 4
  BY FourBytes
<1>3. sent = head \o bytes
  BY <1>1
<1> HIDE DEF sent, head
<1>4. sent \in Bytes /\ Len(sent) = 4 + Len(bytes) /\ Len(bytes) \in Nat
  BY <1>2, <1>3, FrontIs
<1>5. m \in 0 .. Len(sent) - 1 /\ m \in 0 .. Len(sent)
  BY <1>4 DEF sent
<1>6. Len(buf) = m
  BY <1>4, <1>5, TakeIs
<1> HIDE DEF buf
<1>7. CASE m < 4
  <2>1. FieldValue(parts, t, buf) = [val |-> {}, rest |-> buf]
    BY <1>6, <1>7, Zenon DEF FieldValue
  <2>2. QED
    BY <2>1 DEF buf, sent
<1>8. CASE ~(m < 4)
  <2>1. m \in Len(head) .. Len(head) + Len(bytes) /\ m - Len(head) = m - 4
    BY <1>2, <1>4, <1>5, <1>8
  <2> DEFINE c == Take(bytes, m - 4)
  <2>2. m - 4 \in 0 .. Len(bytes) /\ c \in Bytes /\ buf = head \o c
    <3>1. /\ m - Len(head) \in 0 .. Len(bytes) /\ Take(bytes, m - Len(head)) \in Bytes
          /\ Take(head \o bytes, m) = head \o Take(bytes, m - Len(head))
      BY <1>2, <2>1, CutBehind
    <3>2. QED
      BY <1>3, <2>1, <3>1 DEF buf
  <2>3. Len(c) = m - 4
    BY <2>2, TakeIs
  <2> HIDE DEF c
  <2>4. Len(buf) = 4 + Len(c) /\ I32(buf) = n /\ Drop(buf, 4) = c
    BY <2>2, NumberInFront DEF head
  <2>5. ~(Len(buf) < 4)
    BY <1>6, <1>8
  <2>6. o # {}
    <3>1. CASE o = {}
      <4>1. Len(bytes) = 0
        BY <1>1, <3>1
      <4>2. QED
        BY <1>4, <1>5, <1>8, <4>1
    <3>2. QED
      BY <3>1
  <2>7. ~(n < 0) /\ Len(c) < n
    BY <1>1, <1>4, <1>5, <2>3, <2>6
  <2>8. FieldValue(parts, t, buf) = [val |-> {}, rest |-> c]
    BY <2>4, <2>5, <2>7, Zenon DEF FieldValue
  <2>9. QED
    BY <2>8 DEF buf, sent
<1>9. QED
  BY <1>7, <1>8

\* A part in front of a buffer that is cut: behind the part, or inside it.
LEMMA PartAt ==
  ASSUME NEW parts, NEW t, NEW o, IsPart(t, o), NEW rest \in Bytes,
         NEW m \in 0 .. Len(OptSend(t, o, Wire) \o rest)
  PROVE  LET one == FieldValue(parts, t, Take(OptSend(t, o, Wire) \o rest, m))
             left == m - Len(OptSend(t, o, Wire))
         IN  /\ left >= 0 => left \in 0 .. Len(rest) /\ one = [val |-> {PartOf(parts, t, o)}, rest |-> Take(rest, left)]
             /\ left < 0 => one.val = {}
<1> DEFINE sent == OptSend(t, o, Wire)
           left == m - Len(sent)
<1>1. sent \in Bytes
  BY PartRead
<1>2. \A r \in Bytes : FieldValue(parts, t, sent \o r) = [val |-> {PartOf(parts, t, o)}, rest |-> r]
  BY PartRead
<1>3. \A k \in 0 .. Len(sent) - 1 : FieldValue(parts, t, Take(sent, k)).val = {}
  BY PartCut
<1>4. m \in 0 .. Len(sent \o rest)
  OBVIOUS
<1> HIDE DEF sent
<1>5. m \in 0 .. Len(sent) + Len(rest) /\ Len(sent) \in Nat /\ Len(rest) \in Nat
  BY <1>1, <1>4, FrontIs
<1>6. CASE left >= 0
  <2>1. m \in Len(sent) .. Len(sent) + Len(rest)
    BY <1>5, <1>6
  <2>2. left \in 0 .. Len(rest) /\ Take(rest, left) \in Bytes /\ Take(sent \o rest, m) = sent \o Take(rest, left)
    BY <1>1, <2>1, CutBehind
  <2>3. FieldValue(parts, t, Take(sent \o rest, m)) = [val |-> {PartOf(parts, t, o)}, rest |-> Take(rest, left)]
    BY <1>2, <2>2, Zenon
  <2>4. ~(left < 0)
    BY <1>5, <1>6
  <2>5. QED
    BY <2>2, <2>3, <2>4 DEF sent
<1>7. CASE ~(left >= 0)
  <2>1. m \in 0 .. Len(sent) - 1 /\ m \in 0 .. Len(sent)
    BY <1>5, <1>7
  <2>2. Take(sent \o rest, m) = Take(sent, m)
    BY <1>1, <2>1, CutInside
  <2>3. FieldValue(parts, t, Take(sent \o rest, m)).val = {}
    BY <1>3, <2>1, <2>2
  <2>4. QED
    BY <1>7, <2>3 DEF sent
<1>8. QED
  BY <1>6, <1>7
PartEnds(parts, t, o, rest, d) ==
  LET all == OptSend(t, o, Wire) \o rest
      one == FieldValue(parts, t, Take(all, Len(all) - d))
  IN  /\ all \in Bytes /\ Len(all) \in Nat /\ Len(rest) \in Nat /\ Len(rest) <= Len(all)
      /\ d <= Len(rest) => one.val = {PartOf(parts, t, o)} /\ one.rest = Take(rest, Len(rest) - d)
      /\ ~(d <= Len(rest)) => one.val = {}

\* The same by what is missing at the end.
LEMMA PartAtEnd ==
  ASSUME NEW parts, NEW t, NEW o, IsPart(t, o), NEW rest \in Bytes, NEW d \in Nat,
         d <= Len(OptSend(t, o, Wire) \o rest)
  PROVE  PartEnds(parts, t, o, rest, d)
<1> DEFINE sent == OptSend(t, o, Wire)
           all == sent \o rest
           m == Len(all) - d
           one == FieldValue(parts, t, Take(all, m))
           left == m - Len(sent)
<1>1. sent \in Bytes
  BY PartRead
<1>2. \A k \in 0 .. Len(all) :
        LET u == FieldValue(parts, t, Take(all, k))
        IN  /\ k - Len(sent) >= 0 => u = [val |-> {PartOf(parts, t, o)}, rest |-> Take(rest, k - Len(sent))]
            /\ k - Len(sent) < 0 => u.val = {}
  BY PartAt
<1>3. d <= Len(all)
  OBVIOUS
<1> HIDE DEF sent
<1>4. all \in Bytes /\ Len(all) = Len(sent) + Len(rest) /\ Len(sent) \in Nat /\ Len(rest) \in Nat
  BY <1>1, FrontIs
<1> HIDE DEF all
<1>5. m \in 0 .. Len(all) /\ left = Len(rest) - d
  BY <1>3, <1>4
<1>6. /\ left >= 0 => one = [val |-> {PartOf(parts, t, o)}, rest |-> Take(rest, left)]
      /\ left < 0 => one.val = {}
  BY <1>2, <1>5
<1> HIDE DEF one, left
<1>7. d <= Len(rest) => one.val = {PartOf(parts, t, o)} /\ one.rest = Take(rest, Len(rest) - d)
  <2>1. ASSUME d <= Len(rest) PROVE left >= 0
    BY <1>4, <1>5, <2>1
  <2>2. QED
    BY <1>5, <1>6, <2>1
<1>8. ~(d <= Len(rest)) => one.val = {}
  <2>1. ASSUME ~(d <= Len(rest)) PROVE left < 0
    BY <1>4, <1>5, <2>1
  <2>2. QED
    BY <1>6, <2>1
<1>9. Len(rest) <= Len(all) /\ Len(all) \in Nat
  BY <1>4
<1>10. QED
  BY <1>4, <1>7, <1>8, <1>9 DEF PartEnds, one, m, all, sent
-----------------------------------------------------------------------------
(* The elements of an array. *)

IsReading(r) == r \in [vals : {r.vals}, rest : {r.rest}, cut : BOOLEAN]
Nothing(buf) == [vals |-> <<>>, rest |-> buf, cut |-> FALSE]
ElementsRead(f, parts, elem, buf, m) ==
  f = [n \in 0 .. m |-> IF n = 0 THEN Nothing(buf) ELSE NextElement(parts, elem, f[n - 1])]

\* There is a reading of any number of elements.
LEMMA ElementsExist ==
  ASSUME NEW parts, NEW elem, NEW buf, NEW m \in Nat
  PROVE  \E f : ElementsRead(f, parts, elem, buf, m)
<1> DEFINE T == {n \in Nat : ~ \E f : ElementsRead(f, parts, elem, buf, n)}
<1>1. CASE T # {}
  <2>1. PICK n \in T : \A k \in T : n <= k
    BY <1>1, LeastOne
  <2>2. CASE n = 0
    <3> DEFINE f == [k \in 0 .. 0 |-> Nothing(buf)]
    <3>1. ElementsRead(f, parts, elem, buf, 0)
      BY DEF ElementsRead
    <3>2. QED
      BY <2>1, <2>2, <3>1
  <2>3. CASE n # 0
    <3>1. n \in Nat /\ n - 1 \in Nat /\ n - 1 \notin T
      BY <2>1, <2>3
    <3>2. PICK g : ElementsRead(g, parts, elem, buf, n - 1)
      BY <3>1
    <3> DEFINE f == [k \in 0 .. n |-> IF k = n THEN NextElement(parts, elem, g[n - 1]) ELSE g[k]]
    <3>3. f[n - 1] = g[n - 1]
      BY <3>1
    <3>4. \A k \in 0 .. n - 1 : g[k] = IF k = 0 THEN Nothing(buf) ELSE NextElement(parts, elem, g[k - 1])
      BY <3>1, <3>2 DEF ElementsRead
    <3>5. \A k \in 0 .. n : f[k] = IF k = 0 THEN Nothing(buf) ELSE NextElement(parts, elem, f[k - 1])
      BY <2>3, <3>1, <3>3, <3>4
    <3>6. ElementsRead(f, parts, elem, buf, n)
      BY <3>5 DEF ElementsRead
    <3>7. QED
      BY <2>1, <3>6
  <2>4. QED
    BY <2>2, <2>3
<1>2. QED
  BY <1>1

\* A cut stays.
LEMMA ElementCut ==
  ASSUME NEW parts, NEW elem, NEW r, IsReading(r)
  PROVE  /\ IsReading(NextElement(parts, elem, r))
         /\ r.cut = TRUE => NextElement(parts, elem, r).cut = TRUE
<1>1. r \in [vals : {r.vals}, rest : {r.rest}, cut : BOOLEAN]
  BY DEF IsReading
<1>2. [r EXCEPT !.cut = TRUE] \in [vals : {r.vals}, rest : {r.rest}, cut : {TRUE}]
  <2> DEFINE a == r.vals
             b == r.rest
  <2>1. r \in [vals : {a}, rest : {b}, cut : BOOLEAN]
    BY <1>1
  <2> HIDE DEF a, b
  <2>2. [r EXCEPT !.cut = TRUE] \in [vals : {a}, rest : {b}, cut : {TRUE}]
    BY <2>1
  <2>3. QED
    BY <2>2 DEF a, b
<1> DEFINE one == FieldValue(parts, elem, r.rest)
<1>3. CASE r.cut \/ one.val = {}
  <2>1. NextElement(parts, elem, r) = [r EXCEPT !.cut = TRUE]
    BY <1>3, Zenon DEF NextElement
  <2>2. QED
    BY <1>2, <2>1 DEF IsReading
<1>4. CASE ~(r.cut \/ one.val = {})
  <2>1. NextElement(parts, elem, r) = [vals |-> Append(r.vals, The(one.val)), rest |-> one.rest, cut |-> FALSE]
    BY <1>4, Zenon DEF NextElement
  <2> HIDE DEF one
  <2>2. QED
    BY <1>4, <2>1 DEF IsReading
<1>5. QED
  BY <1>3, <1>4

\* n members of g are read and the others are in left, but for d bytes; or it is cut.
WholeSoFar(r, left, d, g, n) ==
  r.cut = FALSE /\ r.vals = [j \in 1 .. n |-> g[j]] /\ r.rest = Take(left, Len(left) - d)
ReadSoFar(r, left, d, g, n) ==
  /\ IsReading(r)
  /\ d <= Len(left) => WholeSoFar(r, left, d, g, n)
  /\ ~(d <= Len(left)) => r.cut = TRUE

LEMMA AlsoMember ==
  ASSUME NEW g, NEW n \in Nat
  PROVE  Append([j \in 1 .. n |-> g[j]], g[n + 1]) = [j \in 1 .. n + 1 |-> g[j]]
<1>1. Append([j \in 1 .. n |-> g[j]], g[n + 1]) = [j \in 1 .. n + 1 |-> IF j <= n THEN g[j] ELSE g[n + 1]]
  BY OneMore
<1>2. ASSUME NEW j \in 1 .. n + 1 PROVE (IF j <= n THEN g[j] ELSE g[n + 1]) = g[j]
  <2>1. CASE j <= n
    BY <2>1
  <2>2. CASE ~(j <= n)
    <3>1. j = n + 1
      BY <2>2
    <3>2. QED
      BY <2>2, <3>1
  <2>3. QED
    BY <2>1, <2>2
<1>3. QED
  BY <1>1, <1>2

LEMMA ElementStep ==
  ASSUME NEW parts, NEW elem, NEW o, IsPart(elem, o), NEW rest \in Bytes, NEW d \in Nat,
         NEW n \in Nat, NEW g, g[n + 1] = PartOf(parts, elem, o),
         NEW r, ReadSoFar(r, OptSend(elem, o, Wire) \o rest, d, g, n)
  PROVE  ReadSoFar(NextElement(parts, elem, r), rest, d, g, n + 1)
<1> DEFINE all == OptSend(elem, o, Wire) \o rest
           one == FieldValue(parts, elem, Take(all, Len(all) - d))
           next == NextElement(parts, elem, r)
<1>1. ASSUME d <= Len(all)
      PROVE  /\ d <= Len(rest) => one.val = {PartOf(parts, elem, o)} /\ one.rest = Take(rest, Len(rest) - d)
             /\ ~(d <= Len(rest)) => one.val = {}
  <2>1. PartEnds(parts, elem, o, rest, d)
    BY <1>1, PartAtEnd
  <2>2. QED
    BY <2>1, Zenon DEF PartEnds
<1>2. Len(all) \in Nat /\ Len(rest) \in Nat /\ Len(rest) <= Len(all)
  <2>1. OptSend(elem, o, Wire) \in Bytes
    BY PartRead
  <2> HIDE DEF one, next
  <2>2. /\ Len(all) = Len(OptSend(elem, o, Wire)) + Len(rest)
        /\ Len(OptSend(elem, o, Wire)) \in Nat /\ Len(rest) \in Nat
    BY <2>1, FrontIs
  <2> HIDE DEF all
  <2>3. QED
    BY <2>2
<1>3. ReadSoFar(r, all, d, g, n)
  OBVIOUS
<1> HIDE DEF all
<1>4. d <= Len(all) =>
        /\ d <= Len(rest) => one.val = {PartOf(parts, elem, o)} /\ one.rest = Take(rest, Len(rest) - d)
        /\ ~(d <= Len(rest)) => one.val = {}
  BY <1>1
<1>5. d <= Len(all) => r.cut = FALSE /\ r.vals = [j \in 1 .. n |-> g[j]] /\ one = FieldValue(parts, elem, r.rest)
  BY <1>3, Zenon DEF ReadSoFar, WholeSoFar
<1> HIDE DEF one
<1>6. IsReading(next) /\ (r.cut = TRUE => next.cut = TRUE)
  BY <1>3, ElementCut DEF ReadSoFar
<1>7. CASE d <= Len(rest)
  <2>1. d <= Len(all)
    BY <1>2, <1>7
  <2>2. one.val = {PartOf(parts, elem, o)} /\ one.rest = Take(rest, Len(rest) - d)
    BY <1>4, <1>7, <2>1
  <2>3. The(one.val) = PartOf(parts, elem, o) /\ one.val # {}
    BY <2>2, TheOne
  <2>4. next = [vals |-> Append(r.vals, PartOf(parts, elem, o)), rest |-> Take(rest, Len(rest) - d), cut |-> FALSE]
    BY <1>5, <2>1, <2>2, <2>3, Zenon DEF NextElement
  <2>5. Append(r.vals, PartOf(parts, elem, o)) = [j \in 1 .. n + 1 |-> g[j]]
    <3>1. Append([j \in 1 .. n |-> g[j]], g[n + 1]) = [j \in 1 .. n + 1 |-> g[j]]
      BY AlsoMember
    <3>2. g[n + 1] = PartOf(parts, elem, o)
      OBVIOUS
    <3>3. QED
      BY <1>5, <2>1, <3>1, <3>2, Zenon
  <2> HIDE DEF next
  <2>6. next.cut = FALSE /\ next.rest = Take(rest, Len(rest) - d) /\ next.vals = Append(r.vals, PartOf(parts, elem, o))
    BY <2>4
  <2>7. WholeSoFar(next, rest, d, g, n + 1)
    BY <2>5, <2>6, Zenon DEF WholeSoFar
  <2>8. QED
    BY <1>6, <1>7, <2>7, Zenon DEF ReadSoFar, next
<1>8. CASE ~(d <= Len(rest))
  <2>1. next.cut = TRUE
    <3>1. CASE d <= Len(all)
      <4>1. one.val = {}
        BY <1>4, <1>8, <3>1
      <4>2. next = [r EXCEPT !.cut = TRUE]
        BY <1>5, <3>1, <4>1, Zenon DEF NextElement
      <4>3. [r EXCEPT !.cut = TRUE].cut = TRUE
        BY <1>3 DEF ReadSoFar, IsReading
      <4>4. QED
        BY <4>2, <4>3, Zenon
    <3>2. CASE ~(d <= Len(all))
      BY <1>3, <1>6, <3>2, Zenon DEF ReadSoFar
    <3>3. QED
      BY <3>1, <3>2
  <2>2. QED
    BY <1>6, <1>8, <2>1, Zenon DEF ReadSoFar
<1>9. QED
  BY <1>7, <1>8

ElementsSent(elem, n, v) == Concat([k \in 1 .. n |-> OptSend(elem, v[k], Wire)])

LEMMA ElementsInBytes ==
  ASSUME NEW elem, NEW n \in Nat, NEW v, \A k \in 1 .. n : IsPart(elem, v[k])
  PROVE  ElementsSent(elem, n, v) \in Bytes
<1> DEFINE s == [k \in 1 .. n |-> OptSend(elem, v[k], Wire)]
<1>1. ASSUME NEW k \in 1 .. n PROVE s[k] \in Bytes
  <2>1. IsPart(elem, v[k]) /\ <<>> \in Bytes
    BY EmptySeq DEF Bytes
  <2>2. OptSend(elem, v[k], Wire) \in Bytes
    BY <2>1, PartRead
  <2>3. QED
    BY <2>2
<1>2. s \in [1 .. n -> Bytes]
  BY <1>1
<1> HIDE DEF s
<1>3. Concat(s) \in Bytes
  BY <1>1, <1>2, AllOfThem
<1>4. QED
  BY <1>3 DEF s, ElementsSent

ElementsRight(parts, elem, n, v, d) ==
  LET total == ElementsSent(elem, n, v)
      read == Elements(parts, elem, n, Take(total, Len(total) - d))
  IN  /\ total \in Bytes
      /\ d = 0 => read.cut = FALSE /\ read.vals = [k \in 1 .. n |-> PartOf(parts, elem, v[k])]
      /\ d # 0 => read.cut = TRUE

\* The elements of a list, of which d bytes at the end are missing.
LEMMA ElementsAre ==
  ASSUME NEW parts, NEW elem, NEW n \in Nat, NEW v, \A k \in 1 .. n : IsPart(elem, v[k]),
         NEW d \in 0 .. Len(ElementsSent(elem, n, v))
  PROVE  ElementsRight(parts, elem, n, v, d)
<1> DEFINE total == ElementsSent(elem, n, v)
<1>0. d \in Nat /\ d \in 0 .. Len(total)
  OBVIOUS
<1> DEFINE s == [k \in 1 .. n |-> OptSend(elem, v[k], Wire)]
           g == [k \in 1 .. n |-> PartOf(parts, elem, v[k])]
           buf == Take(total, Len(total) - d)
<1>1. \A k \in 1 .. n : s[k] = OptSend(elem, v[k], Wire) /\ s[k] \in Bytes
  <2>1. ASSUME NEW k \in 1 .. n PROVE OptSend(elem, v[k], Wire) \in Bytes
    <3>1. IsPart(elem, v[k]) /\ <<>> \in Bytes
      BY EmptySeq DEF Bytes
    <3>2. QED
      BY <3>1, PartRead
  <2>2. QED
    BY <2>1
<1>2. s \in [1 .. n -> Bytes] /\ total = Concat(s)
  <2>1. s \in [1 .. n -> Bytes]
    BY <1>1
  <2>2. total = Concat(s)
    BY Zenon DEF ElementsSent
  <2>3. QED
    BY <2>1, <2>2
<1>3. \A k \in 1 .. n : g[k] = PartOf(parts, elem, v[k])
  OBVIOUS
<1> HIDE DEF s, g, total
<1>4. PICK r : /\ r[0] = total /\ r[n] = <<>>
               /\ \A k \in 0 .. n : r[k] \in Bytes
               /\ \A k \in 1 .. n : r[k - 1] = s[k] \o r[k]
  <2>1. \E r : /\ r[0] = Concat(s) /\ r[n] = <<>>
               /\ \A k \in 0 .. n : r[k] \in Bytes
               /\ \A k \in 1 .. n : r[k - 1] = s[k] \o r[k]
    BY <1>1, <1>2, WhatIsLeft
  <2>2. QED
    BY <1>2, <2>1
<1> DEFINE f == CHOOSE u : u = [k \in 0 .. n |->
                  IF k = 0 THEN [vals |-> <<>>, rest |-> buf, cut |-> FALSE] ELSE NextElement(parts, elem, u[k - 1])]
<1>5. Elements(parts, elem, n, buf) = f[n]
  BY DEF Elements
<1> HIDE DEF buf
<1>6. ElementsRead(f, parts, elem, buf, n)
  <2>1. \E u : ElementsRead(u, parts, elem, buf, n)
    BY ElementsExist
  <2>2. QED
    BY <2>1 DEF ElementsRead, Nothing
<1> HIDE DEF f
<1>7. \A k \in 0 .. n : f[k] = IF k = 0 THEN Nothing(buf) ELSE NextElement(parts, elem, f[k - 1])
  BY <1>6 DEF ElementsRead
<1> DEFINE Good(k) == ReadSoFar(f[k], r[k], d, g, k)
           T == {k \in 0 .. n : ~Good(k)}
<1>8. ASSUME T # {} PROVE FALSE
  <2>1. T \in SUBSET Nat
    OBVIOUS
  <2>2. PICK k \in T : \A j \in T : k <= j
    BY <1>8, <2>1, LeastOne, Zenon
  <2>3. k \in 0 .. n /\ ~Good(k) /\ \A j \in 0 .. n : ~Good(j) => k <= j
    BY <2>2
  <2> HIDE DEF T
  <2>4. CASE k = 0
    <3>1. f[0] = Nothing(buf)
      BY <1>7
    <3>2. d <= Len(r[0]) /\ Take(r[0], Len(r[0]) - d) = buf
      BY <1>0, <1>4 DEF buf
    <3>3. [j \in 1 .. 0 |-> g[j]] = <<>>
      OBVIOUS
    <3>4. Nothing(buf).cut = FALSE /\ Nothing(buf).vals = <<>> /\ Nothing(buf).rest = buf /\ IsReading(Nothing(buf))
      BY DEF Nothing, IsReading
    <3>5. WholeSoFar(f[0], r[0], d, g, 0)
      BY <3>1, <3>2, <3>3, <3>4, Zenon DEF WholeSoFar
    <3>6. QED
      BY <2>3, <2>4, <3>1, <3>2, <3>4, <3>5, Zenon DEF ReadSoFar
  <2>5. CASE k # 0
    <3>1. k - 1 \in 0 .. n /\ k \in 1 .. n /\ k - 1 \in Nat /\ ~(k <= k - 1) /\ (k - 1) + 1 = k /\ k \in 0 .. n
      BY <2>3, <2>5
    <3>2. Good(k - 1)
      BY <2>3, <3>1
    <3>3. f[k] = NextElement(parts, elem, f[k - 1])
      BY <1>7, <2>3, <2>5
    <3>4. r[k - 1] = OptSend(elem, v[k], Wire) \o r[k] /\ r[k] \in Bytes /\ IsPart(elem, v[k])
      BY <1>1, <1>4, <3>1
    <3>5. g[(k - 1) + 1] = PartOf(parts, elem, v[k])
      BY <1>3, <3>1
    <3>6. ReadSoFar(f[k - 1], OptSend(elem, v[k], Wire) \o r[k], d, g, k - 1)
      BY <3>2, <3>4, Zenon
    <3>7. ReadSoFar(NextElement(parts, elem, f[k - 1]), r[k], d, g, (k - 1) + 1)
      BY <1>0, <3>1, <3>4, <3>5, <3>6, ElementStep, Zenon
    <3>8. QED
      BY <2>3, <3>1, <3>3, <3>7, Zenon
  <2>6. QED
    BY <2>4, <2>5
<1>9. Good(n)
  <2>1. n \in 0 .. n
    OBVIOUS
  <2> HIDE DEF Good
  <2>2. QED
    BY <1>8, <2>1
<1>10. Len(r[n]) = 0 /\ total \in Bytes
  <2>1. 0 \in 0 .. n
    OBVIOUS
  <2>2. QED
    BY <1>4, <2>1
<1>11. [k \in 1 .. n |-> g[k]] = [k \in 1 .. n |-> PartOf(parts, elem, v[k])]
  BY <1>3
<1> HIDE DEF f
<1>12. CASE d = 0
  <2>1. d <= Len(r[n])
    BY <1>10, <1>12
  <2>2. f[n].cut = FALSE /\ f[n].vals = [k \in 1 .. n |-> PartOf(parts, elem, v[k])]
    BY <1>9, <1>11, <2>1, Zenon DEF ReadSoFar, WholeSoFar
  <2>3. QED
    BY <1>5, <1>10, <1>12, <2>2 DEF buf, total, ElementsRight
<1>13. CASE d # 0
  <2>1. ~(d <= Len(r[n]))
    BY <1>10, <1>13
  <2>2. f[n].cut = TRUE
    BY <1>9, <2>1, Zenon DEF ReadSoFar
  <2>3. QED
    BY <1>5, <1>10, <1>13, <2>2 DEF buf, total, ElementsRight
<1>14. QED
  BY <1>12, <1>13
\* Two, three and five words in front of a buffer.
LEMMA WordInFront ==
  ASSUME NEW a \in Bytes, Len(a) = 4, NEW x \in Bytes
  PROVE  a \o x \in Bytes /\ Len(a \o x) = 4 + Len(x) /\ Len(x) \in Nat /\ Drop(a \o x, 4) = x
<1>1. /\ a \o x \in Bytes /\ Len(x) \in Nat /\ Len(a \o x) = Len(a) + Len(x) /\ Drop(a \o x, Len(a)) = x
  BY FrontIs
<1>2. QED
  BY <1>1

LEMMA WordBehind ==
  ASSUME NEW p \in Bytes, NEW a \in Bytes, Len(a) = 4, NEW x \in Bytes
  PROVE  p \o a \in Bytes /\ Len(p \o a) = Len(p) + 4 /\ (p \o a) \o x = p \o (a \o x)
<1>1. p \o a \in Bytes /\ Len(p \o a) = Len(p) + Len(a)
  BY FrontIs
<1>2. (p \o a) \o x = p \o (a \o x)
  BY Associated
<1>3. QED
  BY <1>1, <1>2

HeaderRight(a, b, o, c, x) ==
  LET head == a \o b \o o \o c \o a
  IN  /\ head \in Bytes /\ Len(head) = 20
      /\ head \o x \in Bytes /\ Len(head \o x) = 20 + Len(x) /\ Len(x) \in Nat
      /\ Drop(head \o x, 12) = c \o (a \o x) /\ Drop(head \o x, 20) = x
      /\ \E y \in Bytes : head \o x = a \o y

LEMMA Header ==
  ASSUME NEW a \in Bytes, Len(a) = 4, NEW b \in Bytes, Len(b) = 4, NEW o \in Bytes, Len(o) = 4,
         NEW c \in Bytes, Len(c) = 4, NEW x \in Bytes
  PROVE  HeaderRight(a, b, o, c, x)
<1> DEFINE p == a \o b
           q == p \o o
           s == q \o c
           head == s \o a
           x1 == a \o x
           x2 == c \o x1
           x3 == o \o x2
           x4 == b \o x3
<1>1. x1 \in Bytes
  BY WordInFront
<1> HIDE DEF x1
<1>2. x2 \in Bytes
  BY <1>1, WordInFront
<1> HIDE DEF x2
<1>3. x3 \in Bytes
  BY <1>2, WordInFront
<1> HIDE DEF x3
<1>4. x4 \in Bytes
  BY <1>3, WordInFront
<1>5. p \in Bytes /\ Len(p) = 8 /\ p \o x3 = a \o x4
  <2>1. 4 + 4 = 8
    OBVIOUS
  <2>2. p \in Bytes /\ Len(p) = Len(a) + 4 /\ p \o x3 = a \o (b \o x3)
    <3>1. p \in Bytes /\ Len(p) = Len(a) + Len(b)
      BY FrontIs, ZenonT(60)
    <3>2. (a \o b) \o x3 = a \o (b \o x3)
      BY <1>3, Associated, ZenonT(60)
    <3>3. Len(b) = 4
      OBVIOUS
    <3>4. QED
      BY <3>1, <3>2, <3>3, Zenon
  <2>3. QED
    BY <2>1, <2>2, Zenon
<1> HIDE DEF p, x4
<1>6. q \in Bytes /\ Len(q) = 12 /\ q \o x2 = p \o x3
  <2>1. 8 + 4 = 12
    OBVIOUS
  <2>2. q \in Bytes /\ Len(q) = Len(p) + 4 /\ q \o x2 = p \o (o \o x2)
    BY <1>2, <1>5, WordBehind
  <2>3. QED
    BY <1>5, <2>1, <2>2, Zenon DEF x3
<1> HIDE DEF q
<1>7. s \in Bytes /\ Len(s) = 16 /\ s \o x1 = q \o x2
  <2>1. 12 + 4 = 16
    OBVIOUS
  <2>2. s \in Bytes /\ Len(s) = Len(q) + 4 /\ s \o x1 = q \o (c \o x1)
    BY <1>1, <1>6, WordBehind
  <2>3. QED
    BY <1>6, <2>1, <2>2, Zenon DEF x2
<1> HIDE DEF s
<1>8. head \in Bytes /\ Len(head) = 20 /\ head \o x = s \o x1
  <2>1. 16 + 4 = 20
    OBVIOUS
  <2>2. head \in Bytes /\ Len(head) = Len(s) + 4 /\ head \o x = s \o (a \o x)
    BY <1>7, WordBehind
  <2>3. QED
    BY <1>7, <2>1, <2>2, Zenon DEF x1
<1> HIDE DEF head
<1>9. Drop(q \o x2, 12) = x2
  BY <1>2, <1>6, FrontIs
<1>10. head \o x \in Bytes /\ Len(head \o x) = 20 + Len(x) /\ Len(x) \in Nat /\ Drop(head \o x, 20) = x
  <2>1. /\ head \o x \in Bytes /\ Len(x) \in Nat /\ Len(head \o x) = Len(head) + Len(x)
        /\ Drop(head \o x, Len(head)) = x
    BY <1>8, FrontIs
  <2>2. QED
    BY <1>8, <2>1
<1>11. Drop(head \o x, 12) = c \o (a \o x)
  BY <1>7, <1>8, <1>9, Zenon DEF x2, x1
<1>12. head \o x = a \o x4
  BY <1>5, <1>6, <1>7, <1>8, Zenon
<1>13. QED
  BY <1>4, <1>8, <1>10, <1>11, <1>12, Zenon DEF HeaderRight, head, s, q, p

ArraySent(elem, n, v) ==
  Be(4, 1) \o Be(4, 0) \o Oid \o Be(4, n) \o Be(4, 1) \o ElementsSent(elem, n, v)
NoneSent == Be(4, 0) \o Be(4, 0) \o Oid

\* The bytes of an array that is not empty, all of them or the first m.
LEMMA ArrayIs ==
  ASSUME NEW parts, NEW elem, NEW n \in 1 .. Huge - 1, NEW v, \A k \in 1 .. n : IsPart(elem, v[k]),
         NEW m \in 0 .. Len(ArraySent(elem, n, v))
  PROVE  LET sent == ArraySent(elem, n, v)
             shown == ArrayValue(parts, elem, Take(sent, m))
         IN  /\ m = Len(sent) => shown = Arr([k \in 1 .. n |-> PartOf(parts, elem, v[k])])
             /\ m # Len(sent) => shown = Null
<1> DEFINE total == ElementsSent(elem, n, v)
           a == Be(4, 1)
           b == Be(4, 0)
           c == Be(4, n)
           head == a \o b \o Oid \o c \o a
           sent == ArraySent(elem, n, v)
           buf == Take(sent, m)
<1>1. n \in Nat /\ 1 \in -Huge .. Huge - 1 /\ 0 \in -Huge .. Huge - 1 /\ 7 \in -Huge .. Huge - 1 /\ n \in -Huge .. Huge - 1
  BY HugeIs
<1>2. /\ a \in Bytes /\ Len(a) = 4 /\ b \in Bytes /\ Len(b) = 4 /\ c \in Bytes /\ Len(c) = 4
      /\ Oid \in Bytes /\ Len(Oid) = 4
  BY <1>1, FourBytes DEF Oid
<1>3. sent = head \o total
  BY Zenon DEF ArraySent
<1>4. \A d \in 0 .. Len(total) : ElementsRight(parts, elem, n, v, d)
  BY <1>1, ElementsAre
<1>6. total \in Bytes
  <2>1. \A k \in 1 .. n : IsPart(elem, v[k])
    OBVIOUS
  <2>2. ElementsSent(elem, n, v) \in Bytes
    BY <1>1, <2>1, ElementsInBytes
  <2>3. QED
    BY <2>2
<1>7. ASSUME NEW d \in 0 .. Len(total)
      PROVE  LET read == Elements(parts, elem, n, Take(total, Len(total) - d))
             IN  /\ d = 0 => read.cut = FALSE /\ read.vals = [k \in 1 .. n |-> PartOf(parts, elem, v[k])]
                 /\ d # 0 => read.cut = TRUE
  <2>1. ElementsRight(parts, elem, n, v, d)
    BY <1>4
  <2>2. QED
    BY <2>1, Zenon DEF ElementsRight
<1>5. m \in 0 .. Len(sent)
  OBVIOUS
<1> HIDE DEF a, b, c, total, sent
<1>9. \A x \in Bytes : HeaderRight(a, b, Oid, c, x)
  BY <1>2, Header
<1>8. \A x \in Bytes :
        /\ head \in Bytes /\ Len(head) = 20
        /\ head \o x \in Bytes /\ Len(head \o x) = 20 + Len(x) /\ Len(x) \in Nat
        /\ Drop(head \o x, 12) = c \o (a \o x) /\ Drop(head \o x, 20) = x
        /\ \E y \in Bytes : head \o x = a \o y
  <2>1. ASSUME NEW x \in Bytes
        PROVE  /\ head \in Bytes /\ Len(head) = 20
               /\ head \o x \in Bytes /\ Len(head \o x) = 20 + Len(x) /\ Len(x) \in Nat
               /\ Drop(head \o x, 12) = c \o (a \o x) /\ Drop(head \o x, 20) = x
               /\ \E y \in Bytes : head \o x = a \o y
    <3>1. HeaderRight(a, b, Oid, c, x)
      BY <1>9
    <3>2. QED
      BY <3>1, Zenon DEF HeaderRight
  <2>2. QED
    BY <2>1, Zenon
<1> HIDE DEF head
<1>11. head \in Bytes /\ Len(head) = 20
  BY <1>6, <1>8, Zenon
<1>10. ASSUME NEW x \in Bytes PROVE I32(Drop(head \o x, 12)) = n
  <2>1. a \o x \in Bytes
    BY <1>2, WordInFront
  <2>2. I32(c \o (a \o x)) = n
    BY <1>1, <2>1, NumberInFront DEF c
  <2>3. QED
    BY <1>8, <2>2, Zenon
<1>12. sent \in Bytes /\ Len(sent) = 20 + Len(total) /\ Len(total) \in Nat
  BY <1>3, <1>6, <1>8, Zenon
<1>13. Len(buf) = m
  BY <1>5, <1>12, TakeIs
<1>14. ASSUME m >= 4 PROVE I32(buf) = 1
  <2>1. PICK y \in Bytes : head \o total = a \o y
    BY <1>6, <1>8, Zenon
  <2>2. Len(sent) = 4 + Len(y) /\ Len(y) \in Nat
    <3>1. Len(a \o y) = 4 + Len(y) /\ Len(y) \in Nat
      BY <1>2, WordInFront
    <3>2. QED
      BY <1>3, <2>1, <3>1, Zenon
  <2>3. m \in Len(a) .. Len(a) + Len(y)
    BY <1>2, <1>5, <1>14, <2>2
  <2>4. Take(y, m - Len(a)) \in Bytes /\ Take(a \o y, m) = a \o Take(y, m - Len(a))
    BY <1>2, <2>3, CutBehind
  <2> DEFINE z == Take(y, m - Len(a))
  <2> HIDE DEF z
  <2>5. z \in Bytes /\ buf = a \o z
    BY <1>3, <2>1, <2>4, Zenon DEF z
  <2>6. QED
    BY <1>1, <2>5, NumberInFront DEF a
<1>15. CASE m < 20
  <2>1. ArrayValue(parts, elem, buf) = Null
    <3>1. CASE m < 12
      BY <1>13, <3>1, Zenon DEF ArrayValue
    <3>2. CASE ~(m < 12)
      <4>1. m >= 4
        BY <1>5, <1>12, <3>2
      <4>2. I32(buf) = 1 /\ 1 # 0
        BY <1>14, <4>1
      <4>3. QED
        BY <1>13, <1>15, <3>2, <4>2, Zenon DEF ArrayValue
    <3>3. QED
      BY <3>1, <3>2
  <2>2. m # Len(sent)
    BY <1>5, <1>12, <1>15
  <2>3. QED
    BY <2>1, <2>2, Zenon DEF sent
<1>16. CASE ~(m < 20)
  <2> DEFINE x == Take(total, m - 20)
             d == Len(sent) - m
  <2>1. m \in Len(head) .. Len(head) + Len(total)
    BY <1>5, <1>11, <1>12, <1>16
  <2>2. x \in Bytes /\ buf = head \o x
    <3>1. /\ m - Len(head) \in 0 .. Len(total) /\ Take(total, m - Len(head)) \in Bytes
          /\ Take(head \o total, m) = head \o Take(total, m - Len(head))
      BY <1>6, <1>11, <2>1, CutBehind
    <3>2. QED
      BY <1>3, <1>11, <3>1
  <2>3. d \in 0 .. Len(total) /\ Len(total) - d = m - 20
    BY <1>5, <1>12, <1>16
  <2> DEFINE read == Elements(parts, elem, n, x)
  <2>4. /\ d = 0 => read.cut = FALSE /\ read.vals = [k \in 1 .. n |-> PartOf(parts, elem, v[k])]
        /\ d # 0 => read.cut = TRUE
    BY <1>7, <2>3
  <2> HIDE DEF x
  <2>5. I32(Drop(buf, 12)) = n /\ Drop(buf, 20) = x
    BY <1>8, <1>10, <2>2, Zenon
  <2>6. ~(m < 12) /\ m >= 4 /\ 1 # 0 /\ ~(n < 0)
    BY <1>1, <1>5, <1>16
  <2>7. I32(buf) = 1
    BY <1>14, <2>6
  <2>8. ArrayValue(parts, elem, buf) = IF read.cut THEN Null ELSE Arr(read.vals)
    BY <1>13, <1>16, <2>5, <2>6, <2>7, Zenon DEF ArrayValue
  <2>9. m = Len(sent) <=> d = 0
    BY <1>5, <1>12
  <2> HIDE DEF d, read
  <2>10. QED
    BY <2>4, <2>8, <2>9, Zenon DEF sent
<1>17. QED
  BY <1>15, <1>16

\* An empty array has no element, and shows nothing when it is cut.
LEMMA NoElements ==
  ASSUME NEW parts, NEW elem, NEW m \in 0 .. Len(NoneSent)
  PROVE  LET shown == ArrayValue(parts, elem, Take(NoneSent, m))
         IN  /\ m = Len(NoneSent) => shown = Arr(<<>>)
             /\ m # Len(NoneSent) => shown = Null
<1> DEFINE b == Be(4, 0)
           sent == NoneSent
           buf == Take(sent, m)
<1>1. 0 \in -Huge .. Huge - 1 /\ 7 \in -Huge .. Huge - 1
  BY HugeIs
<1>2. b \in Bytes /\ Len(b) = 4 /\ Oid \in Bytes /\ Len(Oid) = 4
  BY <1>1, FourBytes DEF Oid
<1>3. sent = (b \o b) \o Oid /\ m \in 0 .. Len(sent)
  BY DEF NoneSent
<1> HIDE DEF b, sent
<1>4. b \o b \in Bytes /\ Len(b \o b) = 8 /\ (b \o b) \o Oid = b \o (b \o Oid)
  <2>1. 4 + 4 = 8
    OBVIOUS
  <2>2. b \o b \in Bytes /\ Len(b \o b) = Len(b) + 4 /\ (b \o b) \o Oid = b \o (b \o Oid)
    BY <1>2, WordBehind
  <2>3. QED
    BY <1>2, <2>1, <2>2, Zenon
<1>5. sent \in Bytes /\ Len(sent) = 12
  <2> DEFINE p == b \o b
  <2>1. p \in Bytes /\ Len(p) = 8
    BY <1>4
  <2> HIDE DEF p
  <2>2. p \o Oid \in Bytes /\ Len(p \o Oid) = 12
    <3>1. 8 + 4 = 12
      OBVIOUS
    <3>2. p \o Oid \in Bytes /\ Len(p \o Oid) = Len(p) + 4
      BY <1>2, <2>1, WordBehind
    <3>3. QED
      BY <2>1, <3>1, <3>2, Zenon
  <2>3. QED
    BY <1>3, <2>2 DEF p
<1>6. Len(buf) = m
  BY <1>3, <1>5, TakeIs
<1>7. CASE m = 12
  <2>1. buf = sent
    <3>1. buf \in Bytes /\ Len(buf) = 12 /\ \A i \in 1 .. 12 : buf[i] = sent[i]
      BY <1>3, <1>5, <1>7, TakeIs
    <3> HIDE DEF buf
    <3>2. QED
      BY <1>5, <3>1, SeqEqual DEF Bytes
  <2>2. I32(sent) = 0
    <3>1. b \o Oid \in Bytes
      BY <1>2, WordInFront
    <3> DEFINE z == b \o Oid
    <3> HIDE DEF z
    <3>2. z \in Bytes /\ sent = b \o z
      BY <1>3, <1>4, <3>1 DEF z
    <3>3. QED
      BY <1>1, <3>2, NumberInFront DEF b
  <2>3. ~(m < 12)
    BY <1>7
  <2>4. ArrayValue(parts, elem, buf) = Arr(<<>>)
    BY <1>6, <2>1, <2>2, <2>3, Zenon DEF ArrayValue
  <2>5. QED
    BY <1>5, <1>7, <2>4, Zenon DEF sent
<1>8. CASE m # 12
  <2>1. m < 12 /\ m # Len(sent)
    BY <1>3, <1>5, <1>8
  <2>2. ArrayValue(parts, elem, buf) = Null
    BY <1>6, <2>1, Zenon DEF ArrayValue
  <2>3. QED
    BY <2>1, <2>2, Zenon DEF sent
<1>9. QED
  BY <1>7, <1>8
-----------------------------------------------------------------------------
(* The fields of a composite. *)

\* A part after the OID of its type.
FieldSent(t, o) == Oid \o OptSend(t, o, Wire)

FieldAt(parts, t, o, rest, d) ==
  LET all == FieldSent(t, o) \o rest
      buf == Take(all, Len(all) - d)
      one == FieldValue(parts, t, Drop(buf, 4))
  IN  /\ Len(rest) <= Len(all)
      /\ d <= Len(rest) => ~(Len(buf) < 4) /\ one.val = {PartOf(parts, t, o)} /\ one.rest = Take(rest, Len(rest) - d)
      /\ ~(d <= Len(rest)) => Len(buf) < 4 \/ one.val = {}

LEMMA FieldInBytes ==
  ASSUME NEW t, NEW o, IsPart(t, o)
  PROVE  /\ Oid \in Bytes /\ Len(Oid) = 4
         /\ FieldSent(t, o) \in Bytes
         /\ \A rest \in Bytes : FieldSent(t, o) \o rest = Oid \o (OptSend(t, o, Wire) \o rest)
<1>1. 7 \in -Huge .. Huge - 1
  BY HugeIs
<1>2. Oid \in Bytes /\ Len(Oid) = 4
  BY <1>1, FourBytes DEF Oid
<1>3. <<>> \in Bytes
  BY EmptySeq DEF Bytes
<1> DEFINE sent == OptSend(t, o, Wire)
<1>4. sent \in Bytes
  BY <1>3, PartRead
<1> HIDE DEF sent
<1>5. Oid \o sent \in Bytes
  BY <1>2, <1>4, WordInFront
<1>6. \A rest \in Bytes : (Oid \o sent) \o rest = Oid \o (sent \o rest)
  BY <1>2, <1>4, Associated
<1>7. FieldSent(t, o) = Oid \o sent
  BY DEF FieldSent, sent
<1>8. QED
  BY <1>2, <1>5, <1>6, <1>7, Zenon DEF sent

\* A field in front of a buffer of which d bytes at the end are missing.
LEMMA FieldAtEnd ==
  ASSUME NEW parts, NEW t, NEW o, IsPart(t, o), NEW rest \in Bytes, NEW d \in Nat,
         d <= Len(FieldSent(t, o) \o rest)
  PROVE  FieldAt(parts, t, o, rest, d)
<1> DEFINE all == FieldSent(t, o) \o rest
           m == Len(all) - d
           buf == Take(all, m)
           one == FieldValue(parts, t, Drop(buf, 4))
           inner == OptSend(t, o, Wire) \o rest
           part == FieldValue(parts, t, Take(inner, Len(inner) - d))
<1>1. OptSend(t, o, Wire) \in Bytes
  BY PartRead
<1>2. inner \in Bytes /\ Len(inner) \in Nat
  <2>1. inner \in Bytes
    BY <1>1, FrontIs
  <2> HIDE DEF inner
  <2>2. QED
    BY <2>1, LenProperties DEF Bytes
<1>3. all = Oid \o inner
  BY FieldInBytes
<1>4. /\ 0 <= Len(rest) /\ Len(rest) \in Nat /\ Len(rest) <= Len(inner)
      /\ d <= Len(inner) =>
           /\ d <= Len(rest) => part.val = {PartOf(parts, t, o)} /\ part.rest = Take(rest, Len(rest) - d)
           /\ ~(d <= Len(rest)) => part.val = {}
  <2>1. ASSUME NEW k \in Nat, k <= Len(inner)
        PROVE  LET u == FieldValue(parts, t, Take(inner, Len(inner) - k))
               IN  /\ Len(rest) \in Nat /\ Len(rest) <= Len(inner)
                   /\ k <= Len(rest) => u.val = {PartOf(parts, t, o)} /\ u.rest = Take(rest, Len(rest) - k)
                   /\ ~(k <= Len(rest)) => u.val = {}
    <3>1. PartEnds(parts, t, o, rest, k)
      BY <2>1, PartAtEnd
    <3>2. QED
      BY <3>1, Zenon DEF PartEnds
  <2> HIDE DEF inner
  <2>2. 0 \in Nat /\ 0 <= Len(inner)
    BY <1>2
  <2>3. Len(rest) \in Nat /\ Len(rest) <= Len(inner)
    BY <2>1, <2>2
  <2>4. 0 <= Len(rest)
    BY <2>3
  <2>5. QED
    BY <2>1, <2>3, <2>4
<1>5. d <= Len(all)
  OBVIOUS
<1>6. Oid \in Bytes /\ Len(Oid) = 4
  BY FieldInBytes
<1> HIDE DEF all, inner
<1>7. all \in Bytes /\ Len(all) = 4 + Len(inner)
  BY <1>2, <1>3, <1>6, WordInFront
<1>8. m \in 0 .. Len(all)
  BY <1>2, <1>5, <1>7
<1>9. Len(buf) = m
  BY <1>7, <1>8, TakeIs
<1>10. CASE m < 4
  <2>1. Len(buf) < 4 /\ ~(d <= Len(rest)) /\ Len(rest) <= Len(all)
    BY <1>2, <1>4, <1>7, <1>9, <1>10
  <2>2. QED
    BY <2>1, Zenon DEF FieldAt, all
<1>11. CASE ~(m < 4)
  <2>1. m \in Len(Oid) .. Len(Oid) + Len(inner) /\ m - Len(Oid) = Len(inner) - d /\ d <= Len(inner)
    BY <1>2, <1>6, <1>7, <1>8, <1>11
  <2> DEFINE x == Take(inner, Len(inner) - d)
  <2>2. x \in Bytes /\ buf = Oid \o x
    <3>1. Take(inner, m - Len(Oid)) \in Bytes /\ Take(Oid \o inner, m) = Oid \o Take(inner, m - Len(Oid))
      BY <1>2, <1>6, <2>1, CutBehind
    <3>2. QED
      BY <1>3, <2>1, <3>1
  <2>3. one = part
    <3> HIDE DEF x, buf
    <3>1. Drop(buf, 4) = x
      BY <1>6, <2>2, WordInFront
    <3>2. QED
      BY <3>1, Zenon DEF x
  <2>4. ~(Len(buf) < 4) /\ Len(rest) <= Len(all)
    BY <1>2, <1>4, <1>7, <1>9, <1>11
  <2>5. /\ d <= Len(rest) => one.val = {PartOf(parts, t, o)} /\ one.rest = Take(rest, Len(rest) - d)
        /\ ~(d <= Len(rest)) => one.val = {}
    BY <1>4, <2>1, <2>3, Zenon
  <2>6. QED
    BY <2>4, <2>5, Zenon DEF FieldAt, all
<1>12. QED
  BY <1>10, <1>11
\* Nothing is read before the number of fields, which is skipped.
Start(buf) == [vals |-> <<>>, rest |-> Drop(buf, 4), cut |-> Len(buf) < 4]
FieldsRead(f, parts, fields, buf, m) ==
  f = [n \in 0 .. m |-> IF n = 0 THEN Start(buf) ELSE NextField(parts, fields[n], f[n - 1])]

\* There is a reading of any number of fields.
LEMMA FieldsExist ==
  ASSUME NEW parts, NEW fields, NEW buf, NEW m \in Nat
  PROVE  \E f : FieldsRead(f, parts, fields, buf, m)
<1> DEFINE T == {n \in Nat : ~ \E f : FieldsRead(f, parts, fields, buf, n)}
<1>1. CASE T # {}
  <2>1. PICK n \in T : \A k \in T : n <= k
    BY <1>1, LeastOne
  <2>2. CASE n = 0
    <3> DEFINE f == [k \in 0 .. 0 |-> Start(buf)]
    <3>1. FieldsRead(f, parts, fields, buf, 0)
      BY DEF FieldsRead
    <3>2. QED
      BY <2>1, <2>2, <3>1
  <2>3. CASE n # 0
    <3>1. n \in Nat /\ n - 1 \in Nat /\ n - 1 \notin T
      BY <2>1, <2>3
    <3>2. PICK g : FieldsRead(g, parts, fields, buf, n - 1)
      BY <3>1
    <3> DEFINE f == [k \in 0 .. n |-> IF k = n THEN NextField(parts, fields[n], g[n - 1]) ELSE g[k]]
    <3>3. f[n - 1] = g[n - 1]
      BY <3>1
    <3>4. \A k \in 0 .. n - 1 : g[k] = IF k = 0 THEN Start(buf) ELSE NextField(parts, fields[k], g[k - 1])
      BY <3>1, <3>2 DEF FieldsRead
    <3>5. \A k \in 0 .. n : f[k] = IF k = 0 THEN Start(buf) ELSE NextField(parts, fields[k], f[k - 1])
      BY <2>3, <3>1, <3>3, <3>4
    <3>6. FieldsRead(f, parts, fields, buf, n)
      BY <3>5 DEF FieldsRead
    <3>7. QED
      BY <2>1, <3>6
  <2>4. QED
    BY <2>2, <2>3
<1>2. QED
  BY <1>1

NullBehind(parts, t, r) ==
  LET next == NextField(parts, t, r)
      one == FieldValue(parts, t, Drop(r.rest, 4))
  IN  /\ IsReading(next)
      /\ (r.cut = TRUE \/ Len(r.rest) < 4 \/ one.val = {}) => next.cut = TRUE /\ next.vals = Append(r.vals, Null)

\* A field that is cut is null, and what is after it is.
LEMMA FieldCut ==
  ASSUME NEW parts, NEW t, NEW r, IsReading(r)
  PROVE  NullBehind(parts, t, r)
<1> DEFINE a == r.vals
           b == r.rest
           x == Append(a, Null)
           one == FieldValue(parts, t, Drop(r.rest, 4))
           next == NextField(parts, t, r)
<1>1. r \in [vals : {a}, rest : {b}, cut : BOOLEAN]
  BY DEF IsReading
<1>2. CASE r.cut \/ Len(r.rest) < 4 \/ one.val = {}
  <2>1. next = [r EXCEPT !.vals = Append(@, Null), !.cut = TRUE]
    BY <1>2, Zenon DEF NextField
  <2>2. next = [r EXCEPT !.vals = x, !.cut = TRUE]
    BY <2>1, Zenon
  <2> HIDE DEF a, b, x, next, one
  <2>3. next \in [vals : {x}, rest : {b}, cut : {TRUE}]
    BY <1>1, <2>2
  <2>4. next.vals = x /\ next.cut = TRUE /\ next.rest = b
    BY <2>3
  <2>5. next \in [vals : {next.vals}, rest : {next.rest}, cut : BOOLEAN]
    BY <2>3, <2>4
  <2>6. QED
    BY <2>4, <2>5, Zenon DEF NullBehind, IsReading, next, x, a, one
<1>3. CASE ~(r.cut \/ Len(r.rest) < 4 \/ one.val = {})
  <2>1. next = [vals |-> Append(r.vals, The(one.val)), rest |-> one.rest, cut |-> FALSE]
    BY <1>3, Zenon DEF NextField
  <2>2. r.cut # TRUE
    BY <1>1, <1>3
  <2> HIDE DEF one, next
  <2>3. IsReading(next)
    BY <2>1 DEF IsReading
  <2>4. QED
    BY <1>3, <2>2, <2>3, Zenon DEF NullBehind, one, next
<1>4. QED
  BY <1>2, <1>3

\* The first n of g, those after the first m null.
UpTo(g, m, n) == [j \in 1 .. n |-> IF j <= m THEN g[j] ELSE Null]

LEMMA OneMoreNull ==
  ASSUME NEW g, NEW n \in Nat, NEW m \in 0 .. n
  PROVE  Append(UpTo(g, m, n), Null) = UpTo(g, m, n + 1)
<1> DEFINE h == [j \in 1 .. n |-> IF j <= m THEN g[j] ELSE Null]
<1>1. Append([j \in 1 .. n |-> h[j]], Null) = [j \in 1 .. n + 1 |-> IF j <= n THEN h[j] ELSE Null]
  BY OneMore
<1>2. [j \in 1 .. n |-> h[j]] = UpTo(g, m, n)
  BY DEF UpTo
<1>3. ASSUME NEW j \in 1 .. n + 1
      PROVE  (IF j <= n THEN h[j] ELSE Null) = IF j <= m THEN g[j] ELSE Null
  <2>1. CASE j <= n
    BY <2>1
  <2>2. CASE ~(j <= n)
    <3>1. ~(j <= m)
      BY <2>2
    <3>2. QED
      BY <2>2, <3>1
  <2>3. QED
    BY <2>1, <2>2
<1> HIDE DEF h
<1>4. QED
  BY <1>1, <1>2, <1>3 DEF UpTo

LEMMA NoneNull ==
  ASSUME NEW g, NEW n \in Nat
  PROVE  [j \in 1 .. n |-> g[j]] = UpTo(g, n, n)
<1>1. ASSUME NEW j \in 1 .. n PROVE g[j] = IF j <= n THEN g[j] ELSE Null
  <2>1. j <= n
    OBVIOUS
  <2>2. QED
    BY <2>1
<1>2. QED
  BY <1>1, Zenon DEF UpTo

\* n fields of g are read and the others are in left, but for d bytes; or it is cut,
\* and they are null from one of them on.
CutSoFar(r, g, n) == r.cut = TRUE /\ \E m \in 0 .. n : r.vals = UpTo(g, m, n)
FieldsSoFar(r, left, d, g, n) ==
  /\ IsReading(r)
  /\ d <= Len(left) => WholeSoFar(r, left, d, g, n)
  /\ ~(d <= Len(left)) => CutSoFar(r, g, n)

LEMMA FieldStep ==
  ASSUME NEW parts, NEW t, NEW o, IsPart(t, o), NEW rest \in Bytes, NEW d \in Nat,
         NEW n \in Nat, NEW g, g[n + 1] = PartOf(parts, t, o),
         NEW r, FieldsSoFar(r, FieldSent(t, o) \o rest, d, g, n)
  PROVE  FieldsSoFar(NextField(parts, t, r), rest, d, g, n + 1)
<1> DEFINE all == FieldSent(t, o) \o rest
           buf == Take(all, Len(all) - d)
           one == FieldValue(parts, t, Drop(buf, 4))
           next == NextField(parts, t, r)
<1>1. ASSUME d <= Len(all)
      PROVE  /\ d <= Len(rest) => ~(Len(buf) < 4) /\ one.val = {PartOf(parts, t, o)} /\ one.rest = Take(rest, Len(rest) - d)
             /\ ~(d <= Len(rest)) => Len(buf) < 4 \/ one.val = {}
  <2>1. FieldAt(parts, t, o, rest, d)
    BY <1>1, FieldAtEnd
  <2>2. QED
    BY <2>1, Zenon DEF FieldAt
<1>2. Len(all) \in Nat /\ Len(rest) \in Nat /\ Len(rest) <= Len(all)
  <2>1. FieldSent(t, o) \in Bytes
    BY FieldInBytes
  <2> DEFINE a == FieldSent(t, o)
  <2> HIDE DEF a
  <2>2. Len(a \o rest) = Len(a) + Len(rest) /\ Len(a) \in Nat /\ Len(rest) \in Nat
    BY <2>1, FrontIs DEF a
  <2> HIDE DEF all
  <2>3. Len(all) = Len(a) + Len(rest)
    BY <2>2, Zenon DEF all, a
  <2>4. QED
    BY <2>2, <2>3
<1>3. FieldsSoFar(r, all, d, g, n)
  OBVIOUS
<1> HIDE DEF all
<1>5. d <= Len(all) => r.cut = FALSE /\ r.vals = [j \in 1 .. n |-> g[j]] /\ r.rest = buf
  BY <1>3, Zenon DEF FieldsSoFar, WholeSoFar
<1>6. /\ IsReading(next)
      /\ (r.cut = TRUE \/ Len(r.rest) < 4 \/ FieldValue(parts, t, Drop(r.rest, 4)).val = {})
           => next.cut = TRUE /\ next.vals = Append(r.vals, Null)
  <2>1. IsReading(r)
    BY <1>3, Zenon DEF FieldsSoFar
  <2>2. NullBehind(parts, t, r)
    BY <2>1, FieldCut
  <2>3. QED
    BY <2>2, Zenon DEF NullBehind
<1>7. CASE d <= Len(rest)
  <2>1. d <= Len(all)
    BY <1>2, <1>7
  <2>2. ~(Len(buf) < 4) /\ one.val = {PartOf(parts, t, o)} /\ one.rest = Take(rest, Len(rest) - d)
    BY <1>1, <1>7, <2>1, Zenon
  <2> HIDE DEF buf
  <2>3. The(one.val) = PartOf(parts, t, o) /\ one.val # {}
    <3>1. {PartOf(parts, t, o)} # {}
      OBVIOUS
    <3>2. The({PartOf(parts, t, o)}) = PartOf(parts, t, o)
      BY TheOne
    <3>3. QED
      BY <2>2, <3>1, <3>2, Zenon
  <2>4. next = [vals |-> Append(r.vals, PartOf(parts, t, o)), rest |-> Take(rest, Len(rest) - d), cut |-> FALSE]
    BY <1>5, <2>1, <2>2, <2>3, Zenon DEF NextField
  <2>5. Append(r.vals, PartOf(parts, t, o)) = [j \in 1 .. n + 1 |-> g[j]]
    <3>1. Append([j \in 1 .. n |-> g[j]], g[n + 1]) = [j \in 1 .. n + 1 |-> g[j]]
      BY AlsoMember
    <3>2. g[n + 1] = PartOf(parts, t, o)
      OBVIOUS
    <3>3. QED
      BY <1>5, <2>1, <3>1, <3>2, Zenon
  <2> HIDE DEF next, one
  <2>6. next.cut = FALSE /\ next.rest = Take(rest, Len(rest) - d) /\ next.vals = Append(r.vals, PartOf(parts, t, o))
    BY <2>4
  <2>7. WholeSoFar(next, rest, d, g, n + 1)
    BY <2>5, <2>6, Zenon DEF WholeSoFar
  <2>8. QED
    BY <1>6, <1>7, <2>7, Zenon DEF FieldsSoFar, next
<1>8. CASE ~(d <= Len(rest))
  <2>1. \E m \in 0 .. n : r.vals = UpTo(g, m, n)
    <3>1. CASE d <= Len(all)
      <4>1. r.vals = UpTo(g, n, n)
        BY <1>5, <3>1, NoneNull, Zenon
      <4>2. n \in 0 .. n
        OBVIOUS
      <4>3. QED
        BY <4>1, <4>2
    <3>2. CASE ~(d <= Len(all))
      BY <1>3, <3>2, Zenon DEF FieldsSoFar, CutSoFar
    <3>3. QED
      BY <3>1, <3>2
  <2>2. next.cut = TRUE /\ next.vals = Append(r.vals, Null)
    <3>1. CASE d <= Len(all)
      <4>1. Len(buf) < 4 \/ one.val = {}
        BY <1>1, <1>8, <3>1, Zenon
      <4>2. r.rest = buf
        BY <1>5, <3>1
      <4>3. QED
        BY <1>6, <4>1, <4>2, Zenon
    <3>2. CASE ~(d <= Len(all))
      BY <1>3, <1>6, <3>2, Zenon DEF FieldsSoFar, CutSoFar
    <3>3. QED
      BY <3>1, <3>2
  <2> HIDE DEF next
  <2>3. PICK m \in 0 .. n : r.vals = UpTo(g, m, n)
    BY <2>1
  <2>4. next.vals = UpTo(g, m, n + 1) /\ m \in 0 .. n + 1
    <3>1. Append(UpTo(g, m, n), Null) = UpTo(g, m, n + 1)
      BY OneMoreNull
    <3>2. m \in 0 .. n + 1
      OBVIOUS
    <3>3. QED
      BY <2>2, <2>3, <3>1, <3>2, Zenon
  <2>5. CutSoFar(next, g, n + 1)
    BY <2>2, <2>4, Zenon DEF CutSoFar
  <2>6. QED
    BY <1>6, <1>8, <2>5, Zenon DEF FieldsSoFar, next
<1>9. QED
  BY <1>7, <1>8
FieldsSent(fields, n, v) == Concat([k \in 1 .. n |-> FieldSent(fields[k], v[k])])
CompositeSent(fields, n, v) == Be(4, n) \o FieldsSent(fields, n, v)

LEMMA CompositeInBytes ==
  ASSUME NEW fields, NEW n \in Nat, n < Huge, NEW v, \A k \in 1 .. n : IsPart(fields[k], v[k])
  PROVE  /\ FieldsSent(fields, n, v) \in Bytes /\ CompositeSent(fields, n, v) \in Bytes
         /\ Be(4, n) \in Bytes /\ Len(Be(4, n)) = 4
         /\ Len(FieldsSent(fields, n, v)) \in Nat
         /\ Len(CompositeSent(fields, n, v)) = 4 + Len(FieldsSent(fields, n, v))
<1> DEFINE s == [k \in 1 .. n |-> FieldSent(fields[k], v[k])]
           total == FieldsSent(fields, n, v)
<1>1. ASSUME NEW k \in 1 .. n PROVE FieldSent(fields[k], v[k]) \in Bytes
  <2>1. IsPart(fields[k], v[k])
    OBVIOUS
  <2>2. QED
    BY <2>1, FieldInBytes
<1>2. s \in [1 .. n -> Bytes]
  BY <1>1
<1>3. total = Concat(s)
  BY Zenon DEF FieldsSent
<1> HIDE DEF s, total
<1>4. Concat(s) \in Bytes
  BY <1>2, AllOfThem
<1>5. total \in Bytes
  BY <1>3, <1>4
<1>6. n \in -Huge .. Huge - 1
  BY HugeIs
<1> DEFINE a == Be(4, n)
<1>7. a \in Bytes /\ Len(a) = 4
  BY <1>6, FourBytes
<1> HIDE DEF a
<1>8. a \o total \in Bytes /\ Len(a \o total) = 4 + Len(total) /\ Len(total) \in Nat
  BY <1>5, <1>7, WordInFront
<1>9. QED
  BY <1>5, <1>7, <1>8, Zenon DEF CompositeSent, a, total

CompositeRight(parts, fields, n, v, d) ==
  LET sent == CompositeSent(fields, n, v)
      shown == CompositeFields(parts, fields, Take(sent, Len(sent) - d))
      g == [k \in 1 .. n |-> PartOf(parts, fields[k], v[k])]
  IN  /\ d = 0 => shown = Obj(g)
      /\ d # 0 => \E m \in 0 .. n : shown = Obj(UpTo(g, m, n))

\* The bytes of a composite, of which d at the end are missing.
LEMMA CompositeIs ==
  ASSUME NEW parts, NEW fields, NEW n \in Nat, n < Huge, Len(fields) = n,
         NEW v, \A k \in 1 .. n : IsPart(fields[k], v[k]),
         NEW d \in 0 .. Len(CompositeSent(fields, n, v))
  PROVE  CompositeRight(parts, fields, n, v, d)
<1> DEFINE a == Be(4, n)
           total == FieldsSent(fields, n, v)
           sent == CompositeSent(fields, n, v)
           s == [k \in 1 .. n |-> FieldSent(fields[k], v[k])]
           g == [k \in 1 .. n |-> PartOf(parts, fields[k], v[k])]
           m == Len(sent) - d
           buf == Take(sent, m)
<1>1. \A k \in 1 .. n : s[k] = FieldSent(fields[k], v[k]) /\ s[k] \in Bytes
  <2>1. ASSUME NEW k \in 1 .. n PROVE FieldSent(fields[k], v[k]) \in Bytes
    <3>1. IsPart(fields[k], v[k])
      OBVIOUS
    <3>2. QED
      BY <3>1, FieldInBytes
  <2>2. QED
    BY <2>1
<1>2. s \in [1 .. n -> Bytes] /\ total = Concat(s)
  <2>1. s \in [1 .. n -> Bytes]
    BY <1>1
  <2>2. total = Concat(s)
    BY Zenon DEF FieldsSent
  <2>3. QED
    BY <2>1, <2>2
<1>3. \A k \in 1 .. n : g[k] = PartOf(parts, fields[k], v[k])
  OBVIOUS
<1>4. /\ total \in Bytes /\ sent \in Bytes /\ a \in Bytes /\ Len(a) = 4 /\ Len(total) \in Nat
      /\ Len(sent) = 4 + Len(total)
  BY CompositeInBytes
<1>5. sent = a \o total
  BY DEF CompositeSent
<1>6. d \in 0 .. Len(sent)
  OBVIOUS
<1> HIDE DEF s, g, total, sent, a
<1>7. PICK r : /\ r[0] = total /\ r[n] = <<>>
               /\ \A k \in 0 .. n : r[k] \in Bytes
               /\ \A k \in 1 .. n : r[k - 1] = s[k] \o r[k]
  <2>1. \E r : /\ r[0] = Concat(s) /\ r[n] = <<>>
               /\ \A k \in 0 .. n : r[k] \in Bytes
               /\ \A k \in 1 .. n : r[k - 1] = s[k] \o r[k]
    BY <1>1, <1>2, WhatIsLeft
  <2>2. QED
    BY <1>2, <2>1
<1> DEFINE f == CHOOSE u : u = [k \in 0 .. Len(fields) |->
                  IF k = 0 THEN [vals |-> <<>>, rest |-> Drop(buf, 4), cut |-> Len(buf) < 4]
                  ELSE NextField(parts, fields[k], u[k - 1])]
<1>8. CompositeFields(parts, fields, buf) = Obj(f[n].vals)
  BY DEF CompositeFields
<1>9. m \in 0 .. Len(sent)
  BY <1>4, <1>6
<1>10. Len(buf) = m
  BY <1>4, <1>9, TakeIs
<1>11. ASSUME d <= Len(total) PROVE ~(Len(buf) < 4) /\ Drop(buf, 4) = Take(total, Len(total) - d)
  <2>1. m \in Len(a) .. Len(a) + Len(total) /\ m - Len(a) = Len(total) - d /\ ~(m < 4)
    BY <1>4, <1>6, <1>11
  <2> DEFINE x == Take(total, Len(total) - d)
  <2>2. x \in Bytes /\ buf = a \o x
    <3>1. Take(total, m - Len(a)) \in Bytes /\ Take(a \o total, m) = a \o Take(total, m - Len(a))
      BY <1>4, <2>1, CutBehind
    <3>2. QED
      BY <1>5, <2>1, <3>1
  <2> HIDE DEF x
  <2>3. Drop(a \o x, 4) = x
    BY <1>4, <2>2, WordInFront
  <2>4. QED
    BY <1>10, <2>1, <2>2, <2>3, Zenon DEF x
<1>12. ASSUME ~(d <= Len(total)) PROVE Len(buf) < 4
  <2> HIDE DEF buf
  <2>1. QED
    BY <1>4, <1>6, <1>10, <1>12
<1> HIDE DEF buf
<1>13. FieldsRead(f, parts, fields, buf, n)
  <2>1. \E u : FieldsRead(u, parts, fields, buf, n)
    BY FieldsExist
  <2>2. QED
    BY <2>1 DEF FieldsRead, Start
<1> HIDE DEF f
<1>14. \A k \in 0 .. n : f[k] = IF k = 0 THEN Start(buf) ELSE NextField(parts, fields[k], f[k - 1])
  BY <1>13 DEF FieldsRead
<1> DEFINE Good(k) == FieldsSoFar(f[k], r[k], d, g, k)
           T == {k \in 0 .. n : ~Good(k)}
<1>15. ASSUME T # {} PROVE FALSE
  <2>1. T \in SUBSET Nat
    OBVIOUS
  <2>2. PICK k \in T : \A j \in T : k <= j
    BY <1>15, <2>1, LeastOne, Zenon
  <2>3. k \in 0 .. n /\ ~Good(k) /\ \A j \in 0 .. n : ~Good(j) => k <= j
    BY <2>2
  <2> HIDE DEF T
  <2>4. CASE k = 0
    <3>1. f[0] = Start(buf)
      BY <1>14
    <3>2. [j \in 1 .. 0 |-> g[j]] = <<>> /\ UpTo(g, 0, 0) = <<>>
      BY DEF UpTo
    <3>3. /\ Start(buf).cut = (Len(buf) < 4) /\ Start(buf).vals = <<>> /\ Start(buf).rest = Drop(buf, 4)
          /\ IsReading(Start(buf))
      <4> DEFINE b == Drop(buf, 4)
                 c == Len(buf) < 4
      <4>1. c \in BOOLEAN
        OBVIOUS
      <4>2. Start(buf) = [vals |-> <<>>, rest |-> b, cut |-> c]
        BY DEF Start
      <4> HIDE DEF b, c
      <4>3. Start(buf).cut = c /\ Start(buf).vals = <<>> /\ Start(buf).rest = b
        BY <4>2
      <4>4. Start(buf) \in [vals : {<<>>}, rest : {b}, cut : BOOLEAN]
        BY <4>1, <4>2
      <4>5. QED
        BY <4>3, <4>4, Zenon DEF b, c, IsReading
    <3>4. CASE d <= Len(total)
      <4>1. Start(buf).cut = FALSE
        <5> DEFINE c == Len(buf) < 4
        <5>1. c \in BOOLEAN
          OBVIOUS
        <5>2. ~c
          BY <1>11, <3>4
        <5>3. Start(buf).cut = c
          BY <3>3
        <5> HIDE DEF c
        <5>4. QED
          BY <5>1, <5>2, <5>3
      <4>2. WholeSoFar(f[0], r[0], d, g, 0)
        BY <1>7, <1>11, <3>1, <3>2, <3>3, <3>4, <4>1, Zenon DEF WholeSoFar
      <4>3. QED
        BY <1>7, <2>3, <2>4, <3>1, <3>3, <3>4, <4>2, Zenon DEF FieldsSoFar
    <3>5. CASE ~(d <= Len(total))
      <4>1. Start(buf).cut = TRUE
        BY <1>12, <3>3, <3>5
      <4>2. 0 \in 0 .. 0
        OBVIOUS
      <4>3. CutSoFar(f[0], g, 0)
        BY <3>1, <3>2, <3>3, <4>1, <4>2, Zenon DEF CutSoFar
      <4>4. QED
        BY <1>7, <2>3, <2>4, <3>1, <3>3, <3>5, <4>3, Zenon DEF FieldsSoFar
    <3>6. QED
      BY <3>4, <3>5
  <2>5. CASE k # 0
    <3>1. k - 1 \in 0 .. n /\ k \in 1 .. n /\ k - 1 \in Nat /\ ~(k <= k - 1) /\ (k - 1) + 1 = k /\ k \in 0 .. n
      BY <2>3, <2>5
    <3>2. Good(k - 1)
      BY <2>3, <3>1
    <3>3. f[k] = NextField(parts, fields[k], f[k - 1])
      BY <1>14, <2>3, <2>5
    <3>4. r[k - 1] = FieldSent(fields[k], v[k]) \o r[k] /\ r[k] \in Bytes /\ IsPart(fields[k], v[k])
      BY <1>1, <1>7, <3>1
    <3>5. g[(k - 1) + 1] = PartOf(parts, fields[k], v[k])
      BY <1>3, <3>1
    <3>6. FieldsSoFar(f[k - 1], FieldSent(fields[k], v[k]) \o r[k], d, g, k - 1)
      BY <3>2, <3>4, Zenon
    <3>7. d \in Nat
      BY <1>6
    <3>8. FieldsSoFar(NextField(parts, fields[k], f[k - 1]), r[k], d, g, (k - 1) + 1)
      BY <3>1, <3>4, <3>5, <3>6, <3>7, FieldStep, Zenon
    <3>9. QED
      BY <2>3, <3>1, <3>3, <3>8, Zenon
  <2>6. QED
    BY <2>4, <2>5
<1>16. Good(n)
  <2>1. n \in 0 .. n
    OBVIOUS
  <2> HIDE DEF Good
  <2>2. QED
    BY <1>15, <2>1
<1>17. Len(r[n]) = 0
  BY <1>7
<1>18. [k \in 1 .. n |-> g[k]] = g
  BY DEF g
<1>19. CASE d = 0
  <2>1. d <= Len(r[n])
    BY <1>17, <1>19
  <2>2. f[n].vals = g
    BY <1>16, <1>18, <2>1, Zenon DEF FieldsSoFar, WholeSoFar
  <2>3. CompositeFields(parts, fields, buf) = Obj(g)
    BY <1>8, <2>2, Zenon
  <2>4. QED
    BY <1>19, <2>3, Zenon DEF CompositeRight, buf, sent, g
<1>20. CASE d # 0
  <2>1. ~(d <= Len(r[n]))
    BY <1>6, <1>17, <1>20
  <2>2. \E j \in 0 .. n : f[n].vals = UpTo(g, j, n)
    BY <1>16, <2>1, Zenon DEF FieldsSoFar, CutSoFar
  <2>3. \E j \in 0 .. n : CompositeFields(parts, fields, buf) = Obj(UpTo(g, j, n))
    BY <1>8, <2>2, Zenon
  <2>4. QED
    BY <1>20, <2>3, Zenon DEF CompositeRight, buf, sent, g
<1>21. QED
  BY <1>19, <1>20
-----------------------------------------------------------------------------
(* Ranges. *)

BoundSent(v, b) == IF v.empty \/ b = {} THEN <<>> ELSE Prefixed(The(b))
BoundShown(name, b) == IF b = {} THEN Txt("") ELSE LeafOf(BoundKnows, name, The(b))

LEMMA TextIsNotNull ==
  ASSUME NEW s
  PROVE  Txt(s) # Null
<1>1. Len(Txt(s)) = 2 /\ Len(Null) = 1
  BY DEF Txt, Null
<1>2. QED
  BY <1>1

\* One byte in front of a buffer.
LEMMA OneByte ==
  ASSUME NEW c \in Byte, NEW x \in Bytes
  PROVE  /\ <<c>> \in Bytes /\ Len(<<c>>) = 1
         /\ (<<c>> \o x) \in Bytes /\ (<<c>> \o x)[1] = c /\ Drop(<<c>> \o x, 1) = x /\ <<c>> \o x # <<>>
<1> DEFINE a == <<c>>
<1>1. a \in Bytes /\ Len(a) = 1 /\ a[1] = c
  BY DEF Bytes
<1> HIDE DEF a
<1>2. /\ a \o x \in Bytes /\ Len(a \o x) = Len(a) + Len(x) /\ Len(x) \in Nat
      /\ Drop(a \o x, Len(a)) = x
  BY <1>1, FrontIs
<1>3. \A i \in 1 .. Len(a) : (a \o x)[i] = a[i]
  BY <1>1, Joined DEF Bytes
<1>4. (a \o x)[1] = c /\ Drop(a \o x, 1) = x
  BY <1>1, <1>2, <1>3
<1>5. a \o x # <<>>
  <2> DEFINE y == a \o x
  <2>1. Len(y) = 1 + Len(x) /\ Len(x) \in Nat
    BY <1>1, <1>2
  <2> HIDE DEF y
  <2>2. y # <<>>
    BY <2>1
  <2>3. QED
    BY <2>2 DEF y
<1>6. QED
  BY <1>1, <1>2, <1>4, <1>5, Zenon DEF a

\* The bits of the flags.
LEMMA BitsAre ==
  ASSUME NEW a \in {0, 1}, NEW b \in {0, 1}, NEW c \in {0, 1}, NEW d \in {0, 1}
  PROVE  LET flag == ((2 * a) + (4 * b)) + (8 * c) + (16 * d)
         IN  /\ flag \in Byte
             /\ ~Bit(flag, 1)
             /\ Bit(flag, 2) <=> a = 1
             /\ Bit(flag, 4) <=> b = 1
             /\ Bit(flag, 8) <=> c = 1
             /\ Bit(flag, 16) <=> d = 1
BY DEF Bit, Byte

LEMMA FlagIs ==
  ASSUME NEW v, IsRange(v)
  PROVE  /\ Flag(v) \in Byte
         /\ Bit(Flag(v), 1) <=> v.empty
         /\ ~v.empty =>
              /\ Bit(Flag(v), 2) <=> v.loInc
              /\ Bit(Flag(v), 4) <=> v.upInc
              /\ Bit(Flag(v), 8) <=> v.lo = {}
              /\ Bit(Flag(v), 16) <=> v.up = {}
<1> DEFINE a == IF v.loInc THEN 1 ELSE 0
           b == IF v.upInc THEN 1 ELSE 0
           c == IF v.lo = {} THEN 1 ELSE 0
           d == IF v.up = {} THEN 1 ELSE 0
           flag == ((2 * a) + (4 * b)) + (8 * c) + (16 * d)
<1>1. CASE v.empty
  <2>1. Flag(v) = 1
    BY <1>1 DEF Flag
  <2>2. 1 \in Byte /\ Bit(1, 1)
    BY DEF Byte, Bit
  <2>3. QED
    BY <1>1, <2>1, <2>2
<1>2. CASE ~v.empty
  <2>1. a \in {0, 1} /\ b \in {0, 1} /\ c \in {0, 1} /\ d \in {0, 1}
    OBVIOUS
  <2>2. /\ a = 1 <=> v.loInc
        /\ b = 1 <=> v.upInc
        /\ c = 1 <=> v.lo = {}
        /\ d = 1 <=> v.up = {}
    OBVIOUS
  <2>3. Flag(v) = flag
    BY <1>2 DEF Flag
  <2> HIDE DEF a, b, c, d
  <2>4. /\ flag \in Byte
        /\ ~Bit(flag, 1)
        /\ Bit(flag, 2) <=> a = 1
        /\ Bit(flag, 4) <=> b = 1
        /\ Bit(flag, 8) <=> c = 1
        /\ Bit(flag, 16) <=> d = 1
    BY <2>1, BitsAre
  <2> HIDE DEF flag
  <2>5. QED
    BY <1>2, <2>2, <2>3, <2>4
<1>3. QED
  BY <1>1, <1>2

\* The bytes of a bound are its length and itself, or none.
LEMMA BoundIs ==
  ASSUME NEW name, NEW v, IsRange(v), NEW b, b = v.lo \/ b = v.up, NEW rest \in Bytes
  PROVE  /\ BoundSent(v, b) \in Bytes
         /\ v.empty \/ b = {} => BoundSent(v, b) \o rest = rest
         /\ b # {} /\ ~v.empty =>
              Bound(name, BoundSent(v, b) \o rest) = [val |-> BoundShown(name, b), rest |-> rest]
<1>1. CASE v.empty \/ b = {}
  <2>1. BoundSent(v, b) = <<>>
    BY <1>1, Zenon DEF BoundSent
  <2>2. <<>> \in Bytes /\ <<>> \o rest = rest
    BY EmptySeq, ConcatEmptySeq DEF Bytes
  <2>3. QED
    BY <1>1, <2>1, <2>2, Zenon
<1>2. CASE ~(v.empty \/ b = {})
  <2> DEFINE bytes == The(b)
             n == Len(bytes)
             value == bytes \o rest
             buf == Be(4, n) \o value
  <2>1. b = {bytes} /\ n < Huge /\ b \in SUBSET Bytes
    <3>1. v.lo \in SUBSET Bytes /\ v.up \in SUBSET Bytes
      BY DEF IsRange
    <3>2. b = {The(b)} /\ Len(The(b)) < Huge
      BY <1>2, Zenon DEF IsRange
    <3>3. QED
      BY <3>1, <3>2
  <2> HIDE DEF bytes
  <2>2. bytes \in Bytes
    BY <2>1
  <2>3. n \in Nat /\ n \in -Huge .. Huge - 1
    <3>1. n \in Nat
      BY <2>2, LenProperties DEF Bytes
    <3> HIDE DEF n
    <3>2. QED
      BY <2>1, <3>1, HugeIs
  <2>4. /\ value \in Bytes /\ Len(rest) \in Nat /\ Len(value) = n + Len(rest)
        /\ Take(value, n) = bytes /\ Drop(value, n) = rest
    BY <2>2, FrontIs
  <2>5. Be(4, n) \in Bytes
    BY <2>3, FourBytes
  <2>6. BoundSent(v, b) = Be(4, n) \o bytes
    BY <1>2, Zenon DEF BoundSent, Prefixed, bytes
  <2>7. Be(4, n) \o bytes \in Bytes
    BY <2>2, <2>5, FrontIs
  <2>8. (Be(4, n) \o bytes) \o rest = buf
    BY <2>2, <2>5, Associated
  <2> HIDE DEF value, n
  <2>9. Len(buf) = 4 + Len(value) /\ Len(value) \in Nat /\ I32(buf) = n /\ Drop(buf, 4) = value
    BY <2>3, <2>4, NumberInFront
  <2> HIDE DEF buf
  <2>10. ~(Len(buf) < 4) /\ ~(n < 0 \/ Len(value) < n)
    BY <2>3, <2>4, <2>9
  <2>11. Bound(name, buf) = [val |-> LeafOf(BoundKnows, name, Take(value, n)), rest |-> Drop(value, n)]
    BY <2>9, <2>10, Zenon DEF Bound
  <2>12. BoundShown(name, b) = LeafOf(BoundKnows, name, bytes)
    BY <1>2, Zenon DEF BoundShown, bytes
  <2>13. Bound(name, buf) = [val |-> BoundShown(name, b), rest |-> rest]
    BY <2>4, <2>11, <2>12, Zenon
  <2>14. QED
    BY <1>2, <2>6, <2>7, <2>8, <2>13, Zenon
<1>3. QED
  BY <1>1, <1>2
LEMMA OtherVal ==
  ASSUME NEW x, NEW y, NEW z
  PROVE  [[val |-> x, rest |-> y] EXCEPT !.val = z] = [val |-> z, rest |-> y]
OBVIOUS

\* A range whose upper bound is left in the buffer.
Skewed(name, v) == v.lo # {} /\ v.up # {} /\ LeafOf(BoundKnows, name, The(v.lo)) = Null

RangeRight(name, v, rest) ==
  LET read == RangeOrNull(name, RangeSend(v) \o rest)
  IN  read.val = RangeShown(name, v) /\ (Skewed(name, v) \/ read.rest = rest)

LEMMA RangeInBytes ==
  ASSUME NEW v, IsRange(v)
  PROVE  /\ RangeSend(v) \in Bytes
         /\ \A rest \in Bytes : /\ BoundSent(v, v.up) \o rest \in Bytes
                                /\ BoundSent(v, v.lo) \o (BoundSent(v, v.up) \o rest) \in Bytes
                                /\ RangeSend(v) \o rest = <<Flag(v)>> \o (BoundSent(v, v.lo) \o (BoundSent(v, v.up) \o rest))
<1> DEFINE f == <<Flag(v)>>
           l == BoundSent(v, v.lo)
           u == BoundSent(v, v.up)
<1>1. <<>> \in Bytes
  BY EmptySeq DEF Bytes
<1>2. l \in Bytes /\ u \in Bytes
  BY <1>1, BoundIs
<1>3. f \in Bytes
  BY <1>1, FlagIs, OneByte
<1>4. RangeSend(v) = (f \o l) \o u
  BY Zenon DEF RangeSend, BoundSent
<1> HIDE DEF f, l, u
<1>5. f \o l \in Bytes
  BY <1>2, <1>3, FrontIs
<1> DEFINE fl == f \o l
<1>6. fl \o u \in Bytes
  <2> HIDE DEF fl
  <2>1. QED
    BY <1>2, <1>5, FrontIs DEF fl
<1>7. ASSUME NEW rest \in Bytes
      PROVE  /\ u \o rest \in Bytes /\ l \o (u \o rest) \in Bytes
             /\ (fl \o u) \o rest = f \o (l \o (u \o rest))
  <2> DEFINE w == u \o rest
  <2>1. w \in Bytes
    BY <1>2, FrontIs
  <2>2. (fl \o u) \o rest = fl \o w
    <3> HIDE DEF fl
    <3>1. QED
      BY <1>2, <1>5, Associated DEF fl
  <2> HIDE DEF w
  <2>3. l \o w \in Bytes
    BY <1>2, <2>1, FrontIs
  <2>4. fl \o w = f \o (l \o w)
    BY <1>2, <1>3, <2>1, Associated
  <2>5. QED
    BY <2>1, <2>2, <2>3, <2>4, Zenon DEF w
<1>8. QED
  BY <1>4, <1>6, <1>7, Zenon DEF f, l, u

\* A range in front of a buffer is read.
LEMMA RangeIs ==
  ASSUME NEW name, NEW v, IsRange(v), NEW rest \in Bytes
  PROVE  RangeRight(name, v, rest)
<1> DEFINE flag == Flag(v)
           upper == BoundSent(v, v.up) \o rest
           body == BoundSent(v, v.lo) \o upper
           buf == <<flag>> \o body
           low == BoundShown(name, v.lo)
           high == BoundShown(name, v.up)
           read == RangeOrNull(name, buf)
<1>1. upper \in Bytes /\ body \in Bytes /\ RangeSend(v) \o rest = buf
  BY RangeInBytes
<1>2. /\ flag \in Byte
      /\ Bit(flag, 1) <=> v.empty
      /\ ~v.empty =>
           /\ Bit(flag, 2) <=> v.loInc
           /\ Bit(flag, 4) <=> v.upInc
           /\ Bit(flag, 8) <=> v.lo = {}
           /\ Bit(flag, 16) <=> v.up = {}
  BY FlagIs
<1>3. /\ v.empty \/ v.up = {} => upper = rest
      /\ v.up # {} /\ ~v.empty => Bound(name, upper) = [val |-> high, rest |-> rest]
  BY BoundIs
<1>4. /\ v.empty \/ v.lo = {} => body = upper
      /\ v.lo # {} /\ ~v.empty => Bound(name, body) = [val |-> low, rest |-> upper]
  <2> HIDE DEF upper
  <2>1. QED
    BY <1>1, BoundIs
<1> HIDE DEF upper, body, flag
<1>5. buf # <<>> /\ buf[1] = flag /\ Drop(buf, 1) = body
  BY <1>1, <1>2, OneByte
<1> HIDE DEF buf
<1>6. CASE v.empty
  <2> DEFINE empty == Str("range", <<Txt("empty")>>)
  <2>1. read = [val |-> empty, rest |-> body]
    BY <1>2, <1>5, <1>6, Zenon DEF RangeOrNull
  <2>2. read.val = empty /\ read.rest = body
    <3> HIDE DEF read, empty
    <3>1. QED
      BY <2>1
  <2>3. RangeShown(name, v) = empty
    BY <1>6, Zenon DEF RangeShown
  <2>4. QED
    BY <1>1, <1>3, <1>4, <1>6, <2>2, <2>3, Zenon DEF RangeRight
<1>7. CASE ~v.empty
  <2> DEFINE lower == IF Bit(flag, 8) THEN [val |-> Txt(""), rest |-> body] ELSE Bound(name, body)
             up == IF Bit(flag, 16) THEN [lower EXCEPT !.val = Txt("")] ELSE Bound(name, upper)
             text == RangeText(Brackets(flag), Txt("null"), Txt("null"))
  <2>1. lower = [val |-> low, rest |-> upper]
    <3>1. CASE v.lo = {}
      <4>1. low = Txt("")
        BY <3>1, Zenon DEF BoundShown
      <4>2. QED
        BY <1>2, <1>4, <1>7, <3>1, <4>1, Zenon
    <3>2. CASE v.lo # {}
      BY <1>2, <1>4, <1>7, <3>2, Zenon
    <3>3. QED
      BY <3>1, <3>2
  <2>2. up = [val |-> high, rest |-> rest]
    <3>1. CASE v.up = {}
      <4>1. high = Txt("")
        BY <3>1, Zenon DEF BoundShown
      <4>2. [[val |-> low, rest |-> upper] EXCEPT !.val = Txt("")] = [val |-> Txt(""), rest |-> upper]
        BY OtherVal, ZenonT(40)
      <4>3. up = [lower EXCEPT !.val = Txt("")]
        BY <1>2, <1>7, <3>1, Zenon
      <4> HIDE DEF lower
      <4>4. QED
        BY <1>3, <2>1, <3>1, <4>1, <4>2, <4>3, Zenon
    <3>2. CASE v.up # {}
      BY <1>2, <1>3, <1>7, <3>2, Zenon
    <3>3. QED
      BY <3>1, <3>2
  <2>3. read = WithLower(name, flag, lower)
    BY <1>2, <1>5, <1>7, Zenon DEF RangeOrNull
  <2>4. lower.val = low /\ lower.rest = upper /\ up.val = high /\ up.rest = rest
    <3> HIDE DEF lower, up, low, high
    <3>1. QED
      BY <2>1, <2>2
  <2>5. WithLower(name, flag, lower) =
          IF lower.val = Null THEN [val |-> text, rest |-> lower.rest] ELSE WithUpper(flag, lower.val, up)
    <3>1. up = IF Bit(flag, 16) THEN [lower EXCEPT !.val = Txt("")] ELSE Bound(name, lower.rest)
      BY <2>4, Zenon
    <3> HIDE DEF up, lower
    <3>2. QED
      BY <3>1, Zenon DEF WithLower
  <2> HIDE DEF lower, up
  <2>6. Brackets(flag) = <<IF v.loInc THEN "[" ELSE "(", IF v.upInc THEN "]" ELSE ")">>
    BY <1>2, <1>7, Zenon DEF Brackets
  <2>7. CASE low = Null
    <3>1. read = [val |-> text, rest |-> upper]
      BY <2>3, <2>4, <2>5, <2>7, Zenon
    <3>2. read.val = text /\ read.rest = upper
      <4> HIDE DEF read, text
      <4>1. QED
        BY <3>1
    <3>3. RangeShown(name, v) = text
      BY <1>7, <2>6, <2>7, Zenon DEF RangeShown, BoundShown
    <3>4. v.lo # {} /\ LeafOf(BoundKnows, name, The(v.lo)) = Null
      BY <2>7, TextIsNotNull, Zenon DEF BoundShown
    <3>5. Skewed(name, v) \/ upper = rest
      BY <1>3, <3>4, Zenon DEF Skewed
    <3>6. QED
      BY <1>1, <3>2, <3>3, <3>5, Zenon DEF RangeRight
  <2>8. CASE low # Null
    <3> DEFINE shown == RangeText(Brackets(flag), low, IF high = Null THEN Txt("null") ELSE high)
    <3>1. read = [val |-> shown, rest |-> rest]
      BY <2>3, <2>4, <2>5, <2>8, Zenon DEF WithUpper
    <3>2. read.val = shown /\ read.rest = rest
      <4> HIDE DEF read, shown
      <4>1. QED
        BY <3>1
    <3>3. RangeShown(name, v) = shown
      BY <1>7, <2>6, <2>8, Zenon DEF RangeShown, BoundShown
    <3>4. QED
      BY <1>1, <3>2, <3>3, Zenon DEF RangeRight
  <2>9. QED
    BY <2>7, <2>8
<1>8. QED
  BY <1>6, <1>7
-----------------------------------------------------------------------------
(* Multiranges. *)

FirstRange(buf) == [vals |-> <<>>, rest |-> Drop(buf, 4), cut |-> FALSE]
RangesRead(f, name, buf, m) ==
  f = [n \in 0 .. m |-> IF n = 0 THEN FirstRange(buf) ELSE NextRange(name, f[n - 1])]

\* There is a reading of any number of ranges.
LEMMA RangesExist ==
  ASSUME NEW name, NEW buf, NEW m \in Nat
  PROVE  \E f : RangesRead(f, name, buf, m)
<1> DEFINE T == {n \in Nat : ~ \E f : RangesRead(f, name, buf, n)}
<1>1. CASE T # {}
  <2>1. PICK n \in T : \A k \in T : n <= k
    BY <1>1, LeastOne
  <2>2. CASE n = 0
    <3> DEFINE f == [k \in 0 .. 0 |-> FirstRange(buf)]
    <3>1. RangesRead(f, name, buf, 0)
      BY DEF RangesRead
    <3>2. QED
      BY <2>1, <2>2, <3>1
  <2>3. CASE n # 0
    <3>1. n \in Nat /\ n - 1 \in Nat /\ n - 1 \notin T
      BY <2>1, <2>3
    <3>2. PICK g : RangesRead(g, name, buf, n - 1)
      BY <3>1
    <3> DEFINE f == [k \in 0 .. n |-> IF k = n THEN NextRange(name, g[n - 1]) ELSE g[k]]
    <3>3. f[n - 1] = g[n - 1]
      BY <3>1
    <3>4. \A k \in 0 .. n - 1 : g[k] = IF k = 0 THEN FirstRange(buf) ELSE NextRange(name, g[k - 1])
      BY <3>1, <3>2 DEF RangesRead
    <3>5. \A k \in 0 .. n : f[k] = IF k = 0 THEN FirstRange(buf) ELSE NextRange(name, f[k - 1])
      BY <2>3, <3>1, <3>3, <3>4
    <3>6. RangesRead(f, name, buf, n)
      BY <3>5 DEF RangesRead
    <3>7. QED
      BY <2>1, <3>6
  <2>4. QED
    BY <2>2, <2>3
<1>2. QED
  BY <1>1

\* A range after its length, in front of a buffer.
RangeSent(v) == Prefixed(RangeSend(v))

LEMMA RangeSentIs ==
  ASSUME NEW v, IsRange(v), Len(RangeSend(v)) < Huge
  PROVE  /\ RangeSent(v) \in Bytes
         /\ \A rest \in Bytes : /\ Len(RangeSent(v) \o rest) \in Nat /\ Len(RangeSent(v) \o rest) >= 4
                                /\ Drop(RangeSent(v) \o rest, 4) = RangeSend(v) \o rest
<1> DEFINE bytes == RangeSend(v)
           n == Len(bytes)
           a == Be(4, n)
<1>1. <<>> \in Bytes
  BY EmptySeq DEF Bytes
<1>2. bytes \in Bytes
  BY RangeInBytes
<1>3. n < Huge
  OBVIOUS
<1>4. RangeSent(v) = a \o bytes
  BY Zenon DEF RangeSent, Prefixed
<1> HIDE DEF bytes
<1>5. n \in Nat
  BY <1>2, LenProperties DEF Bytes
<1> HIDE DEF n
<1>6. n \in -Huge .. Huge - 1
  BY <1>3, <1>5, HugeIs
<1>7. a \in Bytes /\ Len(a) = 4
  BY <1>6, FourBytes
<1> HIDE DEF a
<1>8. a \o bytes \in Bytes
  BY <1>2, <1>7, FrontIs
<1>9. ASSUME NEW rest \in Bytes
      PROVE  /\ Len((a \o bytes) \o rest) \in Nat /\ Len((a \o bytes) \o rest) >= 4
             /\ Drop((a \o bytes) \o rest, 4) = bytes \o rest
  <2> DEFINE w == bytes \o rest
  <2>1. w \in Bytes
    BY <1>2, FrontIs
  <2>2. (a \o bytes) \o rest = a \o w
    BY <1>2, <1>7, Associated
  <2> HIDE DEF w
  <2>3. Len(a \o w) = 4 + Len(w) /\ Len(w) \in Nat /\ Drop(a \o w, 4) = w
    BY <1>7, <2>1, WordInFront
  <2> DEFINE x == a \o w
  <2> HIDE DEF x
  <2>4. Len(x) \in Nat /\ Len(x) >= 4 /\ Drop(x, 4) = w
    BY <2>3 DEF x
  <2>5. QED
    BY <2>2, <2>4, Zenon DEF w, x
<1>10. QED
  BY <1>4, <1>8, <1>9, Zenon DEF bytes

\* n ranges of g are read, and the others are in left unless a range was skewed.
RangesSoFar(r, left, g, n, ok) ==
  r.cut = FALSE /\ r.vals = [j \in 1 .. n |-> g[j]] /\ (ok => r.rest = left)

LEMMA RangeStep ==
  ASSUME NEW name, NEW v, IsRange(v), Len(RangeSend(v)) < Huge, NEW rest \in Bytes,
         NEW n \in Nat, NEW g, g[n + 1] = RangeShown(name, v),
         NEW r, RangesSoFar(r, RangeSent(v) \o rest, g, n, TRUE)
  PROVE  RangesSoFar(NextRange(name, r), rest, g, n + 1, ~Skewed(name, v))
<1> DEFINE all == RangeSent(v) \o rest
           one == RangeOrNull(name, Drop(all, 4))
           next == NextRange(name, r)
<1>1. Len(all) \in Nat /\ Len(all) >= 4 /\ Drop(all, 4) = RangeSend(v) \o rest
  BY RangeSentIs
<1>2. r.cut = FALSE /\ r.vals = [j \in 1 .. n |-> g[j]] /\ r.rest = all
  BY Zenon DEF RangesSoFar
<1>3. RangeRight(name, v, rest)
  BY RangeIs
<1> HIDE DEF all
<1>4. one.val = RangeShown(name, v) /\ (Skewed(name, v) \/ one.rest = rest)
  BY <1>1, <1>3, Zenon DEF RangeRight
<1>5. ~(r.cut \/ Len(r.rest) < 4)
  <2>1. ~(Len(all) < 4)
    BY <1>1
  <2>2. QED
    BY <1>2, <2>1, Zenon
<1>6. next = [vals |-> Append(r.vals, one.val), rest |-> one.rest, cut |-> FALSE]
  BY <1>2, <1>5, Zenon DEF NextRange
<1>7. Append(r.vals, one.val) = [j \in 1 .. n + 1 |-> g[j]]
  <2>1. Append([j \in 1 .. n |-> g[j]], g[n + 1]) = [j \in 1 .. n + 1 |-> g[j]]
    BY AlsoMember
  <2>2. one.val = g[n + 1]
    BY <1>4, Zenon
  <2> HIDE DEF one
  <2>3. QED
    BY <1>2, <2>1, <2>2, Zenon
<1> HIDE DEF next, one
<1>8. next.cut = FALSE /\ next.rest = one.rest /\ next.vals = Append(r.vals, one.val)
  BY <1>6
<1>9. QED
  BY <1>4, <1>7, <1>8, Zenon DEF RangesSoFar, next

RangesSent(n, v) == Concat([k \in 1 .. n |-> RangeSent(v[k])])
MultirangeSent(n, v) == Be(4, n) \o RangesSent(n, v)

\* The bytes of a multirange.
LEMMA MultirangeIs ==
  ASSUME NEW name, NEW n \in Nat, n < Huge, NEW v,
         \A k \in 1 .. n : IsRange(v[k]) /\ Len(RangeSend(v[k])) < Huge,
         \A k \in 1 .. n - 1 : ~Skewed(name, v[k])
  PROVE  MultirangeOf(name, MultirangeSent(n, v)) = Str("multirange", [k \in 1 .. n |-> RangeShown(name, v[k])])
<1> DEFINE total == RangesSent(n, v)
           s == [k \in 1 .. n |-> RangeSent(v[k])]
           g == [k \in 1 .. n |-> RangeShown(name, v[k])]
           buf == MultirangeSent(n, v)
<1>1. \A k \in 1 .. n : s[k] = RangeSent(v[k]) /\ s[k] \in Bytes
  <2>1. ASSUME NEW k \in 1 .. n PROVE RangeSent(v[k]) \in Bytes
    <3>1. IsRange(v[k]) /\ Len(RangeSend(v[k])) < Huge
      OBVIOUS
    <3>2. QED
      BY <3>1, RangeSentIs
  <2>2. QED
    BY <2>1
<1>2. s \in [1 .. n -> Bytes] /\ total = Concat(s)
  <2>1. s \in [1 .. n -> Bytes]
    BY <1>1
  <2>2. total = Concat(s)
    BY Zenon DEF RangesSent
  <2>3. QED
    BY <2>1, <2>2
<1>3. \A k \in 1 .. n : g[k] = RangeShown(name, v[k])
  OBVIOUS
<1>4. buf = Be(4, n) \o total
  BY DEF MultirangeSent
<1> HIDE DEF s, g, total, buf
<1>5. total \in Bytes
  BY <1>2, AllOfThem
<1>6. n \in -Huge .. Huge - 1
  BY HugeIs
<1>7. I32(buf) = n /\ Drop(buf, 4) = total /\ ~(Len(buf) < 4)
  <2>1. /\ Len(Be(4, n) \o total) = 4 + Len(total) /\ Len(total) \in Nat
        /\ I32(Be(4, n) \o total) = n /\ Drop(Be(4, n) \o total, 4) = total
    BY <1>5, <1>6, NumberInFront
  <2> DEFINE w == Be(4, n) \o total
  <2> HIDE DEF w
  <2>2. I32(w) = n /\ Drop(w, 4) = total /\ ~(Len(w) < 4)
    BY <2>1 DEF w
  <2>3. QED
    BY <1>4, <2>2, Zenon DEF w
<1>8. PICK r : /\ r[0] = total /\ r[n] = <<>>
               /\ \A k \in 0 .. n : r[k] \in Bytes
               /\ \A k \in 1 .. n : r[k - 1] = s[k] \o r[k]
  <2>1. \E r : /\ r[0] = Concat(s) /\ r[n] = <<>>
               /\ \A k \in 0 .. n : r[k] \in Bytes
               /\ \A k \in 1 .. n : r[k - 1] = s[k] \o r[k]
    BY <1>1, <1>2, WhatIsLeft
  <2>2. QED
    BY <1>2, <2>1
<1> DEFINE f == CHOOSE u : u = [k \in 0 .. n |->
                  IF k = 0 THEN [vals |-> <<>>, rest |-> Drop(buf, 4), cut |-> FALSE]
                  ELSE NextRange(name, u[k - 1])]
<1>9. MultirangeOf(name, buf) = Str("multirange", f[n].vals)
  BY <1>7, Zenon DEF MultirangeOf
<1>10. RangesRead(f, name, buf, n)
  <2>1. \E u : RangesRead(u, name, buf, n)
    BY RangesExist
  <2>2. QED
    BY <2>1 DEF RangesRead, FirstRange
<1> HIDE DEF f
<1>11. \A k \in 0 .. n : f[k] = IF k = 0 THEN FirstRange(buf) ELSE NextRange(name, f[k - 1])
  BY <1>10 DEF RangesRead
<1> DEFINE Good(k) == RangesSoFar(f[k], r[k], g, k, k < n \/ k = 0)
           T == {k \in 0 .. n : ~Good(k)}
<1>12. ASSUME T # {} PROVE FALSE
  <2>1. T \in SUBSET Nat
    OBVIOUS
  <2>2. PICK k \in T : \A j \in T : k <= j
    BY <1>12, <2>1, LeastOne, Zenon
  <2>3. k \in 0 .. n /\ ~Good(k) /\ \A j \in 0 .. n : ~Good(j) => k <= j
    BY <2>2
  <2> HIDE DEF T
  <2>4. CASE k = 0
    <3>1. f[0] = FirstRange(buf)
      BY <1>11
    <3>2. [j \in 1 .. 0 |-> g[j]] = <<>>
      OBVIOUS
    <3>3. FirstRange(buf).cut = FALSE /\ FirstRange(buf).vals = <<>> /\ FirstRange(buf).rest = Drop(buf, 4)
      BY DEF FirstRange
    <3>4. QED
      BY <1>7, <1>8, <2>3, <2>4, <3>1, <3>2, <3>3, Zenon DEF RangesSoFar
  <2>5. CASE k # 0
    <3>1. /\ k - 1 \in 0 .. n /\ k \in 1 .. n /\ k - 1 \in Nat /\ ~(k <= k - 1) /\ (k - 1) + 1 = k
          /\ k \in 0 .. n /\ k - 1 < n
      BY <2>3, <2>5
    <3>2. Good(k - 1)
      BY <2>3, <3>1
    <3>3. f[k] = NextRange(name, f[k - 1])
      BY <1>11, <2>3, <2>5
    <3>4. r[k - 1] = RangeSent(v[k]) \o r[k] /\ r[k] \in Bytes /\ IsRange(v[k]) /\ Len(RangeSend(v[k])) < Huge
      BY <1>1, <1>8, <3>1
    <3>5. g[(k - 1) + 1] = RangeShown(name, v[k])
      BY <1>3, <3>1
    <3>6. RangesSoFar(f[k - 1], RangeSent(v[k]) \o r[k], g, k - 1, TRUE)
      BY <3>1, <3>2, <3>4, Zenon DEF RangesSoFar
    <3>7. RangesSoFar(NextRange(name, f[k - 1]), r[k], g, (k - 1) + 1, ~Skewed(name, v[k]))
      BY <3>1, <3>4, <3>5, <3>6, RangeStep, Zenon
    <3>8. k < n \/ k = 0 => ~Skewed(name, v[k])
      <4>1. ASSUME k < n \/ k = 0 PROVE ~Skewed(name, v[k])
        <5>1. k \in 1 .. n - 1
          BY <2>5, <3>1, <4>1
        <5>2. QED
          BY <5>1
      <4>2. QED
        BY <4>1, Zenon
    <3>9. QED
      BY <2>3, <3>1, <3>3, <3>7, <3>8, Zenon DEF RangesSoFar
  <2>6. QED
    BY <2>4, <2>5
<1>13. Good(n)
  <2>1. n \in 0 .. n
    OBVIOUS
  <2> HIDE DEF Good
  <2>2. QED
    BY <1>12, <2>1
<1>14. [k \in 1 .. n |-> g[k]] = g
  BY DEF g
<1>15. f[n].vals = g
  BY <1>13, <1>14, Zenon DEF RangesSoFar
<1>16. QED
  BY <1>9, <1>15, Zenon DEF buf, g
-----------------------------------------------------------------------------
(* The values of the database. *)

\* What is known of each kind of type and of its values.
LEMMA Kinds ==
  ASSUME NEW tv \in Value
  PROVE  /\ tv[1] \in Types /\ tv = <<tv[1], tv[2]>> /\ IsType(tv[1]) /\ ValueOK(tv[1], tv[2])
         /\ Wire[tv] = Send(tv[1], tv[2], Wire) /\ Wire[tv] \in Bytes
         /\ Kind(tv[1]) \in {"simple", "domain", "range", "multirange", "array", "composite"}
         /\ Depth[tv[1]] \in 1 .. Nesting
<1>1. /\ tv[1] \in Types /\ tv = <<tv[1], tv[2]>> /\ ValueOK(tv[1], tv[2])
      /\ Wire[tv] = Send(tv[1], tv[2], Wire)
  BY ValuesOK, Zenon
<1>2. Wire[tv] \in Bytes
  BY ValuesOK, Zenon
<1>3. IsType(tv[1]) /\ Depth[tv[1]] \in 1 .. Nesting
  BY <1>1, TypesOK, Zenon
<1>4. Kind(tv[1]) \in {"simple", "domain", "range", "multirange", "array", "composite"}
  BY <1>3, Zenon DEF IsType
<1>5. QED
  BY <1>1, <1>2, <1>3, <1>4, Zenon

LEMMA DomainValue ==
  ASSUME NEW tv \in Value, Kind(tv[1]) = "domain"
  PROVE  /\ <<Arg(tv[1]), tv[2]>> \in Value /\ Wire[tv] = Wire[<<Arg(tv[1]), tv[2]>>]
         /\ Depth[Arg(tv[1])] < Depth[tv[1]]
<1>1. IsType(tv[1]) /\ ValueOK(tv[1], tv[2]) /\ Wire[tv] = Send(tv[1], tv[2], Wire)
  BY Kinds, Zenon
<1>2. QED
  BY <1>1, Zenon DEF IsType, ValueOK, Send

LEMMA RangeValue ==
  ASSUME NEW tv \in Value, Kind(tv[1]) = "range"
  PROVE  IsRange(tv[2]) /\ Wire[tv] = RangeSend(tv[2])
<1>1. ValueOK(tv[1], tv[2]) /\ Wire[tv] = Send(tv[1], tv[2], Wire)
  BY Kinds, Zenon
<1>2. QED
  BY <1>1, Zenon DEF ValueOK, Send

LEMMA ListHas ==
  ASSUME NEW v, IsList(v)
  PROVE  Len(v) \in Nat /\ Len(v) < Huge /\ DOMAIN v = 1 .. Len(v) /\ (v = <<>> <=> Len(v) = 0)
<1> DEFINE n == Len(v)
<1>1. n \in 0 .. Huge - 1 /\ v = [k \in 1 .. n |-> v[k]]
  BY DEF IsList
<1>2. DOMAIN v = 1 .. n
  BY <1>1, Zenon
<1>3. n \in Nat /\ n < Huge
  BY <1>1, HugeIs
<1>4. v = <<>> => n = 0
  OBVIOUS
<1>5. n = 0 => v = <<>>
  <2>1. [k \in 1 .. 0 |-> v[k]] = <<>>
    OBVIOUS
  <2>2. QED
    BY <1>1, <2>1, Zenon
<1>6. QED
  BY <1>2, <1>3, <1>4, <1>5, Zenon

LEMMA MultirangeValue ==
  ASSUME NEW tv \in Value, Kind(tv[1]) = "multirange"
  PROVE  LET v == tv[2]
             n == Len(v)
         IN  /\ n \in Nat /\ n < Huge /\ DOMAIN v = 1 .. n
             /\ \A k \in 1 .. n : IsRange(v[k]) /\ Len(RangeSend(v[k])) < Huge
             /\ Wire[tv] = MultirangeSent(n, v)
<1> DEFINE v == tv[2]
           n == Len(v)
<1>1. ValueOK(tv[1], v) /\ Wire[tv] = Send(tv[1], v, Wire)
  BY Kinds, Zenon
<1> HIDE DEF v
<1>2. IsList(v) /\ \A k \in DOMAIN v : IsRange(v[k]) /\ Len(RangeSend(v[k])) < Huge
  BY <1>1, Zenon DEF ValueOK
<1>3. n \in Nat /\ n < Huge /\ DOMAIN v = 1 .. n
  BY <1>2, ListHas
<1>4. Wire[tv] = Be(4, n) \o Concat([k \in DOMAIN v |-> Prefixed(RangeSend(v[k]))])
  BY <1>1, Zenon DEF Send
<1>5. Wire[tv] = MultirangeSent(n, v)
  BY <1>3, <1>4, Zenon DEF MultirangeSent, RangesSent, RangeSent
<1>6. QED
  BY <1>2, <1>3, <1>5, Zenon DEF v

LEMMA ArrayValueIs ==
  ASSUME NEW tv \in Value, Kind(tv[1]) = "array"
  PROVE  LET t == Arg(tv[1])
             v == tv[2]
             n == Len(v)
         IN  /\ t \in Types /\ Depth[t] < Depth[tv[1]]
             /\ n \in Nat /\ n < Huge /\ DOMAIN v = 1 .. n
             /\ \A k \in 1 .. n : IsPart(t, v[k])
             /\ n = 0 => Wire[tv] = NoneSent
             /\ n # 0 => Wire[tv] = ArraySent(t, n, v)
<1> DEFINE t == Arg(tv[1])
           v == tv[2]
           n == Len(v)
<1>1. IsType(tv[1]) /\ ValueOK(tv[1], v) /\ Wire[tv] = Send(tv[1], v, Wire)
  BY Kinds, Zenon
<1>2. t \in Types /\ Depth[t] < Depth[tv[1]]
  BY <1>1, Zenon DEF IsType
<1> HIDE DEF v
<1>3. IsList(v) /\ \A k \in DOMAIN v : IsPart(t, v[k])
  BY <1>1, Zenon DEF ValueOK
<1>4. n \in Nat /\ n < Huge /\ DOMAIN v = 1 .. n /\ (v = <<>> <=> n = 0)
  BY <1>3, ListHas
<1>5. Wire[tv] = IF v = <<>> THEN Be(4, 0) \o Be(4, 0) \o Oid
                 ELSE Be(4, 1) \o Be(4, 0) \o Oid \o Be(4, n) \o Be(4, 1)
                        \o Concat([k \in DOMAIN v |-> OptSend(t, v[k], Wire)])
  BY <1>1, Zenon DEF Send
<1>6. n = 0 => Wire[tv] = NoneSent
  BY <1>4, <1>5, Zenon DEF NoneSent
<1>7. n # 0 => Wire[tv] = ArraySent(t, n, v)
  BY <1>4, <1>5, Zenon DEF ArraySent, ElementsSent
<1>8. QED
  BY <1>2, <1>3, <1>4, <1>6, <1>7, Zenon DEF v

LEMMA CompositeValue ==
  ASSUME NEW tv \in Value, Kind(tv[1]) = "composite"
  PROVE  LET fields == Arg(tv[1])
             v == tv[2]
             n == Len(v)
         IN  /\ n \in Nat /\ n < Huge /\ DOMAIN v = 1 .. n /\ Len(fields) = n
             /\ \A k \in 1 .. n : IsPart(fields[k], v[k]) /\ Depth[fields[k]] < Depth[tv[1]]
             /\ Wire[tv] = CompositeSent(fields, n, v)
<1> DEFINE fields == Arg(tv[1])
           v == tv[2]
           n == Len(v)
<1>1. IsType(tv[1]) /\ ValueOK(tv[1], v) /\ Wire[tv] = Send(tv[1], v, Wire)
  BY Kinds, Zenon
<1>2. fields \in Seq(Types) /\ \A k \in DOMAIN fields : Depth[fields[k]] < Depth[tv[1]]
  BY <1>1, Zenon DEF IsType
<1>3. IsList(v) /\ Len(v) = Len(fields) /\ \A k \in DOMAIN v : IsPart(fields[k], v[k])
  BY <1>1, Zenon DEF ValueOK
<1>4. Wire[tv] = Be(4, n) \o Concat([k \in DOMAIN v |-> Oid \o OptSend(fields[k], v[k], Wire)])
  BY <1>1, Zenon DEF Send
<1> HIDE DEF v, fields
<1>5. n \in Nat /\ n < Huge /\ DOMAIN v = 1 .. n
  BY <1>3, ListHas
<1>6. DOMAIN fields = 1 .. n
  BY <1>2, <1>3, LenProperties
<1>7. Wire[tv] = CompositeSent(fields, n, v)
  BY <1>4, <1>5, Zenon DEF CompositeSent, FieldsSent, FieldSent
<1>8. QED
  BY <1>2, <1>3, <1>5, <1>6, <1>7, Zenon DEF v, fields
LEMMA WholeIs ==
  ASSUME NEW buf \in Bytes
  PROVE  /\ Len(buf) \in Nat /\ Len(buf) \in 0 .. Len(buf) /\ Len(buf) - 0 = Len(buf)
         /\ Take(buf, Len(buf)) = buf
<1>1. Len(buf) \in Nat
  BY LenProperties DEF Bytes
<1>2. Len(buf) \in 0 .. Len(buf) /\ Len(buf) - 0 = Len(buf)
  BY <1>1
<1> DEFINE x == Take(buf, Len(buf))
<1>3. x \in Bytes /\ Len(x) = Len(buf) /\ \A i \in 1 .. Len(buf) : x[i] = buf[i]
  BY <1>2, TakeIs
<1> HIDE DEF x
<1>4. x = buf
  BY <1>3, SeqEqual DEF Bytes
<1>5. QED
  BY <1>1, <1>2, <1>4 DEF x

\* An array is read element by element; a cut one is null.
LEMMA ArrayRead ==
  ASSUME NEW parts, NEW tv \in Value, Kind(tv[1]) = "array"
  PROVE  LET t == Arg(tv[1])
             v == tv[2]
         IN  /\ ArrayValue(parts, t, Wire[tv]) = Arr([k \in 1 .. Len(v) |-> PartOf(parts, t, v[k])])
             /\ \A m \in 0 .. Len(Wire[tv]) - 1 : ArrayValue(parts, t, Take(Wire[tv], m)) = Null
<1> DEFINE t == Arg(tv[1])
           v == tv[2]
           n == Len(v)
           bytes == Wire[tv]
           g == [k \in 1 .. n |-> PartOf(parts, t, v[k])]
<1>1. bytes \in Bytes
  BY Kinds
<1>2. /\ n \in Nat /\ n < Huge /\ \A k \in 1 .. n : IsPart(t, v[k])
      /\ n = 0 => bytes = NoneSent
      /\ n # 0 => bytes = ArraySent(t, n, v)
  BY ArrayValueIs
<1> HIDE DEF t, v, bytes
<1>3. Len(bytes) \in Nat /\ Len(bytes) \in 0 .. Len(bytes) /\ Take(bytes, Len(bytes)) = bytes
  BY <1>1, WholeIs
<1>4. ASSUME NEW m \in 0 .. Len(bytes)
      PROVE  /\ m = Len(bytes) => ArrayValue(parts, t, Take(bytes, m)) = Arr(g)
             /\ m # Len(bytes) => ArrayValue(parts, t, Take(bytes, m)) = Null
  <2>1. CASE n = 0
    <3>1. m \in 0 .. Len(NoneSent) /\ bytes = NoneSent
      BY <1>2, <2>1, Zenon
    <3>2. /\ m = Len(NoneSent) => ArrayValue(parts, t, Take(NoneSent, m)) = Arr(<<>>)
          /\ m # Len(NoneSent) => ArrayValue(parts, t, Take(NoneSent, m)) = Null
      BY <3>1, NoElements
    <3>3. g = <<>>
      <4>1. [k \in 1 .. 0 |-> PartOf(parts, t, v[k])] = <<>>
        OBVIOUS
      <4>2. QED
        BY <2>1, <4>1, Zenon
    <3>4. QED
      BY <3>1, <3>2, <3>3, Zenon
  <2>2. CASE n # 0
    <3>1. n \in 1 .. Huge - 1
      <4> HIDE DEF n
      <4>1. QED
        BY <1>2, <2>2, HugeIs
    <3>2. m \in 0 .. Len(ArraySent(t, n, v)) /\ bytes = ArraySent(t, n, v)
      BY <1>2, <2>2, Zenon
    <3> HIDE DEF n
    <3>3. /\ m = Len(ArraySent(t, n, v)) =>
               ArrayValue(parts, t, Take(ArraySent(t, n, v), m)) = Arr([k \in 1 .. n |-> PartOf(parts, t, v[k])])
          /\ m # Len(ArraySent(t, n, v)) => ArrayValue(parts, t, Take(ArraySent(t, n, v), m)) = Null
      BY <1>2, <3>1, <3>2, ArrayIs
    <3>4. QED
      BY <3>2, <3>3, Zenon
  <2>3. QED
    BY <2>1, <2>2
<1>5. ASSUME NEW m \in 0 .. Len(bytes) - 1 PROVE ArrayValue(parts, t, Take(bytes, m)) = Null
  <2>1. m \in 0 .. Len(bytes) /\ m # Len(bytes)
    BY <1>3
  <2>2. QED
    BY <1>4, <2>1
<1>6. ArrayValue(parts, t, bytes) = Arr(g)
  BY <1>3, <1>4, Zenon
<1>7. QED
  BY <1>5, <1>6 DEF t, v, bytes

\* A composite is read field by field; a cut one is null from one field on.
LEMMA CompositeRead ==
  ASSUME NEW parts, NEW tv \in Value, Kind(tv[1]) = "composite"
  PROVE  LET fields == Arg(tv[1])
             v == tv[2]
             n == Len(v)
             g == [k \in 1 .. n |-> PartOf(parts, fields[k], v[k])]
         IN  /\ CompositeFields(parts, fields, Wire[tv]) = Obj(g)
             /\ Wire[tv] # <<>>
             /\ \A m \in 0 .. Len(Wire[tv]) - 1 :
                  \E j \in 0 .. n : CompositeFields(parts, fields, Take(Wire[tv], m)) = Obj(UpTo(g, j, n))
<1> DEFINE fields == Arg(tv[1])
           v == tv[2]
           n == Len(v)
           bytes == Wire[tv]
           g == [k \in 1 .. n |-> PartOf(parts, fields[k], v[k])]
<1>1. bytes \in Bytes
  BY Kinds
<1>2. /\ n \in Nat /\ n < Huge /\ Len(fields) = n /\ \A k \in 1 .. n : IsPart(fields[k], v[k])
      /\ bytes = CompositeSent(fields, n, v)
  BY CompositeValue
<1> HIDE DEF fields, v, n, bytes
<1>3. Len(bytes) \in Nat /\ Len(bytes) \in 0 .. Len(bytes) /\ Len(bytes) - 0 = Len(bytes) /\ Take(bytes, Len(bytes)) = bytes
  BY <1>1, WholeIs
<1>4. ASSUME NEW d \in 0 .. Len(bytes) PROVE CompositeRight(parts, fields, n, v, d)
  BY <1>2, CompositeIs
<1>5. ASSUME NEW d \in 0 .. Len(bytes)
      PROVE  /\ d = 0 => CompositeFields(parts, fields, Take(bytes, Len(bytes) - d)) = Obj(g)
             /\ d # 0 => \E j \in 0 .. n : CompositeFields(parts, fields, Take(bytes, Len(bytes) - d)) = Obj(UpTo(g, j, n))
  <2>1. CompositeRight(parts, fields, n, v, d)
    BY <1>4
  <2>2. QED
    BY <1>2, <2>1, Zenon DEF CompositeRight
<1>6. CompositeFields(parts, fields, bytes) = Obj(g)
  <2>1. 0 \in 0 .. Len(bytes)
    BY <1>3
  <2>2. QED
    BY <1>3, <1>5, <2>1, Zenon
<1>7. ASSUME NEW m \in 0 .. Len(bytes) - 1
      PROVE  \E j \in 0 .. n : CompositeFields(parts, fields, Take(bytes, m)) = Obj(UpTo(g, j, n))
  <2>1. Len(bytes) - m \in 0 .. Len(bytes) /\ Len(bytes) - m # 0 /\ Len(bytes) - (Len(bytes) - m) = m
    <3> DEFINE l == Len(bytes)
    <3>1. l \in Nat /\ m \in 0 .. l - 1
      BY <1>3
    <3> HIDE DEF l, g
    <3>2. l - m \in 0 .. l /\ l - m # 0 /\ l - (l - m) = m
      BY <3>1
    <3>3. QED
      BY <3>2 DEF l
  <2> HIDE DEF g
  <2>2. QED
    BY <1>5, <2>1, Zenon
<1>8. bytes # <<>>
  <2>1. Len(CompositeSent(fields, n, v)) = 4 + Len(FieldsSent(fields, n, v)) /\ Len(FieldsSent(fields, n, v)) \in Nat
    BY <1>2, CompositeInBytes
  <2>2. Len(bytes) # 0
    BY <1>2, <2>1
  <2>3. QED
    BY <2>2
<1>9. QED
  BY <1>6, <1>7, <1>8 DEF fields, v, n, bytes
-----------------------------------------------------------------------------
(* The decoder of what is inside a value, level by level. *)

Lowest == [at \in Types \X Bytes |-> Null]
Above(parts) == [at \in Types \X Bytes |-> KindFromBytes(parts, at[1], at[2])]
Levels(f, m) == f = [n \in 0 .. m |-> IF n = 0 THEN Lowest ELSE Above(f[n - 1])]

\* There are any number of levels.
LEMMA LevelsExist ==
  ASSUME NEW m \in Nat
  PROVE  \E f : Levels(f, m)
<1> DEFINE T == {n \in Nat : ~ \E f : Levels(f, n)}
<1>1. CASE T # {}
  <2>1. PICK n \in T : \A k \in T : n <= k
    BY <1>1, LeastOne
  <2>2. CASE n = 0
    <3> DEFINE f == [k \in 0 .. 0 |-> Lowest]
    <3>1. Levels(f, 0)
      BY DEF Levels
    <3>2. QED
      BY <2>1, <2>2, <3>1
  <2>3. CASE n # 0
    <3>1. n \in Nat /\ n - 1 \in Nat /\ n - 1 \notin T
      BY <2>1, <2>3
    <3>2. PICK g : Levels(g, n - 1)
      BY <3>1
    <3> DEFINE f == [k \in 0 .. n |-> IF k = n THEN Above(g[n - 1]) ELSE g[k]]
    <3>3. f[n - 1] = g[n - 1]
      BY <3>1
    <3>4. \A k \in 0 .. n - 1 : g[k] = IF k = 0 THEN Lowest ELSE Above(g[k - 1])
      BY <3>1, <3>2 DEF Levels
    <3>5. \A k \in 0 .. n : f[k] = IF k = 0 THEN Lowest ELSE Above(f[k - 1])
      BY <2>3, <3>1, <3>3, <3>4
    <3>6. Levels(f, n)
      BY <3>5 DEF Levels
    <3>7. QED
      BY <2>1, <3>6
  <2>4. QED
    BY <2>2, <2>3
<1>2. QED
  BY <1>1

LEMMA DecoderIs ==
  /\ Nesting \in Nat
  /\ \A n \in 1 .. Nesting, t \in Types, b \in Bytes : Decoder[n][<<t, b>>] = KindFromBytes(Decoder[n - 1], t, b)
<1> DEFINE g == CHOOSE f : Levels(f, Nesting)
<1>1. Nesting \in Nat
  BY TypesOK
<1>2. Levels(g, Nesting)
  BY <1>1, LevelsExist
<1> HIDE DEF g
<1>3. g = [n \in 0 .. Nesting |-> [at \in Types \X Bytes |->
                                 IF n = 0 THEN Null ELSE KindFromBytes(g[n - 1], at[1], at[2])]]
  <2>1. ASSUME NEW n \in 0 .. Nesting
        PROVE  (IF n = 0 THEN Lowest ELSE Above(g[n - 1])) =
                 [at \in Types \X Bytes |-> IF n = 0 THEN Null ELSE KindFromBytes(g[n - 1], at[1], at[2])]
    <3>1. CASE n = 0
      BY <3>1, Zenon DEF Lowest
    <3>2. CASE n # 0
      BY <3>2, Zenon DEF Above
    <3>3. QED
      BY <3>1, <3>2
  <2>2. g = [n \in 0 .. Nesting |-> IF n = 0 THEN Lowest ELSE Above(g[n - 1])]
    BY <1>2, Zenon DEF Levels
  <2>3. QED
    BY <2>1, <2>2, Zenon
<1>4. Decoder = [n \in 0 .. Nesting |-> [at \in Types \X Bytes |->
                                       IF n = 0 THEN Null ELSE KindFromBytes(Decoder[n - 1], at[1], at[2])]]
  BY <1>3, Zenon DEF Decoder
<1>5. ASSUME NEW n \in 1 .. Nesting, NEW t \in Types, NEW b \in Bytes
      PROVE  Decoder[n][<<t, b>>] = KindFromBytes(Decoder[n - 1], t, b)
  <2>1. n \in 0 .. Nesting /\ n # 0
    BY <1>1
  <2>2. Decoder[n] = [at \in Types \X Bytes |-> IF n = 0 THEN Null ELSE KindFromBytes(Decoder[n - 1], at[1], at[2])]
    BY <1>4, <2>1, Zenon
  <2>3. <<t, b>> \in Types \X Bytes /\ <<t, b>>[1] = t /\ <<t, b>>[2] = b
    OBVIOUS
  <2>4. QED
    BY <2>1, <2>2, <2>3, Zenon
<1>6. QED
  BY <1>1, <1>5

\* Two decoders that read less deep values alike.
Agree(p, q, d) == \A sv \in Value : Depth[sv[1]] < d => p[<<sv[1], Wire[sv]>>] = q[<<sv[1], Wire[sv]>>]

LEMMA PartsAgree ==
  ASSUME NEW p, NEW q, NEW d, Agree(p, q, d), NEW t, Depth[t] < d, NEW o, IsPart(t, o)
  PROVE  PartOf(p, t, o) = PartOf(q, t, o)
<1>1. CASE o = {}
  BY <1>1, Zenon DEF PartOf
<1>2. CASE o # {}
  <2> DEFINE sv == <<t, The(o)>>
  <2>1. sv \in Value /\ sv[1] = t
    BY <1>2 DEF IsPart
  <2> HIDE DEF sv
  <2>2. p[<<t, Wire[sv]>>] = q[<<t, Wire[sv]>>]
    BY <2>1, Zenon DEF Agree
  <2>3. QED
    BY <1>2, <2>2, Zenon DEF PartOf, sv
<1>3. QED
  BY <1>1, <1>2

\* They read a value alike whose parts they read alike.
LEMMA ReadAlike ==
  ASSUME NEW p, NEW q, NEW tv \in Value, Agree(p, q, Depth[tv[1]])
  PROVE  KindFromBytes(p, tv[1], Wire[tv]) = KindFromBytes(q, tv[1], Wire[tv])
<1> DEFINE t == tv[1]
           v == tv[2]
           n == Len(v)
           d == Depth[t]
<1>1. Kind(t) \in {"simple", "domain", "range", "multirange", "array", "composite"}
  BY Kinds, Zenon
<1>2. CASE Kind(t) \in {"simple", "range", "multirange"}
  BY <1>2, Zenon DEF KindFromBytes
<1>3. CASE Kind(t) = "domain"
  <2> DEFINE sv == <<Arg(t), v>>
  <2>1. sv \in Value /\ Wire[tv] = Wire[sv] /\ Depth[Arg(t)] < d
    BY <1>3, DomainValue
  <2>2. sv[1] = Arg(t)
    OBVIOUS
  <2> HIDE DEF sv
  <2>3. p[<<Arg(t), Wire[tv]>>] = q[<<Arg(t), Wire[tv]>>]
    BY <2>1, <2>2, Zenon DEF Agree
  <2>4. QED
    BY <1>3, <2>3, Zenon DEF KindFromBytes
<1>4. CASE Kind(t) = "array"
  <2> DEFINE e == Arg(t)
  <2>1. Depth[e] < d /\ \A k \in 1 .. n : IsPart(e, v[k])
    BY <1>4, ArrayValueIs, Zenon
  <2>2. ASSUME NEW k \in 1 .. n PROVE PartOf(p, e, v[k]) = PartOf(q, e, v[k])
    <3> DEFINE u == e
               o == v[k]
    <3>1. Agree(p, q, d) /\ Depth[u] < d /\ IsPart(u, o)
      BY <2>1
    <3> HIDE DEF u, o, d
    <3>2. PartOf(p, u, o) = PartOf(q, u, o)
      BY <3>1, PartsAgree
    <3>3. QED
      BY <3>2 DEF u, o
  <2>3. /\ ArrayValue(p, e, Wire[tv]) = Arr([k \in 1 .. n |-> PartOf(p, e, v[k])])
        /\ ArrayValue(q, e, Wire[tv]) = Arr([k \in 1 .. n |-> PartOf(q, e, v[k])])
    BY <1>4, ArrayRead, Zenon
  <2>4. ArrayValue(p, e, Wire[tv]) = ArrayValue(q, e, Wire[tv])
    BY <2>2, <2>3, Zenon
  <2>5. QED
    BY <1>4, <2>4, Zenon DEF KindFromBytes
<1>5. CASE Kind(t) = "composite"
  <2> DEFINE fields == Arg(t)
  <2>1. \A k \in 1 .. n : IsPart(fields[k], v[k]) /\ Depth[fields[k]] < d
    BY <1>5, CompositeValue, Zenon
  <2>2. ASSUME NEW k \in 1 .. n PROVE PartOf(p, fields[k], v[k]) = PartOf(q, fields[k], v[k])
    <3> DEFINE u == fields[k]
               o == v[k]
    <3>1. Agree(p, q, d) /\ Depth[u] < d /\ IsPart(u, o)
      BY <2>1
    <3> HIDE DEF u, o, d
    <3>2. PartOf(p, u, o) = PartOf(q, u, o)
      BY <3>1, PartsAgree
    <3>3. QED
      BY <3>2 DEF u, o
  <2>3. /\ CompositeFields(p, fields, Wire[tv]) = Obj([k \in 1 .. n |-> PartOf(p, fields[k], v[k])])
        /\ CompositeFields(q, fields, Wire[tv]) = Obj([k \in 1 .. n |-> PartOf(q, fields[k], v[k])])
    BY <1>5, CompositeRead, Zenon
  <2>4. CompositeFields(p, fields, Wire[tv]) = CompositeFields(q, fields, Wire[tv])
    BY <2>2, <2>3, Zenon
  <2>5. QED
    BY <1>5, <2>4, Zenon DEF KindFromBytes
<1>6. QED
  BY <1>1, <1>2, <1>3, <1>4, <1>5, Zenon

\* A level above the depth of a value reads it as the level below does.
LEMMA LevelsAgree ==
  ASSUME NEW n \in Nat, n < Nesting
  PROVE  Agree(Decoder[n], Decoder[n + 1], n + 1)
<1> DEFINE T == {m \in Nat : m < Nesting /\ ~Agree(Decoder[m], Decoder[m + 1], m + 1)}
<1>1. ASSUME T # {} PROVE FALSE
  <2>1. PICK m \in T : \A k \in T : m <= k
    BY <1>1, LeastOne
  <2>2. m \in Nat /\ m < Nesting
    BY <2>1
  <2>3. ASSUME NEW sv \in Value, Depth[sv[1]] < m + 1
        PROVE  Decoder[m][<<sv[1], Wire[sv]>>] = Decoder[m + 1][<<sv[1], Wire[sv]>>]
    <3> DEFINE e == Depth[sv[1]]
    <3>1. e \in 1 .. Nesting /\ sv[1] \in Types /\ Wire[sv] \in Bytes
      BY Kinds, Zenon
    <3>2. e < m + 1
      BY <2>3
    <3> HIDE DEF e
    <3>3. /\ m \in 1 .. Nesting /\ m + 1 \in 1 .. Nesting /\ m - 1 \in Nat /\ m - 1 < Nesting
          /\ ~(m <= m - 1) /\ (m - 1) + 1 = m /\ (m + 1) - 1 = m /\ e <= m
      BY <2>2, <3>1, <3>2, DecoderIs
    <3>4. Agree(Decoder[m - 1], Decoder[m], m)
      BY <2>1, <3>3
    <3>5. Agree(Decoder[m - 1], Decoder[m], e)
      <4>1. \A x \in 1 .. Nesting : x < e => x < m
        BY <2>2, <3>1, <3>3
      <4>2. \A uv \in Value : Depth[uv[1]] < e => Depth[uv[1]] < m
        BY <4>1, Kinds, Zenon
      <4>3. QED
        BY <3>4, <4>2, Zenon DEF Agree
    <3>6. KindFromBytes(Decoder[m - 1], sv[1], Wire[sv]) = KindFromBytes(Decoder[m], sv[1], Wire[sv])
      BY <3>5, ReadAlike, Zenon DEF e
    <3>7. Decoder[m][<<sv[1], Wire[sv]>>] = KindFromBytes(Decoder[m - 1], sv[1], Wire[sv])
      BY <3>1, <3>3, DecoderIs, Zenon
    <3>8. Decoder[m + 1][<<sv[1], Wire[sv]>>] = KindFromBytes(Decoder[m], sv[1], Wire[sv])
      BY <3>1, <3>3, DecoderIs, Zenon
    <3>9. QED
      BY <3>6, <3>7, <3>8, Zenon
  <2>4. Agree(Decoder[m], Decoder[m + 1], m + 1)
    BY <2>3, Zenon DEF Agree
  <2>5. QED
    BY <2>1, <2>4
<1>2. QED
  BY <1>1

\* What is inside a value is read by the dispatch on its kind, however deep it is.
LEMMA NestedIs ==
  ASSUME NEW tv \in Value
  PROVE  Nested[<<tv[1], Wire[tv]>>] = KindFromBytes(Nested, tv[1], Wire[tv])
<1> DEFINE d == Depth[tv[1]]
<1>1. d \in 1 .. Nesting /\ tv[1] \in Types /\ Wire[tv] \in Bytes /\ Nesting \in Nat
  BY Kinds, DecoderIs, Zenon
<1> HIDE DEF d
<1>2. Nesting \in 1 .. Nesting /\ Nesting - 1 \in Nat /\ Nesting - 1 < Nesting /\ (Nesting - 1) + 1 = Nesting /\ d <= Nesting
  BY <1>1
<1>3. Decoder[Nesting][<<tv[1], Wire[tv]>>] = KindFromBytes(Decoder[Nesting - 1], tv[1], Wire[tv])
  BY <1>1, <1>2, DecoderIs, Zenon
<1>4. Agree(Decoder[Nesting - 1], Decoder[Nesting], Nesting)
  BY <1>2, LevelsAgree
<1>5. Agree(Decoder[Nesting - 1], Decoder[Nesting], d)
  <2>1. \A x \in 1 .. Nesting : x < d => x < Nesting
    BY <1>1, <1>2
  <2>2. \A uv \in Value : Depth[uv[1]] < d => Depth[uv[1]] < Nesting
    BY <2>1, Kinds, Zenon
  <2>3. QED
    BY <1>4, <2>2, Zenon DEF Agree
<1>6. KindFromBytes(Decoder[Nesting - 1], tv[1], Wire[tv]) = KindFromBytes(Decoder[Nesting], tv[1], Wire[tv])
  BY <1>5, ReadAlike, Zenon DEF d
<1>7. QED
  BY <1>3, <1>6, Zenon DEF Nested
-----------------------------------------------------------------------------
(* What the grid shows. *)

\* The range that is the whole of a buffer.
LEMMA RangeAlone ==
  ASSUME NEW tv \in Value, Kind(tv[1]) = "range", NEW name
  PROVE  RangeOrNull(name, Wire[tv]).val = RangeShown(name, tv[2])
<1> DEFINE v == tv[2]
<1>1. IsRange(v) /\ Wire[tv] = RangeSend(v)
  BY RangeValue
<1> HIDE DEF v
<1>2. <<>> \in Bytes
  BY EmptySeq DEF Bytes
<1>3. RangeSend(v) \in Bytes
  BY <1>1, RangeInBytes
<1> DEFINE x == RangeSend(v)
<1> HIDE DEF x
<1>4. x \o <<>> = x
  BY <1>3, ConcatEmptySeq DEF Bytes, x
<1>5. RangeRight(name, v, <<>>)
  BY <1>1, <1>2, RangeIs
<1>6. QED
  BY <1>1, <1>4, <1>5, Zenon DEF RangeRight, x, v

\* The types that are read inside a value are read in a column.
LEMMA SimpleAlike ==
  ASSUME NEW name \in SimpleType, NEW bytes
  PROVE  SimpleOf(NestedKnows, name, bytes) =
           IF name \in NestedKnows THEN SimpleOf(RowKnows \cup TextLike, name, bytes) ELSE Null
<1>1. name \in RowKnows \cup TextLike
  BY Zenon DEF SimpleType, RowKnows, TextLike
<1>2. CASE name \in NestedKnows
  BY <1>1, <1>2, Zenon DEF SimpleOf, LeafOf
<1>3. CASE name \notin NestedKnows
  BY <1>3, Zenon DEF SimpleOf, LeafOf
<1>4. QED
  BY <1>2, <1>3, Zenon

\* A part is read as it is shown.
LEMMA PartIs ==
  ASSUME NEW t, NEW o, IsPart(t, o)
  PROVE  PartOf(Nested, t, o) = PartShown(t, o)
<1>1. CASE o = {}
  BY <1>1, Zenon DEF PartOf, PartShown
<1>2. CASE o # {}
  <2> DEFINE v == The(o)
             tv == <<t, v>>
             bytes == Wire[tv]
  <2>1. tv \in Value /\ tv[1] = t /\ tv[2] = v
    BY <1>2 DEF IsPart
  <2> HIDE DEF tv, v
  <2>2. PartOf(Nested, t, o) = Nested[<<t, bytes>>]
    BY <1>2, Zenon DEF PartOf, tv, v
  <2>3. Nested[<<t, bytes>>] = KindFromBytes(Nested, t, bytes)
    BY <2>1, NestedIs, Zenon
  <2>4. /\ IsType(t)
        /\ Kind(t) \in {"simple", "domain", "range", "multirange", "array", "composite"}
    BY <2>1, Kinds, Zenon
  <2>5. PartShown(t, o) =
          CASE Kind(t) = "simple" -> IF Arg(t) \in NestedKnows THEN FromColumn(t, bytes) ELSE Null
            [] Kind(t) = "domain" -> Nested[<<Arg(t), bytes>>]
            [] Kind(t) = "range"  -> RangeShown(Arg(t), v)
            [] OTHER              -> FromColumn(t, bytes)
    BY <1>2, Zenon DEF PartShown, tv, v
  <2>6. CASE Kind(t) = "simple"
    <3>1. Arg(t) \in SimpleType
      BY <2>4, <2>6, Zenon DEF IsType
    <3>2. PartShown(t, o) = IF Arg(t) \in NestedKnows THEN FromColumn(t, bytes) ELSE Null
      BY <2>5, <2>6, Zenon
    <3>3. KindFromBytes(Nested, t, bytes) = SimpleOf(NestedKnows, Arg(t), bytes)
      BY <2>6, Zenon DEF KindFromBytes
    <3>4. FromColumn(t, bytes) = SimpleOf(RowKnows \cup TextLike, Arg(t), bytes)
      BY <2>6, Zenon DEF FromColumn
    <3>5. QED
      BY <2>2, <2>3, <3>1, <3>2, <3>3, <3>4, SimpleAlike, Zenon
  <2>7. CASE Kind(t) = "domain"
    <3>1. PartShown(t, o) = Nested[<<Arg(t), bytes>>]
      BY <2>5, <2>7, Zenon
    <3>2. KindFromBytes(Nested, t, bytes) = Nested[<<Arg(t), bytes>>]
      BY <2>7, Zenon DEF KindFromBytes
    <3>3. QED
      BY <2>2, <2>3, <3>1, <3>2, Zenon
  <2>8. CASE Kind(t) = "range"
    <3>1. PartShown(t, o) = RangeShown(Arg(t), v)
      BY <2>5, <2>8, Zenon
    <3>2. KindFromBytes(Nested, t, bytes) = RangeOrNull(Arg(t), bytes).val
      BY <2>8, Zenon DEF KindFromBytes
    <3>3. RangeOrNull(Arg(t), bytes).val = RangeShown(Arg(t), v)
      BY <2>1, <2>8, RangeAlone, Zenon
    <3>4. QED
      BY <2>2, <2>3, <3>1, <3>2, <3>3, Zenon
  <2>9. CASE Kind(t) \in {"multirange", "array", "composite"}
    <3>1. PartShown(t, o) = FromColumn(t, bytes)
      BY <2>5, <2>9, Zenon
    <3>2. KindFromBytes(Nested, t, bytes) = FromColumn(t, bytes)
      <4>1. CASE Kind(t) \in {"multirange", "array"}
        BY <4>1, Zenon DEF KindFromBytes, FromColumn
      <4>2. CASE Kind(t) = "composite"
        <5>1. bytes # <<>>
          BY <2>1, <4>2, CompositeRead, Zenon
        <5>2. QED
          BY <4>2, <5>1, Zenon DEF KindFromBytes, FromColumn
      <4>3. QED
        BY <2>9, <4>1, <4>2, Zenon
    <3>3. QED
      BY <2>2, <2>3, <3>1, <3>2, Zenon
  <2>10. QED
    BY <2>4, <2>6, <2>7, <2>8, <2>9, Zenon
<1>3. QED
  BY <1>1, <1>2

\* A container in a column is read as it is shown.
LEMMA ContainerIs ==
  ASSUME NEW tv \in Value, Kind(tv[1]) \notin {"simple", "domain"}
  PROVE  Misread(tv[1], tv[2]) \/ FromColumn(tv[1], Wire[tv]) = Shown(tv[1], tv[2])
<1> DEFINE t == tv[1]
           v == tv[2]
           n == Len(v)
           bytes == Wire[tv]
<1>1. Kind(t) \in {"range", "multirange", "array", "composite"}
  BY Kinds, Zenon
<1>2. CASE Kind(t) = "range"
  <2>1. FromColumn(t, bytes) = IF Arg(t) \in BuiltInRange THEN RangeOrNull(Arg(t), bytes).val ELSE Null
    BY <1>2, Zenon DEF FromColumn
  <2>2. RangeOrNull(Arg(t), bytes).val = RangeShown(Arg(t), v)
    BY <1>2, RangeAlone, Zenon
  <2>3. Shown(t, v) = IF Arg(t) \in BuiltInRange THEN RangeShown(Arg(t), v) ELSE Null
    BY <1>2, Zenon DEF Shown
  <2>4. CASE Arg(t) \in BuiltInRange
    BY <2>1, <2>2, <2>3, <2>4
  <2>5. CASE Arg(t) \notin BuiltInRange
    BY <2>1, <2>3, <2>5
  <2>6. QED
    BY <2>4, <2>5
<1>3. CASE Kind(t) = "multirange"
  <2>1. ASSUME ~Misread(t, v) PROVE FromColumn(t, bytes) = Shown(t, v)
    <3>1. /\ n \in Nat /\ n < Huge /\ DOMAIN v = 1 .. n
          /\ \A k \in 1 .. n : IsRange(v[k]) /\ Len(RangeSend(v[k])) < Huge
          /\ bytes = MultirangeSent(n, v)
      BY <1>3, MultirangeValue, Zenon
    <3>2. \A k \in 1 .. n - 1 : ~Skewed(Arg(t), v[k])
      BY <1>3, <2>1, Zenon DEF Misread, Skewed
    <3> DEFINE name == Arg(t)
    <3>3. MultirangeOf(name, MultirangeSent(n, v)) = Str("multirange", [k \in 1 .. n |-> RangeShown(name, v[k])])
      <4> HIDE DEF n, v, name
      <4>1. \A k \in 1 .. n - 1 : ~Skewed(name, v[k])
        BY <3>2 DEF name
      <4>2. QED
        BY <3>1, <4>1, MultirangeIs
    <3>4. FromColumn(t, bytes) = MultirangeOf(name, bytes)
      BY <1>3, Zenon DEF FromColumn
    <3>5. Shown(t, v) = Str("multirange", [k \in DOMAIN v |-> RangeShown(name, v[k])])
      BY <1>3, Zenon DEF Shown
    <3>6. QED
      BY <3>1, <3>3, <3>4, <3>5, Zenon
  <2>2. QED
    BY <2>1, Zenon
<1>4. CASE Kind(t) = "array"
  <2> DEFINE e == Arg(t)
  <2>1. DOMAIN v = 1 .. n /\ \A k \in 1 .. n : IsPart(e, v[k])
    BY <1>4, ArrayValueIs, Zenon
  <2>2. FromColumn(t, bytes) = ArrayValue(Nested, e, bytes)
    BY <1>4, Zenon DEF FromColumn
  <2>3. ArrayValue(Nested, e, bytes) = Arr([k \in 1 .. n |-> PartOf(Nested, e, v[k])])
    BY <1>4, ArrayRead, Zenon
  <2>4. \A k \in 1 .. n : PartOf(Nested, e, v[k]) = PartShown(e, v[k])
    BY <2>1, PartIs, Zenon
  <2>5. Shown(t, v) = Arr([k \in DOMAIN v |-> PartShown(e, v[k])])
    BY <1>4, Zenon DEF Shown
  <2>6. QED
    BY <2>1, <2>2, <2>3, <2>4, <2>5, Zenon
<1>5. CASE Kind(t) = "composite"
  <2> DEFINE fields == Arg(t)
  <2>1. DOMAIN v = 1 .. n /\ \A k \in 1 .. n : IsPart(fields[k], v[k])
    BY <1>5, CompositeValue, Zenon
  <2>2. /\ CompositeFields(Nested, fields, bytes) = Obj([k \in 1 .. n |-> PartOf(Nested, fields[k], v[k])])
        /\ bytes # <<>>
    BY <1>5, CompositeRead, Zenon
  <2>3. FromColumn(t, bytes) = CompositeFields(Nested, fields, bytes)
    BY <1>5, <2>2, Zenon DEF FromColumn
  <2>4. \A k \in 1 .. n : PartOf(Nested, fields[k], v[k]) = PartShown(fields[k], v[k])
    BY <2>1, PartIs, Zenon
  <2>5. Shown(t, v) = Obj([k \in DOMAIN v |-> PartShown(fields[k], v[k])])
    BY <1>5, Zenon DEF Shown
  <2>6. QED
    BY <2>1, <2>2, <2>3, <2>4, <2>5, Zenon
<1>6. QED
  BY <1>1, <1>2, <1>3, <1>4, <1>5, Zenon

-----------------------------------------------------------------------------
(* The column and its JSON. *)

\* What the call returns.
Returned == IF Raw = {} THEN Null ELSE FromColumn(Type, The(Raw))

\* The inductive invariant: the column stays, and the JSON is what the call returns.
ColumnInv == column \in Column /\ json \in {Unread, Returned}

LEMMA InvHolds == Spec => []ColumnInv
<1>1. Init => ColumnInv
  BY DEF Init, ColumnInv
<1>2. ColumnInv /\ [Next]_vars => ColumnInv'
  <2>1. SUFFICES ASSUME ColumnInv, [Next]_vars PROVE ColumnInv'
    OBVIOUS
  <2>2. CASE ExtractValue
    <3>1. json' = Returned /\ column' = column
      BY <2>2, Zenon DEF ExtractValue, Returned
    <3>2. Returned' = Returned
      BY <3>1, Zenon DEF Returned, Raw, Type
    <3>3. QED
      BY <2>1, <3>1, <3>2, Zenon DEF ColumnInv
  <2>3. CASE UNCHANGED vars
    <3>1. json' = json /\ column' = column
      BY <2>3 DEF vars
    <3>2. Returned' = Returned
      BY <3>1, Zenon DEF Returned, Raw, Type
    <3>3. QED
      BY <2>1, <3>1, <3>2, Zenon DEF ColumnInv
  <2>4. QED
    BY <2>1, <2>2, <2>3 DEF Next
<1>3. QED
  BY <1>1, <1>2, PTL DEF Spec

\* A column that is not null and was extracted.
LEMMA ColumnIs ==
  ASSUME ColumnInv, Rendered
  PROVE  \E tv \in Value : /\ Kind(tv[1]) # "domain" /\ Type = tv[1] /\ Sent = tv[2]
                           /\ The(Raw) = Wire[tv] /\ json = FromColumn(tv[1], Wire[tv])
<1>1. column[2] # {} /\ json # Unread /\ column \in Column
  BY Zenon DEF Rendered, ColumnInv
<1>2. column \notin {<<t, {}, {}>> : t \in {u \in Types : Kind(u) # "domain"}}
  BY <1>1
<1>3. column \in {<<tv[1], {tv[2]}, {Wire[tv]}>> : tv \in {x \in Value : Kind(x[1]) # "domain"}}
  BY <1>1, <1>2, Zenon DEF Column
<1>4. PICK tv \in Value : Kind(tv[1]) # "domain" /\ column = <<tv[1], {tv[2]}, {Wire[tv]}>>
  BY <1>3
<1> DEFINE t == tv[1]
           v == tv[2]
           bytes == Wire[tv]
<1> HIDE DEF t, v, bytes
<1>5. column = <<t, {v}, {bytes}>>
  BY <1>4 DEF t, v, bytes
<1>6. column[1] = t /\ column[2] = {v} /\ column[3] = {bytes}
  BY <1>5
<1>7. Type = t /\ Raw = {bytes} /\ Raw # {} /\ The(Raw) = bytes /\ Sent = v
  <2>1. Type = t /\ Raw = {bytes} /\ Raw # {}
    BY <1>6 DEF Type, Raw
  <2>2. The({bytes}) = bytes /\ The({v}) = v
    BY TheOne
  <2>3. QED
    BY <1>6, <2>1, <2>2, Zenon DEF Sent
<1>8. json = Returned
  BY <1>1, Zenon DEF ColumnInv
<1>9. json = FromColumn(t, bytes)
  BY <1>7, <1>8, Zenon DEF Returned
<1>10. QED
  BY <1>4, <1>7, <1>9, Zenon DEF t, v, bytes

\* However arrays, composites, domains, ranges and multiranges are nested, every part
\* of a container is shown in its place (extract.rs).
THEOREM ContainersAreRead == Spec => []ContainersRight
<1>1. ColumnInv => ContainersRight
  <2>1. SUFFICES ASSUME ColumnInv, Rendered, Kind(Type) # "simple"
                 PROVE  Misread(Type, Sent) \/ json = Shown(Type, Sent)
    BY Zenon DEF ContainersRight
  <2>2. PICK tv \in Value : /\ Kind(tv[1]) # "domain" /\ Type = tv[1] /\ Sent = tv[2]
                           /\ The(Raw) = Wire[tv] /\ json = FromColumn(tv[1], Wire[tv])
    BY <2>1, ColumnIs
  <2>3. Kind(tv[1]) \notin {"simple", "domain"}
    BY <2>1, <2>2, Zenon
  <2>4. Misread(tv[1], tv[2]) \/ FromColumn(tv[1], Wire[tv]) = Shown(tv[1], tv[2])
    BY <2>3, ContainerIs
  <2>5. QED
    BY <2>2, <2>4, Zenon
<1>2. QED
  BY <1>1, InvHolds, PTL

\* A cut array is null, a cut composite null from one field on (extract.rs).
THEOREM CutsAreShown == Spec => []CutsShown
<1>1. ColumnInv => CutsShown
  <2>1. SUFFICES ASSUME ColumnInv, Rendered, NEW m \in 0 .. Len(The(Raw)) - 1
                 PROVE  \E cut \in {FromColumn(Type, Take(The(Raw), m))} :
                          CASE Kind(Type) = "array"     -> cut = Null
                            [] Kind(Type) = "composite" ->
                                 \/ cut = Null
                                 \/ \E j \in 0 .. Len(Sent) :
                                      \A k \in DOMAIN Sent : cut[2][k] = IF k <= j THEN json[2][k] ELSE Null
                            [] OTHER -> TRUE
    BY Zenon DEF CutsShown
  <2>2. PICK tv \in Value : /\ Kind(tv[1]) # "domain" /\ Type = tv[1] /\ Sent = tv[2]
                           /\ The(Raw) = Wire[tv] /\ json = FromColumn(tv[1], Wire[tv])
    BY <2>1, ColumnIs
  <2> DEFINE t == tv[1]
             v == tv[2]
             n == Len(v)
             bytes == Wire[tv]
             cut == FromColumn(t, Take(bytes, m))
  <2>3. m \in 0 .. Len(bytes) - 1
    BY <2>1, <2>2
  <2>4. CASE Kind(t) = "array"
    <3>1. cut = ArrayValue(Nested, Arg(t), Take(bytes, m))
      BY <2>4, Zenon DEF FromColumn
    <3>2. ArrayValue(Nested, Arg(t), Take(bytes, m)) = Null
      BY <2>3, <2>4, ArrayRead, Zenon
    <3>3. QED
      BY <2>2, <2>4, <3>1, <3>2, Zenon
  <2>5. CASE Kind(t) = "composite"
    <3> DEFINE fields == Arg(t)
               g == [k \in 1 .. n |-> PartOf(Nested, fields[k], v[k])]
    <3>1. DOMAIN v = 1 .. n
      BY <2>5, CompositeValue, Zenon
    <3>2. /\ CompositeFields(Nested, fields, bytes) = Obj(g)
          /\ bytes # <<>>
          /\ \E j \in 0 .. n : CompositeFields(Nested, fields, Take(bytes, m)) = Obj(UpTo(g, j, n))
      BY <2>3, <2>5, CompositeRead, Zenon
    <3>3. json = Obj(g)
      BY <2>2, <2>5, <3>2, Zenon DEF FromColumn
    <3>4. CASE Take(bytes, m) = <<>>
      <4>1. cut = Null
        BY <2>5, <3>4, Zenon DEF FromColumn
      <4>2. QED
        BY <2>2, <2>5, <4>1, Zenon
    <3>5. CASE Take(bytes, m) # <<>>
      <4>1. PICK j \in 0 .. n : CompositeFields(Nested, fields, Take(bytes, m)) = Obj(UpTo(g, j, n))
        BY <3>2
      <4>2. cut = Obj(UpTo(g, j, n))
        BY <2>5, <3>5, <4>1, Zenon DEF FromColumn
      <4>3. Obj(g)[2] = g /\ Obj(UpTo(g, j, n))[2] = UpTo(g, j, n)
        <5> HIDE DEF g
        <5>1. QED
          BY DEF Obj
      <4>4. \A k \in 1 .. n : UpTo(g, j, n)[k] = IF k <= j THEN g[k] ELSE Null
        BY Zenon DEF UpTo
      <4> HIDE DEF cut, g
      <4>5. \A k \in DOMAIN v : cut[2][k] = IF k <= j THEN json[2][k] ELSE Null
        BY <3>1, <3>3, <4>2, <4>3, <4>4, Zenon
      <4>6. QED
        BY <2>2, <2>5, <4>5, ZenonT(60) DEF cut
    <3>6. QED
      BY <3>4, <3>5
  <2>6. CASE Kind(t) \notin {"array", "composite"}
    BY <2>2, <2>6, Zenon
  <2>7. QED
    BY <2>4, <2>5, <2>6, Zenon
<1>2. QED
  BY <1>1, InvHolds, PTL
=============================================================================
