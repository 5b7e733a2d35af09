----------------------------- MODULE QUICProofs -----------------------------
(***************************************************************************)
(* Proofs about the parts of the QUIC path: what rewrites the Initials,    *)
(* what holds them, and the proxy that relays the datagrams of clients.    *)
(*                                                                         *)
(* QUICRewriter, for every number of Initials: the types, the arithmetic   *)
(* of the shift and of its inverse, that no packet number is used twice on *)
(* the wire, and that the client is told of nothing that it has not sent.  *)
(* What remapAck computes is proved by induction over the ranges of a frame *)
(* (RemapIsExact, where each turn of the loop is RemapGoesOn), written with a *)
(* least counterexample.                                                   *)
(*                                                                         *)
(* QUICCollector, for any number of connections, any hellos and any length *)
(* of an encoded packet number.  The collector's fields are what the       *)
(* Initials heard from one connection say they should be; that gives the   *)
(* release, and with the arithmetic of the window (NumberDecoded) the      *)
(* reason for which a hold is given up.                                    *)
(*                                                                         *)
(* QUICProxy, for any clients, any sessions and any limit: types, the      *)
(* bound on held Initials, and that the map is exact, so that the two      *)
(* unconditional deletes of the code are safe; and that it implements      *)
(* FlowTable.                                                              *)
(***************************************************************************)
EXTENDS QUICRewriter, QUICCollector, QUICProxy, FiniteSetTheorems,
        WellFoundedInduction, TLAPS

-----------------------------------------------------------------------------
(* The arithmetic.                                                         *)

\* mapAckPN undoes the shift, and maps both fragments to the packet split.
THEOREM MapInverts ==
  ASSUME NEW first \in Nat, NEW pn \in Nat
  PROVE  /\ pn < first => mapAckPN(pn, first) = pn
         /\ mapAckPN(first, first) = first
         /\ mapAckPN(first + 1, first) = first
         /\ pn > first => mapAckPN(pn + 1, first) = pn
  BY DEF mapAckPN

\* mapAckPN preserves the order of packet numbers, so that a range maps to a
\* range, and maps to the same number the two fragments and nothing else.
THEOREM MapMonotone ==
  ASSUME NEW first \in Nat, NEW a \in Nat, NEW b \in Nat, a < b
  PROVE  /\ mapAckPN(a, first) \in Nat
         /\ mapAckPN(a, first) <= mapAckPN(b, first)
         /\ mapAckPN(a, first) = mapAckPN(b, first) => a = first /\ b = first + 1
  BY DEF mapAckPN

\* A set of naturals that is not empty has a least element: what an induction rests on.
LEMMA LeastNatural ==
  ASSUME NEW T, T \subseteq Nat, T # {}
  PROVE  \E n \in T : \A m \in T : n <= m
<1>1. PICK n \in T : \A m \in T : ~ (<<m, n>> \in OpToRel(<, Nat))
  BY NatLessThanWellFounded, WFMin, Zenon
<1>2. \A m \in T : ~ (m < n)
  BY <1>1 DEF OpToRel
<1> QED BY <1>2

-----------------------------------------------------------------------------
(* The loop of remapAck.                                                   *)

AckRange == [smallest : Nat, largest : Nat]
Image(S, first) == {mapAckPN(n, first) : n \in S}

\* mapped is what remapAck should have after ranges that acknowledge S, the largest
\* first: it can be encoded, and acknowledges exactly the images; its last range
\* begins with the image of the last number.
Remapped(mapped, S, first) ==
  /\ mapped \in Seq(AckRange)
  /\ mapped = << >> <=> S = {}
  /\ Numbers(mapped) = Image(S, first)
  /\ mapped # << >> => Encodable(mapped)
  /\ mapped # << >> => \E bottom \in S :
       /\ \A n \in S : bottom <= n
       /\ mapped[Len(mapped)].smallest = mapAckPN(bottom, first)

\* A range maps to a range (mapAckPN).
LEMMA ImageOfRange ==
  ASSUME NEW first \in Nat, NEW a \in Nat, NEW b \in Nat, a <= b
  PROVE  /\ mapAckPN(a, first) \in Nat /\ mapAckPN(b, first) \in Nat
         /\ mapAckPN(a, first) <= mapAckPN(b, first)
         /\ Image(a..b, first) = mapAckPN(a, first)..mapAckPN(b, first)
<1>1. /\ mapAckPN(a, first) \in Nat /\ mapAckPN(b, first) \in Nat
      /\ mapAckPN(a, first) <= mapAckPN(b, first)
  BY DEF mapAckPN
<1>2. ASSUME NEW n \in a..b PROVE mapAckPN(n, first) \in mapAckPN(a, first)..mapAckPN(b, first)
  BY DEF mapAckPN
<1>3. ASSUME NEW m \in mapAckPN(a, first)..mapAckPN(b, first)
      PROVE  \E n \in a..b : m = mapAckPN(n, first)
  <2>1. CASE m < first
    <3>1. m \in a..b /\ m = mapAckPN(m, first)
      BY <2>1 DEF mapAckPN
    <3> QED BY <3>1
  <2>2. CASE m = first /\ a <= first
    <3>1. first \in a..b /\ m = mapAckPN(first, first)
      BY <2>2 DEF mapAckPN
    <3> QED BY <3>1
  <2>3. CASE m = first /\ a > first
    <3>1. a = first + 1 /\ m = mapAckPN(a, first)
      BY <2>3 DEF mapAckPN
    <3> QED BY <3>1
  <2>4. CASE m > first
    <3>1. m + 1 \in a..b /\ m = mapAckPN(m + 1, first)
      BY <2>4 DEF mapAckPN
    <3> QED BY <3>1
  <2> QED BY <1>1, <2>1, <2>2, <2>3, <2>4
<1> QED BY <1>1, <1>2, <1>3 DEF Image

\* A range that is added at the end of a frame adds its numbers.
LEMMA NumbersAppend ==
  ASSUME NEW mapped \in Seq(AckRange), NEW r \in AckRange
  PROVE  Numbers(Append(mapped, r)) = Numbers(mapped) \cup (r.smallest..r.largest)
BY DEF Numbers

\* A range that is extended downwards.
LEMMA Extended ==
  ASSUME NEW mapped \in Seq(AckRange), NEW n \in DOMAIN mapped, NEW low
  PROVE  /\ DOMAIN [mapped EXCEPT ![n].smallest = low] = DOMAIN mapped
         /\ [mapped EXCEPT ![n].smallest = low][n].smallest = low
         /\ [mapped EXCEPT ![n].smallest = low][n].largest = mapped[n].largest
         /\ \A i \in DOMAIN mapped : i # n => [mapped EXCEPT ![n].smallest = low][i] = mapped[i]
<1>1. mapped[n] \in AckRange
  OBVIOUS
<1>2. DOMAIN mapped[n] = {"smallest", "largest"}
  BY <1>1 DEF AckRange
<1> QED BY <1>2

\* One that extends the last downwards adds the numbers below that.
LEMMA NumbersExtend ==
  ASSUME NEW mapped \in Seq(AckRange), mapped # << >>, NEW low \in Nat,
         low <= mapped[Len(mapped)].smallest,
         mapped[Len(mapped)].smallest <= mapped[Len(mapped)].largest
  PROVE  LET n == Len(mapped)
         IN Numbers([mapped EXCEPT ![n].smallest = low]) = Numbers(mapped) \cup (low..mapped[n].smallest)
<1> DEFINE n == Len(mapped)
           longer == [mapped EXCEPT ![n].smallest = low]
<1>1. n \in DOMAIN mapped /\ DOMAIN longer = DOMAIN mapped /\ mapped[n] \in AckRange
  OBVIOUS
<1>2. /\ longer[n].smallest = low /\ longer[n].largest = mapped[n].largest
      /\ \A i \in DOMAIN mapped : i # n => longer[i] = mapped[i]
  BY <1>1, Extended
<1>3. low..mapped[n].largest = (low..mapped[n].smallest) \cup (mapped[n].smallest..mapped[n].largest)
  BY <1>1 DEF AckRange
<1> HIDE DEF longer, n
<1>4. Numbers(longer) = Numbers(mapped) \cup (low..mapped[n].smallest)
  BY <1>1, <1>2, <1>3 DEF Numbers
<1> QED BY <1>4 DEF longer, n

\* Each turn of the loop does what it should, for any frame and any packet that was
\* split, whether or not the gap between two ranges closes.
THEOREM RemapGoesOn ==
  ASSUME NEW first \in Nat, NEW S \in SUBSET Nat, NEW mapped, Remapped(mapped, S, first),
         NEW r \in AckRange, r.smallest <= r.largest, \A n \in S : r.largest + 1 < n
  PROVE  Remapped(remapRange(mapped, r, first), S \cup (r.smallest..r.largest), first)
<1> DEFINE low == mapAckPN(r.smallest, first)
           high == mapAckPN(r.largest, first)
           T == S \cup (r.smallest..r.largest)
           n == Len(mapped)
           current == [smallest |-> low, largest |-> high]
<1>1. r.smallest \in Nat /\ r.largest \in Nat
  BY DEF AckRange
<1>2. low \in Nat /\ high \in Nat /\ low <= high /\ Image(r.smallest..r.largest, first) = low..high
  BY <1>1, ImageOfRange
<1>3. Image(T, first) = Numbers(mapped) \cup (low..high)
  BY <1>2 DEF Image, Remapped
<1>4. r.smallest \in T /\ T # {} /\ \A m \in T : r.smallest <= m
  BY <1>1
<1>5. mapped \in Seq(AckRange) /\ current \in AckRange /\ n \in Nat
  BY <1>2 DEF Remapped, AckRange
<1>6. CASE n > 0 /\ high + 1 >= mapped[n].smallest
  <2>1. PICK bottom \in S : mapped[n].smallest = mapAckPN(bottom, first)
    BY <1>5, <1>6 DEF Remapped
  <2>2. mapped # << >> /\ Encodable(mapped) /\ mapped[n] \in AckRange /\ n \in DOMAIN mapped
    BY <1>5, <1>6 DEF Remapped
  <2>3. mapped[n].smallest \in Nat /\ mapped[n].largest \in Nat /\ mapped[n].smallest <= mapped[n].largest
    BY <2>2 DEF Encodable, AckRange
  <2>4. high <= mapped[n].smallest /\ high # mapped[n].smallest
    <3>1. bottom \in Nat /\ r.largest + 1 < bottom
      OBVIOUS
    <3>2. high <= mapAckPN(bottom, first) /\ high # mapAckPN(bottom, first)
      BY <1>1, <3>1, MapMonotone
    <3> QED BY <2>1, <3>2
  <2>5. low < mapped[n].smallest
    BY <1>2, <2>3, <2>4
  <2> DEFINE longer == [mapped EXCEPT ![n].smallest = low]
  <2>6. remapRange(mapped, r, first) = longer
    BY <1>6, <2>5 DEF remapRange
  <2>7. longer \in Seq(AckRange) /\ longer # << >> /\ Len(longer) = n
    <3>1. [mapped[n] EXCEPT !.smallest = low] \in AckRange
      BY <1>2, <2>2 DEF AckRange
    <3>2. longer = [mapped EXCEPT ![n] = [mapped[n] EXCEPT !.smallest = low]]
      OBVIOUS
    <3> HIDE DEF AckRange, low, longer
    <3>3. longer \in Seq(AckRange) /\ Len(longer) = n
      BY <1>5, <2>2, <3>1, <3>2
    <3> QED BY <1>5, <1>6, <3>3
  <2>8. Numbers(longer) = Numbers(mapped) \cup (low..mapped[n].smallest)
    BY <1>2, <1>5, <2>2, <2>3, <2>5, NumbersExtend
  <2>9. low..mapped[n].smallest = (low..high) \cup {mapped[n].smallest}
    BY <1>2, <1>6, <2>3, <2>4
  <2>10. mapped[n].smallest \in Numbers(mapped)
    BY <2>2, <2>3 DEF Numbers
  <2>11. /\ DOMAIN longer = DOMAIN mapped /\ DOMAIN mapped = 1..n
         /\ longer[n].smallest = low /\ longer[n].largest = mapped[n].largest
         /\ \A i \in 1..n : i # n => longer[i] = mapped[i]
    <3>1. n \in DOMAIN mapped /\ DOMAIN mapped = 1..n
      BY <1>5, <2>2
    <3> HIDE DEF n, low
    <3> QED BY <3>1, Extended
  <2>12. Encodable(longer)
    <3>1. \A i \in 1..n : longer[i].largest = mapped[i].largest
      BY <2>11
    <3>2. \A i \in 1..n : longer[i].smallest <= longer[i].largest
      BY <1>2, <2>2, <2>3, <2>5, <2>11 DEF Encodable
    <3>3. \A i \in 2..n : longer[i - 1].smallest = mapped[i - 1].smallest
      BY <1>5, <2>11
    <3>4. \A i \in 2..n : mapped[i].largest + 2 <= mapped[i - 1].smallest
      BY <2>2, <2>11 DEF Encodable
    <3> HIDE DEF longer
    <3>5. \A i \in 2..n : longer[i].largest + 2 <= longer[i - 1].smallest
      <4>1. TAKE i \in 2..n
      <4>2. i \in 1..n
        BY <1>5
      <4> QED BY <3>1, <3>3, <3>4, <4>2
    <3> QED BY <2>7, <3>2, <3>5 DEF Encodable
  <2> HIDE DEF longer, low, high, T
  <2>13. Numbers(longer) = Image(T, first)
    BY <1>3, <2>8, <2>9, <2>10
  <2>14. Remapped(longer, T, first)
    <3>1. \E b \in T : (\A m \in T : b <= m) /\ longer[Len(longer)].smallest = mapAckPN(b, first)
      <4>1. longer[Len(longer)].smallest = longer[Len(mapped)].smallest
        BY <2>7, Zenon
      <4>2. longer[Len(longer)].smallest = mapAckPN(r.smallest, first)
        BY <2>11, <4>1, Zenon DEF low
      <4> QED BY <1>4, <4>2
    <3> QED BY <1>4, <2>7, <2>12, <2>13, <3>1 DEF Remapped
  <2> QED BY <2>6, <2>14 DEF T
<1>7. CASE ~(n > 0 /\ high + 1 >= mapped[n].smallest)
  <2> DEFINE more == Append(mapped, current)
  <2>1. remapRange(mapped, r, first) = more
    BY <1>7 DEF remapRange
  <2>2. /\ more \in Seq(AckRange) /\ more # << >> /\ Len(more) = n + 1
        /\ more[n + 1] = current /\ \A i \in 1..n : more[i] = mapped[i]
    BY <1>5
  <2>3. Numbers(more) = Numbers(mapped) \cup (low..high)
    BY <1>5, NumbersAppend
  <2>4. n > 0 => Encodable(mapped) /\ mapped[n].smallest \in Nat
    <3>1. n > 0 => mapped # << >> /\ mapped[n] \in AckRange
      BY <1>5
    <3> QED BY <3>1 DEF Remapped, AckRange
  <2>5. Encodable(more)
    <3>1. \A i \in 1..n + 1 : more[i].smallest <= more[i].largest
      <4>1. \A i \in 1..n : mapped[i].smallest <= mapped[i].largest
        BY <1>5, <2>4 DEF Encodable
      <4>2. current.smallest <= current.largest
        BY <1>2
      <4> HIDE DEF more
      <4> QED BY <1>5, <2>2, <4>1, <4>2
    <3>2. \A i \in 2..n + 1 : more[i].largest + 2 <= more[i - 1].smallest
      <4>1. \A i \in 2..n : mapped[i].largest + 2 <= mapped[i - 1].smallest
        BY <1>5, <2>4 DEF Encodable
      <4>2. n > 0 => current.largest + 2 <= mapped[n].smallest
        BY <1>2, <1>7, <2>4
      <4> HIDE DEF more
      <4>3. ASSUME NEW i \in 2..n + 1 PROVE more[i].largest + 2 <= more[i - 1].smallest
        <5>1. CASE i = n + 1
          BY <1>5, <2>2, <4>2, <5>1
        <5>2. CASE i \in 2..n
          BY <1>5, <2>2, <4>1, <5>2
        <5> QED BY <1>5, <5>1, <5>2
      <4> QED BY <4>3
    <3> HIDE DEF more
    <3> QED BY <2>2, <3>1, <3>2 DEF Encodable
  <2>6. more[Len(more)].smallest = low
    BY <2>2
  <2> HIDE DEF more, low, high, T
  <2>7. Remapped(more, T, first)
    BY <1>3, <1>4, <2>2, <2>3, <2>5, <2>6 DEF Remapped, low
  <2> QED BY <2>1, <2>7 DEF T
<1> QED BY <1>6, <1>7

\* The loop has run: there is a function whose values are what remapAck has made after
\* each range, and remapAck gives the last of them.
LEMMA RemapRuns ==
  ASSUME NEW ranges \in Seq(AckRange), NEW first
  PROVE  \E mapped :
           /\ mapped = [i \in 0..Len(ranges) |->
                IF i = 0 THEN << >> ELSE remapRange(mapped[i - 1], ranges[i], first)]
           /\ remapAck(ranges, first) = mapped[Len(ranges)]
<1> DEFINE Run(f, n) == f = [i \in 0..n |->
                          IF i = 0 THEN << >> ELSE remapRange(f[i - 1], ranges[i], first)]
           T == {n \in Nat : ~ \E f : Run(f, n)}
<1>1. T = {}
  <2>1. SUFFICES ASSUME T # {} PROVE FALSE
    OBVIOUS
  <2>2. PICK n \in T : \A m \in T : n <= m
    <3>1. T \subseteq Nat
      OBVIOUS
    <3> HIDE DEF T
    <3> QED BY <2>1, <3>1, LeastNatural
  <2>3. n # 0
    <3>1. Run([i \in 0..0 |-> << >>], 0)
      OBVIOUS
    <3> QED BY <2>2, <3>1
  <2>4. n \in Nat /\ n - 1 \in Nat /\ n - 1 \notin T
    <3>1. n \in Nat
      BY <2>2
    <3> HIDE DEF T
    <3> QED BY <2>2, <2>3, <3>1
  <2>5. PICK g : Run(g, n - 1)
    BY <2>4
  <2> DEFINE f == [i \in 0..n |-> IF i = n THEN remapRange(g[n - 1], ranges[n], first) ELSE g[i]]
  <2>6. ASSUME NEW i \in 0..n
        PROVE  f[i] = IF i = 0 THEN << >> ELSE remapRange(f[i - 1], ranges[i], first)
    <3>1. CASE i = n
      <4>1. f[n - 1] = g[n - 1] /\ f[n] = remapRange(g[n - 1], ranges[n], first)
        BY <2>3, <2>4
      <4> QED BY <2>3, <3>1, <4>1
    <3>2. CASE i # n
      <4>1. i \in 0..n - 1 /\ f[i] = g[i]
        BY <2>4, <3>2
      <4>2. g[i] = IF i = 0 THEN << >> ELSE remapRange(g[i - 1], ranges[i], first)
        BY <2>5, <4>1
      <4>3. i # 0 => f[i - 1] = g[i - 1]
        BY <2>4, <3>2
      <4> QED BY <4>1, <4>2, <4>3
    <3> QED BY <3>1, <3>2
  <2>7. Run(f, n)
    BY <2>6
  <2> QED BY <2>2, <2>7
<1>2. Len(ranges) \in Nat
  OBVIOUS
<1>3. \E f : Run(f, Len(ranges))
  BY <1>1, <1>2
<1> QED BY <1>3 DEF remapAck

\* What the first n ranges of a frame acknowledge.
Upto(ranges, n) == UNION {ranges[i].smallest..ranges[i].largest : i \in 1..n}

LEMMA UptoGrows ==
  ASSUME NEW ranges, NEW n \in Nat
  PROVE  /\ Upto(ranges, 0) = {}
         /\ Upto(ranges, n + 1) = Upto(ranges, n) \cup (ranges[n + 1].smallest..ranges[n + 1].largest)
<1>1. 1..0 = {} /\ 1..n + 1 = (1..n) \cup {n + 1}
  OBVIOUS
<1> QED BY <1>1 DEF Upto

\* For any frame that the server may send and any packet that was split, remapAck gives
\* one that can be encoded again and acknowledges exactly the images.
THEOREM RemapIsExact ==
  ASSUME NEW first \in Nat, NEW ranges \in Seq(AckRange), Encodable(ranges)
  PROVE  /\ Encodable(remapAck(ranges, first))
         /\ Numbers(remapAck(ranges, first)) = Image(Numbers(ranges), first)
<1>1. PICK mapped :
        /\ mapped = [i \in 0..Len(ranges) |->
             IF i = 0 THEN << >> ELSE remapRange(mapped[i - 1], ranges[i], first)]
        /\ remapAck(ranges, first) = mapped[Len(ranges)]
  BY RemapRuns
<1>2. /\ mapped[0] = << >>
      /\ \A i \in 1..Len(ranges) : mapped[i] = remapRange(mapped[i - 1], ranges[i], first)
  <2> DEFINE turn(i) == IF i = 0 THEN << >> ELSE remapRange(mapped[i - 1], ranges[i], first)
  <2>1. mapped = [i \in 0..Len(ranges) |-> turn(i)]
    BY <1>1
  <2> HIDE DEF turn
  <2>2. \A i \in 0..Len(ranges) : mapped[i] = turn(i)
    BY <2>1
  <2>3. 0 \in 0..Len(ranges) /\ \A i \in 1..Len(ranges) : i \in 0..Len(ranges) /\ i # 0
    OBVIOUS
  <2> QED BY <2>2, <2>3 DEF turn
<1>3. Len(ranges) \in Nat \ {0} /\ DOMAIN ranges = 1..Len(ranges)
  BY DEF Encodable
<1>4. ASSUME NEW i \in 1..Len(ranges)
      PROVE  /\ ranges[i] \in AckRange /\ ranges[i].smallest \in Nat /\ ranges[i].largest \in Nat
             /\ ranges[i].smallest <= ranges[i].largest
             /\ i > 1 => ranges[i].largest + 2 <= ranges[i - 1].smallest
  <2>1. i > 1 => i \in 2..Len(ranges)
    OBVIOUS
  <2>2. i > 1 => ranges[i].largest + 2 <= ranges[i - 1].smallest
    BY <2>1 DEF Encodable
  <2>3. ranges[i] \in AckRange /\ ranges[i].smallest <= ranges[i].largest
    BY <1>3 DEF Encodable
  <2> QED BY <2>2, <2>3 DEF AckRange
<1> DEFINE P(n) == /\ Remapped(mapped[n], Upto(ranges, n), first)
                   /\ Upto(ranges, n) \subseteq Nat
                   /\ n > 0 => \A m \in Upto(ranges, n) : ranges[n].smallest <= m
           T == {n \in Nat : n <= Len(ranges) /\ ~P(n)}
<1>5. P(0)
  <2>1. Numbers(<< >>) = {} /\ Image({}, first) = {} /\ << >> \in Seq(AckRange)
    BY DEF Numbers, Image
  <2> QED BY <1>2, <2>1, UptoGrows DEF Remapped
<1>6. ASSUME NEW n \in Nat, n < Len(ranges), P(n) PROVE P(n + 1)
  <2>1. n + 1 \in 1..Len(ranges) /\ mapped[n + 1] = remapRange(mapped[n], ranges[n + 1], first)
    BY <1>2, <1>3, <1>6
  <2> DEFINE r == ranges[n + 1]
  <2>2. r \in AckRange /\ r.smallest \in Nat /\ r.largest \in Nat /\ r.smallest <= r.largest
    BY <1>4, <2>1
  <2>3. \A m \in Upto(ranges, n) : r.largest + 1 < m
    <3>1. CASE n = 0
      BY <3>1, UptoGrows
    <3>2. CASE n > 0
      <4>1. n \in 1..Len(ranges) /\ ranges[n].smallest \in Nat /\ r.largest + 2 <= ranges[n].smallest
        BY <1>4, <2>1, <3>2
      <4> QED BY <1>6, <2>2, <3>2, <4>1
    <3> QED BY <3>1, <3>2
  <2>4. Upto(ranges, n + 1) = Upto(ranges, n) \cup (r.smallest..r.largest)
    BY UptoGrows
  <2>5. Remapped(mapped[n + 1], Upto(ranges, n + 1), first)
    <3>1. Upto(ranges, n) \in SUBSET Nat /\ Remapped(mapped[n], Upto(ranges, n), first)
      BY <1>6
    <3> HIDE DEF r
    <3>2. Remapped(remapRange(mapped[n], r, first), Upto(ranges, n) \cup (r.smallest..r.largest), first)
      BY <2>2, <2>3, <3>1, RemapGoesOn
    <3> QED BY <2>1, <2>4, <3>2 DEF r
  <2>6. \A m \in Upto(ranges, n + 1) : m \in Nat /\ r.smallest <= m
    BY <1>6, <2>2, <2>3, <2>4
  <2> QED BY <2>5, <2>6
<1>7. T = {}
  <2>1. SUFFICES ASSUME T # {} PROVE FALSE
    OBVIOUS
  <2> HIDE DEF P
  <2>2. PICK n \in T : \A m \in T : n <= m
    <3>1. T \subseteq Nat
      OBVIOUS
    <3> HIDE DEF T
    <3> QED BY <2>1, <3>1, LeastNatural
  <2>3. n \in Nat /\ n <= Len(ranges) /\ ~P(n)
    BY <2>2
  <2>4. n # 0
    BY <1>5, <2>3
  <2>5. n - 1 \in Nat /\ n - 1 < Len(ranges) /\ n - 1 \notin T
    <3> HIDE DEF T
    <3> QED BY <1>3, <2>2, <2>3, <2>4
  <2>6. P(n - 1)
    BY <1>3, <2>5
  <2>7. P(n - 1 + 1)
    BY <1>6, <2>5, <2>6
  <2>8. n - 1 + 1 = n
    BY <2>3
  <2> QED BY <2>3, <2>7, <2>8
<1>8. P(Len(ranges))
  <2> HIDE DEF P
  <2> QED BY <1>3, <1>7
<1>9. Upto(ranges, Len(ranges)) = Numbers(ranges)
  BY <1>3 DEF Upto, Numbers
<1>10. Numbers(ranges) # {}
  <2>1. ranges[1].smallest \in ranges[1].smallest..ranges[1].largest /\ 1 \in DOMAIN ranges
    BY <1>3, <1>4
  <2> QED BY <2>1 DEF Numbers
<1> QED BY <1>1, <1>8, <1>9, <1>10 DEF Remapped

\* How many are above one of finitely many numbers: as many as there are numbers, from
\* 0 on, each once, and fewer for a larger one.
Above(tops, n) == {m \in tops : m > n}

LEMMA Ranks ==
  ASSUME NEW bound \in Nat, NEW tops, tops \subseteq 0..bound
  PROVE  /\ Cardinality(tops) \in Nat
         /\ tops # {} => Cardinality(tops) > 0
         /\ \A n \in tops : Cardinality(Above(tops, n)) \in 0..Cardinality(tops) - 1
         /\ \A m, n \in tops : m < n => Cardinality(Above(tops, n)) < Cardinality(Above(tops, m))
         /\ \A i \in 1..Cardinality(tops) : \E n \in tops : Cardinality(Above(tops, n)) = i - 1
<1>1. IsFiniteSet(tops)
  <2>1. IsFiniteSet(0..bound) /\ tops \in SUBSET (0..bound)
    BY FS_Interval
  <2> QED BY <2>1, FS_Subset
<1>2. Cardinality(tops) \in Nat /\ (tops # {} => Cardinality(tops) > 0)
  BY <1>1, FS_CardinalityType, FS_EmptySet
<1>3. ASSUME NEW n \in tops
      PROVE  /\ IsFiniteSet(Above(tops, n)) /\ Cardinality(Above(tops, n)) \in Nat
             /\ Cardinality(Above(tops, n)) < Cardinality(tops)
  <2>1. Above(tops, n) \in SUBSET tops /\ n \notin Above(tops, n)
    BY DEF Above
  <2>2. /\ IsFiniteSet(Above(tops, n)) /\ Cardinality(Above(tops, n)) <= Cardinality(tops)
        /\ Cardinality(tops) = Cardinality(Above(tops, n)) => tops = Above(tops, n)
    BY <1>1, <2>1, FS_Subset
  <2>3. Cardinality(Above(tops, n)) \in Nat
    BY <2>2, FS_CardinalityType
  <2> QED BY <1>2, <2>1, <2>2, <2>3
<1>4. ASSUME NEW m \in tops, NEW n \in tops, m < n
      PROVE  Cardinality(Above(tops, n)) < Cardinality(Above(tops, m))
  <2>1. Above(tops, n) \in SUBSET Above(tops, m) /\ n \in Above(tops, m) /\ n \notin Above(tops, n)
    <3>1. m \in Nat /\ n \in Nat /\ \A k \in tops : k \in Nat
      OBVIOUS
    <3>2. \A k \in tops : k > n => k > m
      BY <1>4, <3>1
    <3>3. n > m /\ ~ (n > n)
      BY <1>4, <3>1
    <3> QED BY <3>2, <3>3 DEF Above
  <2>2. /\ Cardinality(Above(tops, n)) <= Cardinality(Above(tops, m))
        /\ Cardinality(Above(tops, m)) = Cardinality(Above(tops, n)) => Above(tops, m) = Above(tops, n)
    BY <1>3, <2>1, FS_Subset
  <2> QED BY <1>3, <2>1, <2>2
<1>5. \A i \in 1..Cardinality(tops) : \E n \in tops : Cardinality(Above(tops, n)) = i - 1
  <2> DEFINE places == 0..Cardinality(tops) - 1
             rank == [n \in tops |-> Cardinality(Above(tops, n))]
  <2>1. rank \in [tops -> places]
    BY <1>2, <1>3
  <2>2. ASSUME NEW m \in tops, NEW n \in tops, rank[m] = rank[n] PROVE m = n
    <3>1. m \in Nat /\ n \in Nat /\ (m < n \/ n < m \/ m = n)
      OBVIOUS
    <3>2. ~ (m < n) /\ ~ (n < m)
      BY <1>3, <1>4, <2>2
    <3> QED BY <3>1, <3>2
  <2>3. rank \in Injection(tops, places)
    <3> HIDE DEF rank, places
    <3> QED BY <2>1, <2>2 DEF Injection, IsInjective
  <2>4. IsFiniteSet(places) /\ Cardinality(places) = Cardinality(tops)
    BY <1>2, FS_Interval
  <2>5. rank \in Surjection(tops, places)
    <3> HIDE DEF rank, places
    <3> QED BY <2>3, <2>4, FS_Injection
  <2>6. \A k \in places : \E n \in tops : rank[n] = k
    <3> HIDE DEF rank, places
    <3> QED BY <2>5 DEF Surjection
  <2> QED BY <1>2, <2>6
<1> QED BY <1>2, <1>3, <1>4, <1>5

\* The frame of the server: its ranges can be encoded, and acknowledge what they are for.
LEMMA RangesOf ==
  ASSUME NEW bound \in Nat, NEW S, S \subseteq 0..bound, S # {}
  PROVE  Ranges(S) \in Seq(AckRange) /\ Encodable(Ranges(S)) /\ Numbers(Ranges(S)) = S
<1> DEFINE tops == {n \in S : n + 1 \notin S}
           Bottom(n) == CHOOSE b \in 0..n : (b..n \subseteq S) /\ (b = 0 \/ b - 1 \notin S)
           top(i) == CHOOSE n \in tops : Cardinality({m \in tops : m > n}) = i - 1
           count == Cardinality(tops)
<1>1. (\A n \in S : n \in Nat) /\ S \subseteq Nat /\ tops \subseteq S /\ tops \subseteq 0..bound
  <2>1. tops \subseteq S
    OBVIOUS
  <2>2. \A n \in S : n \in Nat
    OBVIOUS
  <2> HIDE DEF tops
  <2> QED BY <2>1, <2>2
<1>2. ASSUME NEW n \in S PROVE \E t \in tops : n <= t /\ n..t \subseteq S
  <2> DEFINE missing == {m \in Nat : n < m /\ m \notin S}
  <2>1. bound + 1 \in missing /\ missing \subseteq Nat
    OBVIOUS
  <2>2. PICK m \in missing : \A k \in missing : m <= k
    <3> HIDE DEF missing
    <3> QED BY <2>1, LeastNatural
  <2>3. n \in Nat /\ m \in Nat /\ n < m /\ m \notin S
    BY <1>1, <2>2
  <2>4. ASSUME NEW k \in n..m - 1 PROVE k \in S
    <3>1. k = n \/ (k \in Nat /\ n < k /\ k < m)
      BY <2>3
    <3> QED BY <2>2, <2>3, <3>1
  <2>5. m - 1 \in S /\ m - 1 + 1 = m /\ n <= m - 1
    BY <2>3, <2>4
  <2> QED BY <2>3, <2>4, <2>5
<1>3. ASSUME NEW n \in S
      PROVE  /\ Bottom(n) \in Nat /\ Bottom(n) <= n /\ Bottom(n)..n \subseteq S
             /\ Bottom(n) = 0 \/ Bottom(n) - 1 \notin S
  <2> DEFINE starts == {b \in Nat : b <= n /\ b..n \subseteq S}
  <2>1. n \in starts /\ starts \subseteq Nat /\ n \in Nat
    BY <1>1
  <2>2. PICK b \in starts : \A k \in starts : b <= k
    <3> HIDE DEF starts
    <3> QED BY <2>1, LeastNatural
  <2>3. b \in Nat /\ n \in Nat /\ b <= n /\ b..n \subseteq S
    BY <2>1, <2>2
  <2>4. b = 0 \/ b - 1 \notin S
    <3>1. SUFFICES ASSUME b # 0, b - 1 \in S PROVE FALSE
      OBVIOUS
    <3>2. b - 1..n \subseteq S /\ b - 1 <= n /\ b - 1 \in Nat
      BY <2>3, <3>1
    <3> QED BY <2>2, <2>3, <3>2
  <2>5. \E k \in 0..n : (k..n \subseteq S) /\ (k = 0 \/ k - 1 \notin S)
    BY <2>3, <2>4
  <2>6. Bottom(n) \in 0..n /\ (Bottom(n)..n \subseteq S) /\ (Bottom(n) = 0 \/ Bottom(n) - 1 \notin S)
    BY <2>5
  <2> HIDE DEF Bottom
  <2> QED BY <2>3, <2>6
<1>4. ASSUME NEW i \in 1..count
      PROVE  top(i) \in tops /\ Cardinality(Above(tops, top(i))) = i - 1
  <2>1. \E n \in tops : Cardinality(Above(tops, n)) = i - 1
    <3> HIDE DEF tops
    <3> QED BY <1>1, Ranks
  <2> HIDE DEF tops
  <2> QED BY <2>1 DEF Above
<1>5. count \in Nat
  <2> HIDE DEF tops
  <2> QED BY <1>1, Ranks
<1> DEFINE frame == [i \in 1..count |-> [smallest |-> Bottom(top(i)), largest |-> top(i)]]
<1>6. Ranges(S) = frame
  BY DEF Ranges
<1>7. tops # {} /\ count > 0
  <2>1. tops # {}
    BY <1>2
  <2> HIDE DEF tops
  <2> QED BY <1>1, <2>1, Ranks
<1> HIDE DEF tops, Bottom, top, count
<1>8. ASSUME NEW i \in 1..count
      PROVE  /\ frame[i] \in AckRange /\ frame[i].largest = top(i) /\ frame[i].smallest = Bottom(top(i))
             /\ top(i) \in S /\ top(i) \in Nat /\ Bottom(top(i)) \in Nat /\ Bottom(top(i)) <= top(i)
  <2>1. top(i) \in S
    BY <1>1, <1>4
  <2> QED BY <1>1, <1>3, <2>1 DEF AckRange
<1>9. frame \in Seq(AckRange) /\ Len(frame) = count /\ DOMAIN frame = 1..count /\ frame # << >>
  <2>1. frame \in [1..count -> AckRange]
    BY <1>8
  <2> HIDE DEF frame
  <2> QED BY <1>5, <1>7, <2>1
<1>10. ASSUME NEW i \in 2..count PROVE frame[i].largest + 2 <= frame[i - 1].smallest
  <2>1. i \in 1..count /\ i - 1 \in 1..count
    BY <1>5
  <2>2. Cardinality(Above(tops, top(i))) = i - 1 /\ Cardinality(Above(tops, top(i - 1))) = i - 2
    BY <1>4, <2>1
  <2>3. top(i) \in tops /\ top(i - 1) \in tops /\ top(i) \in Nat /\ top(i - 1) \in Nat
    BY <1>4, <1>8, <2>1
  <2>4. ~ (top(i - 1) < top(i)) /\ top(i) # top(i - 1)
    <3>1. top(i - 1) < top(i) => Cardinality(Above(tops, top(i))) < Cardinality(Above(tops, top(i - 1)))
      BY <1>1, <2>3, Ranks
    <3> QED BY <2>1, <2>2, <3>1
  <2>5. top(i) < top(i - 1)
    BY <2>3, <2>4
  <2>6. top(i) + 1 \notin S
    BY <2>3 DEF tops
  <2>7. /\ Bottom(top(i - 1)) \in Nat /\ Bottom(top(i - 1)) <= top(i - 1)
        /\ Bottom(top(i - 1))..top(i - 1) \subseteq S
    BY <1>3, <1>8, <2>1
  <2>8. ~ (Bottom(top(i - 1)) <= top(i) + 1)
    BY <2>3, <2>5, <2>6, <2>7
  <2>9. frame[i].largest = top(i) /\ frame[i - 1].smallest = Bottom(top(i - 1))
    BY <1>8, <2>1
  <2> HIDE DEF frame
  <2> QED BY <2>3, <2>7, <2>8, <2>9
<1>11. Encodable(frame)
  <2> HIDE DEF frame
  <2> QED BY <1>8, <1>9, <1>10 DEF Encodable
<1>12. ASSUME NEW m \in Numbers(frame) PROVE m \in S
  <2>1. PICK i \in 1..count : m \in frame[i].smallest..frame[i].largest
    <3> HIDE DEF frame
    <3> QED BY <1>9, <1>12 DEF Numbers
  <2>2. top(i) \in S /\ m \in Bottom(top(i))..top(i)
    BY <1>8, <2>1
  <2> QED BY <1>3, <2>2
<1>13. ASSUME NEW m \in S PROVE m \in Numbers(frame)
  <2>1. PICK t \in tops : m <= t /\ m..t \subseteq S
    BY <1>2
  <2>2. t \in S /\ t \in Nat /\ m \in Nat
    BY <1>1
  <2> DEFINE i == Cardinality(Above(tops, t)) + 1
  <2>3. Cardinality(Above(tops, t)) \in 0..count - 1
    BY <1>1, Ranks DEF count
  <2>4. i \in 1..count /\ i - 1 = Cardinality(Above(tops, t))
    BY <1>5, <2>3
  <2>5. top(i) = t
    <3>1. top(i) \in tops /\ Cardinality(Above(tops, top(i))) = Cardinality(Above(tops, t)) /\ top(i) \in Nat
      BY <1>4, <1>8, <2>4
    <3> HIDE DEF i
    <3>2. ~ (top(i) < t) /\ ~ (t < top(i))
      <4>1. top(i) < t => Cardinality(Above(tops, t)) < Cardinality(Above(tops, top(i)))
        BY <1>1, <3>1, Ranks
      <4>2. t < top(i) => Cardinality(Above(tops, top(i))) < Cardinality(Above(tops, t))
        BY <1>1, <3>1, Ranks
      <4> QED BY <2>3, <3>1, <4>1, <4>2
    <3> QED BY <2>2, <3>1, <3>2
  <2>6. Bottom(t) <= m
    <3>1. Bottom(t) \in Nat /\ Bottom(t) <= t /\ (Bottom(t) = 0 \/ Bottom(t) - 1 \notin S)
      BY <1>3, <2>2
    <3>2. Bottom(t) > m => Bottom(t) - 1 \in m..t
      BY <2>2, <3>1
    <3> QED BY <2>1, <2>2, <3>1, <3>2
  <2>7. Bottom(t) \in Nat /\ m \in Bottom(t)..t
    BY <1>3, <2>1, <2>2, <2>6
  <2>8. frame[i].smallest = Bottom(t) /\ frame[i].largest = t
    BY <1>8, <2>4, <2>5
  <2> HIDE DEF frame, i
  <2> QED BY <1>9, <2>4, <2>7, <2>8 DEF Numbers
<1> HIDE DEF frame
<1>14. Numbers(frame) = S
  BY <1>12, <1>13
<1> QED BY <1>6, <1>9, <1>11, <1>14

-----------------------------------------------------------------------------
(* The inductive invariant.                                                *)

\* The types, but for acked.
Types ==
  /\ next \in 0..MaxInitials
  /\ sent \subseteq Packet
  /\ epoch \in {0, 1}
  /\ replied \in BOOLEAN
  /\ rw \in [initialized : BOOLEAN, first : 0..MaxInitials - 1, epoch : {0, 1}]
  /\ wire \subseteq Wire
  /\ received \subseteq Wire

\* The client uses each packet number once and the epochs only grow.
SentInv ==
  /\ \A p \in sent : p.pn < next /\ p.epoch <= epoch
  /\ \A p, q \in sent : p.pn = q.pn => p = q

\* Every packet on the wire was made from one that was sent.
WireInv == \A w \in wire : w.src < next /\ w.epoch <= epoch

\* The packet that was split is one the client sent, and it can be split again.
SplitInv ==
  rw.initialized =>
    \E p \in sent : p.pn = rw.first /\ p.epoch = rw.epoch /\ p.own /\ p.splits

\* Before a packet is split, none that could be has left.
UnsplitInv ==
  ~rw.initialized =>
    \A w \in wire, p \in sent : w.epoch = epoch /\ p.pn = w.src => ~(p.own /\ p.splits)

\* Where the number of a packet on the wire comes from.
Plain(w) == w.part = "whole" /\ w.pn = w.src

Renumbered(w) ==
  \/ Plain(w) /\ w.pn < rw.first
  \/ w.part = "first" /\ w.src = rw.first /\ w.pn = rw.first
  \/ w.part = "second" /\ w.src = rw.first /\ w.pn = rw.first + 1
  \/ w.part = "whole" /\ w.src > rw.first /\ w.pn = w.src + 1

Canonical(w) == IF rw.initialized /\ rw.epoch = epoch THEN Renumbered(w) ELSE Plain(w)

Layout == ~Switched /\ ~overtaken => \A w \in wire : w.epoch = epoch => Canonical(w)

RewriterIInv == Types /\ SentInv /\ WireInv /\ SplitInv /\ UnsplitInv /\ Layout

LEMMA RewriterInitInv == RewriterInit => RewriterIInv
<1>1. SUFFICES ASSUME RewriterInit PROVE RewriterIInv
  OBVIOUS
<1>2. Types
  <2>1. Reset \in [initialized : BOOLEAN, first : 0..MaxInitials - 1, epoch : {0, 1}]
    BY BoundAssumption DEF Reset
  <2>2. replied \in BOOLEAN
    BY <1>1, Zenon DEF RewriterInit
  <2>. QED
    BY <1>1, <2>1, <2>2, BoundAssumption DEF RewriterInit, Types
<1>3. SentInv /\ WireInv /\ SplitInv /\ UnsplitInv /\ Layout
  BY <1>1 DEF RewriterInit, SentInv, WireInv, SplitInv, UnsplitInv, Layout, Reset
<1>. QED
  BY <1>2, <1>3 DEF RewriterIInv

LEMMA SendStep ==
  ASSUME RewriterIInv, SendInitial
  PROVE  RewriterIInv'
<1> USE BoundAssumption DEF RewriterIInv, SendInitial
<1>1. PICK splits \in BOOLEAN :
        sent' = sent \cup {[pn |-> next, epoch |-> epoch, own |-> ~replied, splits |-> splits]}
  OBVIOUS
<1>2. Types'
  <2>1. next \in 0..MaxInitials - 1 /\ epoch \in {0, 1}
    BY DEF Types
  <2>2. (~replied) \in BOOLEAN
    BY DEF Types
  <2>3. [pn |-> next, epoch |-> epoch, own |-> ~replied, splits |-> splits] \in Packet
    BY <2>1, <2>2, Zenon DEF Packet
  <2>4. sent' \subseteq Packet
    BY <1>1, <2>3 DEF Types
  <2>. QED
    BY <2>4 DEF Types
<1>3. SentInv'
  BY <1>1 DEF Types, SentInv, Packet
<1>4. WireInv'
  BY DEF Types, WireInv, Wire
<1>5. SplitInv'
  BY <1>1 DEF SplitInv
<1>6. UnsplitInv'
  BY <1>1 DEF UnsplitInv, WireInv, Types, Wire
<1>7. Layout'
  BY <1>1 DEF Layout, Switched, Canonical, Renumbered, Plain
<1>. QED
  BY <1>2, <1>3, <1>4, <1>5, <1>6, <1>7

LEMMA RetryStep ==
  ASSUME RewriterIInv, Retry
  PROVE  RewriterIInv'
<1> USE BoundAssumption DEF RewriterIInv, Retry, Reset
<1>1. \A w \in wire : w.epoch # epoch'
  BY DEF Types, WireInv, Wire
<1>2. Types'
  BY DEF Types
<1>3. SentInv' /\ WireInv'
  BY DEF Types, SentInv, WireInv, Wire, Packet
<1>4. SplitInv' /\ UnsplitInv' /\ Layout'
  BY <1>1 DEF SplitInv, UnsplitInv, Layout
<1>. QED
  BY <1>2, <1>3, <1>4

LEMMA QuietStep ==
  ASSUME RewriterIInv, Reply \/ (\E w \in wire : Receive(w)) \/ UNCHANGED rewriterVars
  PROVE  RewriterIInv'
<1>1. UNCHANGED <<next, sent, epoch, rw, wire, overtaken>> /\ received' \subseteq Wire
  BY DEF RewriterIInv, Types, Reply, Receive, rewriterVars
<1>2. replied' \in BOOLEAN
  <2>1. replied \in BOOLEAN
    BY DEF RewriterIInv, Types
  <2>2. replied' = replied \/ replied' = TRUE
    BY DEF Reply, Receive, rewriterVars
  <2>. QED
    BY <2>1, <2>2, Zenon
<1>3. Types'
  BY <1>1, <1>2 DEF RewriterIInv, Types
<1>4. SentInv' /\ WireInv' /\ SplitInv' /\ UnsplitInv' /\ Layout'
  BY <1>1 DEF RewriterIInv, SentInv, WireInv, SplitInv, UnsplitInv, Layout, Switched,
              Canonical, Renumbered, Plain
<1>. QED
  BY <1>3, <1>4 DEF RewriterIInv

-----------------------------------------------------------------------------
(* rewriteClient.                                                          *)

\* Whatever the rewriter sends for p has its epoch and its source.
LEMMA RewriteFrame ==
  ASSUME RewriterIInv, NEW p \in sent, RewriteClient(p)
  PROVE  /\ UNCHANGED <<next, sent, epoch, received>>
         /\ Types' /\ SentInv' /\ WireInv'
         /\ overtaken => overtaken'
<1> USE BoundAssumption DEF RewriterIInv, RewriteClient
<1>1. p \in Packet /\ p.pn < next /\ p.epoch <= epoch
  BY DEF Types, SentInv
<1>2. UNCHANGED <<next, sent, epoch, received>>
  OBVIOUS
<1>3. ASSUME NEW S, S \in {Original(p), Fragments(p), Shifted(p)}
      PROVE  S \subseteq Wire /\ \A w \in S : w.src = p.pn /\ w.epoch = p.epoch
  BY <1>1, <1>3 DEF Original, Fragments, Shifted, Packed, Wire, Packet
<1>4. PICK S \in {Original(p), Fragments(p), Shifted(p)} : wire' = wire \cup S
  BY DEF PassOriginal, SplitFirst, SplitAgain, Shift, Send
<1>5. rw' \in [initialized : BOOLEAN, first : 0..MaxInitials - 1, epoch : {0, 1}]
  <2>1. CASE rw' = rw
    BY <2>1 DEF Types
  <2>2. CASE rw' = [initialized |-> TRUE, first |-> p.pn, epoch |-> p.epoch]
    BY <1>1, <2>2 DEF Packet
  <2>. QED
    BY <2>1, <2>2 DEF PassOriginal, SplitFirst, SplitAgain, Shift
<1>6. Types'
  BY <1>2, <1>3, <1>4, <1>5 DEF Types
<1>7. SentInv' /\ WireInv'
  BY <1>1, <1>2, <1>3, <1>4 DEF SentInv, WireInv
<1>8. overtaken => overtaken'
  BY DEF PassOriginal, SplitFirst, SplitAgain, Shift
<1>. QED
  BY <1>2, <1>6, <1>7, <1>8

LEMMA PassStep ==
  ASSUME RewriterIInv, NEW p \in sent, PassOriginal(p), RewriteClient(p)
  PROVE  SplitInv' /\ UnsplitInv' /\ Layout'
<1> USE DEF RewriterIInv
<1>1. UNCHANGED <<next, sent, epoch>> /\ UNCHANGED <<rw, overtaken>>
  BY RewriteFrame DEF PassOriginal
<1>2. wire' = wire \cup {Packed(p, p.pn, "whole")}
  BY DEF PassOriginal, Send, Original
<1>3. SplitInv'
  BY <1>1 DEF SplitInv
<1>4. UnsplitInv'
  BY <1>1, <1>2 DEF UnsplitInv, PassOriginal, Packed, SentInv
<1>5. SUFFICES ASSUME ~Switched, ~overtaken, p.epoch = epoch
               PROVE  Canonical(Packed(p, p.pn, "whole"))
  BY <1>1, <1>2, <1>3, <1>4 DEF Layout, Switched, Canonical, Renumbered, Plain, Packed
<1>6. p.own
  BY <1>5 DEF Switched
<1>7. CASE rw.initialized /\ rw.epoch = epoch
  <2>1. PICK q \in sent : q.pn = rw.first /\ q.splits
    BY <1>7 DEF SplitInv
  <2>2. p.pn = rw.first => p = q
    BY <2>1 DEF SentInv
  <2>3. p.pn < rw.first
    BY <1>5, <1>6, <1>7, <2>1, <2>2 DEF PassOriginal
  <2>. QED
    BY <1>7, <2>3 DEF Canonical, Renumbered, Plain, Packed
<1>8. CASE ~(rw.initialized /\ rw.epoch = epoch)
  BY <1>8 DEF Canonical, Plain, Packed
<1>. QED
  BY <1>7, <1>8

LEMMA SplitFirstStep ==
  ASSUME RewriterIInv, NEW p \in sent, SplitFirst(p), RewriteClient(p)
  PROVE  SplitInv' /\ UnsplitInv' /\ Layout'
<1> USE DEF RewriterIInv
<1>1. UNCHANGED <<next, sent, epoch>> /\ p \in Packet
  BY RewriteFrame DEF Types
<1>2. /\ rw' = [initialized |-> TRUE, first |-> p.pn, epoch |-> p.epoch]
      /\ ~rw.initialized
      /\ p.own /\ p.splits
      /\ wire' = wire \cup {Packed(p, p.pn, "first"), Packed(p, p.pn + 1, "second")}
      /\ overtaken' = (overtaken \/ \E w \in wire : w.epoch = p.epoch /\ w.pn > p.pn)
  BY DEF SplitFirst, Send, Fragments
<1>3. SplitInv' /\ UnsplitInv'
  BY <1>1, <1>2 DEF SplitInv, UnsplitInv
<1>4. SUFFICES ASSUME ~Switched, ~overtaken', NEW w \in wire', w.epoch = epoch
               PROVE  Canonical(w)'
  BY <1>1, <1>3 DEF Layout, Switched
<1>5. CASE w \in wire
  <2>1. Plain(w)
    BY <1>2, <1>4, <1>5 DEF Layout, Canonical
  <2>2. p.epoch = epoch => w.pn <= p.pn /\ w.src # p.pn
    BY <1>1, <1>2, <1>4, <1>5 DEF UnsplitInv, Types, Wire, Packet
  <2>3. p.epoch = epoch => w.pn < p.pn
    BY <1>1, <1>5, <2>1, <2>2 DEF Types, Wire, Packet, Plain
  <2>. QED
    BY <1>1, <1>2, <2>1, <2>3 DEF Canonical, Renumbered, Plain
<1>6. CASE w \notin wire
  BY <1>1, <1>2, <1>4, <1>6 DEF Canonical, Renumbered, Packed
<1>. QED
  BY <1>5, <1>6

LEMMA LaterStep ==
  ASSUME RewriterIInv, NEW p \in sent, SplitAgain(p) \/ Shift(p), RewriteClient(p)
  PROVE  SplitInv' /\ UnsplitInv' /\ Layout'
<1> USE DEF RewriterIInv
<1>1. UNCHANGED <<next, sent, epoch>> /\ UNCHANGED <<rw, overtaken>> /\ p \in Packet
  BY RewriteFrame DEF SplitAgain, Shift, Types
<1>2. rw.initialized /\ p.epoch = rw.epoch
  BY DEF SplitAgain, Shift
<1>3. SplitInv' /\ UnsplitInv'
  BY <1>1, <1>2 DEF SplitInv, UnsplitInv
<1>4. \A w \in wire' \ wire : w.epoch = epoch => Canonical(w)
  <2>1. CASE SplitAgain(p)
    BY <1>1, <1>2, <2>1 DEF SplitAgain, Send, Fragments, Canonical, Renumbered, Packed
  <2>2. CASE Shift(p)
    BY <1>1, <1>2, <2>2 DEF Shift, Send, Shifted, Canonical, Renumbered, Packed
  <2>. QED
    BY <2>1, <2>2
<1>5. Layout'
  BY <1>1, <1>4 DEF Layout, Switched, Canonical, Renumbered, Plain
<1>. QED
  BY <1>3, <1>5

LEMMA RewriterStepInv == RewriterIInv /\ [RewriterNext]_rewriterVars => RewriterIInv'
<1>1. SUFFICES ASSUME RewriterIInv, [RewriterNext]_rewriterVars PROVE RewriterIInv'
  OBVIOUS
<1>2. ASSUME NEW p \in sent, RewriteClient(p) PROVE RewriterIInv'
  <2>1. SplitInv' /\ UnsplitInv' /\ Layout'
    BY <1>1, <1>2, PassStep, SplitFirstStep, LaterStep DEF RewriteClient
  <2>. QED
    BY <1>1, <1>2, <2>1, RewriteFrame DEF RewriterIInv
<1>. QED
  BY <1>1, <1>2, SendStep, RetryStep, QuietStep DEF RewriterNext

LEMMA RewriterInvariance == RewriterSpec => []RewriterIInv
  BY RewriterInitInv, RewriterStepInv, PTL DEF RewriterSpec

\* No packet number is used on the wire for two different packets, however the
\* Initials are lost, repeated and reordered, as long as the client addresses
\* the first DCID and none has overtaken the one that is split.
THEOREM NoNumberReused == RewriterSpec => []WireUnique
<1>1. RewriterIInv => WireUnique
  <2>1. SUFFICES ASSUME RewriterIInv, ~Switched, ~overtaken, NEW v \in wire, NEW w \in wire,
                        v.epoch = epoch, w.epoch = epoch, v.pn = w.pn
                 PROVE  v = w
    BY DEF WireUnique
  <2>2. Canonical(v) /\ Canonical(w) /\ v \in Wire /\ w \in Wire
    BY <2>1 DEF RewriterIInv, Layout, Types
  <2>3. rw.first \in Nat
    BY <2>1, BoundAssumption DEF RewriterIInv, Types
  <2>4. v.src = w.src /\ v.part = w.part
    BY <2>1, <2>2, <2>3 DEF Canonical, Renumbered, Plain, Wire
  <2>. QED
    BY <2>1, <2>2, <2>4 DEF Wire
<1>. QED
  BY <1>1, RewriterInvariance, PTL

-----------------------------------------------------------------------------
(* What the client is told of.                                             *)

\* A number on the wire is the client's own or, from the split packet on, one more.
NumberInv ==
  \A w \in wire : w.epoch = epoch =>
    \/ w.pn = w.src
    \/ rw.initialized /\ rw.epoch = epoch /\ rw.first <= w.src /\ w.pn = w.src + 1

\* The server accepts packets of the present epoch only, and acknowledges nothing
\* before it has accepted one.
ReceivedInv ==
  /\ received \subseteq wire
  /\ \A r \in received : r.epoch = epoch
  /\ received = {} => acked = {}

\* The inductive invariant of AckSound, beside RewriterIInv.
AckIInv == NumberInv /\ ReceivedInv /\ AckSound

LEMMA AckInit == RewriterInit => AckIInv
<1>1. SUFFICES ASSUME RewriterInit PROVE AckIInv
  OBVIOUS
<1>2. RewriterTypeOK
  <2>1. Types
    BY <1>1, RewriterInitInv DEF RewriterIInv
  <2>2. overtaken \in BOOLEAN /\ acked = {}
    BY <1>1, Zenon DEF RewriterInit
  <2>3. replied \in BOOLEAN
    BY <2>1, Zenon DEF Types
  <2>. QED
    BY <2>1, <2>2, <2>3, Zenon DEF Types, RewriterTypeOK
<1>. QED
  BY <1>1, <1>2 DEF RewriterInit, AckIInv, NumberInv, ReceivedInv, AckSound

\* The types follow from the others, after a step.
LEMMA TypesFollow ==
  ASSUME Types', overtaken' \in BOOLEAN, acked' \subseteq Nat, \A pn \in acked' : pn < next'
  PROVE  RewriterTypeOK'
<1>1. acked' \subseteq 0..MaxInitials
  BY BoundAssumption DEF Types
<1>2. /\ next' \in 0..MaxInitials /\ sent' \subseteq Packet /\ epoch' \in {0, 1}
      /\ rw' \in [initialized : BOOLEAN, first : 0..MaxInitials - 1, epoch : {0, 1}]
      /\ wire' \subseteq Wire /\ received' \subseteq Wire
  BY DEF Types
<1>3. replied' \in BOOLEAN
  BY Zenon DEF Types
<1>. QED
  BY <1>1, <1>2, <1>3, Zenon DEF RewriterTypeOK

\* A step that tells the client nothing.
LEMMA UntoldKeeps ==
  ASSUME RewriterIInv, AckIInv, RewriterIInv', acked' = acked, next <= next',
         received \subseteq received', overtaken' \in BOOLEAN,
         sent \subseteq sent', overtaken => overtaken'
  PROVE  AckSound'
<1>1. acked \subseteq Nat /\ next \in Nat /\ next' \in Nat
  BY BoundAssumption DEF AckIInv, AckSound, RewriterTypeOK, RewriterIInv, Types
<1>2. \A pn \in acked' : pn < next'
  BY <1>1 DEF AckIInv, AckSound
<1>3. RewriterTypeOK'
  <2>1. Types' /\ acked' \subseteq Nat
    BY <1>1 DEF RewriterIInv
  <2>. QED
    BY <2>1, <1>2, TypesFollow
<1>4. ~Switched' /\ ~overtaken' => \A pn \in acked' : \E r \in received' : r.src = pn
  BY DEF AckIInv, AckSound, Switched
<1>. QED
  BY <1>2, <1>3, <1>4 DEF AckSound

\* What the rewriter makes of an acknowledgement was sent and, where the layout of
\* the wire is known, has reached the server.
LEMMA ToldIsSound ==
  ASSUME RewriterIInv, AckIInv, RemapExact, NEW S, S \subseteq {r.pn : r \in received}, S # {}
  PROVE  /\ rewriteServer(S) \subseteq Nat
         /\ \A pn \in rewriteServer(S) : pn < next
         /\ ~Switched /\ ~overtaken =>
              \A pn \in rewriteServer(S) : \E r \in received : r.src = pn
<1> DEFINE maps == rw.initialized /\ rw.epoch = epoch
           image(n) == IF maps THEN mapAckPN(n, rw.first) ELSE n
<1>1. rw.first \in 0..MaxInitials /\ rw.first \in Nat
  BY BoundAssumption DEF RewriterIInv, Types
<1>2. rewriteServer(S) = {image(n) : n \in S}
  <2>1. /\ Encodable(remapAck(Ranges(S), rw.first))
        /\ Numbers(remapAck(Ranges(S), rw.first)) = {mapAckPN(n, rw.first) : n \in S}
    BY <1>1 DEF RemapExact
  <2>. QED
    BY <2>1 DEF rewriteServer
<1>3. ASSUME NEW r \in received
      PROVE  /\ image(r.pn) \in Nat
             /\ image(r.pn) < next
             /\ ~Switched /\ ~overtaken => image(r.pn) = r.src
  <2>1. r \in wire /\ r.epoch = epoch /\ r \in Wire
    BY DEF AckIInv, ReceivedInv, RewriterIInv, Types
  <2>2. r.src < next /\ next \in Nat /\ r.pn \in Nat /\ r.src \in Nat
    BY <2>1, BoundAssumption DEF RewriterIInv, WireInv, Types, Wire
  <2>3. r.pn = r.src \/ (maps /\ rw.first <= r.src /\ r.pn = r.src + 1)
    BY <2>1 DEF AckIInv, NumberInv
  <2>4. image(r.pn) \in Nat /\ image(r.pn) < next
    BY <1>1, <2>2, <2>3 DEF mapAckPN
  <2>5. ASSUME ~Switched, ~overtaken PROVE image(r.pn) = r.src
    <3>1. Canonical(r)
      BY <2>1, <2>5 DEF RewriterIInv, Layout
    <3>. QED
      BY <1>1, <2>2, <3>1 DEF Canonical, Renumbered, Plain, mapAckPN
  <2>. QED
    BY <2>4, <2>5
<1>4. \A pn \in rewriteServer(S) : \E r \in received : pn = image(r.pn)
  BY <1>2
<1>. HIDE DEF image, maps
<1>. QED
  BY <1>3, <1>4

LEMMA ReplyKeepsAck ==
  ASSUME RewriterIInv, AckIInv, RemapExact, RewriterIInv', Reply
  PROVE  AckIInv'
<1> USE DEF Reply
<1>1. PICK S \in SUBSET {r.pn : r \in received} : S # {} /\ acked' = acked \cup rewriteServer(S)
  OBVIOUS
<1>2. /\ rewriteServer(S) \subseteq Nat
      /\ \A pn \in rewriteServer(S) : pn < next
      /\ ~Switched /\ ~overtaken =>
           \A pn \in rewriteServer(S) : \E r \in received : r.src = pn
  BY <1>1, ToldIsSound
<1>3. acked \subseteq Nat /\ \A pn \in acked : pn < next
  BY DEF AckIInv, AckSound, RewriterTypeOK
<1>4. NumberInv' /\ ReceivedInv'
  BY <1>1 DEF AckIInv, NumberInv, ReceivedInv
<1>5. RewriterTypeOK'
  <2>1. Types' /\ acked' \subseteq Nat /\ \A pn \in acked' : pn < next'
    BY <1>1, <1>2, <1>3 DEF RewriterIInv
  <2>2. overtaken' \in BOOLEAN
    BY Zenon DEF AckIInv, AckSound, RewriterTypeOK
  <2>. QED
    BY <2>1, <2>2, TypesFollow
<1>6. ~Switched' /\ ~overtaken' => \A pn \in acked' : \E r \in received' : r.src = pn
  BY <1>1, <1>2 DEF AckIInv, AckSound, Switched
<1>. QED
  BY <1>1, <1>2, <1>3, <1>4, <1>5, <1>6 DEF AckIInv, AckSound

LEMMA RewriteKeepsAck ==
  ASSUME RewriterIInv, AckIInv, RewriterIInv', NEW p \in sent, RewriteClient(p)
  PROVE  AckIInv'
<1>1. UNCHANGED <<next, sent, epoch, received, acked>> /\ (overtaken => overtaken')
  BY RewriteFrame DEF RewriteClient
<1>2. p \in Packet /\ p.pn \in Nat
  BY DEF RewriterIInv, Types, Packet
<1>3. wire \subseteq wire'
  BY DEF RewriteClient, PassOriginal, SplitFirst, SplitAgain, Shift, Send
<1>4. NumberInv'
  <2> USE DEF AckIInv, NumberInv, Send, Packed
  <2>1. CASE PassOriginal(p)
    BY <1>1, <2>1 DEF PassOriginal, Original
  <2>2. CASE SplitFirst(p)
    BY <1>1, <1>2, <2>2 DEF SplitFirst, Fragments
  <2>3. CASE SplitAgain(p)
    BY <1>1, <1>2, <2>3 DEF SplitAgain, Fragments
  <2>4. CASE Shift(p)
    <3>1. rw.first \in Nat
      BY DEF RewriterIInv, Types
    <3>. QED
      BY <1>1, <1>2, <2>4, <3>1 DEF Shift, Shifted
  <2>. QED
    BY <2>1, <2>2, <2>3, <2>4 DEF RewriteClient
<1>5. ReceivedInv'
  BY <1>1, <1>3 DEF AckIInv, ReceivedInv
<1>6. overtaken' \in BOOLEAN
  <2>1. overtaken \in BOOLEAN
    BY Zenon DEF AckIInv, AckSound, RewriterTypeOK
  <2>2. \/ overtaken' = overtaken
        \/ overtaken' = (overtaken \/ \E w \in wire : w.epoch = p.epoch /\ w.pn > p.pn)
    BY DEF RewriteClient, PassOriginal, SplitFirst, SplitAgain, Shift
  <2>. QED
    BY <2>1, <2>2, Zenon
<1>7. next <= next'
  BY <1>1, BoundAssumption DEF RewriterIInv, Types
<1>8. AckSound'
  BY <1>1, <1>6, <1>7, UntoldKeeps
<1>. QED
  BY <1>4, <1>5, <1>8 DEF AckIInv

\* The steps of the endpoints that tell the client nothing.
LEMMA OthersKeepAck ==
  ASSUME RewriterIInv, AckIInv, RewriterIInv',
         SendInitial \/ Retry \/ (\E w \in wire : Receive(w)) \/ UNCHANGED rewriterVars
  PROVE  AckIInv'
<1>1. /\ acked' = acked /\ overtaken' = overtaken /\ wire' = wire
      /\ sent \subseteq sent' /\ received \subseteq received'
  BY DEF SendInitial, Retry, Receive, rewriterVars
<1>2. next <= next'
  BY BoundAssumption DEF SendInitial, Retry, Receive, rewriterVars, RewriterIInv, Types
<1>3. overtaken' \in BOOLEAN
  <2>1. overtaken \in BOOLEAN
    BY Zenon DEF AckIInv, AckSound, RewriterTypeOK
  <2>. QED
    BY <1>1, <2>1
<1>4. AckSound'
  BY <1>1, <1>2, <1>3, UntoldKeeps, Zenon
<1>5. NumberInv' /\ ReceivedInv'
  <2>1. CASE Retry
    <3>1. \A w \in wire : w.epoch # epoch'
      BY <2>1 DEF Retry, RewriterIInv, Types, WireInv, Wire
    <3>. QED
      BY <2>1, <3>1 DEF Retry, AckIInv, NumberInv, ReceivedInv
  <2>2. CASE ~Retry
    BY <2>2, <1>1 DEF SendInitial, Receive, rewriterVars, AckIInv, NumberInv, ReceivedInv
  <2>. QED
    BY <2>1, <2>2
<1>. QED
  BY <1>4, <1>5 DEF AckIInv

\* Whatever of the present epoch has arrived, the frame that acknowledges any of it is
\* remapped exactly (remapAck), for every number of Initials.
THEOREM RemapStaysExact == RewriterSpec => []RemapExact
<1>1. Types => RemapExact
  <2>1. SUFFICES ASSUME Types, NEW first \in 0..MaxInitials,
                        NEW S \in SUBSET {r.pn : r \in received}, S # {}
                 PROVE  /\ Encodable(remapAck(Ranges(S), first))
                        /\ Numbers(remapAck(Ranges(S), first)) = {mapAckPN(n, first) : n \in S}
    BY DEF RemapExact
  <2>2. MaxInitials \in Nat /\ first \in Nat
    BY BoundAssumption
  <2>3. S \subseteq 0..MaxInitials
    BY <2>1 DEF Types, Wire
  <2>4. Ranges(S) \in Seq(AckRange) /\ Encodable(Ranges(S)) /\ Numbers(Ranges(S)) = S
    BY <2>1, <2>2, <2>3, RangesOf
  <2> QED BY <2>2, <2>4, RemapIsExact DEF Image
<1>2. RewriterIInv => RemapExact
  BY <1>1 DEF RewriterIInv
<1> QED BY <1>2, RewriterInvariance, PTL

\* The client is never told of a packet that it has not sent and, on the conditions of
\* WireUnique, only of what has reached the server: for every number of Initials, every
\* order of arrival and every Retry.
THEOREM AckIsSound == RewriterSpec => []AckSound
<1>1. RewriterIInv /\ AckIInv /\ RemapExact /\ RewriterIInv' /\ [RewriterNext]_rewriterVars => AckIInv'
  BY ReplyKeepsAck, RewriteKeepsAck, OthersKeepAck DEF RewriterNext
<1>2. AckIInv => AckSound
  BY DEF AckIInv
<1>. QED
  BY <1>1, <1>2, AckInit, RewriterInvariance, RemapStaysExact, PTL DEF RewriterSpec

-----------------------------------------------------------------------------
(* The hold of the Initials.                                               *)

-----------------------------------------------------------------------------
(* The arithmetic of truncated numbers.                                    *)

\* A number of more than one window is its quotient and its remainder.
LEMMA Divides ==
  ASSUME NEW n \in Nat
  PROVE  /\ n \div Window \in Nat
         /\ n % Window \in 0 .. Window - 1
         /\ n = Window * (n \div Window) + (n % Window)
BY WindowAssumption, SMTT(30)

LEMMA Half == /\ Window \div 2 \in Nat
              /\ 2 * (Window \div 2) = Window
BY WindowAssumption, SMTT(30)

\* Products of the window, as the provers need them.
LEMMA Neighbours ==
  ASSUME NEW q \in Nat, NEW e \in Nat
  PROVE  /\ q = e => Window * q = Window * e
         /\ q = e + 1 => Window * q = Window * e + Window
         /\ e = q + 1 => Window * e = Window * q + Window
         /\ q > e + 1 => Window * q >= Window * e + 2 * Window
         /\ e > q + 1 => Window * e >= Window * q + 2 * Window
         /\ Window * q \in Nat /\ Window * e \in Nat
<1> USE WindowAssumption
<1>1. /\ Window * (e + 1) = Window * e + Window /\ Window * (e + 2) = Window * e + 2 * Window
      /\ Window * (q + 1) = Window * q + Window /\ Window * (q + 2) = Window * q + 2 * Window
  OBVIOUS
<1>2. \A a, b \in Nat : a <= b => Window * a <= Window * b
  OBVIOUS
<1>3. q > e + 1 => Window * q >= Window * (e + 2)
  <2>1. e + 2 \in Nat /\ (q > e + 1 => e + 2 <= q)
    OBVIOUS
  <2> QED
    BY <1>2, <2>1
<1>4. e > q + 1 => Window * e >= Window * (q + 2)
  <2>1. q + 2 \in Nat /\ (e > q + 1 => q + 2 <= e)
    OBVIOUS
  <2> QED
    BY <1>2, <2>1
<1>5. Window * q \in Nat /\ Window * e \in Nat
  OBVIOUS
<1> QED
  BY <1>1, <1>3, <1>4, <1>5

\* A number that is less than half a window below, or at most half a window above,
\* the one that is expected is decoded from its last digits (decodePacketNumber).
THEOREM NumberDecoded ==
  ASSUME NEW pn \in 0 .. MaxNumber, NEW exp \in Nat,
         2 * pn + Window > 2 * exp,
         2 * pn <= 2 * exp + Window
  PROVE  decodePacketNumber(pn % Window, exp) = pn
<1> DEFINE q == pn \div Window
           e == exp \div Window
           t == pn % Window
           r == exp % Window
           half == Window \div 2
           candidate == Window * e + t
<1>0. pn \in Nat /\ MaxNumber \in Nat /\ pn <= MaxNumber /\ Window \in Nat \ {0}
  BY WindowAssumption
<1>1. q \in Nat /\ t \in 0 .. Window - 1 /\ pn = Window * q + t
  BY <1>0, Divides
<1>2. e \in Nat /\ r \in 0 .. Window - 1 /\ exp = Window * e + r
  BY Divides
<1>3. half \in Nat /\ 2 * half = Window
  BY Half
<1>4. /\ q = e => Window * q = Window * e
      /\ q = e + 1 => Window * q = Window * e + Window
      /\ e = q + 1 => Window * e = Window * q + Window
      /\ q > e + 1 => Window * q >= Window * e + 2 * Window
      /\ e > q + 1 => Window * e >= Window * q + 2 * Window
      /\ Window * q \in Nat /\ Window * e \in Nat
  BY <1>1, <1>2, Neighbours
<1>5. decodePacketNumber(t, exp) =
        CASE candidate + half <= exp /\ candidate + Window <= MaxNumber -> candidate + Window
          [] candidate > exp + half /\ candidate >= Window -> candidate - Window
          [] OTHER -> candidate
  BY DEF decodePacketNumber
<1> HIDE DEF q, e, t, r, half
<1>6. CASE q = e
  <2>1. candidate = pn /\ ~(candidate + half <= exp) /\ ~(candidate > exp + half)
    BY <1>0, <1>1, <1>2, <1>3, <1>4, <1>6
  <2> QED
    BY <1>5, <2>1 DEF t
<1>7. CASE q = e + 1
  <2>1. /\ candidate + Window = pn /\ candidate + half <= exp /\ candidate + Window <= MaxNumber
        /\ ~(candidate > exp + half)
    BY <1>0, <1>1, <1>2, <1>3, <1>4, <1>7
  <2> QED
    BY <1>5, <2>1 DEF t
<1>8. CASE e = q + 1
  <2>1. /\ candidate - Window = pn /\ candidate > exp + half /\ candidate >= Window
        /\ ~(candidate + half <= exp)
    BY <1>0, <1>1, <1>2, <1>3, <1>4, <1>8
  <2> QED
    BY <1>5, <2>1 DEF t
<1>9. ~(q > e + 1) /\ ~(e > q + 1)
  BY <1>0, <1>1, <1>2, <1>3, <1>4
<1> QED
  BY <1>1, <1>2, <1>6, <1>7, <1>8, <1>9

-----------------------------------------------------------------------------
(* The invariant.                                                          *)

CollectorTypeOK ==
  /\ byName \in BOOLEAN
  /\ hello \in [Connection -> Hellos]
  /\ state \in {"hold", "released", "flushed"}
  /\ dcid \in Connection \cup {Nobody}
  /\ expected \in Nat
  /\ covered \subseteq Cell
  /\ heard \subseteq Connection \X Nat

\* What was heard is of the connection that the collector has, if any.
HeardInv ==
  /\ dcid = Nobody <=> heard = {}
  /\ \A p \in heard : p[1] = dcid /\ p[2] \in Number(dcid)

\* The expected number follows the highest heard.
ExpectedInv ==
  /\ heard = {} => expected = 0
  /\ heard # {} => <<dcid, expected - 1>> \in heard
  /\ \A p \in heard : p[2] < expected

\* The stream has what the Initials heard carry.
CoveredInv ==
  /\ heard = {} => covered = {}
  /\ heard # {} => covered = HeardCells(dcid)

StateInv ==
  /\ heard # {} => (state = "released" <=> Complete(dcid, covered))
  /\ unread # << >> => heard = {}

CollectorIInv == CollectorTypeOK /\ HeardInv /\ ExpectedInv /\ CoveredInv /\ StateInv /\ GivenUpOnlyFar

\* The cells of an Initial of a connection.
LEMMA CellsTyped ==
  ASSUME CollectorTypeOK, NEW c \in Connection, NEW pn \in Number(c)
  PROVE  /\ pn \in Nat /\ pn <= MaxNumber
         /\ hello[c].cells[pn + 1] \subseteq Cell
<1>1. hello[c] \in Hellos
  BY DEF CollectorTypeOK
<1>2. hello[c].cells \in Seq(SUBSET Cell) /\ Len(hello[c].cells) <= MaxNumber + 1
  BY <1>1, HelloAssumption, WindowAssumption
<1>3. Len(hello[c].cells) \in Nat /\ MaxNumber \in Nat
  BY <1>2, WindowAssumption
<1>4. pn \in Nat /\ pn + 1 \in 1 .. Len(hello[c].cells)
  BY <1>3 DEF Number
<1>5. hello[c].cells[pn + 1] \in SUBSET Cell
  BY <1>2, <1>4
<1> QED
  BY <1>2, <1>3, <1>4, <1>5

LEMMA InitIInv == CollectorInit => CollectorIInv
BY DEF CollectorInit, CollectorIInv, CollectorTypeOK, HeardInv, ExpectedInv, CoveredInv, StateInv, GivenUpOnlyFar

\* The largest of a set of numbers.
LEMMA HighestIs ==
  ASSUME NEW S, NEW n \in S, S \subseteq Int, \A m \in S : m <= n
  PROVE  Highest(S) = n
<1>1. \A k \in S : (\A m \in S : m <= k) => k = n
  OBVIOUS
<1> QED
  BY <1>1 DEF Highest

\* What the collector expects of c follows the highest number heard from c.
LEMMA ExpectsNext ==
  ASSUME CollectorIInv, NEW c \in Connection
  PROVE  /\ Collected(c).expected \in Nat
         /\ Collected(c).expected = Highest({p[2] : p \in {q \in heard : q[1] = c}}) + 1
<1> DEFINE S == {p[2] : p \in {q \in heard : q[1] = c}}
<1>1. CASE dcid = c
  <2>1. heard # {} /\ \A p \in heard : p[1] = c
    BY <1>1, NobodyAssumption DEF CollectorIInv, HeardInv
  <2>2. expected - 1 \in S /\ S \subseteq Nat
    BY <1>1, <2>1 DEF CollectorIInv, ExpectedInv, CollectorTypeOK
  <2>3. expected \in Nat /\ \A m \in S : m <= expected - 1
    <3>1. expected \in Nat /\ \A p \in heard : p[2] \in Nat /\ p[2] < expected
      BY DEF CollectorIInv, ExpectedInv, CollectorTypeOK
    <3> QED
      BY <3>1
  <2>4. Highest(S) = expected - 1
    <3>1. S \subseteq Int
      BY <2>2
    <3> HIDE DEF S
    <3> QED
      BY <2>2, <2>3, <3>1, HighestIs
  <2>5. Collected(c).expected = expected
    BY <1>1 DEF Collected
  <2> QED
    BY <2>3, <2>4, <2>5
<1>2. CASE dcid # c
  <2>1. S = {}
    BY <1>2 DEF CollectorIInv, HeardInv
  <2>2. Highest(S) = -1
    BY <2>1 DEF Highest
  <2>3. Collected(c).expected = 0
    BY <1>2 DEF Collected, Blank, CollectorIInv, HeardInv, ExpectedInv
  <2> QED
    BY <2>2, <2>3
<1> QED
  BY <1>1, <1>2

\* An Initial that is read.
LEMMA AddKeeps ==
  ASSUME CollectorIInv, NEW c \in Connection, NEW pn \in Number(c), Add(c, pn)
  PROVE  CollectorIInv'
<1> DEFINE now == Collected(c)
           stays == {p \in heard : p[1] = c}
<1>1. pn \in Nat /\ hello[c].cells[pn + 1] \subseteq Cell
  BY CellsTyped DEF CollectorIInv
<1>2. now.expected \in Nat /\ now.covered \subseteq Cell
  BY ExpectsNext DEF Collected, Blank, CollectorIInv, CollectorTypeOK
<1>3. /\ dcid' = c /\ hello' = hello /\ byName' = byName /\ unread' = unread
      /\ expected' = IF pn >= now.expected THEN pn + 1 ELSE now.expected
      /\ covered' = now.covered \cup hello[c].cells[pn + 1]
      /\ heard' = stays \cup {<<c, pn>>}
      /\ unread = << >> /\ state = "hold"
  BY DEF Add, Merge, Holding
<1>4. /\ stays # {} => /\ dcid = c /\ stays = heard
                       /\ now.expected = expected /\ now.covered = covered
      /\ stays = {} => now.expected = 0 /\ now.covered = {}
  <2>1. CASE dcid = c
    <3>1. stays = heard /\ heard # {}
      BY <2>1, NobodyAssumption DEF CollectorIInv, HeardInv
    <3> QED
      BY <2>1, <3>1 DEF Collected
  <2>2. CASE dcid # c
    <3>1. stays = {}
      BY <2>2 DEF CollectorIInv, HeardInv
    <3>2. now.expected = 0 /\ now.covered = {}
      BY <2>2 DEF Collected, Blank, CollectorIInv, HeardInv, ExpectedInv, CoveredInv
    <3> QED
      BY <3>1, <3>2
  <2> QED
    BY <2>1, <2>2
<1>5. CollectorTypeOK'
  <2>1. expected' \in Nat /\ covered' \subseteq Cell
    BY <1>1, <1>2, <1>3
  <2>2. heard' \subseteq Connection \X Nat
    BY <1>1, <1>3 DEF CollectorIInv, CollectorTypeOK
  <2>3. state' \in {"hold", "released"}
    BY <1>3 DEF Add
  <2> QED
    BY <1>3, <2>1, <2>2, <2>3 DEF CollectorIInv, CollectorTypeOK
<1>6. HeardInv'
  <2>1. c # Nobody /\ heard' # {}
    BY <1>3, NobodyAssumption
  <2>2. \A p \in heard' : p[1] = c /\ p[2] \in Number(c)
    BY <1>3, <1>4 DEF CollectorIInv, HeardInv
  <2>3. Number(c)' = Number(c)
    BY <1>3 DEF Number
  <2> QED
    BY <1>3, <2>1, <2>2, <2>3 DEF HeardInv
<1>7. ExpectedInv'
  <2>1. <<c, expected' - 1>> \in heard'
    <3>1. CASE pn >= now.expected
      BY <1>1, <1>3, <3>1
    <3>2. CASE ~(pn >= now.expected)
      <4>1. stays # {}
        BY <1>1, <1>4, <3>2
      <4> QED
        BY <1>3, <1>4, <3>2, <4>1 DEF CollectorIInv, ExpectedInv
    <3> QED
      BY <3>1, <3>2
  <2>2. \A p \in heard' : p[2] < expected'
    <3>1. \A p \in stays : p[2] \in Nat /\ p[2] < now.expected
      BY <1>4 DEF CollectorIInv, ExpectedInv, CollectorTypeOK
    <3>2. now.expected <= expected' /\ pn < expected' /\ expected' \in Nat
      BY <1>1, <1>2, <1>3
    <3>3. TAKE p \in heard'
    <3>4. CASE p \in stays
      BY <1>2, <3>1, <3>2, <3>4
    <3>5. CASE p = <<c, pn>>
      BY <3>2, <3>5
    <3> QED
      BY <1>3, <3>4, <3>5
  <2> QED
    BY <1>3, <2>1, <2>2 DEF ExpectedInv
<1>8. CoveredInv'
  <2>1. HeardCells(c)' = (UNION {hello[c].cells[p[2] + 1] : p \in stays}) \cup hello[c].cells[pn + 1]
    <3> DEFINE f(p) == hello[c].cells[p[2] + 1]
    <3>1. HeardCells(c)' = UNION {f(p) : p \in stays \cup {<<c, pn>>}}
      BY <1>3 DEF HeardCells
    <3>2. {f(p) : p \in stays \cup {<<c, pn>>}} = {f(p) : p \in stays} \cup {f(<<c, pn>>)}
      <4> HIDE DEF f, stays
      <4> QED
        OBVIOUS
    <3>3. f(<<c, pn>>) = hello[c].cells[pn + 1]
      OBVIOUS
    <3> HIDE DEF f
    <3>4. UNION {f(p) : p \in stays \cup {<<c, pn>>}} = (UNION {f(p) : p \in stays}) \cup f(<<c, pn>>)
      BY <3>2
    <3> QED
      BY <3>1, <3>3, <3>4 DEF f
  <2>2. now.covered = UNION {hello[c].cells[p[2] + 1] : p \in stays}
    <3>1. CASE stays # {}
      BY <1>4, <3>1 DEF CollectorIInv, CoveredInv, HeardCells
    <3>2. CASE stays = {}
      BY <1>4, <3>2
    <3> QED
      BY <3>1, <3>2
  <2>3. HeardCells(dcid)' = HeardCells(c)' /\ heard' # {}
    BY <1>3 DEF HeardCells
  <2>4. covered' = HeardCells(c)'
    BY <1>3, <2>1, <2>2
  <2> QED
    BY <2>3, <2>4 DEF CoveredInv
<1>9. StateInv'
  <2>1. Complete(dcid, covered)' <=> Complete(c, covered')
    BY <1>3 DEF Complete
  <2>2. state' = "released" <=> Complete(c, covered')
    BY <1>3 DEF Add
  <2> QED
    BY <1>3, <2>1, <2>2 DEF StateInv
<1>10. GivenUpOnlyFar'
  BY <1>3 DEF GivenUpOnlyFar
<1> QED
  BY <1>5, <1>6, <1>7, <1>8, <1>9, <1>10 DEF CollectorIInv

\* A hold that is given up.
LEMMA GiveUpKeeps ==
  ASSUME CollectorIInv, Holding, GiveUp, GivenUpOnlyFar'
  PROVE  CollectorIInv'
BY DEF CollectorIInv, Holding, GiveUp, CollectorTypeOK, HeardInv, ExpectedInv, CoveredInv, StateInv

LEMMA UnreadableKeeps ==
  ASSUME CollectorIInv, NEW c \in Connection, NEW pn \in Number(c), Unreadable(c, pn)
  PROVE  CollectorIInv'
<1> DEFINE top == Highest({p[2] : p \in {q \in heard : q[1] = c}})
           exp == Collected(c).expected
<1>1. pn \in 0 .. MaxNumber
  BY CellsTyped, WindowAssumption DEF CollectorIInv
<1>2. exp \in Nat /\ exp = top + 1
  BY ExpectsNext
<1>3. decodePacketNumber(pn % Window, exp) # pn
  BY DEF Unreadable, Readable
<1>4. ~(2 * pn + Window > 2 * exp) \/ ~(2 * pn <= 2 * exp + Window)
  <2> HIDE DEF exp
  <2> QED
    BY <1>1, <1>2, <1>3, NumberDecoded
<1>5. unread' = <<pn, top>>
  BY DEF Unreadable
<1>6. GivenUpOnlyFar'
  <2>1. pn \in Nat /\ Window \in Nat
    BY <1>1, WindowAssumption
  <2>2. 2 * pn + Window <= 2 * exp \/ 2 * pn > 2 * exp + Window
    <3> HIDE DEF exp
    <3> QED
      BY <1>2, <1>4, <2>1
  <2>3. 2 * pn + Window <= 2 * (top + 1) \/ 2 * pn > 2 * (top + 1) + Window
    <3> HIDE DEF exp, top
    <3> QED
      BY <1>2, <2>2
  <2> HIDE DEF top
  <2> QED
    BY <1>5, <2>3 DEF GivenUpOnlyFar
<1> QED
  BY <1>6, GiveUpKeeps DEF Unreadable

LEMMA NextIInv == CollectorIInv /\ [CollectorNext]_collectorVars => CollectorIInv'
<1> SUFFICES ASSUME CollectorIInv, [CollectorNext]_collectorVars PROVE CollectorIInv'
  OBVIOUS
<1>1. ASSUME NEW c \in Connection, NEW pn \in Number(c), Add(c, pn) PROVE CollectorIInv'
  BY <1>1, AddKeeps
<1>2. ASSUME NEW c \in Connection, NEW pn \in Number(c), Unreadable(c, pn) PROVE CollectorIInv'
  BY <1>2, UnreadableKeeps
<1>3. ASSUME NEW c \in Connection, NEW pn \in Number(c), OverLimit(c, pn) PROVE CollectorIInv'
  BY <1>3, GiveUpKeeps DEF OverLimit, CollectorIInv, GivenUpOnlyFar
<1>4. CASE Fails
  BY <1>4, GiveUpKeeps DEF Fails, CollectorIInv, GivenUpOnlyFar
<1>5. CASE Flush
  <2>1. UNCHANGED <<byName, hello, hold, unread>> /\ state = "hold" /\ state' = "flushed"
    BY <1>5 DEF Flush, Holding
  <2>2. CollectorTypeOK' /\ HeardInv' /\ ExpectedInv' /\ CoveredInv' /\ GivenUpOnlyFar'
    BY <2>1 DEF CollectorIInv, hold, CollectorTypeOK, HeardInv, ExpectedInv, CoveredInv, GivenUpOnlyFar,
                Number, HeardCells
  <2>3. StateInv'
    BY <2>1 DEF CollectorIInv, hold, StateInv, Complete
  <2> QED
    BY <2>2, <2>3 DEF CollectorIInv
<1>6. CASE Anew
  BY <1>6 DEF Anew, CollectorIInv, CollectorTypeOK, HeardInv, ExpectedInv, CoveredInv, StateInv, GivenUpOnlyFar
<1>7. CASE UNCHANGED collectorVars
  BY <1>7 DEF collectorVars, hold, CollectorIInv, CollectorTypeOK, HeardInv, ExpectedInv, CoveredInv, StateInv,
              GivenUpOnlyFar, Number, HeardCells, Complete
<1> QED
  BY <1>1, <1>2, <1>3, <1>4, <1>5, <1>6, <1>7 DEF CollectorNext

LEMMA ReleasedFollows == CollectorIInv => ReleasedWhole
BY DEF CollectorIInv, HeardInv, CoveredInv, StateInv, ReleasedWhole

\* A hold is released exactly when the Initials of one connection have the whole
\* hello, for any number of connections and any hellos (quicInitialCollector.add).
THEOREM ReleasedIsWhole == CollectorSpec => []ReleasedWhole
<1>1. CollectorSpec => []CollectorIInv
  BY InitIInv, NextIInv, PTL DEF CollectorSpec
<1> QED
  BY <1>1, ReleasedFollows, PTL

\* A hold is given up for an undamaged Initial only if its number is half a window
\* away, for any window (decodePacketNumber, reset).
THEOREM GivenUpIsFar == CollectorSpec => []GivenUpOnlyFar
<1>1. CollectorSpec => []CollectorIInv
  BY InitIInv, NextIInv, PTL DEF CollectorSpec
<1> QED
  BY <1>1, PTL DEF CollectorIInv

-----------------------------------------------------------------------------
(* The proxy.                                                              *)

\* A session that main sets up, or gives up, is open and has no reader; one that
\* a reader serves is open.
SetupInv ==
  /\ main.at \in SessionSteps \ {"write"} =>
       conn[main.session] = "open" /\ reader[main.session] = "off"
  /\ \A s \in Session : reader[s] # "off" => conn[s] = "open"

\* No session is mapped for the client that main is about to start one for.
UnmappedInv ==
  /\ main.at \in ClientSteps => connMap[main.client] = None
  /\ main.at \in {"zero", "map"} => connMap[owner[main.session]] = None

\* The inductive invariant.
IInv == TypeOK /\ MapExact /\ SetupInv /\ UnmappedInv

-----------------------------------------------------------------------------
(* Initial states and the bound on the held Initials.                      *)

LEMMA InitInv == Init => IInv
<1> SUFFICES ASSUME Init PROVE IInv
  OBVIOUS
<1>1. TypeOK
  <2>1. IsFiniteSet(pendingMap) /\ Cardinality(pendingMap) <= PendingLimit
    BY LimitAssumption, FS_EmptySet DEF Init
  <2>2. owner \in [Session -> Client]
    BY ClientAssumption DEF Init
  <2>. QED
    BY <2>1, <2>2 DEF Init, TypeOK, MainState, Idle
<1>2. MapExact /\ SetupInv /\ UnmappedInv
  BY NoneAssumption
  DEF Init, MapExact, SetupInv, UnmappedInv, SettingUp, Idle, SessionSteps, ClientSteps
<1>. QED
  BY <1>1, <1>2 DEF IInv

\* Whatever had expired, the entries after a datagram are within the limit.
LEMMA CollectBounded ==
  ASSUME TypeOK, Collect
  PROVE  /\ pendingMap' \subseteq Client
         /\ IsFiniteSet(pendingMap') /\ Cardinality(pendingMap') <= PendingLimit
<1> DEFINE c == main.client
<1>1. c \in Client
  BY DEF TypeOK, Collect, MainState, Idle, ClientSteps, SessionSteps
<1>2. PICK expired \in SUBSET pendingMap :
        LET new == c \notin pendingMap \ expired
            kept == IF new /\ Cardinality(pendingMap) >= PendingLimit
                    THEN pendingMap \ expired
                    ELSE pendingMap
        IN IF new /\ Cardinality(kept) >= PendingLimit
           THEN pendingMap' = kept
           ELSE pendingMap' \in {kept \cup {c}, kept \ {c}}
  BY DEF Collect
<1> DEFINE new == c \notin pendingMap \ expired
           kept == IF new /\ Cardinality(pendingMap) >= PendingLimit
                   THEN pendingMap \ expired
                   ELSE pendingMap
<1>3. /\ kept \subseteq pendingMap
      /\ IsFiniteSet(kept) /\ Cardinality(kept) \in Nat /\ Cardinality(kept) <= PendingLimit
  <2>1. IsFiniteSet(pendingMap) /\ Cardinality(pendingMap) \in Nat
    BY FS_CardinalityType DEF TypeOK
  <2>2. kept \subseteq pendingMap
    OBVIOUS
  <2>3. IsFiniteSet(kept) /\ Cardinality(kept) <= Cardinality(pendingMap)
    BY <2>1, <2>2, FS_Subset, Zenon
  <2>. QED
    BY <2>1, <2>2, <2>3, FS_CardinalityType, LimitAssumption DEF TypeOK
<1>4. kept \ {c} \subseteq kept /\ IsFiniteSet(kept \ {c}) /\ Cardinality(kept \ {c}) <= Cardinality(kept)
  BY <1>3, FS_Subset
<1>5. ~(new /\ Cardinality(kept) >= PendingLimit)
        => IsFiniteSet(kept \cup {c}) /\ Cardinality(kept \cup {c}) <= PendingLimit
  <2>1. CASE c \in kept
    BY <2>1, <1>3, kept \cup {c} = kept
  <2>2. CASE c \notin kept
    <3>1. new
      BY <2>2
    <3>2. IsFiniteSet(kept \cup {c}) /\ Cardinality(kept \cup {c}) = Cardinality(kept) + 1
      BY <2>2, <1>3, FS_AddElement
    <3>. QED
      BY <3>1, <3>2, <1>3, LimitAssumption
  <2>. QED
    BY <2>1, <2>2
<1>6. \/ pendingMap' = kept
      \/ pendingMap' = kept \ {c}
      \/ pendingMap' = kept \cup {c} /\ ~(new /\ Cardinality(kept) >= PendingLimit)
  BY <1>2
<1>7. Cardinality(kept \ {c}) \in Nat
  BY <1>4, FS_CardinalityType
<1> HIDE DEF kept, new
<1>8. CASE pendingMap' = kept
  BY <1>8, <1>3 DEF TypeOK
<1>9. CASE pendingMap' = kept \ {c}
  BY <1>9, <1>3, <1>4, <1>7, LimitAssumption DEF TypeOK
<1>10. CASE pendingMap' = kept \cup {c} /\ ~(new /\ Cardinality(kept) >= PendingLimit)
  BY <1>10, <1>1, <1>3, <1>5 DEF TypeOK
<1>. QED
  BY <1>6, <1>8, <1>9, <1>10

-----------------------------------------------------------------------------
(* The steps.                                                              *)

\* The session that main sets up is no client, and no client is a session step.
LEMMA MainFacts ==
  ASSUME TypeOK
  PROVE  /\ main.at \in SessionSteps => main.session \in Session
         /\ main.at \in ClientSteps => main.client \in Client
         /\ SessionSteps \cap ClientSteps = {}
  BY DEF TypeOK, MainState, Idle, SessionSteps, ClientSteps

LEMMA ReadStep ==
  ASSUME IInv, NEW c \in Client, ReadMapped(c) \/ ReadUnmapped(c)
  PROVE  IInv'
<1> USE DEF IInv, ReadMapped, ReadUnmapped, Idle, On
<1>1. TypeOK'
  BY DEF TypeOK, MainState, sessionVars, ClientSteps, SessionSteps
<1>2. MapExact'
  BY DEF MapExact, SettingUp, sessionVars
<1>3. SetupInv' /\ UnmappedInv'
  BY DEF SetupInv, UnmappedInv, sessionVars, ClientSteps, SessionSteps
<1>. QED
  BY <1>1, <1>2, <1>3

\* Steps of main that leave connMap and the sessions alone.
LEMMA MainStep ==
  ASSUME IInv, WriteUpstream \/ Collect \/ DialNot
  PROVE  IInv'
<1> USE DEF IInv, WriteUpstream, DialNot, Idle
<1>1. /\ main' \in MainState /\ main'.at \in {"read", "dial"}
      /\ main'.at = "dial" => main.at = "collect" /\ main'.client = main.client
      /\ UNCHANGED <<connMap, owner, conn, reader>>
  <2>1. CASE WriteUpstream \/ DialNot
    BY <2>1 DEF MainState, sessionVars
  <2>2. CASE Collect
    <3>1. main.client \in Client
      BY <2>2, MainFacts DEF Collect, ClientSteps
    <3>2. main' \in {Idle, [at |-> "dial", client |-> main.client]}
      BY <2>2 DEF Collect
    <3>. QED
      BY <2>2, <3>1, <3>2 DEF Collect, MainState, ClientSteps, sessionVars
  <2>. QED
    BY <2>1, <2>2
<1>2. main.at \in {"write", "collect", "dial"}
  BY DEF Collect
<1>3. TypeOK'
  BY <1>1, CollectBounded DEF TypeOK
<1>4. MapExact'
  BY <1>1, <1>2 DEF MapExact, SettingUp
<1>5. SetupInv' /\ UnmappedInv'
  BY <1>1, <1>2 DEF SetupInv, UnmappedInv, ClientSteps, SessionSteps
<1>. QED
  BY <1>3, <1>4, <1>5

LEMMA DialStep ==
  ASSUME IInv, Dial
  PROVE  IInv'
<1> USE DEF IInv, Dial, On, Unreferenced
<1>1. PICK s \in Session :
        /\ conn[s] # "open" /\ reader[s] = "off"
        /\ owner' = [owner EXCEPT ![s] = main.client]
        /\ conn' = [conn EXCEPT ![s] = "open"]
        /\ main' \in {On("zero", s), On("map", s)}
  OBVIOUS
<1>2. main.client \in Client /\ connMap[main.client] = None
  BY MainFacts DEF UnmappedInv, ClientSteps
<1>3. TypeOK'
  BY <1>1, <1>2 DEF TypeOK, MainState, SessionSteps
<1>4. \A c \in Client : connMap[c] # s
  BY <1>1, NoneAssumption DEF MapExact
<1>5. MapExact'
  BY <1>1, <1>2, <1>4 DEF MapExact, SettingUp, TypeOK
<1>6. SetupInv' /\ UnmappedInv'
  BY <1>1, <1>2 DEF SetupInv, UnmappedInv, ClientSteps, SessionSteps, TypeOK
<1>. QED
  BY <1>3, <1>5, <1>6

LEMMA SetupStep ==
  ASSUME IInv, WriteZero \/ FlushInitial \/ GoRunSession
  PROVE  IInv'
<1> USE DEF IInv, WriteZero, FlushInitial, GoRunSession, On, Idle
<1>1. main.session \in Session /\ conn[main.session] = "open" /\ reader[main.session] = "off"
  BY MainFacts DEF SetupInv, SessionSteps
<1>2. TypeOK'
  BY <1>1 DEF TypeOK, MainState, SessionSteps, sessionVars
<1>3. main.at = "zero" => \A c \in Client : connMap[c] # main.session
  BY <1>1, NoneAssumption DEF MapExact, SettingUp
<1>4. MapExact'
  BY <1>1, <1>3 DEF MapExact, SettingUp, TypeOK, sessionVars
<1>5. SetupInv' /\ UnmappedInv'
  BY <1>1 DEF SetupInv, UnmappedInv, ClientSteps, SessionSteps, TypeOK, sessionVars
<1>. QED
  BY <1>2, <1>4, <1>5

LEMMA MapStep ==
  ASSUME IInv, MapSession
  PROVE  IInv'
<1> DEFINE s == main.session
<1> USE DEF IInv, MapSession, On
<1>1. s \in Session /\ conn[s] = "open" /\ reader[s] = "off" /\ owner[s] \in Client
  BY MainFacts DEF SetupInv, SessionSteps, TypeOK
<1>2. connMap[owner[s]] = None
  BY DEF UnmappedInv
<1>3. TypeOK'
  BY <1>1 DEF TypeOK, MainState, SessionSteps, sessionVars
<1>4. MapExact'
  BY <1>1, <1>2, NoneAssumption DEF MapExact, SettingUp, TypeOK, sessionVars
<1>5. SetupInv' /\ UnmappedInv'
  BY <1>1 DEF SetupInv, UnmappedInv, ClientSteps, SessionSteps, sessionVars
<1>. QED
  BY <1>3, <1>4, <1>5

\* The entry that main deletes is its own: no other session is mapped for its client.
LEMMA FlushFailedStep ==
  ASSUME IInv, FlushFailedUnmap \/ FlushFailedClose
  PROVE  IInv'
<1> DEFINE s == main.session
<1> USE DEF IInv, FlushFailedUnmap, FlushFailedClose, Delete, On, Idle
<1>1. s \in Session /\ conn[s] = "open" /\ reader[s] = "off" /\ owner[s] \in Client
  BY MainFacts DEF SetupInv, SessionSteps, TypeOK
<1>2. main.at = "unmap" => connMap[owner[s]] = s
  BY <1>1 DEF MapExact, SettingUp
<1>3. main.at = "close" => \A c \in Client : connMap[c] # s
  BY <1>1, NoneAssumption DEF MapExact, SettingUp
<1>4. TypeOK'
  BY <1>1 DEF TypeOK, MainState, SessionSteps, sessionVars
<1>5. MapExact'
  BY <1>1, <1>2, <1>3, NoneAssumption DEF MapExact, SettingUp, TypeOK, sessionVars
<1>6. SetupInv' /\ UnmappedInv'
  BY <1>1 DEF SetupInv, UnmappedInv, ClientSteps, SessionSteps, TypeOK, sessionVars
<1>. QED
  BY <1>4, <1>5, <1>6

\* So is the entry that a reader deletes.
LEMMA ReaderStep ==
  ASSUME IInv, NEW s \in Session, Reader(s)
  PROVE  IInv'
<1> USE DEF IInv, Reader, ReadFails, ReaderUnmap, ReaderClose, Delete, GotoReader
<1>1. reader[s] # "off" /\ conn[s] = "open" /\ owner[s] \in Client
  BY DEF SetupInv, TypeOK
<1>2. main.at \in SessionSteps \ {"write"} => main.session # s /\ main.session \in Session
  BY <1>1, MainFacts DEF SetupInv
<1>3. reader[s] = "unmap" => connMap[owner[s]] = s
  BY DEF MapExact
<1>4. reader[s] = "close" => \A c \in Client : connMap[c] # s
  BY <1>2, NoneAssumption DEF MapExact, SettingUp, SessionSteps
<1>5. TypeOK'
  BY <1>1 DEF TypeOK
<1>6. MapExact'
  BY <1>1, <1>2, <1>3, <1>4, NoneAssumption DEF MapExact, SettingUp, TypeOK, SessionSteps
<1>7. SetupInv'
  BY <1>1, <1>2 DEF SetupInv, TypeOK
<1>8. UnmappedInv'
  BY <1>1, MainFacts DEF UnmappedInv, TypeOK, SessionSteps, ClientSteps
<1>. QED
  BY <1>5, <1>6, <1>7, <1>8

-----------------------------------------------------------------------------
(* The theorems.                                                           *)

LEMMA StepInv == IInv /\ [Next]_vars => IInv'
<1> SUFFICES ASSUME IInv, [Next]_vars PROVE IInv'
  OBVIOUS
<1>1. CASE Read
  BY <1>1, ReadStep DEF Read
<1>2. CASE Main
  BY <1>2, MainStep, DialStep, SetupStep, MapStep, FlushFailedStep DEF Main
<1>3. CASE \E s \in Session : Reader(s)
  BY <1>3, ReaderStep
<1>4. CASE UNCHANGED vars
  BY <1>4 DEF vars, sessionVars, IInv, TypeOK, MapExact, SetupInv, UnmappedInv, SettingUp
<1>. QED
  BY <1>1, <1>2, <1>3, <1>4 DEF Next

LEMMA Invariance == Spec => []IInv
  BY InitInv, StepInv, PTL DEF Spec

\* Every variable of QUICProxy keeps its type, and the held Initials their limit.
THEOREM TypeCorrect == Spec => []TypeOK
<1>1. IInv => TypeOK
  BY DEF IInv
<1>. QED
  BY <1>1, Invariance, PTL

\* The map of QUICProxy is exact: a mapped session is open, its client's own and
\* served, and every session that relays is mapped.
THEOREM MapIsExact == Spec => []MapExact
<1>1. IInv => MapExact
  BY DEF IInv
<1>. QED
  BY <1>1, Invariance, PTL

-----------------------------------------------------------------------------
(* The table of sessions.                                                  *)

LEMMA TableDial ==
  ASSUME TypeOK, NEW s \in Session, NEW k \in Client, conn[s] # "open",
         owner' = [owner EXCEPT ![s] = k], conn' = [conn EXCEPT ![s] = "open"], UNCHANGED connMap
  PROVE  [Table!Next]_(Table!vars)
<1>1. conn \in [Session -> {"none", "open", "closed"}] /\ owner \in [Session -> Client]
  BY DEF TypeOK
<1>2. \A g \in Client : <<s, g>> \notin Live
  BY DEF Live
<1>3. Live' = Live \cup {<<s, k>>}
  BY <1>1 DEF Live
<1>4. Table!Dial(s, k)
  BY <1>2, <1>3 DEF Table!Dial
<1> QED BY <1>4 DEF Table!Next

LEMMA TableInsert ==
  ASSUME TypeOK, NEW s \in Session, conn[s] = "open", connMap[owner[s]] = None,
         connMap' = [connMap EXCEPT ![owner[s]] = s], UNCHANGED <<owner, conn>>
  PROVE  [Table!Next]_(Table!vars)
<1>1. owner[s] \in Client /\ UNCHANGED Live
  BY DEF TypeOK, Live
<1>2. <<s, owner[s]>> \in Live
  BY <1>1 DEF Live
<1>3. Table!Insert(s, owner[s])
  BY <1>1, <1>2 DEF Table!Insert
<1> QED BY <1>1, <1>3 DEF Table!Next

\* A delete that finds nothing does nothing.
LEMMA TableRemove ==
  ASSUME TypeOK, NEW k \in Client, connMap' = [connMap EXCEPT ![k] = None], UNCHANGED <<owner, conn>>
  PROVE  [Table!Next]_(Table!vars)
<1>1. UNCHANGED Live
  BY DEF Live
<1>2. CASE connMap[k] = None
  BY <1>1, <1>2 DEF TypeOK, Table!vars
<1>3. CASE connMap[k] # None
  <2>1. Table!Remove(k)
    BY <1>1, <1>3 DEF Table!Remove
  <2> QED BY <2>1 DEF Table!Next
<1> QED BY <1>2, <1>3

\* Nor does closing a connection once more.
LEMMA TableClose ==
  ASSUME TypeOK, NEW s \in Session, connMap[owner[s]] # s,
         conn' = [conn EXCEPT ![s] = "closed"], UNCHANGED <<owner, connMap>>
  PROVE  [Table!Next]_(Table!vars)
<1>1. conn \in [Session -> {"none", "open", "closed"}] /\ owner[s] \in Client
  BY DEF TypeOK
<1>2. CASE conn[s] # "open"
  <2>1. UNCHANGED Live
    BY <1>1, <1>2 DEF Live
  <2> QED BY <2>1 DEF Table!vars
<1>3. CASE conn[s] = "open"
  <2>1. <<s, owner[s]>> \in Live
    BY <1>1, <1>3 DEF Live
  <2>2. Live' = Live \ {<<s, owner[s]>>}
    BY <1>1 DEF Live
  <2>3. Table!Close(s, owner[s])
    BY <2>1, <2>2 DEF Table!Close
  <2> QED BY <1>1, <2>3 DEF Table!Next
<1> QED BY <1>2, <1>3

LEMMA TableKept ==
  ASSUME UNCHANGED <<connMap, owner, conn>>
  PROVE  [Table!Next]_(Table!vars)
BY DEF Table!vars, Live

LEMMA TableStep ==
  ASSUME IInv, [Next]_vars
  PROVE  [Table!Next]_(Table!vars)
<1>0. /\ TypeOK /\ \A s \in Session : owner[s] \in Client
      /\ main.at \in SessionSteps => main.session \in Session
      /\ main.at \in ClientSteps => main.client \in Client
  BY DEF IInv, TypeOK, MainState, Idle, SessionSteps, ClientSteps
<1>1. ASSUME \/ UNCHANGED vars \/ Read
             \/ WriteUpstream \/ Collect \/ DialNot \/ FlushInitial \/ GoRunSession
             \/ \E s \in Session : ReadFails(s)
      PROVE  UNCHANGED <<connMap, owner, conn>>
  <2>1. CASE UNCHANGED vars \/ Read \/ WriteUpstream \/ DialNot
    BY <2>1 DEF vars, Read, ReadMapped, ReadUnmapped, WriteUpstream, DialNot, sessionVars
  <2>2. CASE Collect
    BY <2>2 DEF Collect, sessionVars
  <2>3. CASE FlushInitial \/ GoRunSession \/ \E s \in Session : ReadFails(s)
    BY <2>3 DEF FlushInitial, GoRunSession, ReadFails, sessionVars
  <2> QED BY <1>1, <2>1, <2>2, <2>3
<1>2. ASSUME Dial PROVE [Table!Next]_(Table!vars)
  BY <1>0, <1>2, TableDial DEF Dial, Unreferenced, ClientSteps
<1>3. ASSUME WriteZero PROVE [Table!Next]_(Table!vars)
  <2>1. main.session \in Session /\ connMap[owner[main.session]] # main.session
    BY <1>0, <1>3, NoneAssumption DEF IInv, UnmappedInv, WriteZero, SessionSteps
  <2>2. UNCHANGED conn \/ conn' = [conn EXCEPT ![main.session] = "closed"]
    BY <1>3 DEF WriteZero
  <2> QED BY <1>0, <1>3, <2>1, <2>2, TableClose, TableKept DEF WriteZero
<1>4. ASSUME MapSession PROVE [Table!Next]_(Table!vars)
  <2>1. /\ main.session \in Session /\ conn[main.session] = "open"
        /\ connMap[owner[main.session]] = None
    BY <1>0, <1>4 DEF IInv, SetupInv, UnmappedInv, MapSession, SessionSteps
  <2> QED BY <1>0, <1>4, <2>1, TableInsert DEF MapSession, sessionVars
<1>5. ASSUME FlushFailedUnmap PROVE [Table!Next]_(Table!vars)
  <2>1. owner[main.session] \in Client
    BY <1>0, <1>5 DEF FlushFailedUnmap, SessionSteps
  <2> QED BY <1>0, <1>5, <2>1, TableRemove DEF FlushFailedUnmap, Delete, sessionVars
<1>6. ASSUME FlushFailedClose PROVE [Table!Next]_(Table!vars)
  <2>1. main.session \in Session /\ reader[main.session] = "off" /\ main.at = "close"
    BY <1>0, <1>6 DEF IInv, SetupInv, FlushFailedClose, SessionSteps
  <2>2. connMap[owner[main.session]] # main.session
    BY <1>0, <2>1, NoneAssumption DEF IInv, MapExact, SettingUp
  <2> QED BY <1>0, <1>6, <2>1, <2>2, TableClose DEF FlushFailedClose
<1>7. ASSUME NEW s \in Session, ReaderUnmap(s) PROVE [Table!Next]_(Table!vars)
  BY <1>0, <1>7, TableRemove DEF ReaderUnmap, Delete
<1>8. ASSUME NEW s \in Session, ReaderClose(s) PROVE [Table!Next]_(Table!vars)
  <2>1. ~SettingUp(s)
    BY <1>0, <1>8 DEF IInv, SetupInv, SettingUp, ReaderClose, SessionSteps
  <2>2. connMap[owner[s]] # s
    BY <1>0, <1>8, <2>1, NoneAssumption DEF IInv, MapExact, ReaderClose
  <2> QED BY <1>0, <1>8, <2>2, TableClose DEF ReaderClose
<1> QED BY <1>1, <1>2, <1>3, <1>4, <1>5, <1>6, <1>7, <1>8, TableKept DEF Next, Main, Reader

\* For any clients, sessions and limit the proxy keeps the table that FlowTable
\* describes: nothing is entered over an entry, or closed while it is mapped
\* (QUICProxy, quicProxyRunSession).
THEOREM TableIsKept == Spec => KeepsTable
<1>1. Init => Table!Init
  BY DEF Init, Live, Table!Init
<1>2. IInv /\ [Next]_vars => [Table!Next]_(Table!vars)
  BY TableStep
<1> QED BY <1>1, <1>2, Invariance, PTL DEF Spec, KeepsTable, Table!Spec
=============================================================================
