---------------------------- MODULE ProxyProofs ----------------------------
(***************************************************************************)
(* The lookup of an address, the redirect of a connection that starts from *)
(* it, and the sessions of the transparent UDP proxy.                      *)
(*                                                                         *)
(* GetOutboundByIP finds the prefix of an address, for any number of lines *)
(* in any order.  The search halves what is left; what makes that right is *)
(* that the ends of the ranges are in order where their starts are, which  *)
(* holds since no prefix reaches into the next.                            *)
(*                                                                         *)
(* A redirect dials with an outbound of the name or address it dials, and  *)
(* leaves no connection open when it is over: for any profile, any number  *)
(* of retries, and any length of the chain of fallbacks.  At every label   *)
(* but those of an attempt under way there is no open connection, and at   *)
(* those there is one, the current; Keep hands its closing to the copy     *)
(* from the client, so that a redirect that is over with that copy going   *)
(* on may have one still.                                                  *)
(*                                                                         *)
(* A flow of the UDP proxy has one session at a time, from its start until *)
(* remove unmaps it, and as many tokens are out as sessions dial.  What a  *)
(* session writes was accepted in order: every datagram it is given is     *)
(* newer than all that its flow has written or carries, since there is one *)
(* dispatcher; Initials are held only while the flow has no session; and   *)
(* an object is used again only when nothing names it.  From that follows, *)
(* step by step, that the sessions of a flow implement UDPFlow.            *)
(***************************************************************************)
EXTENDS Redirect, Profile, TProxyUDP, FiniteSetTheorems, SequenceTheorems, TLAPS

ProfileTypeOK ==
  /\ stage \in {"load", "ready", "search", "done", "panic"}
  /\ CurrentInterface \in Interface
  /\ lines \subseteq Line
  /\ Ranges \in Seq(IPRange)
  /\ ip \in Address
  /\ low \in Nat
  /\ high \in 0 .. Len(Ranges)
  /\ result \in Interface

\* Every range is that of a line, and every line has its range.
Faithful ==
  /\ \A l \in lines : l.start + l.length <= Space
  /\ \A i \in 1 .. Len(Ranges) : \E l \in lines : Ranges[i] = RangeOf(l)
  /\ \A l \in lines : \E i \in 1 .. Len(Ranges) : Ranges[i] = RangeOf(l)

Ordered ==
  stage \in {"ready", "search", "done"} =>
    \A i, j \in 1 .. Len(Ranges) : i < j => Ranges[i].Start <= Ranges[j].Start

\* What the search has passed ends at or below the address, or above it.
Narrowed ==
  stage = "search" /\ Disjoint /\ BelowTop =>
    /\ \A i \in 1 .. Len(Ranges) : i <= low => Ranges[i].End <= ip
    /\ \A i \in 1 .. Len(Ranges) : i > high => Ranges[i].End > ip

ProfileIInv == ProfileTypeOK /\ Faithful /\ Ordered /\ Narrowed /\ LookupExact

-----------------------------------------------------------------------------

\* The range of a line that ends below the last address is not wrapped around.
LEMMA RangeIsLine ==
  ASSUME NEW l \in Line, l.start + l.length < Space
  PROVE  /\ RangeOf(l) \in IPRange
         /\ RangeOf(l).Start = l.start
         /\ RangeOf(l).End = l.start + l.length
         /\ RangeOf(l).Interface = l.outbound
<1>1. /\ l.start \in Address /\ l.length \in 1 .. Space /\ l.outbound \in Interface
  BY DEF Line
<1>2. Wrap(l.start + l.length) = l.start + l.length /\ l.start + l.length \in Address
  BY <1>1, SpaceAssumption DEF Wrap, Address
<1> QED
  BY <1>1, <1>2 DEF RangeOf, IPRange

\* Any line has a range, which may be wrapped around.
LEMMA RangeTyped ==
  ASSUME NEW l \in Line, l.start + l.length <= Space
  PROVE  RangeOf(l) \in IPRange
<1>1. /\ l.start \in Address /\ l.length \in 1 .. Space /\ l.outbound \in Interface
  BY DEF Line
<1>2. Wrap(l.start + l.length) \in Address
  BY <1>1, SpaceAssumption DEF Wrap, Address
<1> QED
  BY <1>1, <1>2 DEF RangeOf, IPRange

\* Ranges that are sorted by their starts are sorted by their ends.
LEMMA EndsOrdered ==
  ASSUME ProfileTypeOK, Faithful, Ordered, stage = "search", Disjoint, BelowTop,
         NEW i \in 1 .. Len(Ranges), NEW j \in 1 .. Len(Ranges), i <= j
  PROVE  Ranges[i].End <= Ranges[j].End
<1>1. PICK l \in lines : Ranges[i] = RangeOf(l)
  BY DEF Faithful
<1>2. PICK m \in lines : Ranges[j] = RangeOf(m)
  BY DEF Faithful
<1>3. l \in Line /\ m \in Line
  BY DEF ProfileTypeOK
<1>4. /\ l.start \in Nat /\ l.length \in Nat \ {0}
      /\ m.start \in Nat /\ m.length \in Nat \ {0}
  BY <1>3, SpaceAssumption DEF Line, Address
<1>5. /\ Ranges[i].Start = l.start /\ Ranges[i].End = l.start + l.length
      /\ Ranges[j].Start = m.start /\ Ranges[j].End = m.start + m.length
  BY <1>1, <1>2, <1>3, RangeIsLine DEF BelowTop
<1>6. CASE l = m
  BY <1>4, <1>5, <1>6
<1>7. CASE l # m
  <2>1. i # j => Ranges[i].Start <= Ranges[j].Start
    BY DEF Ordered
  <2>2. l.start <= m.start
    BY <1>4, <1>5, <2>1
  <2>3. l.start + l.length <= m.start \/ m.start + m.length <= l.start
    BY <1>7 DEF Disjoint
  <2> QED
    BY <1>4, <1>5, <2>2, <2>3
<1> QED
  BY <1>6, <1>7

-----------------------------------------------------------------------------

\* The numbers that a search compares.
LEMMA Numbers ==
  ASSUME ProfileTypeOK
  PROVE  /\ Len(Ranges) \in Nat /\ low \in Nat /\ high \in 0 .. Len(Ranges) /\ ip \in Nat
         /\ \A i \in 1 .. Len(Ranges) :
              Ranges[i].Start \in Nat /\ Ranges[i].End \in Nat /\ Ranges[i].Interface \in Interface
<1>1. Address \subseteq Nat
  BY SpaceAssumption DEF Address
<1>2. Ranges \in Seq(IPRange)
  BY DEF ProfileTypeOK
<1>3. \A i \in 1 .. Len(Ranges) : Ranges[i] \in IPRange
  BY <1>2
<1>4. \A i \in 1 .. Len(Ranges) : Ranges[i].Start \in Address /\ Ranges[i].End \in Address
                                   /\ Ranges[i].Interface \in Interface
  BY <1>3 DEF IPRange
<1>5. \A i \in 1 .. Len(Ranges) :
        Ranges[i].Start \in Nat /\ Ranges[i].End \in Nat /\ Ranges[i].Interface \in Interface
  BY <1>1, <1>4
<1>6. Len(Ranges) \in Nat
  BY <1>2
<1>7. low \in Nat /\ high \in 0 .. Len(Ranges) /\ ip \in Nat
  BY <1>1 DEF ProfileTypeOK
<1> QED
  BY <1>5, <1>6, <1>7

LEMMA ProfileInitIInv == ProfileInit => ProfileIInv
<1> SUFFICES ASSUME ProfileInit PROVE ProfileIInv
  OBVIOUS
<1>1. ProfileTypeOK
  BY SpaceAssumption, OutboundAssumption DEF ProfileInit, ProfileTypeOK, Address
<1>2. Faithful
  BY DEF ProfileInit, Faithful
<1> QED
  BY <1>1, <1>2 DEF ProfileInit, ProfileIInv, Ordered, Narrowed, LookupExact

\* A new line has its range at the end; the old ones keep theirs.
LEMMA PrefixKeeps ==
  ASSUME ProfileIInv, NEW start \in Address, NEW length \in Lengths, Prefix(start, length)
  PROVE  ProfileIInv'
<1> USE DEF ProfileIInv
<1>1. CASE length = 0
  <2>1. UNCHANGED <<lines, Ranges, CurrentInterface, search>> /\ stage' = "panic"
    BY <1>1 DEF Prefix
  <2>2. ProfileTypeOK' /\ Faithful'
    BY <2>1 DEF ProfileTypeOK, Faithful, search
  <2> QED
    BY <2>1, <2>2 DEF Ordered, Narrowed, LookupExact
<1>2. CASE length # 0
  <2> DEFINE l == [start |-> start, length |-> length, outbound |-> CurrentInterface]
  <2>1. /\ stage = "load" /\ stage' = "load"
        /\ start + length <= Space
        /\ lines' = lines \cup {l}
        /\ Ranges' = Append(Ranges, RangeOf(l))
        /\ UNCHANGED <<CurrentInterface, search>>
    BY <1>2 DEF Prefix
  <2>2. l \in Line /\ l.start + l.length <= Space
    BY <1>2, <2>1, LengthAssumption, SpaceAssumption DEF Line, ProfileTypeOK, Address
  <2>3. RangeOf(l) \in IPRange
    BY <2>2, RangeTyped
  <2>4. Ranges \in Seq(IPRange)
    BY DEF ProfileTypeOK
  <2> HIDE DEF l
  <2>5. /\ Ranges' \in Seq(IPRange)
        /\ Len(Ranges') = Len(Ranges) + 1
        /\ \A i \in 1 .. Len(Ranges) : Ranges'[i] = Ranges[i]
        /\ Ranges'[Len(Ranges) + 1] = RangeOf(l)
    BY <2>1, <2>3, <2>4
  <2>6. ProfileTypeOK'
    BY <2>1, <2>2, <2>4, <2>5 DEF ProfileTypeOK, search
  <2>7. Faithful'
    <3>1. \A k \in lines' : k.start + k.length <= Space
      BY <2>1, <2>2 DEF Faithful
    <3>2. ASSUME NEW i \in 1 .. Len(Ranges') PROVE \E k \in lines' : Ranges'[i] = RangeOf(k)
      <4>1. CASE i \in 1 .. Len(Ranges)
        BY <4>1, <2>1, <2>5 DEF Faithful
      <4>2. CASE i = Len(Ranges) + 1
        BY <4>2, <2>1, <2>5
      <4> QED
        BY <4>1, <4>2, <2>4, <2>5
    <3>3. ASSUME NEW k \in lines' PROVE \E i \in 1 .. Len(Ranges') : Ranges'[i] = RangeOf(k)
      <4>1. CASE k \in lines
        <5>1. PICK i \in 1 .. Len(Ranges) : Ranges[i] = RangeOf(k)
          BY <4>1 DEF Faithful
        <5>2. i \in 1 .. Len(Ranges') /\ Ranges'[i] = RangeOf(k)
          BY <5>1, <2>4, <2>5
        <5> QED
          BY <5>2
      <4>2. CASE k = l
        <5>1. Len(Ranges) + 1 \in 1 .. Len(Ranges')
          BY <2>4, <2>5
        <5> QED
          BY <4>2, <5>1, <2>5
      <4> QED
        BY <4>1, <4>2, <2>1
    <3> QED
      BY <3>1, <3>2, <3>3 DEF Faithful, RangeOf, Wrap
  <2> QED
    BY <2>1, <2>6, <2>7 DEF Ordered, Narrowed, LookupExact
<1> QED
  BY <1>1, <1>2

\* Sorting keeps every range.
LEMMA SortKeeps == ASSUME ProfileIInv, Sort PROVE ProfileIInv'
<1> USE DEF ProfileIInv
<1>1. stage' = "ready" /\ UNCHANGED <<CurrentInterface, lines, search>>
  BY DEF Sort
<1>2. Ranges \in Seq(IPRange)
  BY DEF ProfileTypeOK
<1>3. PICK at \in [1 .. Len(Ranges) -> 1 .. Len(Ranges)] :
        /\ \A i, j \in 1 .. Len(Ranges) : i < j => Ranges[at[i]].Start <= Ranges[at[j]].Start
        /\ \A i \in 1 .. Len(Ranges) : \E j \in 1 .. Len(Ranges) : at[j] = i
        /\ Ranges' = [i \in 1 .. Len(Ranges) |-> Ranges[at[i]]]
  BY DEF Sort, SortedFrom
<1>4. /\ Ranges' \in Seq(IPRange)
      /\ Len(Ranges') = Len(Ranges)
      /\ \A i \in 1 .. Len(Ranges) : Ranges'[i] = Ranges[at[i]] /\ at[i] \in 1 .. Len(Ranges)
  <2>1. \A i \in 1 .. Len(Ranges) : Ranges[at[i]] \in IPRange
    BY <1>2, <1>3
  <2>2. Ranges' \in [1 .. Len(Ranges) -> IPRange]
    BY <1>3, <2>1
  <2>3. Len(Ranges) \in Nat
    BY <1>2
  <2>4. Ranges' \in Seq(IPRange)
    BY <2>2, <2>3
  <2>5. DOMAIN Ranges' = 1 .. Len(Ranges) /\ DOMAIN Ranges' = 1 .. Len(Ranges')
    BY <2>2, <2>4, LenProperties
  <2>6. Len(Ranges') = Len(Ranges)
    BY <2>3, <2>4, <2>5
  <2>7. \A i \in 1 .. Len(Ranges) : Ranges'[i] = Ranges[at[i]]
    BY <1>3
  <2>8. \A i \in 1 .. Len(Ranges) : at[i] \in 1 .. Len(Ranges)
    OBVIOUS
  <2> QED
    BY <2>4, <2>6, <2>7, <2>8
<1>5. ProfileTypeOK'
  BY <1>1, <1>4 DEF ProfileTypeOK, search
<1>6. Faithful'
  <2>1. \A i \in 1 .. Len(Ranges) : \E l \in lines : Ranges'[i] = RangeOf(l)
    <3> SUFFICES ASSUME NEW i \in 1 .. Len(Ranges) PROVE \E l \in lines : Ranges'[i] = RangeOf(l)
      OBVIOUS
    <3>1. PICK l \in lines : Ranges[at[i]] = RangeOf(l)
      BY <1>4 DEF Faithful
    <3>2. Ranges'[i] = RangeOf(l)
      BY <1>4, <3>1
    <3> QED
      BY <3>2
  <2>2. \A l \in lines : \E i \in 1 .. Len(Ranges) : Ranges'[i] = RangeOf(l)
    <3> SUFFICES ASSUME NEW l \in lines PROVE \E i \in 1 .. Len(Ranges) : Ranges'[i] = RangeOf(l)
      OBVIOUS
    <3>1. PICK i \in 1 .. Len(Ranges) : Ranges[i] = RangeOf(l)
      BY DEF Faithful
    <3>2. PICK j \in 1 .. Len(Ranges) : at[j] = i
      BY <1>3
    <3>3. Ranges'[j] = RangeOf(l)
      BY <1>4, <3>1, <3>2
    <3> QED
      BY <3>3
  <2> QED
    BY <1>1, <1>4, <2>1, <2>2 DEF Faithful, RangeOf, Wrap
<1>7. Ordered'
  BY <1>3, <1>4 DEF Ordered
<1> QED
  BY <1>1, <1>5, <1>6, <1>7 DEF Narrowed, LookupExact

\* A search looks at every range.
LEMMA LookupKeeps == ASSUME ProfileIInv, NEW a \in Address, Lookup(a) PROVE ProfileIInv'
<1> USE DEF ProfileIInv
<1>1. /\ stage \in {"ready", "done"} /\ stage' = "search" /\ ip' = a /\ low' = 0
      /\ high' = Len(Ranges)
      /\ UNCHANGED <<CurrentInterface, lines, Ranges, result>>
  BY DEF Lookup
<1>2. Len(Ranges) \in Nat
  BY DEF ProfileTypeOK
<1>3. ProfileTypeOK'
  BY <1>1, <1>2 DEF ProfileTypeOK
<1>4. Faithful' /\ Ordered'
  BY <1>1 DEF Faithful, Ordered
<1>5. Narrowed'
  BY <1>1, <1>2 DEF Narrowed
<1> QED
  BY <1>1, <1>3, <1>4, <1>5 DEF LookupExact

\* The half that is given up lies on one side of the address.
LEMMA SearchStepKeeps == ASSUME ProfileIInv, SearchStep PROVE ProfileIInv'
<1> USE DEF ProfileIInv
<1> DEFINE middle == (low + high) \div 2
<1>1. /\ stage = "search" /\ low < high
      /\ UNCHANGED <<stage, CurrentInterface, lines, Ranges, ip, result>>
      /\ IF Above(middle) THEN high' = middle /\ low' = low
         ELSE low' = middle + 1 /\ high' = high
  BY DEF SearchStep
<1>2. /\ Len(Ranges) \in Nat /\ low \in Nat /\ high \in 0 .. Len(Ranges)
      /\ ip \in Nat /\ \A i \in 1 .. Len(Ranges) : Ranges[i].End \in Nat
  BY Numbers
<1>3. middle \in Nat /\ low <= middle /\ middle < high
  BY <1>1, <1>2
<1> HIDE DEF middle
<1>4. ProfileTypeOK'
  BY <1>1, <1>2, <1>3 DEF ProfileTypeOK
<1>5. Faithful' /\ Ordered'
  BY <1>1 DEF Faithful, Ordered
<1>6. Narrowed'
  <2> SUFFICES ASSUME Disjoint, BelowTop
               PROVE  /\ \A i \in 1 .. Len(Ranges) : i <= low' => Ranges[i].End <= ip
                      /\ \A i \in 1 .. Len(Ranges) : i > high' => Ranges[i].End > ip
    BY <1>1 DEF Narrowed, Disjoint, BelowTop
  <2>1. middle + 1 \in 1 .. Len(Ranges)
    BY <1>2, <1>3
  <2>2. CASE Above(middle)
    <3>1. \A i \in 1 .. Len(Ranges) : i > middle => Ranges[middle + 1].End <= Ranges[i].End
      BY <1>1, <1>3, <2>1, EndsOrdered
    <3> QED
      BY <1>1, <1>2, <2>1, <2>2, <3>1 DEF Above, Narrowed
  <2>3. CASE ~Above(middle)
    <3>1. \A i \in 1 .. Len(Ranges) : i <= middle + 1 => Ranges[i].End <= Ranges[middle + 1].End
      BY <1>1, <1>3, <2>1, EndsOrdered
    <3> QED
      BY <1>1, <1>2, <2>1, <2>3, <3>1 DEF Above, Narrowed
  <2> QED
    BY <2>2, <2>3
<1> QED
  BY <1>1, <1>4, <1>5, <1>6 DEF LookupExact

\* The range found holds the address, or none does.
LEMMA ReturnKeeps == ASSUME ProfileIInv, SearchReturns PROVE ProfileIInv'
<1> USE DEF ProfileIInv
<1>1. /\ stage = "search" /\ low >= high /\ stage' = "done"
      /\ UNCHANGED <<CurrentInterface, lines, Ranges, ip, low, high>>
      /\ result' = IF low < Len(Ranges) /\ ip >= Ranges[low + 1].Start
                   THEN Ranges[low + 1].Interface ELSE DefaultOutbound
  BY DEF SearchReturns
<1>2. /\ Len(Ranges) \in Nat /\ low \in Nat /\ high \in 0 .. Len(Ranges) /\ ip \in Nat
      /\ \A i \in 1 .. Len(Ranges) :
           Ranges[i].End \in Nat /\ Ranges[i].Start \in Nat /\ Ranges[i].Interface \in Interface
  BY Numbers
<1>3. result' \in Interface
  BY <1>1, <1>2, OutboundAssumption
<1>4. ProfileTypeOK'
  BY <1>1, <1>3 DEF ProfileTypeOK
<1>5. Faithful' /\ Ordered' /\ Narrowed'
  BY <1>1 DEF Faithful, Ordered, Narrowed
<1>6. LookupExact'
  <2> SUFFICES ASSUME Disjoint, BelowTop
               PROVE  /\ \A l \in lines : Covers(l, ip) => result' = l.outbound
                      /\ (\A l \in lines : ~Covers(l, ip)) => result' = DefaultOutbound
    BY <1>1 DEF LookupExact, Disjoint, BelowTop, Covers
  <2>1. \A l \in lines : /\ l.start \in Nat /\ l.length \in Nat
                         /\ RangeOf(l).Start = l.start
                         /\ RangeOf(l).End = l.start + l.length
                         /\ RangeOf(l).Interface = l.outbound
    BY RangeIsLine, SpaceAssumption DEF ProfileTypeOK, BelowTop, Line, Address
  <2>2. CASE low < Len(Ranges) /\ ip >= Ranges[low + 1].Start
    <3>1. low + 1 \in 1 .. Len(Ranges) /\ Ranges[low + 1].End > ip
      BY <1>1, <1>2, <2>2 DEF Narrowed
    <3>2. PICK m \in lines : Ranges[low + 1] = RangeOf(m)
      BY <3>1 DEF Faithful
    <3>3. Covers(m, ip) /\ result' = m.outbound
      BY <1>1, <2>1, <2>2, <3>1, <3>2 DEF Covers
    <3>4. \A l \in lines : Covers(l, ip) => l = m
      BY <1>2, <2>1, <3>3 DEF Disjoint, Covers
    <3> QED
      BY <3>3, <3>4
  <2>3. CASE ~(low < Len(Ranges) /\ ip >= Ranges[low + 1].Start)
    <3>1. ASSUME NEW l \in lines, Covers(l, ip) PROVE FALSE
      <4>1. PICK i \in 1 .. Len(Ranges) : Ranges[i] = RangeOf(l)
        BY DEF Faithful
      <4>2. Ranges[i].Start <= ip /\ ip < Ranges[i].End
        BY <2>1, <3>1, <4>1 DEF Covers
      <4>3. i > low
        BY <1>1, <1>2, <4>2 DEF Narrowed
      <4>4. low + 1 \in 1 .. Len(Ranges) /\ Ranges[low + 1].Start <= Ranges[i].Start
        BY <1>1, <1>2, <4>3 DEF Ordered
      <4> QED
        BY <1>2, <2>3, <4>2, <4>4
    <3>2. result' = DefaultOutbound
      BY <1>1, <2>3
    <3> QED
      BY <3>1, <3>2
  <2> QED
    BY <2>2, <2>3
<1> QED
  BY <1>4, <1>5, <1>6

LEMMA ProfileNextIInv == ProfileIInv /\ [ProfileNext]_profileVars => ProfileIInv'
<1> SUFFICES ASSUME ProfileIInv, [ProfileNext]_profileVars PROVE ProfileIInv'
  OBVIOUS
<1>1. ASSUME NEW o \in Interface, Section(o) PROVE ProfileIInv'
  <2>1. CurrentInterface' = o /\ UNCHANGED <<stage, lines, Ranges, search>>
    BY <1>1 DEF Section
  <2> QED
    BY <2>1 DEF ProfileIInv, ProfileTypeOK, Faithful, Ordered, Narrowed, LookupExact, search, Disjoint, BelowTop, Covers, RangeOf, Wrap
<1>2. ASSUME UNCHANGED profileVars PROVE ProfileIInv'
  BY <1>2 DEF profileVars, ProfileIInv, ProfileTypeOK, Faithful, Ordered, Narrowed, LookupExact, search, Disjoint, BelowTop, Covers, RangeOf, Wrap
<1> QED
  BY <1>1, <1>2, PrefixKeeps, SortKeeps, LookupKeeps, SearchStepKeeps, ReturnKeeps DEF ProfileNext

\* GetOutboundByIP finds the outbound of an address in any profile whose
\* prefixes are apart and below the last address: with any number of lines,
\* outbounds and addresses (LoadProfile, GetOutboundByIP).
THEOREM LookupIsExact == ProfileSpec => []LookupExact
<1>1. ProfileIInv => LookupExact
  BY DEF ProfileIInv
<1> QED
  BY ProfileInitIInv, ProfileNextIInv, <1>1, PTL DEF ProfileSpec

-----------------------------------------------------------------------------
(* The redirect.                                                           *)

Labels == {"choose", "direct", "header", "hello", "plain", "connect", "awaitHello", "failed",
           "plainAgain", "giveUp", "dialed", "relay", "done"}

RedirectTypeOK ==
  /\ config \in Config
  /\ pc \in Labels
  /\ byName \in BOOLEAN
  /\ domain \in Domain \cup {Nil}
  /\ lie \in Lie \cup {Nil}
  /\ outbound \in Outbound \cup {Nil}
  /\ hello \in Header
  /\ dialed \in Nat
  /\ client \in BOOLEAN /\ kept \in BOOLEAN /\ info \in BOOLEAN
  /\ copies \in [Directions -> {"none", "copy", "send", "done"}]

\* A fake address is asked for without a name; the name it leads to is the one that is
\* dialed until a hello names another one, so that a name that comes with a hello is never
\* mistaken for that of the fake address.
Chosen ==
  /\ pc \in {"header", "hello", "plain", "connect", "awaitHello", "failed", "plainAgain", "dialed"} =>
       outbound \in Chain(OwnOutbound)
  /\ pc = "hello" => hello # Nil
  /\ lie # Nil => byName
  /\ pc = "choose" => (lie # Nil => domain = Nil)
  /\ pc \in {"header", "hello"} => (lie # Nil => lie.Name = domain)

\* The connections that may be open at each label: those that were given up, and, once it
\* is dialed and until it is closed, the one in use.
OpenAt ==
  /\ open \cup left \subseteq 1 .. dialed
  /\ pc \in {"choose", "direct", "header", "hello", "plain", "connect", "failed", "plainAgain",
             "giveUp"} => open = left
  /\ pc \in {"awaitHello", "dialed", "relay"} => conn \notin left
  /\ kept => conn \notin left /\ pc \in {"relay", "done"}
  /\ pc \in {"awaitHello", "dialed"} => open = left \cup {conn}
  /\ pc = "relay" => open = IF kept /\ copies["up"] = "done" THEN left ELSE left \cup {conn}
  /\ pc = "done" =>
       \/ open = left
       \/ kept /\ copies["up"] \in {"copy", "send"} /\ open = left \cup {conn}

\* The copies go together, and only once there is a connection.
CopiesBegun ==
  /\ copies["up"] = "none" <=> copies["down"] = "none"
  /\ copies["up"] # "none" => pc \in {"relay", "done"}

RedirectIInv == RedirectTypeOK /\ Chosen /\ OpenAt /\ CopiesBegun

-----------------------------------------------------------------------------
(* The chain of fallbacks.                                                 *)

LEMMA FallbackTyped ==
  ASSUME config \in Config, NEW o \in Outbound
  PROVE  Fallback[o] \in Outbound \cup {Nil}
BY DEF Config, Fallback

LEMMA RuleTyped ==
  ASSUME config \in Config
  PROVE  /\ \A d \in Domain : rule[d] \in Outbound \cup {Nil}
         /\ ipRule \in Outbound \cup {Nil}
BY DEF Config, rule, ipRule

\* An outbound is in its own chain.
LEMMA ChainBegins ==
  ASSUME NEW o \in Outbound
  PROVE  o \in Chain(o)
BY NilAssumption DEF Chain

\* The chain goes on with the fallback of each of its outbounds.
LEMMA ChainGoesOn ==
  ASSUME config \in Config, NEW o, NEW q \in Chain(o), Fallback[q] # Nil
  PROVE  Fallback[q] \in Chain(o)
<1>1. q \in Outbound /\ o # Nil
  BY DEF Chain
<1>2. Fallback[q] \in Outbound
  BY <1>1, FallbackTyped
<1>3. ASSUME NEW S \in SUBSET Outbound, o \in S, \A r \in S : Fallback[r] \in S \cup {Nil}
      PROVE  Fallback[q] \in S
  <2>1. q \in S
    BY <1>3 DEF Chain
  <2> QED
    BY <1>3, <2>1
<1> QED
  BY <1>1, <1>2, <1>3 DEF Chain

-----------------------------------------------------------------------------
(* Types.                                                                  *)

LEMMA InitTypeOK == RedirectInit => RedirectTypeOK
<1> SUFFICES ASSUME RedirectInit PROVE RedirectTypeOK
  OBVIOUS
<1>1. config \in Config
  BY ProfileAssumption DEF RedirectInit
<1>2. config.Nose \subseteq Lie
  BY <1>1 DEF Config
<1>3. lie \in Lie \cup {Nil}
  BY <1>2 DEF RedirectInit
<1> QED
  BY <1>1, <1>3 DEF RedirectInit, RedirectTypeOK, Labels, Header, Directions

\* A hello has the name of a domain, or none.
LEMMA HelloName ==
  ASSUME hello \in Header, hello # Nil, hello.sni # Nil
  PROVE  hello.sni \in Domain
BY DEF Header

LEMMA DialTypes ==
  ASSUME dialed \in Nat, NEW ok \in Labels, NEW err \in Labels, Dial(ok, err)
  PROVE  pc' \in Labels /\ dialed' \in Nat
BY DEF Dial, NewConn

LEMMA NextTypeOK == ASSUME RedirectTypeOK, Chosen, [RedirectNext]_redirectVars PROVE RedirectTypeOK'
<1>1. CASE Choose
  <2>1. /\ \A d \in Domain : rule[d] \in Outbound \cup {Nil}
        /\ ipRule \in Outbound \cup {Nil}
    BY RuleTyped DEF RedirectTypeOK
  <2>2. lie # Nil => lie.Name \in Domain /\ lie.Interface \in Outbound \cup {Nil}
    BY DEF RedirectTypeOK, Lie
  <2>3. domain' \in Domain \cup {Nil} /\ outbound' \in Outbound \cup {Nil}
    BY <1>1, <2>1, <2>2 DEF RedirectTypeOK, Choose
  <2> QED
    BY <1>1, <2>3 DEF RedirectTypeOK, Choose, Labels, attempt, tail
<1>2. CASE OutOfRange \/ HelloNoRule
  BY <1>2 DEF RedirectTypeOK, OutOfRange, HelloNoRule, Return, Labels, choice, attempt, tail
<1>3. CASE ReadHeader
  BY <1>3 DEF RedirectTypeOK, ReadHeader, Return, Labels, attempt, tail
<1>4. CASE Hello
  <2>1. outbound' \in Outbound \cup {Nil} /\ domain' \in Domain \cup {Nil}
    <3>1. CASE OtherName
      <4>1. UseSNI(hello.sni)
        BY <1>4, <3>1 DEF Hello
      <4>2. hello # Nil => hello.sni \in Domain
        BY <3>1, HelloName DEF RedirectTypeOK, OtherName
      <4>3. hello # Nil
        BY <1>4 DEF Hello, Chosen
      <4> QED
        BY <4>1, <4>2, <4>3, RuleTyped DEF UseSNI, RedirectTypeOK
    <3>2. CASE ~OtherName
      BY <1>4, <3>2 DEF Hello, RedirectTypeOK
    <3> QED
      BY <3>1, <3>2
  <2> QED
    BY <1>4, <2>1 DEF RedirectTypeOK, Hello, Return, Labels, attempt, tail
<1>5. CASE Connect
  BY <1>5 DEF RedirectTypeOK, Connect, Dial, NewConn, Labels, choice, tail
<1>6. CASE AwaitHello
  BY <1>6 DEF RedirectTypeOK, AwaitHello, HelloPassed, HelloRetry, HelloFails, Return, Labels, choice, attempt, tail
<1>7. CASE Failed
  <2>1. outbound' \in Outbound \cup {Nil}
    <3>1. outbound \in Outbound
      BY <1>7 DEF Failed, Chosen, Chain
    <3>2. Fallback[outbound] \in Outbound \cup {Nil}
      BY <3>1, FallbackTyped DEF RedirectTypeOK
    <3> QED
      BY <1>7, <3>2 DEF Failed, RedirectTypeOK
  <2> QED
    BY <1>7, <2>1 DEF RedirectTypeOK, Failed, Return, Labels, attempt, tail
<1>8. CASE Plain
  <2>1. dialed' \in Nat /\ pc' \in Labels
    <3>1. CASE Dial("dialed", "failed")
      BY <3>1, DialTypes DEF RedirectTypeOK, Labels
    <3>2. CASE dialed' \in {dialed, dialed + 1} /\ pc' \in {"done", "relay"}
      BY <3>2 DEF RedirectTypeOK, Labels
    <3> QED
      BY <1>8, <3>1, <3>2 DEF Plain, NewConn, Return
  <2>3. client' \in BOOLEAN
    BY <1>8 DEF RedirectTypeOK, Plain, Return
  <2>4. info' \in BOOLEAN
    BY <1>8 DEF RedirectTypeOK, Plain
  <2>2. UNCHANGED <<config, choice, kept, copies>>
    BY <1>8 DEF Plain, tail
  <2> QED
    BY <2>1, <2>2, <2>3, <2>4 DEF RedirectTypeOK, choice
<1>9. CASE PlainAgain \/ GiveUp
  <2>1. dialed' \in Nat /\ pc' \in Labels
    <3>1. CASE PlainAgain
      BY <3>1, DialTypes DEF RedirectTypeOK, PlainAgain, Labels
    <3>2. CASE GiveUp
      BY <3>2 DEF RedirectTypeOK, GiveUp, Return, Labels, attempt
    <3> QED
      BY <1>9, <3>1, <3>2
  <2>3. client' \in BOOLEAN
    BY <1>9 DEF RedirectTypeOK, PlainAgain, GiveUp, Return
  <2>4. UNCHANGED info
    BY <1>9 DEF PlainAgain, GiveUp, attempt
  <2>2. UNCHANGED <<config, choice, kept, copies>>
    BY <1>9 DEF PlainAgain, GiveUp, tail
  <2> QED
    BY <2>1, <2>2, <2>3, <2>4 DEF RedirectTypeOK, choice
<1>10. CASE KeepOrRelay \/ Direct
  <2>1. dialed' \in {dialed, dialed + 1} /\ pc' \in Labels
    BY <1>10 DEF KeepOrRelay, Direct, NewConn, Return, Labels, attempt
  <2>3. client' \in BOOLEAN
    BY <1>10 DEF RedirectTypeOK, KeepOrRelay, Direct, Return
  <2>4. kept' \in BOOLEAN /\ UNCHANGED info
    BY <1>10 DEF RedirectTypeOK, KeepOrRelay, Direct, attempt, tail
  <2>2. UNCHANGED <<config, choice, copies>>
    BY <1>10 DEF KeepOrRelay, Direct, tail
  <2> QED
    BY <2>1, <2>2, <2>3, <2>4 DEF RedirectTypeOK, choice
<1>11. CASE Begin \/ RelayReturns \/ KeepDownEnds \/ KeepUpEnds
  BY <1>11 DEF RedirectTypeOK, Begin, RelayReturns, KeepDownEnds, KeepUpEnds, Return, Labels, Directions, choice, attempt, tail
<1>12. ASSUME NEW x \in Directions, Copy(x) PROVE RedirectTypeOK'
  BY <1>12 DEF RedirectTypeOK, Copy, CopyEnds, RelaySend, choice, attempt, tail
<1>13. ASSUME NEW p \in {"client", "server"}, PeerEnds(p) PROVE RedirectTypeOK'
  BY <1>13 DEF RedirectTypeOK, PeerEnds, choice, attempt, tail
<1>14. CASE UNCHANGED redirectVars
  BY <1>14 DEF RedirectTypeOK, redirectVars, choice, attempt, tail
<1> QED
  BY <1>1, <1>2, <1>3, <1>4, <1>5, <1>6, <1>7, <1>8, <1>9, <1>10, <1>11, <1>12, <1>13, <1>14
  DEF RedirectNext, Local

-----------------------------------------------------------------------------
(* The outbound that dials.                                                *)

\* What the chain from the outbound of what is dialed depends on.
LEMMA OwnStays ==
  ASSUME UNCHANGED <<config, byName, domain, lie>>
  PROVE  Chain(OwnOutbound)' = Chain(OwnOutbound)
BY DEF Chain, OwnOutbound, Fallback, rule, ipRule

LEMMA ChainBeginsNext ==
  ASSUME outbound' = OwnOutbound', outbound' \in Outbound
  PROVE  (outbound \in Chain(OwnOutbound))'
<1>1. ASSUME NEW o \in Outbound PROVE o \in Chain(o)'
  BY <1>1, NilAssumption DEF Chain
<1> QED
  BY <1>1

\* A step that leaves the configuration, the name and the outbound alone, and
\* does not go back to where the outbound has yet to be chosen.
LEMMA ChosenStays ==
  ASSUME Chosen, UNCHANGED <<config, byName, domain, lie, outbound, hello>>,
         pc' \notin {"choose", "header", "hello"} \/ UNCHANGED pc,
         pc' \in {"header", "hello", "plain", "connect", "awaitHello", "failed", "plainAgain", "dialed"} =>
           pc \in {"header", "hello", "plain", "connect", "awaitHello", "failed", "plainAgain", "dialed"}
  PROVE  Chosen'
<1>1. Chain(OwnOutbound)' = Chain(OwnOutbound)
  BY OwnStays
<1> QED
  BY <1>1 DEF Chosen

LEMMA NextChosen == ASSUME RedirectTypeOK, Chosen, [RedirectNext]_redirectVars PROVE Chosen'
<1>1. CASE Choose
  <2>1. /\ UNCHANGED <<config, byName, lie>> /\ pc = "choose"
        /\ pc' \in {"direct", "header"} /\ (pc' = "header" => outbound' # Nil)
    BY <1>1 DEF Choose
  <2>2. UNCHANGED <<rule, ipRule>>
    BY <2>1 DEF rule, ipRule
  <2>3. outbound' = OwnOutbound' /\ (lie # Nil => lie.Name = domain')
    <3>1. CASE lie = Nil
      BY <1>1, <2>1, <2>2, <3>1 DEF Choose, OwnOutbound
    <3>2. CASE lie # Nil
      <4>1. byName /\ domain = Nil
        BY <2>1, <3>2 DEF Chosen
      <4>2. /\ domain' = lie.Name
            /\ outbound' = IF lie.Interface # Nil THEN lie.Interface ELSE rule[lie.Name]
        BY <1>1, <4>1 DEF Choose
      <4> QED
        BY <2>1, <2>2, <3>2, <4>1, <4>2 DEF OwnOutbound
    <3> QED
      BY <3>1, <3>2
  <2>4. outbound' \in Outbound \cup {Nil}
    BY <1>1, NextTypeOK DEF RedirectTypeOK
  <2>5. outbound' # Nil => (outbound \in Chain(OwnOutbound))'
    BY <2>3, <2>4, ChainBeginsNext
  <2> QED
    BY <2>1, <2>3, <2>5 DEF Chosen
<1>2. CASE ReadHeader
  <2>1. UNCHANGED <<config, byName, domain, lie, outbound>> /\ pc = "header"
        /\ pc' \in {"plain", "hello", "done"} /\ (pc' = "hello" => hello' # Nil)
    BY <1>2 DEF ReadHeader, Return
  <2>2. Chain(OwnOutbound)' = Chain(OwnOutbound)
    BY <2>1, OwnStays
  <2> QED
    BY <2>1, <2>2 DEF Chosen
<1>3. CASE Hello
  <2>1. UNCHANGED <<config, byName, lie, hello>> /\ pc = "hello" /\ pc' \in {"connect", "done"}
    BY <1>3 DEF Hello, Return
  <2>2. CASE OtherName
    <3>1. domain' = hello.sni /\ outbound' = rule[hello.sni] /\ rule[hello.sni] # Nil
      BY <1>3, <2>2 DEF Hello, UseSNI
    <3>2. hello.sni \in Domain /\ hello.sni # domain /\ byName
      BY <2>1, <2>2, HelloName DEF RedirectTypeOK, Chosen, OtherName
    <3>3. lie # Nil => lie.Name # domain'
      BY <2>1, <3>1, <3>2 DEF Chosen
    <3>4. outbound' = OwnOutbound'
      BY <2>1, <3>1, <3>2, <3>3 DEF OwnOutbound, rule
    <3>5. outbound' \in Outbound
      BY <3>1, <3>2, RuleTyped DEF RedirectTypeOK
    <3>6. (outbound \in Chain(OwnOutbound))'
      BY <3>4, <3>5, ChainBeginsNext
    <3> QED
      BY <2>1, <3>6 DEF Chosen
  <2>3. CASE ~OtherName
    <3>1. UNCHANGED <<domain, outbound>>
      BY <1>3, <2>3 DEF Hello
    <3> QED
      BY <2>1, <3>1, ChosenStays
  <2> QED
    BY <2>2, <2>3
<1>4. CASE Failed
  <2>1. UNCHANGED <<config, byName, domain, lie, hello>> /\ pc = "failed"
    BY <1>4 DEF Failed
  <2>2. CASE Fallback[outbound] # Nil
    <3>1. outbound' = Fallback[outbound] /\ pc' \in {"plainAgain", "connect"}
      BY <1>4, <2>2 DEF Failed
    <3>2. outbound' \in Chain(OwnOutbound)
      BY <2>1, <2>2, <3>1, ChainGoesOn DEF Chosen, RedirectTypeOK
    <3>3. Chain(OwnOutbound)' = Chain(OwnOutbound)
      BY <2>1, OwnStays
    <3> QED
      BY <2>1, <3>1, <3>2, <3>3 DEF Chosen
  <2>3. CASE Fallback[outbound] = Nil
    BY <1>4, <2>1, <2>3 DEF Failed, Return, Chosen
  <2> QED
    BY <2>2, <2>3
<1>5. CASE OutOfRange \/ HelloNoRule \/ GiveUp \/ Direct \/ RelayReturns \/ KeepDownEnds
  <2>1. /\ pc' \in {"relay", "done"} /\ UNCHANGED <<byName, lie>>
    BY <1>5 DEF OutOfRange, HelloNoRule, GiveUp, Direct, choice, RelayReturns, KeepDownEnds, Return
  <2> QED
    BY <2>1 DEF Chosen
<1>6. CASE Connect \/ Plain \/ PlainAgain \/ AwaitHello \/ KeepOrRelay
  <2>1. UNCHANGED <<config, byName, domain, lie, outbound, hello>>
    BY <1>6 DEF Connect, Plain, PlainAgain, AwaitHello, HelloPassed, HelloRetry, HelloFails,
         KeepOrRelay, choice
  <2>2. pc \in {"connect", "plain", "plainAgain", "awaitHello", "dialed"}
    BY <1>6 DEF Connect, Plain, PlainAgain, AwaitHello, HelloPassed, HelloRetry, HelloFails,
         KeepOrRelay
  <2>3. pc' \notin {"choose", "header", "hello"}
    BY <1>6 DEF Connect, Plain, PlainAgain, AwaitHello, HelloPassed, HelloRetry, HelloFails,
         KeepOrRelay, Dial, Return
  <2> QED
    BY <2>1, <2>2, <2>3, ChosenStays
<1>7. CASE \/ Begin \/ KeepUpEnds \/ \E x \in Directions : Copy(x)
           \/ \E p \in {"client", "server"} : PeerEnds(p) \/ UNCHANGED redirectVars
  <2>1. UNCHANGED <<config, pc, byName, domain, lie, outbound, hello>>
    BY <1>7 DEF Begin, KeepUpEnds, Copy, CopyEnds, RelaySend, PeerEnds, redirectVars, choice
  <2> QED
    BY <2>1, ChosenStays
<1> QED
  BY <1>1, <1>2, <1>3, <1>4, <1>5, <1>6, <1>7 DEF RedirectNext, Local

-----------------------------------------------------------------------------
(* The connections that are open.                                          *)

LEMMA NextCopies == ASSUME RedirectTypeOK, CopiesBegun, [RedirectNext]_redirectVars PROVE CopiesBegun'
<1>1. CASE \/ Choose \/ OutOfRange \/ ReadHeader \/ Hello \/ HelloNoRule \/ Connect \/ Failed \/ Plain \/ PlainAgain
           \/ GiveUp \/ KeepOrRelay \/ Direct \/ AwaitHello
  <2>1. UNCHANGED copies
    BY <1>1 DEF Choose, OutOfRange, ReadHeader, Hello, HelloNoRule, Connect, Failed, Plain, PlainAgain, GiveUp,
         KeepOrRelay, Direct, AwaitHello, HelloPassed, HelloRetry, HelloFails, tail
  <2>2. pc \notin {"relay", "done"}
    BY <1>1 DEF Choose, OutOfRange, ReadHeader, Hello, HelloNoRule, Connect, Failed, Plain, PlainAgain, GiveUp,
         KeepOrRelay, Direct, AwaitHello, HelloPassed, HelloRetry, HelloFails
  <2> QED
    BY <2>1, <2>2 DEF CopiesBegun
<1>2. CASE Begin \/ RelayReturns \/ KeepDownEnds \/ KeepUpEnds
  BY <1>2 DEF RedirectTypeOK, CopiesBegun, Begin, RelayReturns, KeepDownEnds, KeepUpEnds, Return, Directions
<1>3. ASSUME NEW x \in Directions, Copy(x) PROVE CopiesBegun'
  BY <1>3 DEF RedirectTypeOK, CopiesBegun, Copy, CopyEnds, RelaySend, Directions
<1>4. CASE \/ \E p \in {"client", "server"} : PeerEnds(p) \/ UNCHANGED redirectVars
  BY <1>4 DEF CopiesBegun, PeerEnds, redirectVars, tail
<1> QED
  BY <1>1, <1>2, <1>3, <1>4 DEF RedirectNext, Local

\* A number that a connection gets has not been given out.
LEMMA DialedFresh ==
  ASSUME RedirectTypeOK, OpenAt
  PROVE  /\ dialed + 1 \notin left
         /\ open \cup left \cup {dialed + 1} \subseteq 1 .. dialed + 1
BY DEF RedirectTypeOK, OpenAt

LEMMA NextOpenAt == ASSUME RedirectTypeOK, CopiesBegun, OpenAt, [RedirectNext]_redirectVars PROVE OpenAt'
<1>1. CASE Choose \/ OutOfRange \/ ReadHeader \/ Hello \/ HelloNoRule \/ Failed \/ GiveUp
  <2>1. UNCHANGED <<conn, dialed, open, kept, copies, left>>
    BY <1>1 DEF Choose, OutOfRange, ReadHeader, Hello, HelloNoRule, Failed, GiveUp, attempt, tail
  <2>2. pc \in {"choose", "header", "hello", "failed", "giveUp"}
    BY <1>1 DEF Choose, OutOfRange, ReadHeader, Hello, HelloNoRule, Failed, GiveUp
  <2>3. pc' \in {"choose", "direct", "header", "hello", "plain", "connect", "failed", "plainAgain",
                "giveUp", "done"}
    BY <1>1 DEF Choose, OutOfRange, ReadHeader, Hello, HelloNoRule, Failed, GiveUp, Return
  <2> QED
    BY <2>1, <2>2, <2>3 DEF OpenAt
<1>2. ASSUME NEW ok \in {"awaitHello", "dialed"}, NEW err \in {"failed", "giveUp"}, Dial(ok, err),
             pc \in {"connect", "plain", "plainAgain"}, UNCHANGED tail
      PROVE  OpenAt'
  <2>1. CASE pc' = err /\ UNCHANGED <<conn, dialed, open, left>>
    BY <1>2, <2>1 DEF OpenAt, tail
  <2>2. CASE NewConn /\ open' = open \cup {dialed + 1} /\ pc' = ok /\ UNCHANGED left
    BY <1>2, <2>2, DialedFresh DEF OpenAt, NewConn, tail
  <2>3. CASE NewConn /\ open' = open \cup {dialed + 1} /\ pc' = err /\ left' = left \cup {dialed + 1}
    BY <1>2, <2>3, DialedFresh DEF OpenAt, NewConn, tail
  <2> QED
    BY <1>2, <2>1, <2>2, <2>3 DEF Dial
<1>3. CASE Connect \/ PlainAgain \/ Plain
  <2>1. CASE Connect \/ PlainAgain
    BY <1>2, <2>1 DEF Connect, PlainAgain
  <2>2. CASE Plain
    <3>1. pc = "plain" /\ UNCHANGED tail
      BY <2>2 DEF Plain
    <3>2. CASE Dial("dialed", "failed")
      BY <1>2, <3>1, <3>2
    <3>3. CASE pc' = "done" /\ UNCHANGED <<dialed, open, left>>
      BY <3>1, <3>3 DEF OpenAt, tail
    <3>4. CASE NewConn /\ open' = open \cup {dialed + 1} /\ pc' = "relay" /\ UNCHANGED left
      BY <3>1, <3>4, DialedFresh DEF OpenAt, NewConn, tail
    <3>5. CASE NewConn /\ open' = open \cup {dialed + 1} /\ pc' = "done" /\ left' = left \cup {dialed + 1}
      BY <3>1, <3>5, DialedFresh DEF OpenAt, NewConn, tail
    <3> QED
      BY <2>2, <3>2, <3>3, <3>4, <3>5 DEF Plain, Return
  <2> QED
    BY <1>3, <2>1, <2>2
<1>4. CASE Direct
  BY <1>4, DialedFresh DEF OpenAt, CopiesBegun, Direct, NewConn, Return, tail
<1>5. CASE AwaitHello
  BY <1>5 DEF OpenAt, AwaitHello, HelloPassed, HelloRetry, HelloFails, Return, attempt, tail
<1>6. CASE KeepOrRelay
  BY <1>6 DEF OpenAt, CopiesBegun, KeepOrRelay, attempt
<1>7. CASE Begin \/ RelayReturns
  BY <1>7 DEF OpenAt, CopiesBegun, Begin, RelayReturns, Return, Directions, attempt
<1>8. CASE KeepDownEnds \/ KeepUpEnds
  BY <1>8 DEF RedirectTypeOK, OpenAt, CopiesBegun, KeepDownEnds, KeepUpEnds, Return, Directions, attempt
<1>9. ASSUME NEW x \in Directions, Copy(x) PROVE OpenAt'
  BY <1>9 DEF RedirectTypeOK, OpenAt, Copy, CopyEnds, RelaySend, Directions, attempt
<1>10. CASE \/ \E p \in {"client", "server"} : PeerEnds(p) \/ UNCHANGED redirectVars
  BY <1>10 DEF OpenAt, PeerEnds, redirectVars, attempt, tail
<1> QED
  BY <1>1, <1>3, <1>4, <1>5, <1>6, <1>7, <1>8, <1>9, <1>10 DEF RedirectNext, Local

-----------------------------------------------------------------------------

LEMMA InitIInv == RedirectInit => RedirectIInv
BY InitTypeOK DEF RedirectInit, RedirectIInv, Chosen, OpenAt, CopiesBegun, Directions

LEMMA NextIInv == RedirectIInv /\ [RedirectNext]_redirectVars => RedirectIInv'
BY NextTypeOK, NextChosen, NextCopies, NextOpenAt DEF RedirectIInv

\* Whatever is dialed is dialed by the outbound of its own name, address or fake
\* address, or by one that its fallbacks lead to, through every retry, every fallback
\* and a change of the name by the hello, whatever the rules and the entries of Nose,
\* those without an outbound among them (tcp_redirect).
THEOREM OutboundIsOfDomain == RedirectSpec => []OutboundOfDomain
<1>1. RedirectIInv => OutboundOfDomain
  BY DEF RedirectIInv, Chosen, OutboundOfDomain
<1> QED
  BY InitIInv, NextIInv, <1>1, PTL DEF RedirectSpec

\* The connections that a redirect that is over has left open are exactly those that it
\* gave up: dialed with an error, without an answer when no retry was left, or with a
\* write that failed.  Every other one it dialed is closed (tcp_redirect, relay, Keep).
THEOREM EveryConnIsClosed == RedirectSpec => []AllClosed
<1>1. RedirectIInv => AllClosed
  BY DEF RedirectIInv, OpenAt, AllClosed, Settled, Directions
<1> QED
  BY InitIInv, NextIInv, <1>1, PTL DEF RedirectSpec

-----------------------------------------------------------------------------
(* The order of the Initials of a batch.                                   *)

\* The datagrams of a sequence are numbered in order of arrival.
Arriving(s) == \A i, j \in DOMAIN s : i < j => s[i].n < s[j].n

\* What is sorted before the packet at i.
Earlier(s, i) == {j \in DOMAIN s : Before(s[j], s[i])}

\* Before orders datagrams that arrived at different moments strictly and totally.
LEMMA BeforeOrders ==
  ASSUME NEW a \in Datagram, NEW b \in Datagram, NEW c \in Datagram
  PROVE  /\ ~Before(a, a)
         /\ Before(a, b) => ~Before(b, a)
         /\ Before(a, b) /\ Before(b, c) => Before(a, c)
         /\ a.n # b.n => Before(a, b) \/ Before(b, a)
<1> a.n \in Nat /\ b.n \in Nat /\ c.n \in Nat /\ a.pn \in {0, 1} /\ b.pn \in {0, 1} /\ c.pn \in {0, 1}
  BY LimitAssumption DEF Datagram
<1> QED BY DEF Before

\* datagrams returns the packets of a sequence, each one once, sorted by packet number
\* and, within one packet number, in order of arrival.
LEMMA DatagramsSorted ==
  ASSUME NEW s \in Seq(Datagram), Arriving(s)
  PROVE  /\ datagrams(s) \in Seq(Datagram)
         /\ Len(datagrams(s)) = Len(s)
         /\ \A i, j \in 1 .. Len(s) : i < j => Before(datagrams(s)[i], datagrams(s)[j])
         /\ \A r \in 1 .. Len(s) : \E i \in 1 .. Len(s) : datagrams(s)[r] = s[i]
<1> DEFINE I == 1 .. Len(s)
           place(i) == Cardinality(Earlier(s, i)) + 1
           r == [i \in I |-> place(i)]
<1>1. /\ Len(s) \in Nat /\ DOMAIN s = I
      /\ \A i \in I : s[i] \in Datagram
  OBVIOUS
<1>2. IsFiniteSet(I) /\ Cardinality(I) = Len(s)
  <2>1. 1 \in Int /\ Len(s) \in Int
    BY <1>1
  <2>2. IsFiniteSet(1 .. Len(s)) /\ Cardinality(1 .. Len(s)) = IF 1 > Len(s) THEN 0 ELSE Len(s) - 1 + 1
    BY <2>1, FS_Interval
  <2> QED BY <1>1, <2>2
<1>3. \A i, j \in I : i # j => Before(s[i], s[j]) \/ Before(s[j], s[i])
  <2>1. SUFFICES ASSUME NEW i \in I, NEW j \in I, i # j PROVE s[i].n # s[j].n
    BY <1>1, <2>1, BeforeOrders
  <2>2. i \in Nat /\ j \in Nat
    BY <1>1
  <2>3. s[i].n \in Nat /\ s[j].n \in Nat
    BY <1>1, LimitAssumption DEF Datagram
  <2> QED BY <1>1, <2>1, <2>2, <2>3 DEF Arriving
<1>4. \A i \in I : IsFiniteSet(Earlier(s, i)) /\ Cardinality(Earlier(s, i)) < Len(s)
  <2>1. TAKE i \in I
  <2>2. Earlier(s, i) \subseteq I /\ i \notin Earlier(s, i)
    BY <1>1, BeforeOrders DEF Earlier
  <2>3. IsFiniteSet(Earlier(s, i)) /\ Cardinality(Earlier(s, i)) <= Cardinality(I)
        /\ Cardinality(Earlier(s, i)) # Cardinality(I)
    BY <1>2, <2>2, FS_Subset
  <2>4. Cardinality(Earlier(s, i)) \in Nat
    BY <2>3, FS_CardinalityType
  <2> QED BY <1>1, <1>2, <2>3, <2>4
<1>5. \A i, j \in I : Before(s[i], s[j]) => place(i) < place(j)
  <2>1. SUFFICES ASSUME NEW i \in I, NEW j \in I, Before(s[i], s[j])
                 PROVE Cardinality(Earlier(s, i)) < Cardinality(Earlier(s, j))
    <3>1. \A k \in I : Cardinality(Earlier(s, k)) \in Nat
      BY <1>4, FS_CardinalityType
    <3> QED BY <2>1, <3>1
  <2>2. Earlier(s, i) \subseteq Earlier(s, j)
    BY <1>1, <2>1, BeforeOrders DEF Earlier
  <2>3. i \in Earlier(s, j) /\ i \notin Earlier(s, i)
    BY <1>1, <2>1, BeforeOrders DEF Earlier
  <2>4. Cardinality(Earlier(s, i)) <= Cardinality(Earlier(s, j))
        /\ Cardinality(Earlier(s, i)) # Cardinality(Earlier(s, j))
    BY <1>4, <2>2, <2>3, FS_Subset
  <2>5. Cardinality(Earlier(s, i)) \in Nat /\ Cardinality(Earlier(s, j)) \in Nat
    BY <1>4, FS_CardinalityType
  <2> QED BY <2>4, <2>5
<1>6. \A i \in I : place(i) \in I
  <2>1. \A i \in I : Cardinality(Earlier(s, i)) \in Nat
    BY <1>4, FS_CardinalityType
  <2> QED BY <1>1, <1>4, <2>1
<1>7. r \in Injection(I, I)
  <2>1. r \in [I -> I]
    BY <1>6
  <2>2. \A i, j \in I : r[i] = r[j] => i = j
    <3>1. \A i, j \in I : i # j => place(i) # place(j)
      <4>1. SUFFICES ASSUME NEW i \in I, NEW j \in I, i # j PROVE place(i) # place(j)
        OBVIOUS
      <4>2. place(i) \in Int /\ place(j) \in Int
        BY <1>1, <1>6
      <4>3. place(i) < place(j) \/ place(j) < place(i)
        BY <1>3, <1>5, <4>1
      <4> HIDE DEF place
      <4> QED BY <4>2, <4>3
    <3> HIDE DEF place
    <3> QED BY <3>1
  <2> QED BY <2>1, <2>2 DEF Injection, IsInjective
<1>8. r \in Surjection(I, I)
  BY <1>2, <1>7, FS_Injection
<1>9. \A p \in I : \E i \in I : place(i) = p
  <2> HIDE DEF place
  <2> QED BY <1>8 DEF Surjection
<1> DEFINE at(p) == CHOOSE i \in I : place(i) = p
<1>10. \A p \in I : at(p) \in I /\ place(at(p)) = p
  <2> HIDE DEF place
  <2> QED BY <1>9
<1>11. datagrams(s) = [p \in I |-> s[at(p)]]
  BY <1>1 DEF datagrams, Earlier
<1>12. datagrams(s) \in Seq(Datagram) /\ Len(datagrams(s)) = Len(s)
  <2>1. \A p \in I : s[at(p)] \in Datagram
    <3> HIDE DEF at
    <3> QED BY <1>1, <1>10
  <2> HIDE DEF at
  <2> QED BY <1>1, <1>11, <2>1, IsASeq
<1>13. \A p \in I : datagrams(s)[p] = s[at(p)]
  <2> HIDE DEF at
  <2> QED BY <1>11
<1>14. \A p, q \in I : p < q => Before(s[at(p)], s[at(q)])
  <2>1. SUFFICES ASSUME NEW p \in I, NEW q \in I, p < q PROVE Before(s[at(p)], s[at(q)])
    OBVIOUS
  <2>2. at(p) \in I /\ at(q) \in I /\ place(at(p)) = p /\ place(at(q)) = q /\ p \in Int /\ q \in Int
    <3> HIDE DEF at, place
    <3> QED BY <1>1, <1>10
  <2> HIDE DEF at, place
  <2>3. at(p) # at(q)
    BY <2>1, <2>2
  <2>4. ~Before(s[at(q)], s[at(p)])
    BY <1>5, <2>1, <2>2
  <2> QED BY <1>3, <2>2, <2>3, <2>4
<1> HIDE DEF at, place
<1> QED BY <1>10, <1>12, <1>13, <1>14

-----------------------------------------------------------------------------
(* The invariant.                                                          *)

\* The variables have their types; the bounds of the counts are not needed.
Types ==
  /\ arrived \in 0..MaxArrivals
  /\ job \in Job
  /\ sessions \in [Key -> Session \cup {None}]
  /\ pending \in [Key -> {<< >>} \cup {<<p>> : p \in Seq(Datagram)}]
  /\ skey \in [Session -> Key]
  /\ phase \in [Session -> Phase]
  /\ initials \in [Session -> Seq(Datagram)]
  /\ upstream \in [Session -> Seq(Datagram)]
  /\ hand \in [Session -> {<< >>} \cup {<<d>> : d \in Datagram}]
  /\ counted \in [Session -> BOOLEAN]
  /\ closed \in [Session -> BOOLEAN]
  /\ out \in [Key -> Seq(Datagram)]

\* A session accepts datagrams from its start until remove closes it, and all that
\* time it is the one mapped for its flow; it stays mapped until remove unmaps it.
Open(s) == phase[s] \notin {"free", "unmap", "disconnect"}

HomeInv ==
  /\ \A s \in Session : closed[s] <=> ~Open(s)
  /\ \A s \in Session : Open(s) => sessions[skey[s]] = s
  /\ \A k \in Key : sessions[k] # None =>
       skey[sessions[k]] = k /\ phase[sessions[k]] \notin {"free", "disconnect"}

\* Initials are held only while the flow has no session, and the dispatcher, which
\* alone touches them, finds the entry it left.
PendingInv ==
  /\ \A k \in Key : sessions[k] = None \/ pending[k] = << >>
  /\ job.at = "continue" => sessions[job.key] = None /\ pending[job.key] # << >>

Mapped == {k \in Key : sessions[k] # None}
Waiting == {k \in Key : pending[k] # << >>}
Dialing == {s \in Session : phase[s] \in {"dialLocal", "dialRemote"}}

TableInv ==
  /\ IsFiniteSet(Mapped) /\ IsFiniteSet(Waiting)
  /\ Cardinality(Mapped) + Cardinality(Waiting) <= MaxSessions

TokensInv == tokens \in Nat /\ IsFiniteSet(Dialing) /\ TokensExact

\* run has a packet in its hand only once the Initials are written, and an object
\* that waits to be used again holds nothing.
QueueInv ==
  \A s \in Session :
    /\ hand[s] # << >> => phase[s] \in {"flush", "loop"}
    /\ counted[s] => hand[s] # << >>
    /\ phase[s] \in {"flush", "loop"} => initials[s] = << >>
    /\ phase[s] = "free" => upstream[s] = << >>

\* What has arrived and is not with the dispatcher any more.
Seen == IF job.at = "recv" THEN arrived ELSE arrived - 1
UpTo(n, seq) == \A i \in DOMAIN seq : seq[i].n <= n

\* The datagram the dispatcher holds is newer than any other, wherever it is.
FreshInv ==
  /\ job.at # "recv" => job.data.n = arrived
  /\ \A k \in Key : UpTo(Seen, out[k])
  /\ \A s \in Session : UpTo(Seen, initials[s]) /\ UpTo(Seen, hand[s]) /\ UpTo(Seen, upstream[s])
  /\ \A k \in Key : pending[k] # << >> => UpTo(Seen, pending[k][1])

\* While Initials are held nothing of their flow is written: all are newer than what
\* has been, and they stand in order of arrival.
Newer(seq, old) == \A i \in DOMAIN seq, j \in DOMAIN old : old[j].n < seq[i].n

HeldInv ==
  \A k \in Key : pending[k] # << >> => Arriving(pending[k][1]) /\ Newer(pending[k][1], out[k])

IInv ==
  /\ Types /\ HomeInv /\ PendingInv /\ TableInv
  /\ TokensInv /\ QueueInv /\ FreshInv /\ HeldInv

-----------------------------------------------------------------------------
(* What a step of the dispatcher is, case by case.                         *)

\* d is the datagram just read.
Arrives(d) ==
  /\ job = Idle
  /\ arrived' = arrived + 1
  /\ arrived' \in 1..MaxArrivals
  /\ d.n = arrived'
  /\ UNCHANGED out

\* It goes to a session, to a pending entry, to nobody, into a new pending entry.
ToSession(k, d) ==
  /\ Arrives(d)
  /\ sessions[k] \in Session
  /\ job' = [at |-> "enqueue", session |-> sessions[k], data |-> d]
  /\ Drop

ToPending(k, d, kind) ==
  /\ Arrives(d)
  /\ sessions[k] = None /\ pending[k] # << >>
  /\ job' = [at |-> "continue", key |-> k, data |-> d, kind |-> kind]
  /\ Drop

Dropped(d) == Arrives(d) /\ job' = Idle /\ Drop

Holds(k, d, kind) ==
  /\ Arrives(d)
  /\ sessions[k] = None /\ pending[k] = << >>
  /\ ~(TableSize >= MaxSessions)
  /\ pending' = [pending EXCEPT ![k] = << << >> >>]
  /\ job' = [at |-> "continue", key |-> k, data |-> d, kind |-> kind]
  /\ UNCHANGED <<sessions, tokens, skey, phase, queueVars, connVars>>

\* startSession makes s the session of k.
Opens(s, k, batch) ==
  /\ Unreferenced(s)
  /\ sessions[k] = None
  /\ sessions' = [sessions EXCEPT ![k] = s]
  /\ skey' = [skey EXCEPT ![s] = k]
  /\ phase' = [phase EXCEPT ![s] = "sem"]
  /\ initials' = [initials EXCEPT ![s] = batch]
  /\ closed' = [closed EXCEPT ![s] = FALSE]
  /\ relayError' = [relayError EXCEPT ![s] = 0]
  /\ UNCHANGED <<upstream, hand, counted, queuedSize, sockets, reader>>

StartsFresh(s, k, d) ==
  /\ Arrives(d)
  /\ pending[k] = << >>
  /\ ~(TableSize >= MaxSessions)
  /\ Opens(s, k, <<d>>)
  /\ job' = Idle
  /\ UNCHANGED <<pending, tokens>>

StartsHeld(s) ==
  /\ job.at = "continue"
  /\ pending' = [pending EXCEPT ![job.key] = << >>]
  /\ Opens(s, job.key, datagrams(Held))
  /\ job' = Idle
  /\ UNCHANGED <<arrived, tokens, out>>

\* The entry is given up, or no session can be started for it.
Forgets ==
  /\ job.at = "continue"
  /\ pending' = [pending EXCEPT ![job.key] = << >>]
  /\ job' = Idle
  /\ UNCHANGED <<arrived, sessions, tokens, skey, phase, queueVars, connVars, out>>

\* What the dispatcher holds, by what it is about to do.
LEMMA JobFacts ==
  ASSUME job \in Job
  PROVE  /\ job.at \in {"recv", "enqueue", "continue"}
         /\ job = Idle <=> job.at = "recv"
         /\ job.at = "enqueue" => job.session \in Session /\ job.data \in Datagram
         /\ job.at = "continue" => job.key \in Key /\ job.data \in Datagram /\ job.kind \in Kind
BY DEF Job, Idle

\* The jobs that dispatch sets are jobs.
LEMMA JobMade ==
  /\ Idle \in Job
  /\ \A s \in Session, d \in Datagram : [at |-> "enqueue", session |-> s, data |-> d] \in Job
  /\ \A k \in Key, d \in Datagram, kind \in Kind :
       [at |-> "continue", key |-> k, data |-> d, kind |-> kind] \in Job
BY DEF Job

\* What the dispatcher is about to hold, or to start a session with: it is in order of
\* arrival, and newer than anything that has been written.
LEMMA HeldFacts ==
  ASSUME IInv, job.at = "continue"
  PROVE  /\ job.key \in Key /\ sessions[job.key] = None /\ job.data.n = arrived
         /\ pending[job.key] = <<pending[job.key][1]>>
         /\ Held \in Seq(Datagram) /\ Held # << >>
         /\ Arriving(Held)
         /\ Newer(Held, out[job.key])
         /\ UpTo(arrived, Held)
<1> DEFINE p == pending[job.key][1]
<1>1. /\ job.key \in Key /\ job.data \in Datagram
      /\ sessions[job.key] = None /\ pending[job.key] # << >>
      /\ job.data.n = arrived /\ arrived \in Nat
  BY JobFacts, LimitAssumption DEF IInv, Types, PendingInv, FreshInv
<1>2. p \in Seq(Datagram) /\ pending[job.key] = <<p>>
  BY <1>1 DEF IInv, Types
<1>3. Held = Append(p, job.data)
  BY DEF Held
<1>4. Seen = arrived - 1
  BY DEF Seen
<1>5. Arriving(p) /\ Newer(p, out[job.key]) /\ UpTo(arrived - 1, p) /\ UpTo(arrived - 1, out[job.key])
  BY <1>1, <1>4 DEF IInv, HeldInv, FreshInv
<1>6. out[job.key] \in Seq(Datagram)
  BY <1>1 DEF IInv, Types
<1> HIDE DEF p
<1>7. /\ Held \in Seq(Datagram) /\ Len(Held) = Len(p) + 1 /\ Len(p) \in Nat
      /\ DOMAIN p = 1 .. Len(p) /\ DOMAIN Held = 1 .. Len(p) + 1
      /\ \A i \in 1 .. Len(p) : Held[i] = p[i] /\ p[i] \in Datagram
      /\ Held[Len(p) + 1] = job.data
  BY <1>1, <1>2, <1>3
<1>8. \A e \in Datagram : e.n \in Nat
  BY LimitAssumption DEF Datagram
<1>9. \A i \in 1 .. Len(p) : Held[i].n < arrived
  BY <1>1, <1>5, <1>7, <1>8 DEF UpTo
<1>10. Held # << >>
  BY <1>7
<1>11. Arriving(Held)
  <2>1. SUFFICES ASSUME NEW i \in 1 .. Len(p) + 1, NEW j \in 1 .. Len(p) + 1, i < j
                 PROVE  Held[i].n < Held[j].n
    BY <1>7 DEF Arriving
  <2>2. i \in 1 .. Len(p)
    BY <1>7, <2>1
  <2>3. CASE j = Len(p) + 1
    BY <1>1, <1>7, <1>9, <2>2, <2>3
  <2>4. CASE j \in 1 .. Len(p)
    BY <1>5, <1>7, <2>1, <2>2, <2>4 DEF Arriving
  <2> QED BY <1>7, <2>3, <2>4
<1>12. Newer(Held, out[job.key])
  <2>1. SUFFICES ASSUME NEW i \in 1 .. Len(p) + 1, NEW j \in DOMAIN out[job.key]
                 PROVE  out[job.key][j].n < Held[i].n
    BY <1>7 DEF Newer
  <2>2. out[job.key][j].n \in Nat /\ out[job.key][j].n <= arrived - 1
    BY <1>5, <1>6, <1>8 DEF UpTo
  <2>3. CASE i = Len(p) + 1
    BY <1>1, <1>7, <2>2, <2>3
  <2>4. CASE i \in 1 .. Len(p)
    BY <1>5, <1>7, <2>4 DEF Newer
  <2> QED BY <1>7, <2>3, <2>4
<1>13. UpTo(arrived, Held)
  <2>1. SUFFICES ASSUME NEW i \in 1 .. Len(p) + 1 PROVE Held[i].n <= arrived
    BY <1>7 DEF UpTo
  <2>2. CASE i = Len(p) + 1
    BY <1>1, <1>7, <2>2
  <2>3. CASE i \in 1 .. Len(p)
    BY <1>1, <1>7, <1>8, <1>9, <2>3
  <2> QED BY <1>7, <2>2, <2>3
<1> QED BY <1>1, <1>2, <1>7, <1>10, <1>11, <1>12, <1>13 DEF p

\* startSession does nothing, or opens a session.
LEMMA StartCases ==
  ASSUME NEW k \in Key, NEW batch, startSession(k, batch)
  PROVE  \/ UNCHANGED <<sessions, skey, phase, queueVars, connVars>>
         \/ \E s \in Session : Opens(s, k, batch)
BY DEF startSession, Opens, Goto

\* A datagram that is read goes one of five ways.
LEMMA ReceiveCases ==
  ASSUME Types, Receive
  PROVE  \E d \in Datagram :
           \/ \E k \in Key : ToSession(k, d)
           \/ \E k \in Key, kind \in Kind : ToPending(k, d, kind) \/ Holds(k, d, kind)
           \/ Dropped(d)
           \/ \E k \in Key, s \in Session : StartsFresh(s, k, d)
<1>1. PICK k \in Key, kind \in Kind, size \in Size, pn \in {0, 1} :
        Dispatch(k, [n |-> arrived + 1, size |-> size, pn |-> pn], kind)
  BY DEF Receive
<1> DEFINE d == [n |-> arrived + 1, size |-> size, pn |-> pn]
<1>2. d \in Datagram /\ Arrives(d)
  BY LimitAssumption DEF Types, Receive, Datagram, Arrives
<1>3. sessions[k] \in Session \cup {None}
  BY DEF Types
<1> HIDE DEF d
<1>4. \/ ToSession(k, d) \/ ToPending(k, d, kind) \/ Dropped(d) \/ Holds(k, d, kind)
      \/ \E s \in Session : StartsFresh(s, k, d)
  <2>1. CASE sessions[k] # None
    BY <1>1, <1>2, <1>3, <2>1 DEF Dispatch, ToSession, d
  <2>2. CASE sessions[k] = None /\ pending[k] # << >>
    BY <1>1, <1>2, <2>2 DEF Dispatch, ToPending, d
  <2>3. CASE /\ sessions[k] = None /\ pending[k] = << >>
             /\ TableSize >= MaxSessions \/ ~tproxyUDPAllowed(k, kind)
    BY <1>1, <1>2, <2>3 DEF Dispatch, Dropped, d
  <2>4. CASE /\ sessions[k] = None /\ pending[k] = << >>
             /\ ~(TableSize >= MaxSessions \/ ~tproxyUDPAllowed(k, kind))
             /\ k \in Http3Key /\ IsQUICInitial(kind)
    BY <1>1, <1>2, <2>4 DEF Dispatch, Holds, d
  <2>5. CASE /\ sessions[k] = None /\ pending[k] = << >>
             /\ ~(TableSize >= MaxSessions \/ ~tproxyUDPAllowed(k, kind))
             /\ ~(k \in Http3Key /\ IsQUICInitial(kind))
    <3>1. startSession(k, <<d>>) /\ job' = Idle /\ UNCHANGED <<pending, tokens>>
      BY <1>1, <2>5 DEF Dispatch, d
    <3>2. CASE UNCHANGED <<sessions, skey, phase, queueVars, connVars>>
      BY <1>2, <3>1, <3>2 DEF Dropped, Drop, managerVars
    <3>3. CASE \E s \in Session : Opens(s, k, <<d>>)
      BY <1>2, <2>5, <3>1, <3>3 DEF StartsFresh
    <3> QED BY <3>1, <3>2, <3>3, StartCases
  <2> QED BY <2>1, <2>2, <2>3, <2>4, <2>5
<1> QED BY <1>2, <1>4

\* Every step is one of these.
LEMMA Cases ==
  ASSUME Types, [Next]_vars
  PROVE  \/ \E d \in Datagram :
              \/ \E k \in Key : ToSession(k, d)
              \/ \E k \in Key, kind \in Kind : ToPending(k, d, kind) \/ Holds(k, d, kind)
              \/ Dropped(d)
              \/ \E k \in Key, s \in Session : StartsFresh(s, k, d)
         \/ \E s \in Session : StartsHeld(s)
         \/ Forgets \/ ContinueHold \/ Enqueue
         \/ \E s \in Session :
              \/ Acquire(s) \/ AcquireTimeout(s) \/ DialLocal(s) \/ DialRemote(s) \/ DialFail(s)
              \/ WriteZero(s) \/ WriteInitial(s) \/ InitialsDone(s) \/ FlushDone(s)
              \/ Take(s) \/ Account(s) \/ WriteUpstream(s) \/ TakeRelayError(s)
              \/ RemoveClose(s) \/ RemoveUnmap(s) \/ RemoveDisconnect(s)
              \/ ReadFails(s) \/ Report(s)
         \/ UNCHANGED vars
<1>1. CASE Receive
  BY <1>1, ReceiveCases
<1>2. CASE ContinueGiveUp
  BY <1>2 DEF ContinueGiveUp, Forgets, Forget
<1>3. CASE ContinueStart
  <2>1. job.key \in Key
    BY <1>3, JobFacts DEF Types, ContinueStart
  <2>2. startSession(job.key, datagrams(Held))
    BY <1>3 DEF ContinueStart
  <2>3. CASE UNCHANGED <<sessions, skey, phase, queueVars, connVars>>
    BY <1>3, <2>3 DEF ContinueStart, Forgets, Forget
  <2>4. CASE \E s \in Session : Opens(s, job.key, datagrams(Held))
    BY <1>3, <2>4 DEF ContinueStart, StartsHeld, Forget
  <2> QED BY <2>1, <2>2, <2>3, <2>4, StartCases
<1> QED
  BY <1>1, <1>2, <1>3 DEF Next, Dispatcher, Run, Relay, Quiet

-----------------------------------------------------------------------------
(* The steps.                                                              *)

\* A session that opens is at home: no other one has the flow.
LEMMA OpensHome ==
  ASSUME IInv, NEW k \in Key, NEW s \in Session, NEW batch, Opens(s, k, batch)
  PROVE  HomeInv'
<1> USE DEF IInv, Types, Phase
<1>1. /\ phase[s] = "free" /\ sessions[k] = None
      /\ sessions' = [sessions EXCEPT ![k] = s] /\ skey' = [skey EXCEPT ![s] = k]
      /\ phase' = [phase EXCEPT ![s] = "sem"] /\ closed' = [closed EXCEPT ![s] = FALSE]
  BY DEF Opens, Unreferenced
<1>2. \A t \in Session : Open(t)' <=> Open(t) \/ t = s
  BY <1>1 DEF Open
<1>3. \A t \in Session : t # s => closed'[t] = closed[t] /\ skey'[t] = skey[t] /\ phase'[t] = phase[t]
  BY <1>1
<1>4. closed'[s] = FALSE /\ skey'[s] = k /\ sessions'[k] = s /\ phase'[s] = "sem"
  BY <1>1
<1>5. \A t \in Session : Open(t) => skey[t] # k /\ t # s
  BY <1>1, NoneAssumption DEF HomeInv, Open
<1>6. \A x \in Key : x # k => sessions'[x] = sessions[x]
  BY <1>1
<1>7. (\A t \in Session : closed[t] <=> ~Open(t))'
  <2> HIDE DEF Open
  <2> QED BY <1>2, <1>3, <1>4 DEF HomeInv
<1>8. (\A t \in Session : Open(t) => sessions[skey[t]] = t)'
  <2>1. ASSUME NEW t \in Session, Open(t)' PROVE sessions'[skey'[t]] = t
    <3>1. CASE t = s
      BY <3>1, <1>4
    <3>2. CASE t # s
      <4>1. Open(t) /\ skey[t] # k /\ skey'[t] = skey[t] /\ skey[t] \in Key
        BY <2>1, <3>2, <1>2, <1>3, <1>5
      <4> QED BY <4>1, <1>6 DEF HomeInv
    <3> QED BY <3>1, <3>2
  <2> QED BY <2>1
<1>9. (\A x \in Key : sessions[x] # None =>
         skey[sessions[x]] = x /\ phase[sessions[x]] \notin {"free", "disconnect"})'
  <2>1. ASSUME NEW x \in Key, sessions'[x] # None
        PROVE  skey'[sessions'[x]] = x /\ phase'[sessions'[x]] \notin {"free", "disconnect"}
    <3>1. CASE x = k
      BY <3>1, <1>4
    <3>2. CASE x # k
      <4>1. sessions'[x] = sessions[x] /\ sessions[x] \in Session /\ skey[sessions[x]] = x
            /\ phase[sessions[x]] \notin {"free", "disconnect"}
        BY <2>1, <3>2, <1>6 DEF HomeInv
      <4>2. sessions[x] # s
        BY <4>1, <1>1
      <4> QED BY <4>1, <4>2, <1>3
    <3> QED BY <3>1, <3>2
  <2> QED BY <2>1
<1> QED BY <1>7, <1>8, <1>9 DEF HomeInv

\* Every step preserves HomeInv.
LEMMA HomeStep ==
  ASSUME IInv, [Next]_vars
  PROVE  HomeInv'
<1> USE DEF IInv, Types, HomeInv, Open, Phase, QueueInv, managerVars, queueVars, connVars, idle
<1>1. ASSUME NEW d \in Datagram, NEW k \in Key, ToSession(k, d) PROVE HomeInv'
  BY <1>1 DEF ToSession, Arrives, Drop
<1>2. ASSUME NEW d \in Datagram, NEW k \in Key, NEW kind \in Kind, ToPending(k, d, kind) PROVE HomeInv'
  BY <1>2 DEF ToPending, Arrives, Drop
<1>3. ASSUME NEW d \in Datagram, Dropped(d) PROVE HomeInv'
  BY <1>3 DEF Dropped, Arrives, Drop
<1>4. ASSUME NEW d \in Datagram, NEW k \in Key, NEW kind \in Kind, Holds(k, d, kind) PROVE HomeInv'
  BY <1>4 DEF Holds, Arrives
<1>5. ASSUME NEW d \in Datagram, NEW k \in Key, NEW s \in Session, StartsFresh(s, k, d) PROVE HomeInv'
  BY <1>5, OpensHome DEF StartsFresh
<1>6. ASSUME NEW s \in Session, StartsHeld(s) PROVE HomeInv'
  BY <1>6, JobFacts, OpensHome DEF StartsHeld
<1>7. ASSUME Forgets PROVE HomeInv'
  BY <1>7 DEF Forgets
<1>8. ASSUME ContinueHold PROVE HomeInv'
  BY <1>8 DEF ContinueHold
<1>9. ASSUME Enqueue PROVE HomeInv'
  BY <1>9 DEF Enqueue
<1>10. ASSUME NEW s \in Session, Acquire(s) PROVE HomeInv'
  BY <1>10 DEF Acquire, Goto
<1>11. ASSUME NEW s \in Session, AcquireTimeout(s) PROVE HomeInv'
  BY <1>11 DEF AcquireTimeout, Goto
<1>12. ASSUME NEW s \in Session, DialLocal(s) PROVE HomeInv'
  BY <1>12 DEF DialLocal, Goto
<1>13. ASSUME NEW s \in Session, DialRemote(s) PROVE HomeInv'
  BY <1>13 DEF DialRemote, Goto
<1>14. ASSUME NEW s \in Session, DialFail(s) PROVE HomeInv'
  BY <1>14 DEF DialFail, Goto
<1>15. ASSUME NEW s \in Session, WriteZero(s) PROVE HomeInv'
  <2>1. /\ UNCHANGED <<sessions, skey, closed>>
        /\ phase[s] \notin {"free", "unmap", "disconnect"}
        /\ \E l \in {"initials", "loop", "flush", "close"} :
             phase' = [phase EXCEPT ![s] = l] \/ phase' = phase
    BY <1>15 DEF WriteZero, Goto
  <2>2. \A t \in Session :
          /\ Open(t)' <=> Open(t)
          /\ phase'[t] \in {"free", "disconnect"} <=> phase[t] \in {"free", "disconnect"}
    BY <2>1
  <2> HIDE DEF Open
  <2> QED BY <2>1, <2>2
<1>16. ASSUME NEW s \in Session, WriteInitial(s) PROVE HomeInv'
  <2>1. /\ UNCHANGED <<sessions, skey, closed>>
        /\ phase[s] \notin {"free", "unmap", "disconnect"}
        /\ \E l \in {"initials", "loop", "flush", "close"} :
             phase' = [phase EXCEPT ![s] = l] \/ phase' = phase
    BY <1>16 DEF WriteInitial, Goto
  <2>2. \A t \in Session :
          /\ Open(t)' <=> Open(t)
          /\ phase'[t] \in {"free", "disconnect"} <=> phase[t] \in {"free", "disconnect"}
    BY <2>1
  <2> HIDE DEF Open
  <2> QED BY <2>1, <2>2
<1>17. ASSUME NEW s \in Session, InitialsDone(s) PROVE HomeInv'
  BY <1>17 DEF InitialsDone, Goto
<1>18. ASSUME NEW s \in Session, FlushDone(s) PROVE HomeInv'
  <2>1. /\ UNCHANGED <<sessions, skey, closed>>
        /\ phase[s] \notin {"free", "unmap", "disconnect"}
        /\ \E l \in {"initials", "loop", "flush", "close"} :
             phase' = [phase EXCEPT ![s] = l] \/ phase' = phase
    BY <1>18 DEF FlushDone, Goto
  <2>2. \A t \in Session :
          /\ Open(t)' <=> Open(t)
          /\ phase'[t] \in {"free", "disconnect"} <=> phase[t] \in {"free", "disconnect"}
    BY <2>1
  <2> HIDE DEF Open
  <2> QED BY <2>1, <2>2
<1>19. ASSUME NEW s \in Session, Take(s) PROVE HomeInv'
  BY <1>19 DEF Take, Goto
<1>20. ASSUME NEW s \in Session, Account(s) PROVE HomeInv'
  BY <1>20 DEF Account, Goto
<1>21. ASSUME NEW s \in Session, WriteUpstream(s) PROVE HomeInv'
  <2>1. /\ UNCHANGED <<sessions, skey, closed>>
        /\ phase[s] \notin {"free", "unmap", "disconnect"}
        /\ \E l \in {"initials", "loop", "flush", "close"} :
             phase' = [phase EXCEPT ![s] = l] \/ phase' = phase
    BY <1>21 DEF WriteUpstream, Goto
  <2>2. \A t \in Session :
          /\ Open(t)' <=> Open(t)
          /\ phase'[t] \in {"free", "disconnect"} <=> phase[t] \in {"free", "disconnect"}
    BY <2>1
  <2> HIDE DEF Open
  <2> QED BY <2>1, <2>2
<1>22. ASSUME NEW s \in Session, TakeRelayError(s) PROVE HomeInv'
  BY <1>22 DEF TakeRelayError, Goto
<1>23. ASSUME NEW s \in Session, RemoveClose(s) PROVE HomeInv'
  BY <1>23 DEF RemoveClose, Goto
<1>24. ASSUME NEW s \in Session, RemoveUnmap(s) PROVE HomeInv'
  BY <1>24 DEF RemoveUnmap, Goto
<1>25. ASSUME NEW s \in Session, RemoveDisconnect(s) PROVE HomeInv'
  BY <1>25 DEF RemoveDisconnect, Goto
<1>26. ASSUME NEW s \in Session, ReadFails(s) PROVE HomeInv'
  BY <1>26 DEF ReadFails, Goto
<1>27. ASSUME NEW s \in Session, Report(s) PROVE HomeInv'
  BY <1>27 DEF Report, Goto
<1>28. ASSUME UNCHANGED vars PROVE HomeInv'
  BY <1>28 DEF vars, managerVars, queueVars, connVars
<1> QED
  BY <1>1, <1>2, <1>3, <1>4, <1>5, <1>6, <1>7, <1>8, <1>9, <1>10, <1>11, <1>12,
     <1>13, <1>14, <1>15, <1>16, <1>17, <1>18, <1>19, <1>20, <1>21, <1>22, <1>23,
     <1>24, <1>25, <1>26, <1>27, <1>28, Cases

\* Every step preserves QueueInv.
LEMMA QueueStep ==
  ASSUME IInv, [Next]_vars
  PROVE  QueueInv'
<1> USE DEF IInv, Types, HomeInv, Open, Phase, QueueInv, managerVars, queueVars, connVars, idle
<1>1. ASSUME NEW d \in Datagram, NEW k \in Key, ToSession(k, d) PROVE QueueInv'
  BY <1>1 DEF ToSession, Arrives, Drop
<1>2. ASSUME NEW d \in Datagram, NEW k \in Key, NEW kind \in Kind, ToPending(k, d, kind) PROVE QueueInv'
  BY <1>2 DEF ToPending, Arrives, Drop
<1>3. ASSUME NEW d \in Datagram, Dropped(d) PROVE QueueInv'
  BY <1>3 DEF Dropped, Arrives, Drop
<1>4. ASSUME NEW d \in Datagram, NEW k \in Key, NEW kind \in Kind, Holds(k, d, kind) PROVE QueueInv'
  BY <1>4 DEF Holds, Arrives
<1>5. ASSUME NEW d \in Datagram, NEW k \in Key, NEW s \in Session, StartsFresh(s, k, d) PROVE QueueInv'
  <2>1. /\ phase[s] = "free"
        /\ phase' = [phase EXCEPT ![s] = "sem"]
        /\ \A t \in Session : t # s => initials'[t] = initials[t]
        /\ UNCHANGED <<hand, upstream, counted>>
    BY <1>5 DEF StartsFresh, Opens, Unreferenced
  <2> QED BY <2>1
<1>6. ASSUME NEW s \in Session, StartsHeld(s) PROVE QueueInv'
  <2>1. /\ phase[s] = "free"
        /\ phase' = [phase EXCEPT ![s] = "sem"]
        /\ \A t \in Session : t # s => initials'[t] = initials[t]
        /\ UNCHANGED <<hand, upstream, counted>>
    BY <1>6 DEF StartsHeld, Opens, Unreferenced
  <2> QED BY <2>1
<1>7. ASSUME Forgets PROVE QueueInv'
  BY <1>7 DEF Forgets
<1>8. ASSUME ContinueHold PROVE QueueInv'
  BY <1>8 DEF ContinueHold
<1>9. ASSUME Enqueue PROVE QueueInv'
  BY <1>9 DEF Enqueue
<1>10. ASSUME NEW s \in Session, Acquire(s) PROVE QueueInv'
  BY <1>10 DEF Acquire, Goto
<1>11. ASSUME NEW s \in Session, AcquireTimeout(s) PROVE QueueInv'
  BY <1>11 DEF AcquireTimeout, Goto
<1>12. ASSUME NEW s \in Session, DialLocal(s) PROVE QueueInv'
  BY <1>12 DEF DialLocal, Goto
<1>13. ASSUME NEW s \in Session, DialRemote(s) PROVE QueueInv'
  BY <1>13 DEF DialRemote, Goto
<1>14. ASSUME NEW s \in Session, DialFail(s) PROVE QueueInv'
  BY <1>14 DEF DialFail, Goto
<1>15. ASSUME NEW s \in Session, WriteZero(s) PROVE QueueInv'
  BY <1>15 DEF WriteZero, Goto
<1>16. ASSUME NEW s \in Session, WriteInitial(s) PROVE QueueInv'
  BY <1>16 DEF WriteInitial, Goto, Written
<1>17. ASSUME NEW s \in Session, InitialsDone(s) PROVE QueueInv'
  BY <1>17 DEF InitialsDone, Goto
<1>18. ASSUME NEW s \in Session, FlushDone(s) PROVE QueueInv'
  BY <1>18 DEF FlushDone, Goto
<1>19. ASSUME NEW s \in Session, Take(s) PROVE QueueInv'
  BY <1>19 DEF Take, Goto
<1>20. ASSUME NEW s \in Session, Account(s) PROVE QueueInv'
  BY <1>20 DEF Account, Goto
<1>21. ASSUME NEW s \in Session, WriteUpstream(s) PROVE QueueInv'
  BY <1>21 DEF WriteUpstream, Goto, Written
<1>22. ASSUME NEW s \in Session, TakeRelayError(s) PROVE QueueInv'
  BY <1>22 DEF TakeRelayError, Goto
<1>23. ASSUME NEW s \in Session, RemoveClose(s) PROVE QueueInv'
  BY <1>23 DEF RemoveClose, Goto
<1>24. ASSUME NEW s \in Session, RemoveUnmap(s) PROVE QueueInv'
  BY <1>24 DEF RemoveUnmap, Goto
<1>25. ASSUME NEW s \in Session, RemoveDisconnect(s) PROVE QueueInv'
  BY <1>25 DEF RemoveDisconnect, Goto
<1>26. ASSUME NEW s \in Session, ReadFails(s) PROVE QueueInv'
  BY <1>26 DEF ReadFails, Goto
<1>27. ASSUME NEW s \in Session, Report(s) PROVE QueueInv'
  BY <1>27 DEF Report, Goto
<1>28. ASSUME UNCHANGED vars PROVE QueueInv'
  BY <1>28 DEF vars, managerVars, queueVars, connVars
<1> QED
  BY <1>1, <1>2, <1>3, <1>4, <1>5, <1>6, <1>7, <1>8, <1>9, <1>10, <1>11, <1>12,
     <1>13, <1>14, <1>15, <1>16, <1>17, <1>18, <1>19, <1>20, <1>21, <1>22, <1>23,
     <1>24, <1>25, <1>26, <1>27, <1>28, Cases

\* Every step preserves PendingInv.
LEMMA PendingStep ==
  ASSUME IInv, [Next]_vars
  PROVE  PendingInv'
<1> USE DEF IInv, Types, PendingInv, managerVars, queueVars, connVars, idle
<1>1. ASSUME NEW d \in Datagram, NEW k \in Key, ToSession(k, d) PROVE PendingInv'
  BY <1>1, JobFacts DEF ToSession, Arrives, Drop
<1>2. ASSUME NEW d \in Datagram, NEW k \in Key, NEW kind \in Kind, ToPending(k, d, kind) PROVE PendingInv'
  BY <1>2, JobFacts DEF ToPending, Arrives, Drop
<1>3. ASSUME NEW d \in Datagram, Dropped(d) PROVE PendingInv'
  BY <1>3, JobFacts DEF Dropped, Arrives, Drop
<1>4. ASSUME NEW d \in Datagram, NEW k \in Key, NEW kind \in Kind, Holds(k, d, kind) PROVE PendingInv'
  BY <1>4, JobFacts DEF Holds, Arrives
<1>5. ASSUME NEW d \in Datagram, NEW k \in Key, NEW s \in Session, StartsFresh(s, k, d) PROVE PendingInv'
  BY <1>5, JobFacts DEF StartsFresh, Arrives, Opens
<1>6. ASSUME NEW s \in Session, StartsHeld(s) PROVE PendingInv'
  <2>1. job.key \in Key /\ job'.at = "recv"
    BY <1>6, JobFacts DEF StartsHeld, Idle
  <2> QED BY <1>6, <2>1 DEF StartsHeld, Opens
<1>7. ASSUME Forgets PROVE PendingInv'
  <2>1. job.key \in Key /\ job'.at = "recv"
    BY <1>7, JobFacts DEF Forgets, Idle
  <2> QED BY <1>7, <2>1 DEF Forgets
<1>8. ASSUME ContinueHold PROVE PendingInv'
  <2>1. job.key \in Key /\ job'.at = "recv"
    BY <1>8, JobFacts DEF ContinueHold, Idle
  <2> QED BY <1>8, <2>1 DEF ContinueHold
<1>9. ASSUME Enqueue PROVE PendingInv'
  <2>1. job'.at = "recv" /\ UNCHANGED <<sessions, pending>>
    BY <1>9 DEF Enqueue, Idle
  <2> QED BY <2>1
<1>10. ASSUME NEW s \in Session, Acquire(s) PROVE PendingInv'
  BY <1>10, JobFacts DEF Acquire, Goto
<1>11. ASSUME NEW s \in Session, AcquireTimeout(s) PROVE PendingInv'
  BY <1>11, JobFacts DEF AcquireTimeout, Goto
<1>12. ASSUME NEW s \in Session, DialLocal(s) PROVE PendingInv'
  BY <1>12, JobFacts DEF DialLocal, Goto
<1>13. ASSUME NEW s \in Session, DialRemote(s) PROVE PendingInv'
  BY <1>13, JobFacts DEF DialRemote, Goto
<1>14. ASSUME NEW s \in Session, DialFail(s) PROVE PendingInv'
  BY <1>14, JobFacts DEF DialFail, Goto
<1>15. ASSUME NEW s \in Session, WriteZero(s) PROVE PendingInv'
  BY <1>15, JobFacts DEF WriteZero, Goto
<1>16. ASSUME NEW s \in Session, WriteInitial(s) PROVE PendingInv'
  BY <1>16, JobFacts DEF WriteInitial, Goto, Written
<1>17. ASSUME NEW s \in Session, InitialsDone(s) PROVE PendingInv'
  BY <1>17, JobFacts DEF InitialsDone, Goto
<1>18. ASSUME NEW s \in Session, FlushDone(s) PROVE PendingInv'
  BY <1>18, JobFacts DEF FlushDone, Goto
<1>19. ASSUME NEW s \in Session, Take(s) PROVE PendingInv'
  BY <1>19, JobFacts DEF Take, Goto
<1>20. ASSUME NEW s \in Session, Account(s) PROVE PendingInv'
  BY <1>20, JobFacts DEF Account, Goto
<1>21. ASSUME NEW s \in Session, WriteUpstream(s) PROVE PendingInv'
  BY <1>21, JobFacts DEF WriteUpstream, Goto, Written
<1>22. ASSUME NEW s \in Session, TakeRelayError(s) PROVE PendingInv'
  BY <1>22, JobFacts DEF TakeRelayError, Goto
<1>23. ASSUME NEW s \in Session, RemoveClose(s) PROVE PendingInv'
  BY <1>23, JobFacts DEF RemoveClose, Goto
<1>24. ASSUME NEW s \in Session, RemoveUnmap(s) PROVE PendingInv'
  BY <1>24, JobFacts DEF RemoveUnmap, Goto
<1>25. ASSUME NEW s \in Session, RemoveDisconnect(s) PROVE PendingInv'
  BY <1>25, JobFacts DEF RemoveDisconnect, Goto
<1>26. ASSUME NEW s \in Session, ReadFails(s) PROVE PendingInv'
  BY <1>26, JobFacts DEF ReadFails, Goto
<1>27. ASSUME NEW s \in Session, Report(s) PROVE PendingInv'
  BY <1>27, JobFacts DEF Report, Goto
<1>28. ASSUME UNCHANGED vars PROVE PendingInv'
  BY <1>28 DEF vars, managerVars, queueVars, connVars
<1> QED
  BY <1>1, <1>2, <1>3, <1>4, <1>5, <1>6, <1>7, <1>8, <1>9, <1>10, <1>11, <1>12,
     <1>13, <1>14, <1>15, <1>16, <1>17, <1>18, <1>19, <1>20, <1>21, <1>22, <1>23,
     <1>24, <1>25, <1>26, <1>27, <1>28, Cases

\* Every step preserves the types.
LEMMA TypesStep ==
  ASSUME IInv, [Next]_vars
  PROVE  Types'
<1> USE DEF IInv, Types, Phase, managerVars, queueVars, connVars, idle
<1>1. ASSUME NEW d \in Datagram, NEW k \in Key, ToSession(k, d) PROVE Types'
  <2>1. job' \in Job
    BY <1>1, JobMade DEF ToSession, Arrives
  <2> QED BY <1>1, <2>1 DEF ToSession, Arrives, Drop
<1>2. ASSUME NEW d \in Datagram, NEW k \in Key, NEW kind \in Kind, ToPending(k, d, kind) PROVE Types'
  <2>1. job' \in Job
    BY <1>2, JobMade DEF ToPending, Arrives
  <2> QED BY <1>2, <2>1 DEF ToPending, Arrives, Drop
<1>3. ASSUME NEW d \in Datagram, Dropped(d) PROVE Types'
  BY <1>3 DEF Dropped, Arrives, Drop
<1>4. ASSUME NEW d \in Datagram, NEW k \in Key, NEW kind \in Kind, Holds(k, d, kind) PROVE Types'
  <2>1. job' \in Job
    BY <1>4, JobMade DEF Holds
  <2>2. << >> \in Seq(Datagram)
    OBVIOUS
  <2>3. pending' \in [Key -> {<< >>} \cup {<<p>> : p \in Seq(Datagram)}]
    BY <1>4, <2>2 DEF Holds
  <2> QED BY <1>4, <2>1, <2>3 DEF Holds, Arrives
<1>5. ASSUME NEW d \in Datagram, NEW k \in Key, NEW s \in Session, StartsFresh(s, k, d) PROVE Types'
  BY <1>5 DEF StartsFresh, Arrives, Opens
<1>6. ASSUME NEW s \in Session, StartsHeld(s) PROVE Types'
  <2>1. /\ job.key \in Key /\ datagrams(Held) \in Seq(Datagram) /\ job' \in Job
    BY <1>6, HeldFacts, DatagramsSorted, JobMade DEF StartsHeld
  <2>2. pending' \in [Key -> {<< >>} \cup {<<p>> : p \in Seq(Datagram)}]
    BY <1>6, <2>1 DEF StartsHeld
  <2> QED BY <1>6, <2>1, <2>2 DEF StartsHeld, Opens
<1>7. ASSUME Forgets PROVE Types'
  <2>1. job.key \in Key /\ job' \in Job
    BY <1>7, HeldFacts, JobMade DEF Forgets
  <2>2. pending' \in [Key -> {<< >>} \cup {<<p>> : p \in Seq(Datagram)}]
    BY <1>7, <2>1 DEF Forgets
  <2> QED BY <1>7, <2>1, <2>2 DEF Forgets
<1>8. ASSUME ContinueHold PROVE Types'
  <2>1. job.key \in Key /\ Held \in Seq(Datagram) /\ job' \in Job
    BY <1>8, HeldFacts, JobMade DEF ContinueHold
  <2>2. pending' \in [Key -> {<< >>} \cup {<<p>> : p \in Seq(Datagram)}]
    BY <1>8, <2>1 DEF ContinueHold
  <2> QED BY <1>8, <2>1, <2>2 DEF ContinueHold
<1>9. ASSUME Enqueue PROVE Types'
  <2>1. job.session \in Session /\ job.data \in Datagram /\ job' \in Job
    BY <1>9, JobFacts, JobMade DEF Enqueue
  <2>2. Append(upstream[job.session], job.data) \in Seq(Datagram)
    BY <2>1
  <2>3. upstream' \in [Session -> Seq(Datagram)]
    BY <1>9, <2>1, <2>2 DEF Enqueue
  <2> QED BY <1>9, <2>1, <2>3 DEF Enqueue
<1>10. ASSUME NEW s \in Session, Acquire(s) PROVE Types'
  BY <1>10 DEF Acquire, Goto
<1>11. ASSUME NEW s \in Session, AcquireTimeout(s) PROVE Types'
  BY <1>11 DEF AcquireTimeout, Goto
<1>12. ASSUME NEW s \in Session, DialLocal(s) PROVE Types'
  BY <1>12 DEF DialLocal, Goto
<1>13. ASSUME NEW s \in Session, DialRemote(s) PROVE Types'
  BY <1>13 DEF DialRemote, Goto
<1>14. ASSUME NEW s \in Session, DialFail(s) PROVE Types'
  BY <1>14 DEF DialFail, Goto
<1>15. ASSUME NEW s \in Session, WriteZero(s) PROVE Types'
  BY <1>15 DEF WriteZero, Goto
<1>16. ASSUME NEW s \in Session, WriteInitial(s) PROVE Types'
  <2>1. Head(initials[s]) \in Datagram
    BY <1>16 DEF WriteInitial
  <2>2. Append(out[skey[s]], Head(initials[s])) \in Seq(Datagram)
    BY <2>1
  <2>3. out' \in [Key -> Seq(Datagram)]
    BY <1>16, <2>2 DEF WriteInitial, Written
  <2> QED BY <1>16, <2>3 DEF WriteInitial, Goto
<1>17. ASSUME NEW s \in Session, InitialsDone(s) PROVE Types'
  BY <1>17 DEF InitialsDone, Goto
<1>18. ASSUME NEW s \in Session, FlushDone(s) PROVE Types'
  BY <1>18 DEF FlushDone, Goto
<1>19. ASSUME NEW s \in Session, Take(s) PROVE Types'
  BY <1>19 DEF Take, Goto
<1>20. ASSUME NEW s \in Session, Account(s) PROVE Types'
  BY <1>20 DEF Account, Goto
<1>21. ASSUME NEW s \in Session, WriteUpstream(s) PROVE Types'
  <2>1. hand[s][1] \in Datagram
    BY <1>21 DEF WriteUpstream
  <2>2. Append(out[skey[s]], hand[s][1]) \in Seq(Datagram)
    BY <2>1
  <2>3. out' \in [Key -> Seq(Datagram)]
    BY <1>21, <2>2 DEF WriteUpstream, Written
  <2> QED BY <1>21, <2>3 DEF WriteUpstream, Goto
<1>22. ASSUME NEW s \in Session, TakeRelayError(s) PROVE Types'
  BY <1>22 DEF TakeRelayError, Goto
<1>23. ASSUME NEW s \in Session, RemoveClose(s) PROVE Types'
  BY <1>23 DEF RemoveClose, Goto
<1>24. ASSUME NEW s \in Session, RemoveUnmap(s) PROVE Types'
  BY <1>24 DEF RemoveUnmap, Goto
<1>25. ASSUME NEW s \in Session, RemoveDisconnect(s) PROVE Types'
  BY <1>25 DEF RemoveDisconnect, Goto
<1>26. ASSUME NEW s \in Session, ReadFails(s) PROVE Types'
  BY <1>26 DEF ReadFails, Goto
<1>27. ASSUME NEW s \in Session, Report(s) PROVE Types'
  BY <1>27 DEF Report, Goto
<1>28. ASSUME UNCHANGED vars PROVE Types'
  BY <1>28 DEF vars, managerVars, queueVars, connVars
<1> QED
  BY <1>1, <1>2, <1>3, <1>4, <1>5, <1>6, <1>7, <1>8, <1>9, <1>10, <1>11, <1>12,
     <1>13, <1>14, <1>15, <1>16, <1>17, <1>18, <1>19, <1>20, <1>21, <1>22, <1>23,
     <1>24, <1>25, <1>26, <1>27, <1>28, Cases

\* A step that leaves the dialing sessions and the tokens alone preserves TokensInv.
LEMMA TokensKept ==
  ASSUME TokensInv, Dialing' = Dialing, tokens' = tokens
  PROVE  TokensInv'
<1> DialWorkers \in Nat
  BY LimitAssumption
<1>1. Cardinality(Dialing)' = Cardinality(Dialing)
  BY Zenon
<1>2. IsFiniteSet(Dialing)'
  BY Zenon DEF TokensInv
<1> QED BY <1>1, <1>2 DEF TokensInv, TokensExact, Dialing

\* One session more is dialing, or one less.
LEMMA TokenAdded ==
  ASSUME TokensInv, NEW s, Dialing' = Dialing \cup {s}, s \notin Dialing,
         tokens' = tokens + 1, tokens < DialWorkers
  PROVE  TokensInv'
<1> DialWorkers \in Nat
  BY LimitAssumption
<1>1. IsFiniteSet(Dialing \cup {s}) /\ Cardinality(Dialing \cup {s}) = Cardinality(Dialing) + 1
  BY FS_AddElement DEF TokensInv
<1>2. IsFiniteSet(Dialing)' /\ Cardinality(Dialing)' = Cardinality(Dialing \cup {s})
  BY <1>1, Zenon
<1> QED BY <1>1, <1>2 DEF TokensInv, TokensExact, Dialing

LEMMA TokenGone ==
  ASSUME TokensInv, NEW s, Dialing' = Dialing \ {s}, s \in Dialing, tokens' = tokens - 1
  PROVE  TokensInv'
<1> DialWorkers \in Nat
  BY LimitAssumption
<1>1. IsFiniteSet(Dialing \ {s}) /\ Cardinality(Dialing \ {s}) = Cardinality(Dialing) - 1
  BY FS_RemoveElement DEF TokensInv
<1>2. IsFiniteSet(Dialing)' /\ Cardinality(Dialing)' = Cardinality(Dialing \ {s})
  BY <1>1, Zenon
<1>3. Cardinality(Dialing \ {s}) \in Nat
  BY <1>1, FS_CardinalityType
<1> QED BY <1>1, <1>2, <1>3 DEF TokensInv, TokensExact, Dialing

\* Every step preserves TokensInv.
LEMMA TokensStep ==
  ASSUME IInv, [Next]_vars
  PROVE  TokensInv'
<1> USE DEF IInv, Types, Phase, Dialing, managerVars, queueVars, connVars, idle
<1>1. ASSUME NEW d \in Datagram, NEW k \in Key, ToSession(k, d) PROVE TokensInv'
  <2>1. Dialing' = Dialing /\ tokens' = tokens
    BY <1>1 DEF ToSession, Arrives, Drop
  <2> QED BY <2>1, TokensKept
<1>2. ASSUME NEW d \in Datagram, NEW k \in Key, NEW kind \in Kind, ToPending(k, d, kind) PROVE TokensInv'
  <2>1. Dialing' = Dialing /\ tokens' = tokens
    BY <1>2 DEF ToPending, Arrives, Drop
  <2> QED BY <2>1, TokensKept
<1>3. ASSUME NEW d \in Datagram, Dropped(d) PROVE TokensInv'
  <2>1. Dialing' = Dialing /\ tokens' = tokens
    BY <1>3 DEF Dropped, Arrives, Drop
  <2> QED BY <2>1, TokensKept
<1>4. ASSUME NEW d \in Datagram, NEW k \in Key, NEW kind \in Kind, Holds(k, d, kind) PROVE TokensInv'
  <2>1. Dialing' = Dialing /\ tokens' = tokens
    BY <1>4 DEF Holds, Arrives
  <2> QED BY <2>1, TokensKept
<1>5. ASSUME NEW d \in Datagram, NEW k \in Key, NEW s \in Session, StartsFresh(s, k, d) PROVE TokensInv'
  <2>1. Dialing' = Dialing /\ tokens' = tokens
    BY <1>5 DEF StartsFresh, Arrives, Opens, Unreferenced
  <2> QED BY <2>1, TokensKept
<1>6. ASSUME NEW s \in Session, StartsHeld(s) PROVE TokensInv'
  <2>1. Dialing' = Dialing /\ tokens' = tokens
    BY <1>6 DEF StartsHeld, Opens, Unreferenced
  <2> QED BY <2>1, TokensKept
<1>7. ASSUME Forgets PROVE TokensInv'
  <2>1. Dialing' = Dialing /\ tokens' = tokens
    BY <1>7 DEF Forgets
  <2> QED BY <2>1, TokensKept
<1>8. ASSUME ContinueHold PROVE TokensInv'
  <2>1. Dialing' = Dialing /\ tokens' = tokens
    BY <1>8 DEF ContinueHold
  <2> QED BY <2>1, TokensKept
<1>9. ASSUME Enqueue PROVE TokensInv'
  <2>1. Dialing' = Dialing /\ tokens' = tokens
    BY <1>9 DEF Enqueue
  <2> QED BY <2>1, TokensKept
<1>10. ASSUME NEW s \in Session, Acquire(s) PROVE TokensInv'
  <2>1. /\ Dialing' = Dialing \cup {s} /\ s \notin Dialing
        /\ tokens' = tokens + 1 /\ tokens < DialWorkers
    BY <1>10 DEF Acquire, Goto
  <2> QED BY <2>1, TokenAdded
<1>11. ASSUME NEW s \in Session, AcquireTimeout(s) PROVE TokensInv'
  <2>1. Dialing' = Dialing /\ tokens' = tokens
    BY <1>11 DEF AcquireTimeout, Goto
  <2> QED BY <2>1, TokensKept
<1>12. ASSUME NEW s \in Session, DialLocal(s) PROVE TokensInv'
  <2>1. Dialing' = Dialing /\ tokens' = tokens
    BY <1>12 DEF DialLocal, Goto
  <2> QED BY <2>1, TokensKept
<1>13. ASSUME NEW s \in Session, DialRemote(s) PROVE TokensInv'
  <2>1. Dialing' = Dialing \ {s} /\ s \in Dialing /\ tokens' = tokens - 1
    BY <1>13 DEF DialRemote, Goto
  <2> QED BY <2>1, TokenGone
<1>14. ASSUME NEW s \in Session, DialFail(s) PROVE TokensInv'
  <2>1. Dialing' = Dialing \ {s} /\ s \in Dialing /\ tokens' = tokens - 1
    BY <1>14 DEF DialFail, Goto
  <2> QED BY <2>1, TokenGone
<1>15. ASSUME NEW s \in Session, WriteZero(s) PROVE TokensInv'
  <2>1. Dialing' = Dialing /\ tokens' = tokens
    BY <1>15 DEF WriteZero, Goto
  <2> QED BY <2>1, TokensKept
<1>16. ASSUME NEW s \in Session, WriteInitial(s) PROVE TokensInv'
  <2>1. Dialing' = Dialing /\ tokens' = tokens
    BY <1>16 DEF WriteInitial, Goto, Written
  <2> QED BY <2>1, TokensKept
<1>17. ASSUME NEW s \in Session, InitialsDone(s) PROVE TokensInv'
  <2>1. Dialing' = Dialing /\ tokens' = tokens
    BY <1>17 DEF InitialsDone, Goto
  <2> QED BY <2>1, TokensKept
<1>18. ASSUME NEW s \in Session, FlushDone(s) PROVE TokensInv'
  <2>1. Dialing' = Dialing /\ tokens' = tokens
    BY <1>18 DEF FlushDone, Goto
  <2> QED BY <2>1, TokensKept
<1>19. ASSUME NEW s \in Session, Take(s) PROVE TokensInv'
  <2>1. Dialing' = Dialing /\ tokens' = tokens
    BY <1>19 DEF Take, Goto
  <2> QED BY <2>1, TokensKept
<1>20. ASSUME NEW s \in Session, Account(s) PROVE TokensInv'
  <2>1. Dialing' = Dialing /\ tokens' = tokens
    BY <1>20 DEF Account, Goto
  <2> QED BY <2>1, TokensKept
<1>21. ASSUME NEW s \in Session, WriteUpstream(s) PROVE TokensInv'
  <2>1. Dialing' = Dialing /\ tokens' = tokens
    BY <1>21 DEF WriteUpstream, Goto, QueueInv
  <2> QED BY <2>1, TokensKept
<1>22. ASSUME NEW s \in Session, TakeRelayError(s) PROVE TokensInv'
  <2>1. Dialing' = Dialing /\ tokens' = tokens
    BY <1>22 DEF TakeRelayError, Goto
  <2> QED BY <2>1, TokensKept
<1>23. ASSUME NEW s \in Session, RemoveClose(s) PROVE TokensInv'
  <2>1. Dialing' = Dialing /\ tokens' = tokens
    BY <1>23 DEF RemoveClose, Goto
  <2> QED BY <2>1, TokensKept
<1>24. ASSUME NEW s \in Session, RemoveUnmap(s) PROVE TokensInv'
  <2>1. Dialing' = Dialing /\ tokens' = tokens
    BY <1>24 DEF RemoveUnmap, Goto
  <2> QED BY <2>1, TokensKept
<1>25. ASSUME NEW s \in Session, RemoveDisconnect(s) PROVE TokensInv'
  <2>1. Dialing' = Dialing /\ tokens' = tokens
    BY <1>25 DEF RemoveDisconnect, Goto
  <2> QED BY <2>1, TokensKept
<1>26. ASSUME NEW s \in Session, ReadFails(s) PROVE TokensInv'
  <2>1. Dialing' = Dialing /\ tokens' = tokens
    BY <1>26 DEF ReadFails, Goto
  <2> QED BY <2>1, TokensKept
<1>27. ASSUME NEW s \in Session, Report(s) PROVE TokensInv'
  <2>1. Dialing' = Dialing /\ tokens' = tokens
    BY <1>27 DEF Report, Goto
  <2> QED BY <2>1, TokensKept
<1>28. ASSUME UNCHANGED vars PROVE TokensInv'
  <2>1. Dialing' = Dialing /\ tokens' = tokens
    BY <1>28 DEF vars
  <2> QED BY <2>1, TokensKept
<1> QED
  BY <1>1, <1>2, <1>3, <1>4, <1>5, <1>6, <1>7, <1>8, <1>9, <1>10, <1>11, <1>12,
     <1>13, <1>14, <1>15, <1>16, <1>17, <1>18, <1>19, <1>20, <1>21, <1>22, <1>23,
     <1>24, <1>25, <1>26, <1>27, <1>28, Cases

\* Steps that leave the table alone, or take entries away, preserve TableInv.
LEMMA TableShrinks ==
  ASSUME TableInv, Mapped' \subseteq Mapped, Waiting' \subseteq Waiting
  PROVE  TableInv'
<1> MaxSessions \in Nat
  BY LimitAssumption
<1> USE DEF TableInv
<1>1. /\ IsFiniteSet(Mapped) /\ IsFiniteSet(Waiting)
      /\ Cardinality(Mapped) \in Nat /\ Cardinality(Waiting) \in Nat
  BY FS_CardinalityType
<1>2. /\ IsFiniteSet(Mapped') /\ Cardinality(Mapped') <= Cardinality(Mapped)
      /\ Cardinality(Mapped') \in Nat
  BY <1>1, FS_Subset, FS_CardinalityType
<1>3. /\ IsFiniteSet(Waiting') /\ Cardinality(Waiting') <= Cardinality(Waiting)
      /\ Cardinality(Waiting') \in Nat
  BY <1>1, FS_Subset, FS_CardinalityType
<1>4. Cardinality(Mapped') + Cardinality(Waiting') <= MaxSessions
  BY <1>1, <1>2, <1>3
<1> QED BY <1>2, <1>3, <1>4

\* An entry is added where there is room for one more.
LEMMA TableAdded ==
  ASSUME TableInv, ~(TableSize >= MaxSessions), NEW k,
         \/ Mapped' = Mapped \cup {k} /\ Waiting' = Waiting
         \/ Mapped' = Mapped /\ Waiting' = Waiting \cup {k}
  PROVE  TableInv'
<1> MaxSessions \in Nat
  BY LimitAssumption
<1>1. /\ IsFiniteSet(Mapped) /\ IsFiniteSet(Waiting)
      /\ Cardinality(Mapped) \in Nat /\ Cardinality(Waiting) \in Nat
  BY FS_CardinalityType DEF TableInv
<1>2. TableSize = Cardinality(Mapped) + Cardinality(Waiting)
  BY DEF TableSize, Mapped, Waiting
<1>3. \A S : IsFiniteSet(S) /\ Cardinality(S) \in Nat =>
         /\ IsFiniteSet(S \cup {k}) /\ Cardinality(S \cup {k}) \in Nat
         /\ Cardinality(S \cup {k}) <= Cardinality(S) + 1
  BY FS_AddElement, FS_CardinalityType
<1>4. /\ IsFiniteSet(Mapped') /\ IsFiniteSet(Waiting')
      /\ Cardinality(Mapped') + Cardinality(Waiting') <= Cardinality(Mapped) + Cardinality(Waiting) + 1
  BY <1>1, <1>3
<1>5. Cardinality(Mapped') + Cardinality(Waiting') <= MaxSessions
  <2>1. Cardinality(Mapped') \in Nat /\ Cardinality(Waiting') \in Nat
    BY <1>4, FS_CardinalityType
  <2> QED BY <1>1, <1>2, <1>4, <2>1
<1> QED BY <1>4, <1>5 DEF TableInv

\* The entry of held Initials becomes a session.
LEMMA TableMoved ==
  ASSUME TableInv, NEW k, k \in Waiting, Mapped' = Mapped \cup {k}, Waiting' = Waiting \ {k}
  PROVE  TableInv'
<1> MaxSessions \in Nat
  BY LimitAssumption
<1>1. /\ IsFiniteSet(Mapped) /\ IsFiniteSet(Waiting)
      /\ Cardinality(Mapped) \in Nat /\ Cardinality(Waiting) \in Nat
  BY FS_CardinalityType DEF TableInv
<1>2. /\ IsFiniteSet(Mapped \cup {k}) /\ Cardinality(Mapped \cup {k}) \in Nat
      /\ Cardinality(Mapped \cup {k}) <= Cardinality(Mapped) + 1
  <2>1. /\ IsFiniteSet(Mapped \cup {k})
        /\ Cardinality(Mapped \cup {k}) = IF k \in Mapped THEN Cardinality(Mapped) ELSE Cardinality(Mapped) + 1
    BY <1>1, FS_AddElement, Zenon
  <2> QED BY <1>1, <2>1
<1>3. /\ IsFiniteSet(Waiting \ {k}) /\ Cardinality(Waiting \ {k}) \in Nat
      /\ Cardinality(Waiting \ {k}) = Cardinality(Waiting) - 1
  BY <1>1, FS_RemoveElement, FS_CardinalityType
<1>4. /\ IsFiniteSet(Mapped)' /\ IsFiniteSet(Waiting)'
      /\ Cardinality(Mapped)' = Cardinality(Mapped \cup {k})
      /\ Cardinality(Waiting)' = Cardinality(Waiting \ {k})
  BY <1>2, <1>3, Zenon
<1> QED BY <1>1, <1>2, <1>3, <1>4 DEF TableInv

\* Every step preserves TableInv.
LEMMA TableStep ==
  ASSUME IInv, [Next]_vars
  PROVE  TableInv'
<1> USE DEF IInv, Types, Mapped, Waiting, managerVars, queueVars, connVars, idle
<1>1. ASSUME NEW d \in Datagram, NEW k \in Key, ToSession(k, d) PROVE TableInv'
  <2>1. Mapped' = Mapped /\ Waiting' = Waiting
    BY <1>1 DEF ToSession, Arrives, Drop
  <2> QED BY <2>1, TableShrinks
<1>2. ASSUME NEW d \in Datagram, NEW k \in Key, NEW kind \in Kind, ToPending(k, d, kind) PROVE TableInv'
  <2>1. Mapped' = Mapped /\ Waiting' = Waiting
    BY <1>2 DEF ToPending, Arrives, Drop
  <2> QED BY <2>1, TableShrinks
<1>3. ASSUME NEW d \in Datagram, Dropped(d) PROVE TableInv'
  <2>1. Mapped' = Mapped /\ Waiting' = Waiting
    BY <1>3 DEF Dropped, Arrives, Drop
  <2> QED BY <2>1, TableShrinks
<1>4. ASSUME NEW d \in Datagram, NEW k \in Key, NEW kind \in Kind, Holds(k, d, kind) PROVE TableInv'
  <2>1. Mapped' = Mapped /\ Waiting' = Waiting \cup {k} /\ ~(TableSize >= MaxSessions)
    BY <1>4 DEF Holds
  <2> QED BY <2>1, TableAdded
<1>5. ASSUME NEW d \in Datagram, NEW k \in Key, NEW s \in Session, StartsFresh(s, k, d) PROVE TableInv'
  <2>1. Mapped' = Mapped \cup {k} /\ Waiting' = Waiting /\ ~(TableSize >= MaxSessions)
    BY <1>5, NoneAssumption DEF StartsFresh, Opens
  <2> QED BY <2>1, TableAdded
<1>6. ASSUME NEW s \in Session, StartsHeld(s) PROVE TableInv'
  <2>1. job.key \in Key /\ pending[job.key] # << >>
    BY <1>6, JobFacts DEF StartsHeld, PendingInv
  <2>2. /\ Mapped' = Mapped \cup {job.key} /\ Waiting' = Waiting \ {job.key}
        /\ job.key \in Waiting
    BY <1>6, <2>1, NoneAssumption DEF StartsHeld, Opens
  <2> QED BY <2>2, TableMoved
<1>7. ASSUME Forgets PROVE TableInv'
  <2>1. Mapped' = Mapped /\ Waiting' \subseteq Waiting
    BY <1>7 DEF Forgets
  <2> QED BY <2>1, TableShrinks
<1>8. ASSUME ContinueHold PROVE TableInv'
  <2>1. job.key \in Key /\ pending[job.key] # << >>
    BY <1>8, JobFacts DEF ContinueHold, PendingInv
  <2>2. Mapped' = Mapped /\ Waiting' \subseteq Waiting
    BY <1>8, <2>1 DEF ContinueHold
  <2> QED BY <2>2, TableShrinks
<1>9. ASSUME Enqueue PROVE TableInv'
  <2>1. Mapped' = Mapped /\ Waiting' = Waiting
    BY <1>9 DEF Enqueue
  <2> QED BY <2>1, TableShrinks
<1>10. ASSUME NEW s \in Session, Acquire(s) PROVE TableInv'
  <2>1. Mapped' = Mapped /\ Waiting' = Waiting
    BY <1>10 DEF Acquire, Goto
  <2> QED BY <2>1, TableShrinks
<1>11. ASSUME NEW s \in Session, AcquireTimeout(s) PROVE TableInv'
  <2>1. Mapped' = Mapped /\ Waiting' = Waiting
    BY <1>11 DEF AcquireTimeout, Goto
  <2> QED BY <2>1, TableShrinks
<1>12. ASSUME NEW s \in Session, DialLocal(s) PROVE TableInv'
  <2>1. Mapped' = Mapped /\ Waiting' = Waiting
    BY <1>12 DEF DialLocal, Goto
  <2> QED BY <2>1, TableShrinks
<1>13. ASSUME NEW s \in Session, DialRemote(s) PROVE TableInv'
  <2>1. Mapped' = Mapped /\ Waiting' = Waiting
    BY <1>13 DEF DialRemote, Goto
  <2> QED BY <2>1, TableShrinks
<1>14. ASSUME NEW s \in Session, DialFail(s) PROVE TableInv'
  <2>1. Mapped' = Mapped /\ Waiting' = Waiting
    BY <1>14 DEF DialFail, Goto
  <2> QED BY <2>1, TableShrinks
<1>15. ASSUME NEW s \in Session, WriteZero(s) PROVE TableInv'
  <2>1. Mapped' = Mapped /\ Waiting' = Waiting
    BY <1>15 DEF WriteZero, Goto
  <2> QED BY <2>1, TableShrinks
<1>16. ASSUME NEW s \in Session, WriteInitial(s) PROVE TableInv'
  <2>1. Mapped' = Mapped /\ Waiting' = Waiting
    BY <1>16 DEF WriteInitial, Goto, Written
  <2> QED BY <2>1, TableShrinks
<1>17. ASSUME NEW s \in Session, InitialsDone(s) PROVE TableInv'
  <2>1. Mapped' = Mapped /\ Waiting' = Waiting
    BY <1>17 DEF InitialsDone, Goto
  <2> QED BY <2>1, TableShrinks
<1>18. ASSUME NEW s \in Session, FlushDone(s) PROVE TableInv'
  <2>1. Mapped' = Mapped /\ Waiting' = Waiting
    BY <1>18 DEF FlushDone, Goto
  <2> QED BY <2>1, TableShrinks
<1>19. ASSUME NEW s \in Session, Take(s) PROVE TableInv'
  <2>1. Mapped' = Mapped /\ Waiting' = Waiting
    BY <1>19 DEF Take, Goto
  <2> QED BY <2>1, TableShrinks
<1>20. ASSUME NEW s \in Session, Account(s) PROVE TableInv'
  <2>1. Mapped' = Mapped /\ Waiting' = Waiting
    BY <1>20 DEF Account, Goto
  <2> QED BY <2>1, TableShrinks
<1>21. ASSUME NEW s \in Session, WriteUpstream(s) PROVE TableInv'
  <2>1. Mapped' = Mapped /\ Waiting' = Waiting
    BY <1>21 DEF WriteUpstream, Goto, Written
  <2> QED BY <2>1, TableShrinks
<1>22. ASSUME NEW s \in Session, TakeRelayError(s) PROVE TableInv'
  <2>1. Mapped' = Mapped /\ Waiting' = Waiting
    BY <1>22 DEF TakeRelayError, Goto
  <2> QED BY <2>1, TableShrinks
<1>23. ASSUME NEW s \in Session, RemoveClose(s) PROVE TableInv'
  <2>1. Mapped' = Mapped /\ Waiting' = Waiting
    BY <1>23 DEF RemoveClose, Goto
  <2> QED BY <2>1, TableShrinks
<1>24. ASSUME NEW s \in Session, RemoveUnmap(s) PROVE TableInv'
  <2>1. Mapped' \subseteq Mapped /\ Waiting' = Waiting
    BY <1>24 DEF RemoveUnmap, Goto
  <2> QED BY <2>1, TableShrinks
<1>25. ASSUME NEW s \in Session, RemoveDisconnect(s) PROVE TableInv'
  <2>1. Mapped' = Mapped /\ Waiting' = Waiting
    BY <1>25 DEF RemoveDisconnect, Goto
  <2> QED BY <2>1, TableShrinks
<1>26. ASSUME NEW s \in Session, ReadFails(s) PROVE TableInv'
  <2>1. Mapped' = Mapped /\ Waiting' = Waiting
    BY <1>26 DEF ReadFails, Goto
  <2> QED BY <2>1, TableShrinks
<1>27. ASSUME NEW s \in Session, Report(s) PROVE TableInv'
  <2>1. Mapped' = Mapped /\ Waiting' = Waiting
    BY <1>27 DEF Report, Goto
  <2> QED BY <2>1, TableShrinks
<1>28. ASSUME UNCHANGED vars PROVE TableInv'
  <2>1. Mapped' = Mapped /\ Waiting' = Waiting
    BY <1>28 DEF vars
  <2> QED BY <2>1, TableShrinks
<1> QED
  BY <1>1, <1>2, <1>3, <1>4, <1>5, <1>6, <1>7, <1>8, <1>9, <1>10, <1>11, <1>12,
     <1>13, <1>14, <1>15, <1>16, <1>17, <1>18, <1>19, <1>20, <1>21, <1>22, <1>23,
     <1>24, <1>25, <1>26, <1>27, <1>28, Cases

\* Bounds on what a sequence holds.
LEMMA UpToFacts ==
  ASSUME NEW seq \in Seq(Datagram), NEW n \in Int, UpTo(n, seq)
  PROVE  /\ \A m \in Int : n <= m => UpTo(m, seq)
         /\ \A d \in Datagram : d.n <= n => UpTo(n, Append(seq, d))
         /\ seq # << >> => /\ Head(seq) \in Datagram /\ Head(seq).n <= n
                           /\ UpTo(n, Tail(seq)) /\ UpTo(n, <<Head(seq)>>)
<1>1. /\ Len(seq) \in Nat /\ DOMAIN seq = 1 .. Len(seq)
      /\ \A i \in 1 .. Len(seq) : seq[i] \in Datagram
  OBVIOUS
<1>2. \A d \in Datagram : d.n \in Nat
  BY LimitAssumption DEF Datagram
<1>3. \A m \in Int : n <= m => UpTo(m, seq)
  BY <1>1, <1>2 DEF UpTo
<1>4. \A d \in Datagram : d.n <= n => UpTo(n, Append(seq, d))
  <2>1. TAKE d \in Datagram
  <2>2. HAVE d.n <= n
  <2>3. Append(seq, d) \in Seq(Datagram) /\ DOMAIN Append(seq, d) = 1 .. Len(seq) + 1
    BY <1>1
  <2>4. \A i \in 1 .. Len(seq) + 1 : Append(seq, d)[i] = IF i = Len(seq) + 1 THEN d ELSE seq[i]
    BY <1>1
  <2> QED BY <1>1, <2>2, <2>3, <2>4 DEF UpTo
<1>5. ASSUME seq # << >> PROVE /\ Head(seq) \in Datagram /\ Head(seq).n <= n
                               /\ UpTo(n, Tail(seq)) /\ UpTo(n, <<Head(seq)>>)
  <2>1. Head(seq) = seq[1] /\ 1 \in 1 .. Len(seq)
    BY <1>1, <1>5
  <2>2. /\ Tail(seq) \in Seq(Datagram) /\ DOMAIN Tail(seq) = 1 .. Len(seq) - 1
        /\ \A i \in 1 .. Len(seq) - 1 : Tail(seq)[i] = seq[i + 1]
    BY <1>1, <1>5
  <2>3. UpTo(n, Tail(seq))
    BY <1>1, <2>2 DEF UpTo
  <2>4. UpTo(n, <<Head(seq)>>)
    BY <1>1, <2>1 DEF UpTo
  <2> QED BY <1>1, <2>1, <2>3, <2>4 DEF UpTo
<1> QED BY <1>3, <1>4, <1>5

\* Bounds on arrival numbers, of sequences that are put together.
LEMMA UpToEmpty ==
  ASSUME NEW n PROVE UpTo(n, << >>)
BY DEF UpTo

\* What has been seen stays seen.
LEMMA SeenFacts ==
  ASSUME IInv
  PROVE  /\ Seen \in Int /\ arrived \in Int /\ (job.at # "recv" => Seen = arrived - 1)
         /\ (job.at = "recv" => Seen = arrived)
         /\ \A k \in Key : out[k] \in Seq(Datagram) /\ UpTo(Seen, out[k])
         /\ \A s \in Session :
              /\ initials[s] \in Seq(Datagram) /\ UpTo(Seen, initials[s])
              /\ upstream[s] \in Seq(Datagram) /\ UpTo(Seen, upstream[s])
              /\ hand[s] \in Seq(Datagram) /\ UpTo(Seen, hand[s])
         /\ \A k \in Key : pending[k] # << >> =>
              pending[k][1] \in Seq(Datagram) /\ UpTo(Seen, pending[k][1])
<1>1. arrived \in Int
  BY LimitAssumption DEF IInv, Types
<1>2. \A s \in Session : hand[s] \in Seq(Datagram)
  <2>1. TAKE s \in Session
  <2>2. CASE hand[s] = << >>
    BY <2>2
  <2>3. CASE \E d \in Datagram : hand[s] = <<d>>
    BY <2>3
  <2> QED BY <2>2, <2>3 DEF IInv, Types
<1> QED BY <1>1, <1>2 DEF IInv, Types, FreshInv, Seen

\* A datagram that is newer than a sequence goes on with it in order of arrival.
LEMMA LaterAppend ==
  ASSUME IInv, NEW m \in Int, Seen <= m, NEW d \in Datagram, d.n <= m, NEW s \in Session
  PROVE  UpTo(m, Append(upstream[s], d))
<1>1. upstream[s] \in Seq(Datagram) /\ UpTo(m, upstream[s])
  BY SeenFacts, UpToFacts
<1> QED BY <1>1, UpToFacts

\* The invariant holds after a step if what is added anywhere has been seen by then.
LEMMA FreshKept ==
  ASSUME IInv, Seen' \in Int, Seen <= Seen',
         job'.at # "recv" => job'.data.n = arrived',
         \A k \in Key : out'[k] = out[k] \/ UpTo(Seen', out'[k]),
         \A s \in Session :
           /\ initials'[s] = initials[s] \/ UpTo(Seen', initials'[s])
           /\ hand'[s] = hand[s] \/ UpTo(Seen', hand'[s])
           /\ upstream'[s] = upstream[s] \/ UpTo(Seen', upstream'[s]),
         \A k \in Key : pending'[k] # << >> =>
           pending'[k] = pending[k] \/ UpTo(Seen', pending'[k][1])
  PROVE  FreshInv'
<1>1. Seen \in Int
  BY SeenFacts
<1>2. \A k \in Key : UpTo(Seen', out[k])
  BY <1>1, SeenFacts, UpToFacts
<1>3. \A s \in Session : UpTo(Seen', initials[s]) /\ UpTo(Seen', hand[s]) /\ UpTo(Seen', upstream[s])
  BY <1>1, SeenFacts, UpToFacts
<1>4. \A k \in Key : pending[k] # << >> => UpTo(Seen', pending[k][1])
  BY <1>1, SeenFacts, UpToFacts
<1>5. \A k \in Key : UpTo(Seen', out'[k])
  BY <1>2
<1>6. \A s \in Session : UpTo(Seen', initials'[s]) /\ UpTo(Seen', hand'[s]) /\ UpTo(Seen', upstream'[s])
  BY <1>3
<1>7. \A k \in Key : pending'[k] # << >> => UpTo(Seen', pending'[k][1])
  BY <1>4
<1> HIDE DEF Seen
<1> QED BY <1>5, <1>6, <1>7 DEF FreshInv, UpTo

\* Every step preserves FreshInv.
LEMMA FreshStep ==
  ASSUME IInv, [Next]_vars
  PROVE  FreshInv'
<1> USE DEF IInv, Types, managerVars, queueVars, connVars, idle
<1>1. ASSUME NEW d \in Datagram, NEW k \in Key, ToSession(k, d) PROVE FreshInv'
  <2>1. /\ job'.data.n = arrived' /\ Seen' = Seen
        /\ UNCHANGED <<out, initials, hand, upstream, pending>>
    BY <1>1, SeenFacts DEF ToSession, Arrives, Drop, Idle, Seen
  <2> QED BY <2>1, SeenFacts, FreshKept
<1>2. ASSUME NEW d \in Datagram, NEW k \in Key, NEW kind \in Kind, ToPending(k, d, kind) PROVE FreshInv'
  <2>1. /\ job'.data.n = arrived' /\ Seen' = Seen
        /\ UNCHANGED <<out, initials, hand, upstream, pending>>
    BY <1>2, SeenFacts DEF ToPending, Arrives, Drop, Idle, Seen
  <2> QED BY <2>1, SeenFacts, FreshKept
<1>3. ASSUME NEW d \in Datagram, Dropped(d) PROVE FreshInv'
  <2>1. /\ job'.at = "recv" /\ Seen' = Seen + 1
        /\ UNCHANGED <<out, initials, hand, upstream, pending>>
    BY <1>3, SeenFacts DEF Dropped, Arrives, Drop, Idle, Seen
  <2> QED BY <2>1, SeenFacts, FreshKept
<1>4. ASSUME NEW d \in Datagram, NEW k \in Key, NEW kind \in Kind, Holds(k, d, kind) PROVE FreshInv'
  <2>1. /\ job'.data.n = arrived' /\ Seen' = Seen
        /\ UNCHANGED <<out, initials, hand, upstream>>
        /\ \A x \in Key : pending'[x] = pending[x] \/ pending'[x][1] = << >>
    BY <1>4, SeenFacts DEF Holds, Arrives, Idle, Seen
  <2>2. \A x \in Key : pending'[x] = pending[x] \/ UpTo(Seen', pending'[x][1])
    BY <2>1, UpToEmpty
  <2> QED BY <2>1, <2>2, SeenFacts, FreshKept
<1>5. ASSUME NEW d \in Datagram, NEW k \in Key, NEW s \in Session, StartsFresh(s, k, d) PROVE FreshInv'
  <2>1. /\ job'.at = "recv" /\ Seen' = Seen + 1 /\ Seen' = arrived' /\ d.n = arrived'
        /\ UNCHANGED <<out, hand, upstream, pending>>
        /\ \A t \in Session : initials'[t] = initials[t] \/ initials'[t] = <<d>>
    BY <1>5, SeenFacts DEF StartsFresh, Opens, Arrives, Idle, Seen
  <2>2. UpTo(Seen', <<d>>)
    BY <2>1, SeenFacts DEF UpTo
  <2>3. \A t \in Session : initials'[t] = initials[t] \/ UpTo(Seen', initials'[t])
    BY <2>1, <2>2
  <2> QED BY <2>1, <2>3, SeenFacts, FreshKept
<1>6. ASSUME NEW s \in Session, StartsHeld(s) PROVE FreshInv'
  <2>1. /\ job'.at = "recv" /\ Seen' = Seen + 1 /\ Seen' = arrived
        /\ UNCHANGED <<out, hand, upstream>>
        /\ \A t \in Session : initials'[t] = initials[t] \/ initials'[t] = datagrams(Held)
        /\ \A k \in Key : pending'[k] = pending[k] \/ pending'[k] = << >>
    BY <1>6, SeenFacts DEF StartsHeld, Opens, Idle, Seen
  <2>2. /\ Held \in Seq(Datagram) /\ Arriving(Held) /\ UpTo(arrived, Held)
    BY <1>6, HeldFacts DEF StartsHeld
  <2>3. /\ datagrams(Held) \in Seq(Datagram) /\ Len(datagrams(Held)) = Len(Held)
        /\ \A r \in 1 .. Len(Held) : \E i \in 1 .. Len(Held) : datagrams(Held)[r] = Held[i]
    BY <2>2, DatagramsSorted
  <2>4. UpTo(arrived, datagrams(Held))
    <3>1. DOMAIN datagrams(Held) = 1 .. Len(Held) /\ DOMAIN Held = 1 .. Len(Held)
      BY <2>2, <2>3
    <3> QED BY <2>2, <2>3, <3>1 DEF UpTo
  <2>5. \A t \in Session : initials'[t] = initials[t] \/ UpTo(Seen', initials'[t])
    BY <2>1, <2>4
  <2> QED BY <2>1, <2>5, SeenFacts, FreshKept
<1>7. ASSUME Forgets PROVE FreshInv'
  <2>1. /\ job'.at = "recv" /\ Seen' = Seen + 1
        /\ UNCHANGED <<out, initials, hand, upstream>>
        /\ \A k \in Key : pending'[k] = pending[k] \/ pending'[k] = << >>
    BY <1>7, SeenFacts DEF Forgets, Idle, Seen
  <2> QED BY <2>1, SeenFacts, FreshKept
<1>8. ASSUME ContinueHold PROVE FreshInv'
  <2>1. /\ job'.at = "recv" /\ Seen' = Seen + 1 /\ Seen' = arrived
        /\ UNCHANGED <<out, initials, hand, upstream>>
        /\ \A k \in Key : pending'[k] = pending[k] \/ pending'[k] = <<Held>>
    BY <1>8, SeenFacts DEF ContinueHold, Idle, Seen
  <2>2. UpTo(Seen', Held)
    BY <1>8, <2>1, HeldFacts DEF ContinueHold
  <2>3. \A k \in Key : pending'[k] = pending[k] \/ UpTo(Seen', pending'[k][1])
    BY <2>1, <2>2
  <2> QED BY <2>1, <2>3, SeenFacts, FreshKept
<1>9. ASSUME Enqueue PROVE FreshInv'
  <2>1. /\ job'.at = "recv" /\ Seen' = Seen + 1 /\ Seen' = arrived /\ job.data.n = arrived
        /\ job.data \in Datagram /\ job.session \in Session
        /\ UNCHANGED <<out, initials, hand, pending>>
        /\ \A t \in Session : upstream'[t] = upstream[t] \/ upstream'[t] = Append(upstream[t], job.data)
    BY <1>9, SeenFacts, JobFacts DEF Enqueue, Idle, Seen, FreshInv
  <2>2. Seen' \in Int /\ Seen <= Seen' /\ job.data.n <= Seen'
    BY <2>1, SeenFacts
  <2>3. \A t \in Session : UpTo(Seen', Append(upstream[t], job.data))
    BY <2>1, <2>2, LaterAppend
  <2>4. \A t \in Session : upstream'[t] = upstream[t] \/ UpTo(Seen', upstream'[t])
    BY <2>1, <2>3
  <2> QED BY <2>1, <2>4, SeenFacts, FreshKept
<1>10. ASSUME NEW s \in Session, Acquire(s) PROVE FreshInv'
  <2>1. Seen' = Seen /\ UNCHANGED <<arrived, job, out, initials, hand, upstream, pending>>
    BY <1>10 DEF Acquire, Goto, Seen
  <2> QED BY <2>1, SeenFacts, FreshKept DEF FreshInv
<1>11. ASSUME NEW s \in Session, AcquireTimeout(s) PROVE FreshInv'
  <2>1. Seen' = Seen /\ UNCHANGED <<arrived, job, out, initials, hand, upstream, pending>>
    BY <1>11 DEF AcquireTimeout, Goto, Seen
  <2> QED BY <2>1, SeenFacts, FreshKept DEF FreshInv
<1>12. ASSUME NEW s \in Session, DialLocal(s) PROVE FreshInv'
  <2>1. Seen' = Seen /\ UNCHANGED <<arrived, job, out, initials, hand, upstream, pending>>
    BY <1>12 DEF DialLocal, Goto, Seen
  <2> QED BY <2>1, SeenFacts, FreshKept DEF FreshInv
<1>13. ASSUME NEW s \in Session, DialRemote(s) PROVE FreshInv'
  <2>1. Seen' = Seen /\ UNCHANGED <<arrived, job, out, initials, hand, upstream, pending>>
    BY <1>13 DEF DialRemote, Goto, Seen
  <2> QED BY <2>1, SeenFacts, FreshKept DEF FreshInv
<1>14. ASSUME NEW s \in Session, DialFail(s) PROVE FreshInv'
  <2>1. Seen' = Seen /\ UNCHANGED <<arrived, job, out, initials, hand, upstream, pending>>
    BY <1>14 DEF DialFail, Goto, Seen
  <2> QED BY <2>1, SeenFacts, FreshKept DEF FreshInv
<1>15. ASSUME NEW s \in Session, WriteZero(s) PROVE FreshInv'
  <2>1. Seen' = Seen /\ UNCHANGED <<arrived, job, out, initials, hand, upstream, pending>>
    BY <1>15 DEF WriteZero, Goto, Seen
  <2> QED BY <2>1, SeenFacts, FreshKept DEF FreshInv
<1>16. ASSUME NEW s \in Session, WriteInitial(s) PROVE FreshInv'
  <2>1. /\ Seen' = Seen /\ UNCHANGED <<arrived, job, hand, upstream, pending>>
        /\ initials[s] # << >>
        /\ \A t \in Session : initials'[t] = initials[t] \/ initials'[t] = Tail(initials[s])
        /\ \A k \in Key : out'[k] = out[k] \/ out'[k] = Append(out[k], Head(initials[s]))
    BY <1>16 DEF WriteInitial, Goto, Written, Seen
  <2>2. Head(initials[s]) \in Datagram /\ Head(initials[s]).n <= Seen /\ UpTo(Seen, Tail(initials[s]))
    BY <2>1, SeenFacts, UpToFacts
  <2>3. \A k \in Key : UpTo(Seen, Append(out[k], Head(initials[s])))
    BY <2>2, SeenFacts, UpToFacts
  <2>4. /\ \A t \in Session : initials'[t] = initials[t] \/ UpTo(Seen', initials'[t])
        /\ \A k \in Key : out'[k] = out[k] \/ UpTo(Seen', out'[k])
    BY <2>1, <2>2, <2>3
  <2> QED BY <2>1, <2>4, SeenFacts, FreshKept DEF FreshInv
<1>17. ASSUME NEW s \in Session, InitialsDone(s) PROVE FreshInv'
  <2>1. Seen' = Seen /\ UNCHANGED <<arrived, job, out, initials, hand, upstream, pending>>
    BY <1>17 DEF InitialsDone, Goto, Seen
  <2> QED BY <2>1, SeenFacts, FreshKept DEF FreshInv
<1>18. ASSUME NEW s \in Session, FlushDone(s) PROVE FreshInv'
  <2>1. Seen' = Seen /\ UNCHANGED <<arrived, job, out, initials, hand, upstream, pending>>
    BY <1>18 DEF FlushDone, Goto, Seen
  <2> QED BY <2>1, SeenFacts, FreshKept DEF FreshInv
<1>19. ASSUME NEW s \in Session, Take(s) PROVE FreshInv'
  <2>1. /\ Seen' = Seen /\ UNCHANGED <<arrived, job, out, initials, pending>>
        /\ upstream[s] # << >>
        /\ \A t \in Session : upstream'[t] = upstream[t] \/ upstream'[t] = Tail(upstream[s])
        /\ \A t \in Session : hand'[t] = hand[t] \/ hand'[t] = <<Head(upstream[s])>>
    BY <1>19 DEF Take, Seen
  <2>2. UpTo(Seen, Tail(upstream[s])) /\ UpTo(Seen, <<Head(upstream[s])>>)
    BY <2>1, SeenFacts, UpToFacts
  <2>3. \A t \in Session :
          /\ upstream'[t] = upstream[t] \/ UpTo(Seen', upstream'[t])
          /\ hand'[t] = hand[t] \/ UpTo(Seen', hand'[t])
    BY <2>1, <2>2
  <2>4. job'.at # "recv" => job'.data.n = arrived'
    BY <2>1 DEF FreshInv
  <2>5. Seen' \in Int /\ Seen <= Seen'
    BY <2>1, SeenFacts
  <2> HIDE DEF Types, FreshInv
  <2> QED BY <2>1, <2>3, <2>4, <2>5, FreshKept
<1>20. ASSUME NEW s \in Session, Account(s) PROVE FreshInv'
  <2>1. Seen' = Seen /\ UNCHANGED <<arrived, job, out, initials, hand, upstream, pending>>
    BY <1>20 DEF Account, Goto, Seen
  <2> QED BY <2>1, SeenFacts, FreshKept DEF FreshInv
<1>21. ASSUME NEW s \in Session, WriteUpstream(s) PROVE FreshInv'
  <2>1. /\ Seen' = Seen /\ UNCHANGED <<arrived, job, initials, upstream, pending>>
        /\ hand[s] # << >>
        /\ \A t \in Session : hand'[t] = hand[t] \/ hand'[t] = << >>
        /\ \A k \in Key : out'[k] = out[k] \/ out'[k] = Append(out[k], hand[s][1])
    BY <1>21 DEF WriteUpstream, Goto, Written, Seen
  <2>2. hand[s][1] = Head(hand[s])
    BY <2>1, SeenFacts
  <2>3. hand[s][1] \in Datagram /\ hand[s][1].n <= Seen
    BY <2>1, <2>2, SeenFacts, UpToFacts
  <2>4. \A k \in Key : UpTo(Seen, Append(out[k], hand[s][1]))
    BY <2>3, SeenFacts, UpToFacts
  <2>5. /\ \A t \in Session : hand'[t] = hand[t] \/ UpTo(Seen', hand'[t])
        /\ \A k \in Key : out'[k] = out[k] \/ UpTo(Seen', out'[k])
    BY <2>1, <2>4, UpToEmpty
  <2> QED BY <2>1, <2>5, SeenFacts, FreshKept DEF FreshInv
<1>22. ASSUME NEW s \in Session, TakeRelayError(s) PROVE FreshInv'
  <2>1. Seen' = Seen /\ UNCHANGED <<arrived, job, out, initials, hand, upstream, pending>>
    BY <1>22 DEF TakeRelayError, Goto, Seen
  <2> QED BY <2>1, SeenFacts, FreshKept DEF FreshInv
<1>23. ASSUME NEW s \in Session, RemoveClose(s) PROVE FreshInv'
  <2>1. Seen' = Seen /\ UNCHANGED <<arrived, job, out, initials, hand, upstream, pending>>
    BY <1>23 DEF RemoveClose, Goto, Seen
  <2> QED BY <2>1, SeenFacts, FreshKept DEF FreshInv
<1>24. ASSUME NEW s \in Session, RemoveUnmap(s) PROVE FreshInv'
  <2>1. Seen' = Seen /\ UNCHANGED <<arrived, job, out, initials, hand, upstream, pending>>
    BY <1>24 DEF RemoveUnmap, Goto, Seen
  <2> QED BY <2>1, SeenFacts, FreshKept DEF FreshInv
<1>25. ASSUME NEW s \in Session, RemoveDisconnect(s) PROVE FreshInv'
  <2>1. /\ Seen' = Seen /\ UNCHANGED <<arrived, job, out, hand, pending>>
        /\ \A t \in Session : initials'[t] = initials[t] \/ initials'[t] = << >>
        /\ \A t \in Session : upstream'[t] = upstream[t] \/ upstream'[t] = << >>
    BY <1>25 DEF RemoveDisconnect, Goto, Seen
  <2> QED BY <2>1, UpToEmpty, SeenFacts, FreshKept DEF FreshInv
<1>26. ASSUME NEW s \in Session, ReadFails(s) PROVE FreshInv'
  <2>1. Seen' = Seen /\ UNCHANGED <<arrived, job, out, initials, hand, upstream, pending>>
    BY <1>26 DEF ReadFails, Goto, Seen
  <2> QED BY <2>1, SeenFacts, FreshKept DEF FreshInv
<1>27. ASSUME NEW s \in Session, Report(s) PROVE FreshInv'
  <2>1. Seen' = Seen /\ UNCHANGED <<arrived, job, out, initials, hand, upstream, pending>>
    BY <1>27 DEF Report, Goto, Seen
  <2> QED BY <2>1, SeenFacts, FreshKept DEF FreshInv
<1>28. ASSUME UNCHANGED vars PROVE FreshInv'
  <2>1. Seen' = Seen /\ UNCHANGED <<arrived, job, out, initials, hand, upstream, pending>>
    BY <1>28 DEF vars, Seen
  <2> QED BY <2>1, SeenFacts, FreshKept DEF FreshInv
<1> QED
  BY <1>1, <1>2, <1>3, <1>4, <1>5, <1>6, <1>7, <1>8, <1>9, <1>10, <1>11, <1>12,
     <1>13, <1>14, <1>15, <1>16, <1>17, <1>18, <1>19, <1>20, <1>21, <1>22, <1>23,
     <1>24, <1>25, <1>26, <1>27, <1>28, Cases

\* While Initials of a flow are held, nothing is written to it.
LEMMA HeldFlowSilent ==
  ASSUME IInv, NEW s \in Session, Open(s), NEW k \in Key, pending[k] # << >>
  PROVE  skey[s] # k
BY NoneAssumption DEF IInv, Types, HomeInv, PendingInv

\* Every step preserves HeldInv.
LEMMA HeldStep ==
  ASSUME IInv, [Next]_vars
  PROVE  HeldInv'
<1> USE DEF IInv, Types, HeldInv, Arriving, Newer, managerVars, queueVars, connVars, idle
<1>1. ASSUME NEW d \in Datagram, NEW k \in Key, ToSession(k, d) PROVE HeldInv'
  <2>1. UNCHANGED <<pending, out>>
    BY <1>1 DEF ToSession, Arrives, Drop
  <2> QED BY <2>1
<1>2. ASSUME NEW d \in Datagram, NEW k \in Key, NEW kind \in Kind, ToPending(k, d, kind) PROVE HeldInv'
  <2>1. UNCHANGED <<pending, out>>
    BY <1>2 DEF ToPending, Arrives, Drop
  <2> QED BY <2>1
<1>3. ASSUME NEW d \in Datagram, Dropped(d) PROVE HeldInv'
  <2>1. UNCHANGED <<pending, out>>
    BY <1>3 DEF Dropped, Arrives, Drop
  <2> QED BY <2>1
<1>4. ASSUME NEW d \in Datagram, NEW k \in Key, NEW kind \in Kind, Holds(k, d, kind) PROVE HeldInv'
  <2>1. /\ UNCHANGED out
        /\ \A x \in Key : pending'[x] = pending[x] \/ pending'[x][1] = << >>
    BY <1>4 DEF Holds, Arrives
  <2>2. DOMAIN << >> = {}
    OBVIOUS
  <2> QED BY <2>1, <2>2
<1>5. ASSUME NEW d \in Datagram, NEW k \in Key, NEW s \in Session, StartsFresh(s, k, d) PROVE HeldInv'
  <2>1. UNCHANGED <<pending, out>>
    BY <1>5 DEF StartsFresh, Arrives, Opens
  <2> QED BY <2>1
<1>6. ASSUME NEW s \in Session, StartsHeld(s) PROVE HeldInv'
  <2>1. /\ UNCHANGED out
        /\ \A x \in Key : pending'[x] = pending[x] \/ pending'[x] = << >>
    BY <1>6 DEF StartsHeld
  <2> QED BY <2>1
<1>7. ASSUME Forgets PROVE HeldInv'
  <2>1. /\ UNCHANGED out
        /\ \A x \in Key : pending'[x] = pending[x] \/ pending'[x] = << >>
    BY <1>7 DEF Forgets
  <2> QED BY <2>1
<1>8. ASSUME ContinueHold PROVE HeldInv'
  <2>1. /\ UNCHANGED out
        /\ \A x \in Key : pending'[x] = pending[x] \/ (x = job.key /\ pending'[x] = <<Held>>)
    BY <1>8 DEF ContinueHold
  <2>2. Arriving(Held) /\ Newer(Held, out[job.key])
    BY <1>8, HeldFacts DEF ContinueHold
  <2>3. HeldInv
    OBVIOUS
  <2> HIDE DEF Arriving, Newer, Types, HeldInv
  <2>4. ASSUME NEW x \in Key, pending'[x] # << >>
        PROVE  Arriving(pending'[x][1]) /\ Newer(pending'[x][1], out'[x])
    <3>1. CASE pending'[x] = pending[x]
      BY <2>1, <2>3, <2>4, <3>1 DEF HeldInv
    <3>2. CASE x = job.key /\ pending'[x] = <<Held>>
      <4>1. pending'[x][1] = Held
        BY <3>2
      <4> QED BY <2>1, <2>2, <3>2, <4>1
    <3> QED BY <2>1, <3>1, <3>2
  <2> QED BY <2>4 DEF Arriving, Newer, HeldInv
<1>9. ASSUME Enqueue PROVE HeldInv'
  <2>1. UNCHANGED <<pending, out>>
    BY <1>9 DEF Enqueue
  <2> QED BY <2>1
<1>10. ASSUME NEW s \in Session, Acquire(s) PROVE HeldInv'
  <2>1. UNCHANGED <<pending, out>>
    BY <1>10 DEF Acquire, Goto
  <2> QED BY <2>1
<1>11. ASSUME NEW s \in Session, AcquireTimeout(s) PROVE HeldInv'
  <2>1. UNCHANGED <<pending, out>>
    BY <1>11 DEF AcquireTimeout, Goto
  <2> QED BY <2>1
<1>12. ASSUME NEW s \in Session, DialLocal(s) PROVE HeldInv'
  <2>1. UNCHANGED <<pending, out>>
    BY <1>12 DEF DialLocal, Goto
  <2> QED BY <2>1
<1>13. ASSUME NEW s \in Session, DialRemote(s) PROVE HeldInv'
  <2>1. UNCHANGED <<pending, out>>
    BY <1>13 DEF DialRemote, Goto
  <2> QED BY <2>1
<1>14. ASSUME NEW s \in Session, DialFail(s) PROVE HeldInv'
  <2>1. UNCHANGED <<pending, out>>
    BY <1>14 DEF DialFail, Goto
  <2> QED BY <2>1
<1>15. ASSUME NEW s \in Session, WriteZero(s) PROVE HeldInv'
  <2>1. UNCHANGED <<pending, out>>
    BY <1>15 DEF WriteZero, Goto
  <2> QED BY <2>1
<1>16. ASSUME NEW s \in Session, WriteInitial(s) PROVE HeldInv'
  <2>1. Open(s)
    BY <1>16 DEF WriteInitial, Open, QueueInv
  <2>2. UNCHANGED pending /\ \A k \in Key : k # skey[s] => out'[k] = out[k]
    BY <1>16 DEF WriteInitial, Written
  <2>3. \A k \in Key : pending[k] # << >> => out'[k] = out[k]
    BY <2>1, <2>2, HeldFlowSilent
  <2> QED BY <2>2, <2>3
<1>17. ASSUME NEW s \in Session, InitialsDone(s) PROVE HeldInv'
  <2>1. UNCHANGED <<pending, out>>
    BY <1>17 DEF InitialsDone, Goto
  <2> QED BY <2>1
<1>18. ASSUME NEW s \in Session, FlushDone(s) PROVE HeldInv'
  <2>1. UNCHANGED <<pending, out>>
    BY <1>18 DEF FlushDone, Goto
  <2> QED BY <2>1
<1>19. ASSUME NEW s \in Session, Take(s) PROVE HeldInv'
  <2>1. UNCHANGED <<pending, out>>
    BY <1>19 DEF Take, Goto
  <2> QED BY <2>1
<1>20. ASSUME NEW s \in Session, Account(s) PROVE HeldInv'
  <2>1. UNCHANGED <<pending, out>>
    BY <1>20 DEF Account, Goto
  <2> QED BY <2>1
<1>21. ASSUME NEW s \in Session, WriteUpstream(s) PROVE HeldInv'
  <2>1. Open(s)
    BY <1>21 DEF WriteUpstream, Open, QueueInv
  <2>2. UNCHANGED pending /\ \A k \in Key : k # skey[s] => out'[k] = out[k]
    BY <1>21 DEF WriteUpstream, Written
  <2>3. \A k \in Key : pending[k] # << >> => out'[k] = out[k]
    BY <2>1, <2>2, HeldFlowSilent
  <2> QED BY <2>2, <2>3
<1>22. ASSUME NEW s \in Session, TakeRelayError(s) PROVE HeldInv'
  <2>1. UNCHANGED <<pending, out>>
    BY <1>22 DEF TakeRelayError, Goto
  <2> QED BY <2>1
<1>23. ASSUME NEW s \in Session, RemoveClose(s) PROVE HeldInv'
  <2>1. UNCHANGED <<pending, out>>
    BY <1>23 DEF RemoveClose, Goto
  <2> QED BY <2>1
<1>24. ASSUME NEW s \in Session, RemoveUnmap(s) PROVE HeldInv'
  <2>1. UNCHANGED <<pending, out>>
    BY <1>24 DEF RemoveUnmap, Goto
  <2> QED BY <2>1
<1>25. ASSUME NEW s \in Session, RemoveDisconnect(s) PROVE HeldInv'
  <2>1. UNCHANGED <<pending, out>>
    BY <1>25 DEF RemoveDisconnect, Goto
  <2> QED BY <2>1
<1>26. ASSUME NEW s \in Session, ReadFails(s) PROVE HeldInv'
  <2>1. UNCHANGED <<pending, out>>
    BY <1>26 DEF ReadFails, Goto
  <2> QED BY <2>1
<1>27. ASSUME NEW s \in Session, Report(s) PROVE HeldInv'
  <2>1. UNCHANGED <<pending, out>>
    BY <1>27 DEF Report, Goto
  <2> QED BY <2>1
<1>28. ASSUME UNCHANGED vars PROVE HeldInv'
  <2>1. UNCHANGED <<pending, out>>
    BY <1>28 DEF vars
  <2> QED BY <2>1
<1> QED
  BY <1>1, <1>2, <1>3, <1>4, <1>5, <1>6, <1>7, <1>8, <1>9, <1>10, <1>11, <1>12,
     <1>13, <1>14, <1>15, <1>16, <1>17, <1>18, <1>19, <1>20, <1>21, <1>22, <1>23,
     <1>24, <1>25, <1>26, <1>27, <1>28, Cases

\* The parts of the invariant, together.
LEMMA InitInv == Init => IInv
<1> SUFFICES ASSUME Init PROVE IInv
  OBVIOUS
<1> USE DEF Init
<1>1. /\ MaxArrivals \in Nat /\ MaxSessions \in Nat /\ DialWorkers \in Nat
      /\ << >> \in Seq(Datagram) /\ Idle \in Job /\ (CHOOSE k \in Key : TRUE) \in Key
  BY LimitAssumption, KeyAssumption, JobMade
<1>2. Types
  BY <1>1 DEF Types, Phase
<1>3. HomeInv /\ PendingInv
  BY DEF HomeInv, PendingInv, Open, Idle
<1>4. TableInv
  <2>1. Mapped = {} /\ Waiting = {}
    BY DEF Mapped, Waiting
  <2> QED BY <1>1, <2>1, FS_EmptySet DEF TableInv
<1>5. TokensInv
  <2>1. Dialing = {}
    BY DEF Dialing
  <2>2. Cardinality(Dialing) = 0 /\ IsFiniteSet(Dialing)
    BY <2>1, FS_EmptySet
  <2> QED BY <1>1, <2>2 DEF TokensInv, TokensExact, Dialing
<1>6. QueueInv
  BY DEF QueueInv
<1>7. FreshInv /\ HeldInv
  BY DEF FreshInv, HeldInv, UpTo, Idle
<1> QED BY <1>2, <1>3, <1>4, <1>5, <1>6, <1>7 DEF IInv

LEMMA StepInv == IInv /\ [Next]_vars => IInv'
BY TypesStep, HomeStep, PendingStep, TableStep, TokensStep, QueueStep, FreshStep, HeldStep DEF IInv

LEMMA Invariance == Spec => []IInv
<1>1. Init => IInv
  BY InitInv
<1>2. IInv /\ [Next]_vars => IInv'
  BY StepInv
<1> QED BY <1>1, <1>2, PTL DEF Spec

\* A session that accepts datagrams is the one mapped for its flow, no flow has a
\* session and held Initials at once, and the table stays within its limit.
THEOREM EverySessionHasOneHome == Spec => []OneHome
<1>1. IInv => OneHome
  <2>1. ASSUME IInv PROVE TableSize <= MaxSessions
    BY <2>1 DEF IInv, TableInv, TableSize, Mapped, Waiting
  <2> QED BY <2>1 DEF IInv, HomeInv, PendingInv, OneHome
<1> QED BY <1>1, Invariance, PTL

-----------------------------------------------------------------------------
(* The sizes.                                                              *)

\* The bytes of one datagram, wherever it stands.
LEMMA SizeOfOne ==
  ASSUME NEW i, NEW n \in Nat
  PROVE  IsFiniteSet({i} \X (1..n)) /\ Cardinality({i} \X (1..n)) = n
<1>1. IsFiniteSet({i}) /\ Cardinality({i}) = 1
  BY FS_Singleton
<1>2. IsFiniteSet(1..n) /\ Cardinality(1..n) = n
  <2>1. IsFiniteSet(1..n) /\ Cardinality(1..n) = IF 1 > n THEN 0 ELSE n - 1 + 1
    <3>1. 1 \in Int /\ n \in Int
      OBVIOUS
    <3> QED BY <3>1, FS_Interval
  <2> QED BY <2>1
<1>3. /\ IsFiniteSet({i} \X (1..n))
      /\ Cardinality({i} \X (1..n)) = Cardinality({i}) * Cardinality(1..n)
  BY <1>1, <1>2, FS_Product
<1> QED BY <1>1, <1>2, <1>3

\* A sequence of datagrams has finitely many bytes.
LEMMA SizeFinite ==
  ASSUME NEW seq \in Seq(Datagram)
  PROVE  IsFiniteSet(Bytes(seq)) /\ TotalSize(seq) \in Nat
<1> DEFINE own == [i \in DOMAIN seq |-> {i} \X (1..seq[i].size)]
           all == {own[i] : i \in DOMAIN seq}
<1>1. IsFiniteSet(DOMAIN seq)
  BY FS_Interval
<1>2. own \in Surjection(DOMAIN seq, all)
  BY DEF Surjection
<1>3. IsFiniteSet(all)
  BY <1>1, <1>2, FS_Surjection
<1>4. ASSUME NEW i \in DOMAIN seq PROVE IsFiniteSet(own[i])
  <2>1. seq[i] \in Datagram
    OBVIOUS
  <2>2. seq[i].size \in Nat
    BY <2>1, LimitAssumption DEF Datagram
  <2>3. IsFiniteSet({i} \X (1..seq[i].size))
    BY ONLY <2>2, SizeOfOne
  <2> QED BY <2>3
<1>5. \A S \in all : IsFiniteSet(S)
  BY <1>4
<1>6. IsFiniteSet(UNION all)
  <2> HIDE DEF all
  <2> QED BY <1>3, <1>5, FS_UNION
<1>7. UNION all = Bytes(seq)
  BY DEF Bytes
<1> HIDE DEF all
<1>8. IsFiniteSet(Bytes(seq))
  BY <1>6, <1>7
<1> QED BY <1>8, FS_CardinalityType DEF TotalSize

\* None, one more at the end, one less at the front.
LEMMA SizeEmpty == TotalSize(<< >>) = 0
<1>1. Bytes(<< >>) = {}
  BY DEF Bytes
<1> QED BY <1>1, FS_EmptySet DEF TotalSize

\* Two parts of a whole that have nothing in common.
LEMMA SizeOfParts ==
  ASSUME NEW S, NEW T, IsFiniteSet(S), IsFiniteSet(T), S \cap T = {}
  PROVE  Cardinality(S \cup T) = Cardinality(S) + Cardinality(T)
<1>1. Cardinality(S) \in Nat /\ Cardinality(T) \in Nat /\ Cardinality({}) = 0
  BY FS_CardinalityType, FS_EmptySet
<1>2. Cardinality(S \cup T) = Cardinality(S) + Cardinality(T) - Cardinality(S \cap T)
  BY FS_Union
<1>3. Cardinality(S \cap T) = 0
  BY <1>1
<1> QED BY <1>1, <1>2, <1>3

LEMMA SizeAppend ==
  ASSUME NEW seq \in Seq(Datagram), NEW d \in Datagram
  PROVE  TotalSize(Append(seq, d)) = TotalSize(seq) + d.size
<1> DEFINE n == Len(seq) + 1
           last == {n} \X (1..d.size)
<1>1. d.size \in Nat
  BY LimitAssumption DEF Datagram
<1>2. /\ DOMAIN Append(seq, d) = DOMAIN seq \cup {n} /\ n \notin DOMAIN seq
      /\ Append(seq, d)[n] = d /\ \A i \in DOMAIN seq : Append(seq, d)[i] = seq[i]
  OBVIOUS
<1>3. Bytes(Append(seq, d)) = Bytes(seq) \cup last
  BY <1>2 DEF Bytes
<1>4. Bytes(seq) \cap last = {}
  BY <1>2 DEF Bytes
<1>5. IsFiniteSet(last) /\ Cardinality(last) = d.size
  BY <1>1, SizeOfOne
<1>6. IsFiniteSet(Bytes(seq))
  BY SizeFinite
<1> HIDE DEF last
<1>7. Cardinality(Bytes(seq) \cup last) = Cardinality(Bytes(seq)) + Cardinality(last)
  BY <1>4, <1>5, <1>6, SizeOfParts
<1> QED BY <1>3, <1>5, <1>7 DEF TotalSize

LEMMA SizeTail ==
  ASSUME NEW seq \in Seq(Datagram), seq # << >>
  PROVE  TotalSize(seq) = TotalSize(Tail(seq)) + Head(seq).size
<1> DEFINE first == {1} \X (1..seq[1].size)
           rest == {x \in Bytes(seq) : x[1] # 1}
           shift == [x \in Bytes(Tail(seq)) |-> <<x[1] + 1, x[2]>>]
<1>1. /\ Tail(seq) \in Seq(Datagram) /\ Head(seq) = seq[1] /\ seq[1] \in Datagram
      /\ DOMAIN seq = 1..Len(seq) /\ 1 \in DOMAIN seq
      /\ DOMAIN Tail(seq) = 1..Len(seq) - 1 /\ Len(seq) \in Nat
      /\ \A i \in 1..Len(seq) - 1 : Tail(seq)[i] = seq[i + 1]
  OBVIOUS
<1>2. seq[1].size \in Nat
  BY <1>1, LimitAssumption DEF Datagram
<1>3. /\ \A x : x \in Bytes(seq) <=>
           \E i \in 1..Len(seq) : \E b \in 1..seq[i].size : x = <<i, b>>
      /\ \A x : x \in Bytes(Tail(seq)) <=>
           \E i \in 1..Len(seq) - 1 : \E b \in 1..seq[i + 1].size : x = <<i, b>>
  BY <1>1 DEF Bytes
<1>4. Bytes(seq) = rest \cup first /\ rest \cap first = {}
  BY <1>1, <1>3
<1>5. shift \in Bijection(Bytes(Tail(seq)), rest)
  <2>1. \A x \in Bytes(Tail(seq)) : shift[x] \in rest
    <3>1. SUFFICES ASSUME NEW i \in 1..Len(seq) - 1, NEW b \in 1..seq[i + 1].size
                   PROVE  <<i + 1, b>> \in rest
      BY <1>3
    <3> QED BY <1>1, <1>3
  <2>2. \A x, y \in Bytes(Tail(seq)) : shift[x] = shift[y] => x = y
    <3>1. SUFFICES ASSUME NEW x \in Bytes(Tail(seq)), NEW y \in Bytes(Tail(seq)), shift[x] = shift[y]
                   PROVE  x = y
      OBVIOUS
    <3>2. PICK i \in 1..Len(seq) - 1 : \E b \in 1..seq[i + 1].size : x = <<i, b>>
      BY <1>3
    <3>3. PICK j \in 1..Len(seq) - 1 : \E b \in 1..seq[j + 1].size : y = <<j, b>>
      BY <1>3
    <3>4. x[1] + 1 = y[1] + 1 /\ x[2] = y[2]
      BY <3>1
    <3> QED BY <3>2, <3>3, <3>4
  <2>3. ASSUME NEW y \in rest PROVE \E x \in Bytes(Tail(seq)) : shift[x] = y
    <3>0. PICK i \in 1..Len(seq) : \E b \in 1..seq[i].size : y = <<i, b>>
      BY <1>3
    <3>1. PICK b \in 1..seq[i].size : y = <<i, b>> /\ i # 1
      BY <3>0
    <3>2. i - 1 \in 1..Len(seq) - 1 /\ (i - 1) + 1 = i
      BY <1>1, <3>1
    <3>3. <<i - 1, b>> \in Bytes(Tail(seq))
      BY <1>3, <3>2
    <3>4. shift[<<i - 1, b>>] = y
      BY <3>1, <3>2, <3>3
    <3> QED BY <3>3, <3>4
  <2> HIDE DEF rest
  <2> QED BY <2>1, <2>2, <2>3 DEF Bijection, Injection, Surjection, IsInjective
<1>6. IsFiniteSet(Bytes(Tail(seq)))
  BY <1>1, SizeFinite
<1>7. IsFiniteSet(first) /\ Cardinality(first) = seq[1].size
  BY <1>2, SizeOfOne
<1> HIDE DEF first, rest, shift
<1>8. IsFiniteSet(rest) /\ Cardinality(rest) = Cardinality(Bytes(Tail(seq)))
  BY <1>5, <1>6, FS_Bijection DEF ExistsBijection
<1>9. Cardinality(rest \cup first) = Cardinality(rest) + Cardinality(first)
  BY <1>4, <1>7, <1>8, SizeOfParts
<1> QED BY <1>1, <1>4, <1>7, <1>8, <1>9 DEF TotalSize

-----------------------------------------------------------------------------
(* What is counted.                                                        *)

\* queuedSize, for one session.
Accounted(s) ==
  queuedSize[s] = TotalSize(upstream[s]) + (IF counted[s] THEN hand[s][1].size ELSE 0)

\* And the types that the counts need.
CountInv ==
  /\ queuedSize \in [Session -> 0..MaxPendingSize]
  /\ sockets \in [Session -> SUBSET {"local", "remote"}]
  /\ reader \in [Session -> {"off", "read", "report"}]
  /\ relayError \in [Session -> 0..1]
  /\ \A s \in Session : Accounted(s)

\* A packet that is counted is in the hand of run.
LEMMA QueueHand ==
  ASSUME IInv
  PROVE  \A s \in Session : counted[s] => hand[s] \in {<<d>> : d \in Datagram} /\ hand[s][1] \in Datagram
BY DEF IInv, Types, QueueInv

\* Nothing is queued at first.
LEMMA CountInit == Init => CountInv
<1>1. MaxPendingSize \in Nat
  BY LimitAssumption
<1> QED BY <1>1, SizeEmpty DEF Init, CountInv, Accounted

\* The queue and its count change together, but for the packet in run's hand.
LEMMA CountStep == ASSUME IInv, CountInv, [Next]_vars PROVE CountInv'
<1> USE DEF managerVars, queueVars, connVars, idle, Drop, Goto
<1>t. /\ MaxPendingSize \in Nat
      /\ upstream \in [Session -> Seq(Datagram)]
      /\ hand \in [Session -> {<< >>} \cup {<<d>> : d \in Datagram}]
      /\ counted \in [Session -> BOOLEAN]
      /\ Types
  BY LimitAssumption DEF IInv, Types
<1>s. \A d \in Datagram : d.size \in Nat
  BY LimitAssumption DEF Datagram
<1>0. ASSUME UNCHANGED <<upstream, hand, counted, queuedSize>>,
             sockets' \in [Session -> SUBSET {"local", "remote"}],
             reader' \in [Session -> {"off", "read", "report"}],
             relayError' \in [Session -> 0..1]
      PROVE  CountInv'
  BY <1>0 DEF CountInv, Accounted
<1>1. ASSUME NEW s \in Session, NEW k \in Key, NEW batch, Opens(s, k, batch) PROVE CountInv'
  BY <1>0, <1>1 DEF Opens, CountInv
<1>2. ASSUME NEW d \in Datagram, NEW k \in Key, ToSession(k, d) PROVE CountInv'
  BY <1>0, <1>2 DEF ToSession, CountInv
<1>3. ASSUME NEW d \in Datagram, NEW k \in Key, NEW kind \in Kind,
             ToPending(k, d, kind) \/ Holds(k, d, kind)
      PROVE  CountInv'
  BY <1>0, <1>3 DEF ToPending, Holds, CountInv
<1>4. ASSUME NEW d \in Datagram, Dropped(d) PROVE CountInv'
  BY <1>0, <1>4 DEF Dropped, CountInv
<1>5. CASE Forgets \/ ContinueHold
  BY <1>0, <1>5 DEF Forgets, ContinueHold, CountInv
<1>6. CASE Enqueue
  <2>1. job.session \in Session /\ job.data \in Datagram
    BY <1>6, <1>t, JobFacts DEF Enqueue, Types
  <2>2. UNCHANGED <<hand, counted, sockets, reader, relayError>>
    BY <1>6 DEF Enqueue
  <2>3. CASE UNCHANGED <<upstream, queuedSize>>
    BY <1>0, <2>2, <2>3 DEF CountInv
  <2>4. CASE /\ queuedSize[job.session] + job.data.size <= MaxPendingSize
             /\ upstream' = [upstream EXCEPT ![job.session] = Append(@, job.data)]
             /\ queuedSize' = [queuedSize EXCEPT ![job.session] = @ + job.data.size]
    <3>t. PICK t \in Session : t = job.session
      BY <2>1
    <3>1. job.data.size \in Nat /\ queuedSize[t] \in Nat
      BY <1>s, <1>t, <2>1, <3>t DEF CountInv
    <3>2. queuedSize' \in [Session -> 0..MaxPendingSize]
      BY <1>t, <2>1, <2>4, <3>t, <3>1 DEF CountInv
    <3>3. TotalSize(upstream[t]) \in Nat /\ TotalSize(upstream'[t]) = TotalSize(upstream[t]) + job.data.size
      BY <1>t, <2>1, <2>4, <3>t, SizeAppend, SizeFinite
    <3>4. Accounted(t)'
      <4>1. queuedSize'[t] = queuedSize[t] + job.data.size /\ Accounted(t)
        BY <2>1, <2>4, <3>t DEF CountInv
      <4> DEFINE taken == IF counted[t] THEN hand[t][1].size ELSE 0
      <4>2. taken \in Nat
        BY <1>s, <2>1, <3>t, QueueHand
      <4>3. queuedSize[t] = TotalSize(upstream[t]) + taken
        BY <4>1 DEF Accounted
      <4> HIDE DEF taken
      <4>4. queuedSize'[t] = TotalSize(upstream'[t]) + taken
        BY <3>1, <3>3, <4>1, <4>2, <4>3
      <4> QED BY <2>2, <4>4 DEF Accounted, taken
    <3>5. \A s \in Session : s # t => Accounted(s)'
      <4>1. \A s \in Session : s # t => upstream'[s] = upstream[s] /\ queuedSize'[s] = queuedSize[s]
        BY <1>t, <2>4, <3>t DEF CountInv
      <4> QED BY <2>2, <4>1 DEF CountInv, Accounted
    <3>6. \A s \in Session : Accounted(s)'
      BY <3>4, <3>5
    <3> QED BY <2>2, <3>2, <3>6 DEF CountInv
  <2> QED BY <1>6, <2>3, <2>4 DEF Enqueue
<1>7. ASSUME NEW s \in Session,
             \/ Acquire(s) \/ AcquireTimeout(s) \/ DialLocal(s) \/ DialRemote(s) \/ DialFail(s)
             \/ WriteZero(s) \/ WriteInitial(s) \/ InitialsDone(s) \/ FlushDone(s)
             \/ TakeRelayError(s) \/ RemoveClose(s) \/ RemoveUnmap(s) \/ ReadFails(s) \/ Report(s)
      PROVE  CountInv'
  <2>1. UNCHANGED <<upstream, hand, counted, queuedSize>>
    BY <1>7 DEF Acquire, AcquireTimeout, DialLocal, DialRemote, DialFail, WriteZero, WriteInitial,
                InitialsDone, FlushDone, TakeRelayError, RemoveClose, RemoveUnmap, ReadFails, Report
  <2>2. sockets' \in [Session -> SUBSET {"local", "remote"}]
    BY <1>7 DEF Acquire, AcquireTimeout, DialLocal, DialRemote, DialFail, WriteZero, WriteInitial,
                InitialsDone, FlushDone, TakeRelayError, RemoveClose, RemoveUnmap, ReadFails, Report, CountInv
  <2>3. reader' \in [Session -> {"off", "read", "report"}]
    BY <1>7 DEF Acquire, AcquireTimeout, DialLocal, DialRemote, DialFail, WriteZero, WriteInitial,
                InitialsDone, FlushDone, TakeRelayError, RemoveClose, RemoveUnmap, ReadFails, Report, CountInv
  <2>4. relayError' \in [Session -> 0..1]
    BY <1>7 DEF Acquire, AcquireTimeout, DialLocal, DialRemote, DialFail, WriteZero, WriteInitial,
                InitialsDone, FlushDone, TakeRelayError, RemoveClose, RemoveUnmap, ReadFails, Report, CountInv
  <2> QED BY <1>0, <2>1, <2>2, <2>3, <2>4
<1>8. ASSUME NEW s \in Session, Take(s) PROVE CountInv'
  <2>1. /\ hand[s] = << >> /\ upstream[s] # << >>
        /\ hand' = [hand EXCEPT ![s] = <<Head(upstream[s])>>]
        /\ upstream' = [upstream EXCEPT ![s] = Tail(@)]
        /\ counted' = [counted EXCEPT ![s] = TRUE]
        /\ UNCHANGED <<queuedSize, sockets, reader, relayError>>
    BY <1>8 DEF Take
  <2>2. ~counted[s]
    BY <2>1 DEF IInv, QueueInv
  <2>3. TotalSize(upstream[s]) \in Nat
    BY <1>t, SizeFinite
  <2>4. TotalSize(upstream[s]) = TotalSize(upstream'[s]) + Head(upstream[s]).size
    BY <1>t, <2>1, SizeTail
  <2>5. queuedSize[s] = TotalSize(upstream[s])
    BY <2>2, <2>3 DEF CountInv, Accounted
  <2>6. Accounted(s)'
    <3>1. counted'[s] /\ hand'[s][1] = Head(upstream[s]) /\ queuedSize'[s] = queuedSize[s]
      BY <1>t, <2>1
    <3> QED BY <2>4, <2>5, <3>1 DEF Accounted
  <2>7. \A x \in Session : x # s => Accounted(x)'
    BY <2>1 DEF CountInv, Accounted
  <2> QED BY <2>1, <2>6, <2>7 DEF CountInv
<1>9. ASSUME NEW s \in Session, Account(s) PROVE CountInv'
  <2>1. /\ counted[s] /\ queuedSize' = [queuedSize EXCEPT ![s] = @ - hand[s][1].size]
        /\ counted' = [counted EXCEPT ![s] = FALSE]
        /\ UNCHANGED <<upstream, hand, sockets, reader, relayError>>
    BY <1>9 DEF Account
  <2>2. hand[s][1].size \in Nat /\ TotalSize(upstream[s]) \in Nat
    BY <1>s, <1>t, <2>1, QueueHand, SizeFinite DEF IInv
  <2>3. queuedSize[s] = TotalSize(upstream[s]) + hand[s][1].size /\ queuedSize[s] \in 0..MaxPendingSize
    BY <2>1 DEF CountInv, Accounted
  <2>4. queuedSize'[s] = TotalSize(upstream[s])
    BY <2>1, <2>2, <2>3 DEF CountInv
  <2>5. queuedSize' \in [Session -> 0..MaxPendingSize]
    BY <1>t, <2>1, <2>2, <2>3, <2>4 DEF CountInv
  <2>6. Accounted(s)'
    BY <1>t, <2>1, <2>2, <2>4 DEF Accounted
  <2>7. \A x \in Session : x # s => Accounted(x)'
    BY <2>1 DEF CountInv, Accounted
  <2> QED BY <2>1, <2>5, <2>6, <2>7 DEF CountInv
<1>10. ASSUME NEW s \in Session, WriteUpstream(s) PROVE CountInv'
  <2>1. /\ ~counted[s] /\ hand' = [hand EXCEPT ![s] = << >>]
        /\ UNCHANGED <<upstream, counted, queuedSize, sockets, reader, relayError>>
    BY <1>10 DEF WriteUpstream
  <2>2. \A x \in Session : Accounted(x)'
    BY <1>t, <2>1 DEF CountInv, Accounted
  <2> QED BY <2>1, <2>2 DEF CountInv
<1>11. ASSUME NEW s \in Session, RemoveDisconnect(s) PROVE CountInv'
  <2>1. /\ phase[s] = "disconnect" /\ sockets' = [sockets EXCEPT ![s] = {}]
        /\ upstream' = [upstream EXCEPT ![s] = << >>]
        /\ queuedSize' = [queuedSize EXCEPT ![s] = 0]
        /\ UNCHANGED <<hand, counted, reader, relayError>>
    BY <1>11 DEF RemoveDisconnect
  <2>2. ~counted[s]
    BY <2>1 DEF IInv, QueueInv
  <2>3. Accounted(s)'
    <3>1. upstream'[s] = << >> /\ queuedSize'[s] = 0 /\ ~counted'[s]
      BY <1>t, <2>1, <2>2 DEF CountInv
    <3> QED BY <3>1, SizeEmpty DEF Accounted
  <2>4. \A x \in Session : x # s => Accounted(x)'
    BY <2>1 DEF CountInv, Accounted
  <2>5. queuedSize' \in [Session -> 0..MaxPendingSize] /\ sockets' \in [Session -> SUBSET {"local", "remote"}]
    BY <1>t, <2>1 DEF CountInv
  <2> QED BY <2>1, <2>3, <2>4, <2>5 DEF CountInv
<1>12. CASE UNCHANGED vars
  BY <1>0, <1>12 DEF vars, CountInv
<1>13. ASSUME NEW s \in Session, NEW k \in Key, NEW d \in Datagram, StartsFresh(s, k, d) PROVE CountInv'
  BY <1>1, <1>13 DEF StartsFresh
<1>14. ASSUME NEW s \in Session, StartsHeld(s) PROVE CountInv'
  <2>1. job.key \in Key
    BY <1>14, <1>t, JobFacts DEF StartsHeld, Types
  <2> QED BY <1>1, <1>14, <2>1 DEF StartsHeld
<1> QED
  BY <1>t, <1>2, <1>3, <1>4, <1>5, <1>6, <1>7, <1>8, <1>9, <1>10, <1>11, <1>12,
     <1>13, <1>14, Cases

\* The counts are exact on every path: queuedSize is what the queue holds, and the packet
\* taken from it and not yet subtracted, in every state of every session (enqueue,
\* flushUpstream, run), and the semaphore holds a token for each run that dials.
THEOREM CountsAreExact == Spec => []CountsExact
<1>1. IInv /\ CountInv => CountsExact
  <2>1. SUFFICES ASSUME IInv, CountInv PROVE CountsExact
    OBVIOUS
  <2>2. TokensExact /\ tokens \in 0..DialWorkers
    BY <2>1, LimitAssumption DEF IInv, TokensInv, TokensExact
  <2>3. pending \in [Key -> Seq(Seq(Datagram))]
    <3>1. << >> \in Seq(Seq(Datagram)) /\ \A p \in Seq(Datagram) : <<p>> \in Seq(Seq(Datagram))
      <4>1. \A S, p : p \in S => <<p>> \in Seq(S)
        OBVIOUS
      <4> QED BY <4>1
    <3>2. pending \in [Key -> {<< >>} \cup {<<p>> : p \in Seq(Datagram)}]
      BY <2>1 DEF IInv, Types
    <3> QED BY <3>1, <3>2
  <2>4. TypeOK
    BY <2>1, <2>2, <2>3 DEF IInv, Types, CountInv, TypeOK
  <2> QED BY <2>1, <2>2, <2>4 DEF CountsExact, CountInv, Accounted
<1>2. IInv /\ CountInv /\ [Next]_vars => CountInv'
  BY CountStep
<1> QED BY <1>1, <1>2, CountInit, Invariance, PTL DEF Spec

-----------------------------------------------------------------------------
(* The sessions implement the flow.                                        *)

\* What a session has accepted and not yet written.
Carried(s) == initials[s] \o hand[s] \o upstream[s]

\* The pipe of a flow is what its mapped session carries.
LEMMA PipeIs ==
  ASSUME IInv, NEW k \in Key
  PROVE  pipe[k] = (IF sessions[k] # None /\ Writing(sessions[k]) THEN Carried(sessions[k])
                    ELSE << >>)
<1> DEFINE carrier == {s \in Session : skey[s] = k /\ Writing(s)}
<1>1. \A s \in Session : s \in carrier => s = sessions[k]
  BY DEF IInv, HomeInv, Open, Writing
<1>2. sessions[k] # None /\ Writing(sessions[k]) => sessions[k] \in carrier
  BY DEF IInv, Types, HomeInv
<1>3. sessions[k] \in Session => sessions[k] # None
  BY NoneAssumption
<1>4. CASE carrier = {}
  <2>1. pipe[k] = << >>
    BY <1>4 DEF pipe
  <2> QED BY <1>2, <1>4, <2>1
<1>5. CASE carrier # {}
  <2>1. carrier = {sessions[k]} /\ sessions[k] # None /\ Writing(sessions[k])
    BY <1>1, <1>3, <1>5
  <2>2. (CHOOSE x \in carrier : TRUE) = sessions[k]
    BY <2>1
  <2>3. pipe[k] = Carried(CHOOSE x \in carrier : TRUE)
    BY <1>5 DEF pipe, Carried
  <2> QED BY <2>1, <2>2, <2>3
<1> QED BY <1>4, <1>5

\* The same, after a step.
LEMMA PipeIsNext ==
  ASSUME IInv', NEW k \in Key
  PROVE  pipe'[k] = (IF sessions[k] # None /\ Writing(sessions[k]) THEN Carried(sessions[k])
                    ELSE << >>)'
<1> DEFINE carrier == {s \in Session : skey[s] = k /\ Writing(s)}
<1>1. \A s \in Session : s \in carrier' => s = sessions'[k]
  BY DEF IInv, HomeInv, Open, Writing
<1>2. sessions'[k] # None /\ Writing(sessions[k])' => sessions'[k] \in carrier'
  BY DEF IInv, Types, HomeInv
<1>3. sessions'[k] \in Session => sessions'[k] # None
  BY NoneAssumption
<1>4. CASE carrier' = {}
  <2>1. pipe'[k] = << >>
    BY <1>4 DEF pipe
  <2> QED BY <1>2, <1>4, <2>1
<1>5. CASE carrier' # {}
  <2>1. carrier' = {sessions'[k]} /\ sessions'[k] # None /\ Writing(sessions[k])'
    BY <1>1, <1>3, <1>5
  <2>2. (CHOOSE x \in carrier' : TRUE) = sessions'[k]
    BY <2>1
  <2>3. pipe'[k] = Carried(CHOOSE x \in carrier : TRUE)'
    BY <1>5 DEF pipe, Carried
  <2> QED BY <2>1, <2>2, <2>3
<1> QED BY <1>4, <1>5

\* Sequences.
LEMMA ConcatFirst ==
  ASSUME NEW S, NEW s \in Seq(S), NEW t \in Seq(S), s # << >>
  PROVE  /\ s \o t \in Seq(S) /\ s \o t # << >>
         /\ Head(s \o t) = Head(s) /\ Tail(s \o t) = Tail(s) \o t
<1>1. /\ s \o t \in Seq(S) /\ Len(s \o t) = Len(s) + Len(t) /\ Len(s) \in Nat \ {0} /\ Len(t) \in Nat
      /\ Tail(s) \in Seq(S) /\ Len(Tail(s)) = Len(s) - 1
  BY ConcatProperties, EmptySeq
<1>2. s \o t # << >>
  BY <1>1
<1>3. Head(s \o t) = Head(s)
  BY <1>1, ConcatProperties
<1>4. Tail(s \o t) \in Seq(S) /\ Tail(s) \o t \in Seq(S)
  BY <1>1, <1>2, HeadTailProperties, ConcatProperties
<1>5. Len(Tail(s \o t)) = Len(Tail(s) \o t) /\ Len(Tail(s) \o t) = Len(s) + Len(t) - 1
  BY <1>1, <1>2, HeadTailProperties, ConcatProperties
<1>6. \A i \in 1 .. Len(s) + Len(t) - 1 : Tail(s \o t)[i] = (Tail(s) \o t)[i]
  <2>1. TAKE i \in 1 .. Len(s) + Len(t) - 1
  <2>2. Tail(s \o t)[i] = (s \o t)[i + 1]
    BY <1>1, <1>2, HeadTailProperties
  <2>3. (s \o t)[i + 1] = IF i + 1 <= Len(s) THEN s[i + 1] ELSE t[i + 1 - Len(s)]
    BY <1>1, ConcatProperties
  <2>4. (Tail(s) \o t)[i] = IF i <= Len(s) - 1 THEN Tail(s)[i] ELSE t[i - (Len(s) - 1)]
    BY <1>1, ConcatProperties
  <2>5. i <= Len(s) - 1 => Tail(s)[i] = s[i + 1]
    BY <1>1, HeadTailProperties
  <2>6. i + 1 - Len(s) = i - (Len(s) - 1)
    BY <1>1
  <2> QED BY <1>1, <2>2, <2>3, <2>4, <2>5, <2>6
<1>7. Tail(s \o t) = Tail(s) \o t
  BY <1>4, <1>5, <1>6, SeqEqual
<1> QED BY <1>1, <1>2, <1>3, <1>7

LEMMA Regroup ==
  ASSUME NEW s \in Seq(Datagram), NEW t \in Seq(Datagram), NEW u \in Seq(Datagram)
  PROVE  s \o (t \o u) = (s \o t) \o u
BY ConcatAssociative

\* A sequence is its head and the rest.
LEMMA HeadFirst ==
  ASSUME NEW S, NEW s \in Seq(S), s # << >>
  PROVE  s = <<Head(s)>> \o Tail(s)
<1>1. Len(s) \in Nat \ {0}
  BY EmptySeq
<1>2. SubSeq(s, 1, Len(s)) = s /\ Tail(s) = SubSeq(s, 2, Len(s)) /\ Head(s) = s[1]
  BY <1>1, SubSeqFull, TailIsSubSeq
<1>3. 1 \in 1 .. Len(s) /\ Len(s) \in 1 .. Len(s)
  BY <1>1
<1>4. SubSeq(s, 1, Len(s)) = <<s[1]>> \o SubSeq(s, 1 + 1, Len(s))
  BY <1>3, SubSeqRecursiveFirst
<1>5. 1 + 1 = 2
  OBVIOUS
<1> QED BY <1>2, <1>4, <1>5

\* The second of two sequences is cut out of both, one after the other.
LEMMA SubSeqOfSecond ==
  ASSUME NEW S, NEW s \in Seq(S), NEW t \in Seq(S), t # << >>
  PROVE  SubSeq(s \o t, Len(s) + 1, Len(s \o t)) = t
<1>1. Len(s) \in Nat /\ Len(t) \in Nat \ {0} /\ Len(s \o t) = Len(s) + Len(t)
  BY ConcatProperties, EmptySeq
<1>2. Len(s) + 1 \in Len(s) + 1 .. Len(s) + Len(t) /\ Len(s) + Len(t) \in Len(s) + 1 .. Len(s) + Len(t)
  BY <1>1
<1>3. SubSeq(s \o t, Len(s) + 1, Len(s) + Len(t)) = SubSeq(t, Len(s) + 1 - Len(s), Len(s) + Len(t) - Len(s))
  BY <1>2, SubSeqOfConcat2
<1>4. Len(s) + 1 - Len(s) = 1 /\ Len(s) + Len(t) - Len(s) = Len(t)
  BY <1>1
<1> QED BY <1>1, <1>3, <1>4, SubSeqFull

\* A datagram that is newer than two sequences is newer than both, one after the other.
LEMMA ConcatNewer ==
  ASSUME NEW s \in Seq(Datagram), NEW t \in Seq(Datagram), NEW d,
         \A j \in DOMAIN s : s[j].n < d.n, \A j \in DOMAIN t : t[j].n < d.n
  PROVE  \A j \in DOMAIN (s \o t) : (s \o t)[j].n < d.n
<1>1. /\ Len(s) \in Nat /\ Len(t) \in Nat
      /\ DOMAIN s = 1 .. Len(s) /\ DOMAIN t = 1 .. Len(t)
      /\ s \o t \in Seq(Datagram) /\ Len(s \o t) = Len(s) + Len(t)
  BY ConcatProperties, LenProperties
<1>2. DOMAIN (s \o t) = 1 .. Len(s) + Len(t)
  BY <1>1, LenProperties
<1>3. ASSUME NEW j \in 1 .. Len(s) + Len(t) PROVE (s \o t)[j].n < d.n
  <2>1. (s \o t)[j] = IF j <= Len(s) THEN s[j] ELSE t[j - Len(s)]
    BY <1>3, ConcatProperties
  <2>2. CASE j <= Len(s)
    BY <1>1, <2>1, <2>2
  <2>3. CASE ~(j <= Len(s))
    <3>1. j - Len(s) \in 1 .. Len(t)
      BY <1>1, <2>3
    <3> QED BY <1>1, <2>1, <2>3, <3>1
  <2> QED BY <2>2, <2>3
<1> QED BY <1>2, <1>3

\* The steps of the flow, from what happens to the pipe of one key.
Still(k) == \A x \in Key : x # k => pipe'[x] = pipe[x]

\* pipe and pipe' are functions of the flow.
LEMMA PipeIsFunction ==
  /\ pipe = [k \in Key |-> pipe[k]]
  /\ pipe' = [k \in Key |-> pipe'[k]]
BY DEF pipe

\* Nothing happens to any pipe.
LEMMA FlowStutters ==
  ASSUME \A k \in Key : pipe'[k] = pipe[k], out' = out
  PROVE  UNCHANGED Flow!vars
<1>1. pipe' = pipe
  <2> DEFINE p == pipe
             pn == pipe'
  <2>1. p = [k \in Key |-> p[k]] /\ pn = [k \in Key |-> pn[k]]
    BY PipeIsFunction
  <2>2. \A k \in Key : pn[k] = p[k]
    OBVIOUS
  <2> HIDE DEF p, pn
  <2>3. pn = p
    BY <2>1, <2>2
  <2> QED BY <2>3 DEF p, pn
<1> QED BY <1>1 DEF Flow!vars

\* Something happens to the pipe of one flow.
LEMMA PipeExcept ==
  ASSUME NEW k \in Key, Still(k), NEW x, pipe'[k] = x
  PROVE  pipe' = [pipe EXCEPT ![k] = x]
<1> DEFINE p == pipe
           pn == pipe'
<1>1. p = [y \in Key |-> p[y]] /\ pn = [y \in Key |-> pn[y]]
  BY PipeIsFunction
<1>2. \A y \in Key : pn[y] = IF y = k THEN x ELSE p[y]
  BY DEF Still
<1> HIDE DEF p, pn
<1>3. pn = [p EXCEPT ![k] = x]
  BY <1>1, <1>2
<1> QED BY <1>3 DEF p, pn

\* It is emptied.
LEMMA FlowLoses ==
  ASSUME NEW k \in Key, Still(k), pipe'[k] = << >>, out' = out
  PROVE  [Flow!Next]_(Flow!vars)
<1>1. CASE pipe[k] = << >>
  <2>1. \A x \in Key : pipe'[x] = pipe[x]
    BY <1>1 DEF Still
  <2> QED BY <2>1, FlowStutters
<1>2. CASE pipe[k] # << >>
  <2>1. Flow!Lose(k)
    BY <1>2, PipeExcept DEF Flow!Lose
  <2> QED BY <2>1 DEF Flow!Next
<1> QED BY <1>1, <1>2

\* Its head is written, and the rest kept or lost.
LEMMA FlowDelivers ==
  ASSUME NEW k \in Key, Still(k), pipe[k] # << >>,
         out' = [out EXCEPT ![k] = Append(@, Head(pipe[k]))],
         pipe'[k] \in {Tail(pipe[k]), << >>}
  PROVE  Flow!Next
<1>1. pipe' \in {[pipe EXCEPT ![k] = Tail(pipe[k])], [pipe EXCEPT ![k] = << >>]}
  BY PipeExcept
<1>2. [pipe EXCEPT ![k] = Tail(@)] = [pipe EXCEPT ![k] = Tail(pipe[k])]
  OBVIOUS
<1>3. Flow!Deliver(k)
  BY <1>1, <1>2 DEF Flow!Deliver
<1> QED BY <1>3 DEF Flow!Next

\* A batch enters it, or a single datagram.
LEMMA FlowAccepts ==
  ASSUME NEW k \in Key, Still(k), out' = out,
         pipe[k] \in Seq(Datagram), out[k] \in Seq(Datagram),
         NEW batch \in Seq(Datagram), batch # << >>, pipe'[k] = pipe[k] \o batch,
         \A i, j \in DOMAIN batch : i < j => Before(batch[i], batch[j]),
         \A i \in DOMAIN batch :
           /\ \A j \in DOMAIN out[k] : out[k][j].n < batch[i].n
           /\ \A j \in DOMAIN pipe[k] : pipe[k][j].n < batch[i].n
  PROVE  Flow!Next
<1>1. SubSeq(pipe'[k], Len(pipe[k]) + 1, Len(pipe'[k])) = batch
  BY SubSeqOfSecond
<1>2. pipe' = [pipe EXCEPT ![k] = @ \o batch]
  <2>1. pipe' = [pipe EXCEPT ![k] = pipe[k] \o batch]
    BY PipeExcept
  <2> QED BY <2>1
<1>3. Flow!InPacketNumberOrder(batch)
  BY DEF Flow!InPacketNumberOrder, Flow!Before, Before
<1>4. Flow!Newer(batch, out[k] \o pipe[k])
  BY ConcatNewer DEF Flow!Newer
<1>5. Flow!Accept(k)
  BY <1>1, <1>2, <1>3, <1>4 DEF Flow!Accept
<1> QED BY <1>5 DEF Flow!Next

LEMMA FlowAcceptsOne ==
  ASSUME NEW k \in Key, Still(k), out' = out,
         pipe[k] \in Seq(Datagram), out[k] \in Seq(Datagram),
         NEW d \in Datagram, pipe'[k] = pipe[k] \o <<d>>,
         \A j \in DOMAIN out[k] : out[k][j].n < d.n,
         \A j \in DOMAIN pipe[k] : pipe[k][j].n < d.n
  PROVE  Flow!Next
<1> DEFINE batch == <<d>>
<1>1. batch \in Seq(Datagram) /\ batch # << >> /\ DOMAIN batch = {1} /\ batch[1] = d
  OBVIOUS
<1> HIDE DEF batch
<1>2. \A i, j \in DOMAIN batch : i < j => Before(batch[i], batch[j])
  BY <1>1
<1>3. \A i \in DOMAIN batch :
        /\ \A j \in DOMAIN out[k] : out[k][j].n < batch[i].n
        /\ \A j \in DOMAIN pipe[k] : pipe[k][j].n < batch[i].n
  BY <1>1
<1>4. pipe'[k] = pipe[k] \o batch
  BY DEF batch
<1> QED BY <1>1, <1>2, <1>3, <1>4, FlowAccepts

\* A step that changes nothing a session carries is none of the flow.
LEMMA SilentStep ==
  ASSUME IInv, IInv', UNCHANGED <<sessions, phase, initials, hand, upstream, out>>
  PROVE  [Flow!Next]_(Flow!vars)
<1>1. ASSUME NEW k \in Key PROVE pipe'[k] = pipe[k]
  <2>1. Writing(sessions[k])' <=> Writing(sessions[k])
    BY DEF Writing
  <2>2. Carried(sessions[k])' = Carried(sessions[k])
    BY DEF Carried
  <2> QED BY <2>1, <2>2, PipeIs, PipeIsNext
<1> QED BY <1>1, FlowStutters

\* What becomes of the pipes when one session takes a step of its own.
LEMMA OwnStep ==
  ASSUME IInv, IInv', NEW s \in Session, UNCHANGED <<sessions, skey>>,
         \A t \in Session : t # s =>
           phase'[t] = phase[t] /\ initials'[t] = initials[t] /\ hand'[t] = hand[t] /\ upstream'[t] = upstream[t]
  PROVE  /\ skey[s] \in Key /\ Still(skey[s])
         /\ Writing(s) => pipe[skey[s]] = Carried(s)
         /\ Writing(s) /\ Writing(s)' => pipe'[skey[s]] = Carried(s)'
         /\ ~Writing(s)' /\ sessions[skey[s]] = s => pipe'[skey[s]] = << >>
         /\ Writing(s) => sessions[skey[s]] = s
<1>1. skey[s] \in Key
  BY DEF IInv, Types
<1>2. Writing(s) => sessions[skey[s]] = s /\ sessions[skey[s]] # None
  BY NoneAssumption DEF IInv, HomeInv, Open, Writing
<1>3. Still(skey[s])
  <2>1. SUFFICES ASSUME NEW k \in Key, k # skey[s] PROVE pipe'[k] = pipe[k]
    BY DEF Still
  <2>2. CASE sessions[k] = None
    BY <2>2, PipeIs, PipeIsNext
  <2>3. CASE sessions[k] # None
    <3>1. sessions[k] \in Session /\ sessions[k] # s
      BY <2>1, <2>3 DEF IInv, Types, HomeInv
    <3>2. Writing(sessions[k])' <=> Writing(sessions[k])
      BY <3>1 DEF Writing
    <3>3. Carried(sessions[k])' = Carried(sessions[k])
      BY <3>1 DEF Carried
    <3> QED BY <2>1, <3>2, <3>3, PipeIs, PipeIsNext
  <2> QED BY <2>2, <2>3
<1>4. Writing(s) => pipe[skey[s]] = Carried(s)
  BY <1>1, <1>2, PipeIs
<1>5. Writing(s) /\ Writing(s)' => pipe'[skey[s]] = Carried(s)'
  BY <1>1, <1>2, PipeIsNext
<1>6. ~Writing(s)' /\ sessions[skey[s]] = s => pipe'[skey[s]] = << >>
  BY <1>1, PipeIsNext
<1> QED BY <1>1, <1>2, <1>3, <1>4, <1>5, <1>6

\* It goes on with what it carries, or it drops all of it.
LEMMA OwnKeeps ==
  ASSUME IInv, IInv', NEW s \in Session, UNCHANGED <<sessions, skey, out>>,
         \A t \in Session : t # s =>
           phase'[t] = phase[t] /\ initials'[t] = initials[t] /\ hand'[t] = hand[t] /\ upstream'[t] = upstream[t],
         Writing(s), Writing(s)', Carried(s)' = Carried(s)
  PROVE  [Flow!Next]_(Flow!vars)
<1>1. pipe'[skey[s]] = pipe[skey[s]] /\ Still(skey[s])
  BY OwnStep
<1>2. \A k \in Key : pipe'[k] = pipe[k]
  BY <1>1 DEF Still
<1> QED BY <1>2, FlowStutters

LEMMA OwnLoses ==
  ASSUME IInv, IInv', NEW s \in Session, UNCHANGED <<sessions, skey, out>>,
         \A t \in Session : t # s =>
           phase'[t] = phase[t] /\ initials'[t] = initials[t] /\ hand'[t] = hand[t] /\ upstream'[t] = upstream[t],
         Writing(s), ~Writing(s)'
  PROVE  [Flow!Next]_(Flow!vars)
<1>1. skey[s] \in Key /\ pipe'[skey[s]] = << >> /\ Still(skey[s])
  BY OwnStep
<1> QED BY <1>1, FlowLoses

\* A session that is not writing carries nothing, whatever it does.
LEMMA OwnSilent ==
  ASSUME IInv, IInv', NEW s \in Session, UNCHANGED <<sessions, skey, out>>,
         \A t \in Session : t # s =>
           phase'[t] = phase[t] /\ initials'[t] = initials[t] /\ hand'[t] = hand[t] /\ upstream'[t] = upstream[t],
         ~Writing(s), ~Writing(s)'
  PROVE  [Flow!Next]_(Flow!vars)
<1>1. skey[s] \in Key /\ Still(skey[s])
  BY OwnStep
<1>2. pipe'[skey[s]] = pipe[skey[s]]
  <2>1. CASE sessions[skey[s]] = None
    BY <1>1, <2>1, PipeIs, PipeIsNext
  <2>2. CASE sessions[skey[s]] = s
    BY <1>1, <2>2, PipeIs, PipeIsNext
  <2>3. CASE sessions[skey[s]] # None /\ sessions[skey[s]] # s
    <3> DEFINE t == sessions[skey[s]]
    <3>1. t \in Session /\ t # s
      BY <1>1, <2>3 DEF IInv, Types
    <3>2. Writing(t)' <=> Writing(t)
      BY <3>1 DEF Writing
    <3>3. Carried(t)' = Carried(t)
      BY <3>1 DEF Carried
    <3> QED BY <1>1, <3>2, <3>3, PipeIs, PipeIsNext
  <2> QED BY <2>1, <2>2, <2>3
<1>3. \A k \in Key : pipe'[k] = pipe[k]
  BY <1>1, <1>2 DEF Still
<1> QED BY <1>3, FlowStutters

\* A session that opens starts a pipe that was empty.
LEMMA OpenPipe ==
  ASSUME IInv, IInv', NEW k \in Key, NEW s \in Session, NEW batch \in Seq(Datagram), Opens(s, k, batch)
  PROVE  pipe[k] = << >> /\ pipe'[k] = batch /\ Still(k)
<1>1. /\ phase[s] = "free" /\ sessions[k] = None
      /\ hand[s] = << >> /\ upstream[s] = << >>
  BY DEF Opens, Unreferenced, IInv, QueueInv
<1>2. pipe[k] = << >>
  BY <1>1, PipeIs
<1>3. /\ sessions'[k] = s /\ phase'[s] = "sem" /\ s # None
      /\ initials'[s] = batch /\ hand'[s] = << >> /\ upstream'[s] = << >>
      /\ \A x \in Key : x # k => sessions'[x] = sessions[x]
      /\ \A t \in Session : t # s =>
           /\ phase'[t] = phase[t] /\ initials'[t] = initials[t]
           /\ hand'[t] = hand[t] /\ upstream'[t] = upstream[t]
  BY <1>1, NoneAssumption DEF Opens, IInv, Types, queueVars
<1>4. pipe'[k] = batch
  <2>1. Writing(s)'
    BY <1>3 DEF Writing
  <2>2. Carried(s)' = batch \o << >> \o << >>
    BY <1>3 DEF Carried
  <2>3. batch \o << >> \o << >> = batch
    BY ConcatEmptySeq
  <2> QED BY <1>3, <2>1, <2>2, <2>3, PipeIsNext
<1>5. Still(k)
  <2>1. SUFFICES ASSUME NEW x \in Key, x # k PROVE pipe'[x] = pipe[x]
    BY DEF Still
  <2>2. CASE sessions[x] = None
    BY <1>3, <2>1, <2>2, PipeIs, PipeIsNext
  <2>3. CASE sessions[x] # None
    <3> DEFINE t == sessions[x]
    <3>1. t \in Session /\ t # s /\ sessions'[x] = t
      BY <1>1, <1>3, <2>1, <2>3 DEF IInv, Types, HomeInv
    <3>2. Writing(t)' <=> Writing(t)
      BY <1>3, <3>1 DEF Writing
    <3>3. Carried(t)' = Carried(t)
      BY <1>3, <3>1 DEF Carried
    <3> HIDE DEF t
    <3>4. pipe[x] = IF Writing(t) THEN Carried(t) ELSE << >>
      BY <2>3, PipeIs DEF t
    <3>5. pipe'[x] = (IF Writing(t) THEN Carried(t) ELSE << >>)'
      BY <2>3, <3>1, PipeIsNext DEF t
    <3> QED BY <3>2, <3>3, <3>4, <3>5
  <2> QED BY <2>2, <2>3
<1> QED BY <1>2, <1>4, <1>5

\* Every step of the proxy is a step of the flow, or none.
LEMMA FlowStep ==
  ASSUME IInv, IInv', [Next]_vars
  PROVE  [Flow!Next]_(Flow!vars)
<1> USE DEF IInv, Types, Phase, managerVars, queueVars, connVars, idle
<1>1. ASSUME NEW d \in Datagram, NEW k \in Key, ToSession(k, d) PROVE [Flow!Next]_(Flow!vars)
  <2>1. UNCHANGED <<sessions, phase, initials, hand, upstream, out>>
    BY <1>1 DEF ToSession, Arrives, Drop
  <2> QED BY <2>1, SilentStep
<1>2. ASSUME NEW d \in Datagram, NEW k \in Key, NEW kind \in Kind, ToPending(k, d, kind) PROVE [Flow!Next]_(Flow!vars)
  <2>1. UNCHANGED <<sessions, phase, initials, hand, upstream, out>>
    BY <1>2 DEF ToPending, Arrives, Drop
  <2> QED BY <2>1, SilentStep
<1>3. ASSUME NEW d \in Datagram, Dropped(d) PROVE [Flow!Next]_(Flow!vars)
  <2>1. UNCHANGED <<sessions, phase, initials, hand, upstream, out>>
    BY <1>3 DEF Dropped, Arrives, Drop
  <2> QED BY <2>1, SilentStep
<1>4. ASSUME NEW d \in Datagram, NEW k \in Key, NEW kind \in Kind, Holds(k, d, kind) PROVE [Flow!Next]_(Flow!vars)
  <2>1. UNCHANGED <<sessions, phase, initials, hand, upstream, out>>
    BY <1>4 DEF Holds, Arrives
  <2> QED BY <2>1, SilentStep
<1>5. ASSUME NEW d \in Datagram, NEW k \in Key, NEW s \in Session, StartsFresh(s, k, d) PROVE [Flow!Next]_(Flow!vars)
  <2>1. << d >> \in Seq(Datagram) /\ << d >> # << >> /\ << d >>[1] = d /\ DOMAIN << d >> = {1}
    OBVIOUS
  <2>2. pipe[k] = << >> /\ pipe'[k] = <<d>> /\ Still(k)
    BY <1>5, <2>1, OpenPipe DEF StartsFresh
  <2>3. out' = out /\ d.n = arrived + 1 /\ job.at = "recv" /\ arrived \in Nat
    BY <1>5, LimitAssumption DEF StartsFresh, Arrives, Idle
  <2>4. out[k] \in Seq(Datagram) /\ UpTo(arrived, out[k])
    BY <2>3, SeenFacts
  <2>5. \A j \in DOMAIN out[k] : out[k][j].n < d.n
    <3>1. \A e \in Datagram : e.n \in Nat
      BY LimitAssumption DEF Datagram
    <3>2. \A j \in DOMAIN out[k] : out[k][j] \in Datagram
      BY <2>4
    <3> QED BY <2>3, <2>4, <3>1, <3>2 DEF UpTo
  <2>6. << >> \o <<d>> = <<d>> /\ << >> \in Seq(Datagram) /\ DOMAIN << >> = {}
    BY <2>1, ConcatEmptySeq
  <2> HIDE DEF Types
  <2>7. Flow!Next
    <3>1. pipe'[k] = pipe[k] \o <<d>> /\ pipe[k] \in Seq(Datagram)
      BY <2>2, <2>6
    <3>2. \A j \in DOMAIN pipe[k] : pipe[k][j].n < d.n
      BY <2>2, <2>6
    <3> QED BY <2>2, <2>3, <2>4, <2>5, <3>1, <3>2, FlowAcceptsOne
  <2> QED BY <2>7
<1>6. ASSUME NEW s \in Session, StartsHeld(s) PROVE [Flow!Next]_(Flow!vars)
  <2> DEFINE k == job.key
             b == datagrams(Held)
  <2>1. /\ k \in Key /\ Held \in Seq(Datagram) /\ Held # << >> /\ Arriving(Held)
        /\ Newer(Held, out[k])
    BY <1>6, HeldFacts DEF StartsHeld
  <2>2. /\ b \in Seq(Datagram) /\ Len(b) = Len(Held)
        /\ \A i, j \in 1 .. Len(Held) : i < j => Before(b[i], b[j])
        /\ \A r \in 1 .. Len(Held) : \E i \in 1 .. Len(Held) : b[r] = Held[i]
    BY <2>1, DatagramsSorted
  <2>3. Opens(s, k, b) /\ out' = out
    BY <1>6 DEF StartsHeld
  <2> HIDE DEF k, b
  <2>4. /\ DOMAIN b = 1 .. Len(Held) /\ DOMAIN Held = 1 .. Len(Held)
        /\ b # << >>
    BY <2>1, <2>2
  <2>5. pipe[k] = << >> /\ pipe'[k] = b /\ Still(k)
    BY <2>1, <2>2, <2>3, OpenPipe
  <2>6. \A i \in DOMAIN b : \A j \in DOMAIN out[k] : out[k][j].n < b[i].n
    BY <2>1, <2>2, <2>4 DEF Newer
  <2>7. << >> \o b = b /\ << >> \in Seq(Datagram) /\ DOMAIN << >> = {}
    BY <2>2, ConcatEmptySeq
  <2>8. out[k] \in Seq(Datagram)
    BY <2>1
  <2> HIDE DEF Types
  <2>9. Flow!Next
    BY <2>1, <2>2, <2>3, <2>4, <2>5, <2>6, <2>7, <2>8, FlowAccepts
  <2> QED BY <2>9
<1>7. ASSUME Forgets PROVE [Flow!Next]_(Flow!vars)
  <2>1. UNCHANGED <<sessions, phase, initials, hand, upstream, out>>
    BY <1>7 DEF Forgets
  <2> QED BY <2>1, SilentStep
<1>8. ASSUME ContinueHold PROVE [Flow!Next]_(Flow!vars)
  <2>1. UNCHANGED <<sessions, phase, initials, hand, upstream, out>>
    BY <1>8 DEF ContinueHold
  <2> QED BY <2>1, SilentStep
<1>9. ASSUME Enqueue PROVE [Flow!Next]_(Flow!vars)
  <2>0. job.session \in Session /\ job.data \in Datagram
    BY <1>9, JobFacts DEF Enqueue
  <2>s. PICK s \in Session : s = job.session
    BY <2>0
  <2>d. PICK d \in Datagram : d = job.data
    BY <2>0
  <2>n. \A e \in Datagram : e.n \in Nat
    BY LimitAssumption DEF Datagram
  <2>1. d.n = arrived /\ arrived \in Nat /\ Seen = arrived - 1
    BY <1>9, <2>d, JobFacts, SeenFacts, LimitAssumption DEF Enqueue, FreshInv
  <2>2. /\ UNCHANGED <<sessions, skey, phase, initials, hand, out>>
        /\ upstream' = upstream \/ (~closed[s] /\ upstream' = [upstream EXCEPT ![s] = Append(@, d)])
    BY <1>9, <2>s, <2>d DEF Enqueue
  <2>3. CASE upstream' = upstream
    BY <2>2, <2>3, SilentStep
  <2>4. CASE upstream' = [upstream EXCEPT ![s] = Append(@, d)]
    <3>1. \A t \in Session : t # s => upstream'[t] = upstream[t]
      BY <2>4
    <3>2. Writing(s)' <=> Writing(s)
      BY <2>2 DEF Writing
    <3>3. CASE ~Writing(s)
      BY <2>1, <2>2, <3>1, <3>2, <3>3, OwnSilent
    <3>4. CASE Writing(s)
      <4> DEFINE k == skey[s]
      <4>1. /\ k \in Key /\ Still(k) /\ pipe[k] = Carried(s) /\ pipe'[k] = Carried(s)'
        BY <2>1, <2>2, <3>1, <3>2, <3>4, OwnStep
      <4>2. /\ initials[s] \in Seq(Datagram) /\ hand[s] \in Seq(Datagram) /\ upstream[s] \in Seq(Datagram)
            /\ initials[s] \o hand[s] \in Seq(Datagram) /\ Carried(s) \in Seq(Datagram)
        BY <2>1, SeenFacts, ConcatProperties DEF Carried
      <4>3. Append(upstream[s], d) = upstream[s] \o <<d>> /\ <<d>> \in Seq(Datagram)
            /\ <<d>> # << >> /\ <<d>>[1] = d /\ DOMAIN <<d>> = {1}
        BY <2>1, <4>2, AppendIsConcat
      <4>4. Carried(s)' = Carried(s) \o <<d>>
        <5>1. Carried(s)' = (initials[s] \o hand[s]) \o (upstream[s] \o <<d>>)
          BY <2>1, <2>2, <2>4, <4>3 DEF Carried
        <5>3. (initials[s] \o hand[s]) \o (upstream[s] \o <<d>>) = ((initials[s] \o hand[s]) \o upstream[s]) \o <<d>>
          BY ONLY <4>2, <4>3, Regroup
        <5> QED BY <5>1, <5>3 DEF Carried
      <4>5. \A seq \in Seq(Datagram) : UpTo(Seen, seq) => \A j \in DOMAIN seq : seq[j].n < d.n
        <5>1. SUFFICES ASSUME NEW seq \in Seq(Datagram), UpTo(Seen, seq), NEW j \in DOMAIN seq
                       PROVE  seq[j].n < d.n
          OBVIOUS
        <5>2. seq[j] \in Datagram
          OBVIOUS
        <5>3. seq[j].n <= arrived - 1
          BY <2>1, <5>1 DEF UpTo
        <5> QED BY <2>1, <2>n, <5>2, <5>3
      <4>6. /\ \A j \in DOMAIN initials[s] : initials[s][j].n < d.n
            /\ \A j \in DOMAIN hand[s] : hand[s][j].n < d.n
            /\ \A j \in DOMAIN upstream[s] : upstream[s][j].n < d.n
        BY <2>1, <4>5, SeenFacts
      <4>7. \A j \in DOMAIN out[k] : out[k][j].n < d.n
        BY <4>1, <4>5, SeenFacts
      <4>8. \A j \in DOMAIN pipe[k] : pipe[k][j].n < d.n
        <5>1. \A j \in DOMAIN (initials[s] \o hand[s]) : (initials[s] \o hand[s])[j].n < d.n
          BY <4>2, <4>6, ConcatNewer
        <5>2. \A j \in DOMAIN Carried(s) : Carried(s)[j].n < d.n
          BY <4>2, <4>6, <5>1, ConcatNewer DEF Carried
        <5> QED BY <4>1, <5>2
      <4>9. out[k] \in Seq(Datagram) /\ out' = out
        BY <2>2, <4>1
      <4> HIDE DEF k, Types, IInv
      <4>10. pipe'[k] = pipe[k] \o <<d>> /\ pipe[k] \in Seq(Datagram)
        BY <4>1, <4>2, <4>4
      <4>11. Flow!Next
        BY <4>1, <4>7, <4>8, <4>9, <4>10, FlowAcceptsOne
      <4> QED BY <4>11
    <3> QED BY <3>3, <3>4
  <2> QED BY <2>2, <2>3, <2>4
<1>10. ASSUME NEW s \in Session, Acquire(s) PROVE [Flow!Next]_(Flow!vars)
  <2>1. /\ UNCHANGED <<sessions, skey, out>>
        /\ \A t \in Session : t # s =>
             /\ phase'[t] = phase[t] /\ initials'[t] = initials[t]
             /\ hand'[t] = hand[t] /\ upstream'[t] = upstream[t]
    BY <1>10 DEF Acquire, Goto
  <2>2. Writing(s) /\ Writing(s)'
    BY <1>10 DEF Acquire, Goto, Writing
  <2>3. Carried(s)' = Carried(s)
    BY <1>10 DEF Acquire, Goto, Carried
  <2> QED BY <2>1, <2>2, <2>3, OwnKeeps
<1>11. ASSUME NEW s \in Session, AcquireTimeout(s) PROVE [Flow!Next]_(Flow!vars)
  <2>1. /\ UNCHANGED <<sessions, skey, out>>
        /\ \A t \in Session : t # s =>
             /\ phase'[t] = phase[t] /\ initials'[t] = initials[t]
             /\ hand'[t] = hand[t] /\ upstream'[t] = upstream[t]
    BY <1>11 DEF AcquireTimeout, Goto
  <2>2. Writing(s) /\ ~Writing(s)'
    BY <1>11 DEF AcquireTimeout, Goto, Writing
  <2> QED BY <2>1, <2>2, OwnLoses
<1>12. ASSUME NEW s \in Session, DialLocal(s) PROVE [Flow!Next]_(Flow!vars)
  <2>1. /\ UNCHANGED <<sessions, skey, out>>
        /\ \A t \in Session : t # s =>
             /\ phase'[t] = phase[t] /\ initials'[t] = initials[t]
             /\ hand'[t] = hand[t] /\ upstream'[t] = upstream[t]
    BY <1>12 DEF DialLocal, Goto
  <2>2. Writing(s) /\ Writing(s)'
    BY <1>12 DEF DialLocal, Goto, Writing
  <2>3. Carried(s)' = Carried(s)
    BY <1>12 DEF DialLocal, Goto, Carried
  <2> QED BY <2>1, <2>2, <2>3, OwnKeeps
<1>13. ASSUME NEW s \in Session, DialRemote(s) PROVE [Flow!Next]_(Flow!vars)
  <2>1. /\ UNCHANGED <<sessions, skey, out>>
        /\ \A t \in Session : t # s =>
             /\ phase'[t] = phase[t] /\ initials'[t] = initials[t]
             /\ hand'[t] = hand[t] /\ upstream'[t] = upstream[t]
    BY <1>13 DEF DialRemote, Goto
  <2>2. Writing(s) /\ Writing(s)'
    BY <1>13 DEF DialRemote, Goto, Writing
  <2>3. Carried(s)' = Carried(s)
    BY <1>13 DEF DialRemote, Goto, Carried
  <2> QED BY <2>1, <2>2, <2>3, OwnKeeps
<1>14. ASSUME NEW s \in Session, DialFail(s) PROVE [Flow!Next]_(Flow!vars)
  <2>1. /\ UNCHANGED <<sessions, skey, out>>
        /\ \A t \in Session : t # s =>
             /\ phase'[t] = phase[t] /\ initials'[t] = initials[t]
             /\ hand'[t] = hand[t] /\ upstream'[t] = upstream[t]
    BY <1>14 DEF DialFail, Goto
  <2>2. Writing(s) /\ ~Writing(s)'
    BY <1>14 DEF DialFail, Goto, Writing
  <2> QED BY <2>1, <2>2, OwnLoses
<1>15. ASSUME NEW s \in Session, WriteZero(s) PROVE [Flow!Next]_(Flow!vars)
  <2>1. /\ UNCHANGED <<sessions, skey, out>>
        /\ \A t \in Session : t # s =>
             /\ phase'[t] = phase[t] /\ initials'[t] = initials[t]
             /\ hand'[t] = hand[t] /\ upstream'[t] = upstream[t]
    BY <1>15 DEF WriteZero, Goto
  <2>2. Writing(s) /\ (Writing(s)' => Carried(s)' = Carried(s))
    BY <1>15 DEF WriteZero, Goto, Writing, Carried
  <2> QED BY <2>1, <2>2, OwnKeeps, OwnLoses
<1>16. ASSUME NEW s \in Session, WriteInitial(s) PROVE [Flow!Next]_(Flow!vars)
  <2>1. /\ UNCHANGED <<sessions, skey>>
        /\ \A t \in Session : t # s =>
             /\ phase'[t] = phase[t] /\ initials'[t] = initials[t]
             /\ hand'[t] = hand[t] /\ upstream'[t] = upstream[t]
    BY <1>16 DEF WriteInitial, Goto
  <2>2. /\ Writing(s) /\ skey[s] \in Key /\ initials[s] \in Seq(Datagram) /\ initials[s] # << >>
        /\ hand[s] = << >> /\ upstream[s] \in Seq(Datagram)
        /\ initials'[s] = Tail(initials[s]) /\ hand'[s] = << >> /\ upstream'[s] = upstream[s]
    BY <1>16 DEF WriteInitial, Writing, QueueInv
  <2>3. /\ Carried(s) = initials[s] \o upstream[s]
        /\ Carried(s)' = Tail(initials[s]) \o upstream[s]
    <3>1. Tail(initials[s]) \in Seq(Datagram)
      BY <2>2
    <3>2. initials[s] \o << >> = initials[s] /\ Tail(initials[s]) \o << >> = Tail(initials[s])
      BY <2>2, <3>1, ConcatEmptySeq
    <3> QED BY <2>2, <3>2 DEF Carried
  <2>4. /\ Carried(s) # << >> /\ Head(Carried(s)) = Head(initials[s]) /\ Tail(Carried(s)) = Carried(s)'
    <3>1. /\ initials[s] \o upstream[s] # << >>
          /\ Head(initials[s] \o upstream[s]) = Head(initials[s])
          /\ Tail(initials[s] \o upstream[s]) = Tail(initials[s]) \o upstream[s]
      <4> HIDE DEF IInv, Types
      <4> QED BY <2>2, ConcatFirst
    <3> QED BY ONLY <2>3, <3>1
  <2>5. CASE Written(s, Head(initials[s])) /\ UNCHANGED phase
    <3>1. Writing(s)'
      BY <2>2, <2>5 DEF Writing
    <3>2. pipe[skey[s]] = Carried(s) /\ pipe'[skey[s]] = Tail(Carried(s)) /\ Still(skey[s])
      BY <2>1, <2>2, <2>4, <3>1, OwnStep
    <3>3. out' = [out EXCEPT ![skey[s]] = Append(@, Head(pipe[skey[s]]))]
      BY <2>4, <2>5, <3>2 DEF Written
    <3> QED BY <2>2, <2>4, <3>2, <3>3, FlowDelivers
  <2>6. CASE Goto(s, "close") /\ UNCHANGED out
    <3>1. ~Writing(s)'
      BY <2>6 DEF Goto, Writing
    <3> QED BY <2>1, <2>2, <2>6, <3>1, OwnLoses
  <2> QED BY <1>16, <2>5, <2>6 DEF WriteInitial
<1>17. ASSUME NEW s \in Session, InitialsDone(s) PROVE [Flow!Next]_(Flow!vars)
  <2>1. /\ UNCHANGED <<sessions, skey, out>>
        /\ \A t \in Session : t # s =>
             /\ phase'[t] = phase[t] /\ initials'[t] = initials[t]
             /\ hand'[t] = hand[t] /\ upstream'[t] = upstream[t]
    BY <1>17 DEF InitialsDone, Goto
  <2>2. Writing(s) /\ Writing(s)'
    BY <1>17 DEF InitialsDone, Goto, Writing
  <2>3. Carried(s)' = Carried(s)
    BY <1>17 DEF InitialsDone, Goto, Carried
  <2> QED BY <2>1, <2>2, <2>3, OwnKeeps
<1>18. ASSUME NEW s \in Session, FlushDone(s) PROVE [Flow!Next]_(Flow!vars)
  <2>1. /\ UNCHANGED <<sessions, skey, out>>
        /\ \A t \in Session : t # s =>
             /\ phase'[t] = phase[t] /\ initials'[t] = initials[t]
             /\ hand'[t] = hand[t] /\ upstream'[t] = upstream[t]
    BY <1>18 DEF FlushDone, Goto
  <2>2. Writing(s) /\ (Writing(s)' => Carried(s)' = Carried(s))
    BY <1>18 DEF FlushDone, Goto, Writing, Carried
  <2> QED BY <2>1, <2>2, OwnKeeps, OwnLoses
<1>19. ASSUME NEW s \in Session, Take(s) PROVE [Flow!Next]_(Flow!vars)
  <2>1. /\ UNCHANGED <<sessions, skey, out>>
        /\ \A t \in Session : t # s =>
             /\ phase'[t] = phase[t] /\ initials'[t] = initials[t]
             /\ hand'[t] = hand[t] /\ upstream'[t] = upstream[t]
    BY <1>19 DEF Take
  <2>2. Writing(s) /\ Writing(s)'
    BY <1>19 DEF Take, Writing
  <2>3. /\ upstream[s] \in Seq(Datagram) /\ upstream[s] # << >>
        /\ initials[s] = << >> /\ hand[s] = << >> /\ initials'[s] = << >>
        /\ hand'[s] = <<Head(upstream[s])>> /\ upstream'[s] = Tail(upstream[s])
    BY <1>19 DEF Take, QueueInv
  <2>4. <<Head(upstream[s])>> \in Seq(Datagram) /\ << >> \in Seq(Datagram)
    BY <2>3
  <2>5. /\ << >> \o <<Head(upstream[s])>> = <<Head(upstream[s])>>
        /\ << >> \o << >> = << >> /\ << >> \o upstream[s] = upstream[s]
    BY <2>3, <2>4, ConcatEmptySeq
  <2>6. Carried(s)' = upstream[s]
    BY <2>3, <2>5, HeadFirst DEF Carried
  <2>7. Carried(s) = upstream[s]
    BY <2>3, <2>5 DEF Carried
  <2> QED BY <2>1, <2>2, <2>6, <2>7, OwnKeeps
<1>20. ASSUME NEW s \in Session, Account(s) PROVE [Flow!Next]_(Flow!vars)
  <2>1. /\ UNCHANGED <<sessions, skey, out>>
        /\ \A t \in Session : t # s =>
             /\ phase'[t] = phase[t] /\ initials'[t] = initials[t]
             /\ hand'[t] = hand[t] /\ upstream'[t] = upstream[t]
    BY <1>20 DEF Account, QueueInv
  <2>2. Writing(s) /\ Writing(s)'
    BY <1>20 DEF Account, QueueInv, Writing
  <2>3. Carried(s)' = Carried(s)
    BY <1>20 DEF Account, QueueInv, Carried
  <2> QED BY <2>1, <2>2, <2>3, OwnKeeps
<1>21. ASSUME NEW s \in Session, WriteUpstream(s) PROVE [Flow!Next]_(Flow!vars)
  <2>1. /\ UNCHANGED <<sessions, skey>>
        /\ \A t \in Session : t # s =>
             /\ phase'[t] = phase[t] /\ initials'[t] = initials[t]
             /\ hand'[t] = hand[t] /\ upstream'[t] = upstream[t]
    BY <1>21 DEF WriteUpstream, Goto
  <2>2. /\ Writing(s) /\ skey[s] \in Key /\ initials[s] = << >> /\ initials'[s] = << >>
        /\ hand[s] # << >> /\ hand'[s] = << >>
        /\ upstream[s] \in Seq(Datagram) /\ upstream'[s] = upstream[s]
    BY <1>21 DEF WriteUpstream, Writing, QueueInv
  <2>3. PICK d \in Datagram : hand[s] = <<d>>
    BY <2>2
  <2>4. /\ <<d>> \in Seq(Datagram) /\ << >> \in Seq(Datagram) /\ <<d>> # << >>
        /\ Head(<<d>>) = d /\ Tail(<<d>>) = << >> /\ hand[s][1] = d
    BY <2>3
  <2>5. /\ << >> \o <<d>> = <<d>> /\ << >> \o << >> = << >> /\ << >> \o upstream[s] = upstream[s]
    BY <2>2, <2>4, ConcatEmptySeq
  <2>6. Carried(s) = <<d>> \o upstream[s] /\ Carried(s)' = upstream[s]
    BY <2>2, <2>3, <2>5 DEF Carried
  <2>7. Carried(s) # << >> /\ Head(Carried(s)) = d /\ Tail(Carried(s)) = Carried(s)'
    <3> DEFINE now == Carried(s)
               next == Carried(s)'
               rest == upstream[s]
    <3>1. now = <<d>> \o rest /\ next = rest /\ rest \in Seq(Datagram) /\ << >> \o rest = rest
      BY <2>2, <2>5, <2>6
    <3> HIDE DEF now, next, rest
    <3>2. /\ <<d>> \o rest # << >> /\ Head(<<d>> \o rest) = Head(<<d>>)
          /\ Tail(<<d>> \o rest) = Tail(<<d>>) \o rest
      BY <2>4, <3>1, ConcatFirst
    <3>3. now # << >> /\ Head(now) = d /\ Tail(now) = next
      BY <2>4, <3>1, <3>2
    <3> QED BY <3>3 DEF now, next
  <2>8. CASE Written(s, hand[s][1])
    <3>1. phase' = phase \/ Goto(s, "close")
      BY <1>21 DEF WriteUpstream
    <3>2. Writing(s)' \/ ~Writing(s)'
      OBVIOUS
    <3>3. pipe[skey[s]] = Carried(s) /\ pipe'[skey[s]] \in {Tail(Carried(s)), << >>} /\ Still(skey[s])
      BY <2>1, <2>2, <2>7, <3>2, OwnStep
    <3>4. out' = [out EXCEPT ![skey[s]] = Append(@, Head(pipe[skey[s]]))]
      BY <2>4, <2>7, <2>8, <3>3 DEF Written
    <3> QED BY <2>2, <2>7, <3>3, <3>4, FlowDelivers
  <2>9. CASE UNCHANGED out /\ Goto(s, "close")
    <3>1. ~Writing(s)'
      BY <2>9 DEF Goto, Writing
    <3> QED BY <2>1, <2>2, <2>9, <3>1, OwnLoses
  <2> QED BY <1>21, <2>8, <2>9 DEF WriteUpstream
<1>22. ASSUME NEW s \in Session, TakeRelayError(s) PROVE [Flow!Next]_(Flow!vars)
  <2>1. /\ UNCHANGED <<sessions, skey, out>>
        /\ \A t \in Session : t # s =>
             /\ phase'[t] = phase[t] /\ initials'[t] = initials[t]
             /\ hand'[t] = hand[t] /\ upstream'[t] = upstream[t]
    BY <1>22 DEF TakeRelayError, Goto
  <2>2. Writing(s) /\ ~Writing(s)'
    BY <1>22 DEF TakeRelayError, Goto, Writing
  <2> QED BY <2>1, <2>2, OwnLoses
<1>23. ASSUME NEW s \in Session, RemoveClose(s) PROVE [Flow!Next]_(Flow!vars)
  <2>1. /\ UNCHANGED <<sessions, skey, out>>
        /\ \A t \in Session : t # s =>
             /\ phase'[t] = phase[t] /\ initials'[t] = initials[t]
             /\ hand'[t] = hand[t] /\ upstream'[t] = upstream[t]
    BY <1>23 DEF RemoveClose, Goto
  <2>2. ~Writing(s) /\ ~Writing(s)'
    BY <1>23 DEF RemoveClose, Goto, Writing
  <2> QED BY <2>1, <2>2, OwnSilent
<1>24. ASSUME NEW s \in Session, RemoveUnmap(s) PROVE [Flow!Next]_(Flow!vars)
  <2>1. /\ UNCHANGED <<initials, hand, upstream, out>>
        /\ \A k \in Key : sessions'[k] = sessions[k] \/ (sessions[k] = s /\ sessions'[k] = None)
        /\ \A t \in Session : Writing(t)' <=> Writing(t)
        /\ ~Writing(s)
    BY <1>24 DEF RemoveUnmap, Goto, Writing
  <2>2. ASSUME NEW k \in Key PROVE pipe'[k] = pipe[k]
    <3>1. CASE sessions[k] = None
      BY <2>1, <3>1, PipeIs, PipeIsNext
    <3>2. CASE sessions[k] # None /\ sessions'[k] = sessions[k]
      <4>1. sessions[k] \in Session
        BY <3>2
      <4>2. Carried(sessions[k])' = (initials[sessions[k]] \o hand[sessions[k]] \o upstream[sessions[k]])'
        BY DEF Carried
      <4>3. Carried(sessions[k])' = Carried(sessions[k])
        BY <2>1, <3>2 DEF Carried
      <4>4. Writing(sessions[k])' <=> Writing(sessions[k])
        BY <2>1, <3>2, <4>1 DEF Writing
      <4> QED BY <3>2, <4>3, <4>4, PipeIs, PipeIsNext
    <3>3. CASE sessions[k] = s /\ sessions'[k] = None
      BY <2>1, <3>3, PipeIs, PipeIsNext
    <3> QED BY <2>1, <3>1, <3>2, <3>3
  <2> QED BY <2>1, <2>2, FlowStutters
<1>25. ASSUME NEW s \in Session, RemoveDisconnect(s) PROVE [Flow!Next]_(Flow!vars)
  <2>1. /\ UNCHANGED <<sessions, skey, out>>
        /\ \A t \in Session : t # s =>
             /\ phase'[t] = phase[t] /\ initials'[t] = initials[t]
             /\ hand'[t] = hand[t] /\ upstream'[t] = upstream[t]
    BY <1>25 DEF RemoveDisconnect, Goto
  <2>2. ~Writing(s) /\ ~Writing(s)'
    BY <1>25 DEF RemoveDisconnect, Goto, Writing
  <2> QED BY <2>1, <2>2, OwnSilent
<1>26. ASSUME NEW s \in Session, ReadFails(s) PROVE [Flow!Next]_(Flow!vars)
  <2>1. UNCHANGED <<sessions, phase, initials, hand, upstream, out>>
    BY <1>26 DEF ReadFails, Goto
  <2> QED BY <2>1, SilentStep
<1>27. ASSUME NEW s \in Session, Report(s) PROVE [Flow!Next]_(Flow!vars)
  <2>1. UNCHANGED <<sessions, phase, initials, hand, upstream, out>>
    BY <1>27 DEF Report, Goto
  <2> QED BY <2>1, SilentStep
<1>28. ASSUME UNCHANGED vars PROVE [Flow!Next]_(Flow!vars)
  <2>1. UNCHANGED <<sessions, phase, initials, hand, upstream, out>>
    BY <1>28 DEF vars
  <2> QED BY <2>1, SilentStep
<1> QED
  BY <1>1, <1>2, <1>3, <1>4, <1>5, <1>6, <1>7, <1>8, <1>9, <1>10, <1>11, <1>12,
     <1>13, <1>14, <1>15, <1>16, <1>17, <1>18, <1>19, <1>20, <1>21, <1>22, <1>23,
     <1>24, <1>25, <1>26, <1>27, <1>28, Cases

\* The sessions of a flow, one after the other, are a lossy pipe that never reorders
\* or repeats a datagram.
THEOREM ImplementsFlow == Spec => InOrder
<1>1. Init => Flow!Init
  <2>1. ASSUME Init PROVE pipe = [k \in Key |-> << >>]
    BY <2>1 DEF Init, pipe, Writing
  <2> QED BY <2>1 DEF Init, Flow!Init
<1>2. IInv /\ IInv' /\ [Next]_vars => [Flow!Next]_(Flow!vars)
  BY FlowStep
<1> QED BY <1>1, <1>2, Invariance, PTL DEF Spec, InOrder, Flow!Spec

=============================================================================
