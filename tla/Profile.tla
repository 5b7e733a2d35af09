------------------------------ MODULE Profile ------------------------------
(***************************************************************************)
(* The address ranges of a profile, src/phantomtcp/phantom.go: LoadProfile *)
(* reads them line by line and sorts them, GetOutboundByIP searches them.  *)
(* Start and End of a range are unsigned integers that wrap around: 32     *)
(* bits for IPv4, and the upper 64 bits for IPv6.                          *)
(*                                                                         *)
(* sort.SliceStable and sort.Search are the Go library, external.  The     *)
(* profiles are loaded at start, before the first search; Netcat's load    *)
(* command, which appends to the ranges and sorts them again while         *)
(* searches run, is not modelled.  Rules for names are in the constant     *)
(* rule of Redirect; their records in DNSCache.                            *)
(***************************************************************************)
EXTENDS Integers, Sequences

CONSTANTS Interface,        \* the outbounds
          DefaultOutbound, \* the one of addresses without a rule
          Space,           \* 2^32, or 2^64
          Lengths,         \* numbers of addresses of a prefix; 0 stands for an
                           \* IPv6 prefix that is longer than 64 bits
          MaxLines         \* bound: prefixes in the profile

ASSUME SpaceAssumption == Space \in Nat /\ Space > 0
ASSUME LengthAssumption == Lengths \subseteq 0 .. Space
ASSUME OutboundAssumption == DefaultOutbound \in Interface

VARIABLES
  stage,            \* "load", "ready", "search", "done", "panic"
  CurrentInterface, \* the outbound of the section that is read
  lines,            \* history: the prefixes read, with their outbounds
  Ranges,           \* IPv4Ranges or IPv6Ranges
  ip,               \* the address looked up
  low, high,        \* where sort.Search still has to look
  result            \* what GetOutboundByIP returned

search == <<ip, low, high, result>>
profileVars == <<stage, CurrentInterface, lines, Ranges, search>>

Address == 0 .. Space - 1
Line == [start : Address, length : 1 .. Space, outbound : Interface]
IPRange == [Start : Address, End : Address, Interface : Interface]

\* The sum of two unsigned integers.
Wrap(n) == IF n < Space THEN n ELSE n - Space

RangeOf(l) == [Start |-> l.start, End |-> Wrap(l.start + l.length), Interface |-> l.outbound]

ProfileInit ==
  /\ stage = "load"
  /\ CurrentInterface = DefaultOutbound
  /\ lines = {}
  /\ Ranges = << >>
  /\ ip = 0
  /\ low = 0
  /\ high = 0
  /\ result = DefaultOutbound

-----------------------------------------------------------------------------
(* LoadProfile                                                             *)

\* A section: the lines after it are for another outbound.
Section(o) ==
  /\ stage = "load"
  /\ CurrentInterface' = o
  /\ UNCHANGED <<stage, lines, Ranges, search>>

\* A prefix, its bits beyond the length masked.  A shift by a negative number
\* ends the program.
Prefix(start, length) ==
  /\ stage = "load" /\ Len(Ranges) < MaxLines
  /\ IF length = 0
     THEN stage' = "panic" /\ UNCHANGED <<lines, Ranges>>
     ELSE LET l == [start |-> start, length |-> length, outbound |-> CurrentInterface] IN
          /\ start % length = 0 /\ start + length <= Space
          /\ lines' = lines \cup {l}
          /\ Ranges' = Append(Ranges, RangeOf(l))
          /\ UNCHANGED stage
  /\ UNCHANGED <<CurrentInterface, search>>

\* A stable order of s by Start.
SortedFrom(s, r) ==
  \E at \in [1 .. Len(s) -> 1 .. Len(s)] :
    /\ \A i, j \in 1 .. Len(s) : i < j =>
         /\ at[i] # at[j]
         /\ s[at[i]].Start <= s[at[j]].Start
         /\ s[at[i]].Start = s[at[j]].Start => at[i] < at[j]
    /\ \A i \in 1 .. Len(s) : \E j \in 1 .. Len(s) : at[j] = i
    /\ r = [i \in 1 .. Len(s) |-> s[at[i]]]

Permuted(s) == {[i \in 1 .. Len(s) |-> s[at[i]]] : at \in [1 .. Len(s) -> 1 .. Len(s)]}

\* The end of the file: the ranges are sorted.
Sort ==
  /\ stage = "load"
  /\ stage' = "ready"
  /\ \E r \in Permuted(Ranges) : SortedFrom(Ranges, r) /\ Ranges' = r
  /\ UNCHANGED <<CurrentInterface, lines, search>>

-----------------------------------------------------------------------------
(* GetOutboundByIP; sort.Search counts from 0.                             *)

Lookup(a) ==
  /\ stage \in {"ready", "done"}
  /\ stage' = "search"
  /\ ip' = a
  /\ low' = 0
  /\ high' = Len(Ranges)
  /\ UNCHANGED <<CurrentInterface, lines, Ranges, result>>

\* Mutant: the end is taken as part of the range.
AboveOrAt(i) == Ranges[i + 1].End >= ip

Above(i) == Ranges[i + 1].End > ip

SearchStep ==
  /\ stage = "search" /\ low < high
  /\ LET middle == (low + high) \div 2 IN
       IF Above(middle) THEN high' = middle /\ UNCHANGED low
       ELSE low' = middle + 1 /\ UNCHANGED high
  /\ UNCHANGED <<stage, CurrentInterface, lines, Ranges, ip, result>>

SearchReturns ==
  /\ stage = "search" /\ low >= high
  /\ stage' = "done"
  /\ result' = IF low < Len(Ranges) /\ ip >= Ranges[low + 1].Start
               THEN Ranges[low + 1].Interface ELSE DefaultOutbound
  /\ UNCHANGED <<CurrentInterface, lines, Ranges, ip, low, high>>

ProfileNext ==
  \/ \E o \in Interface : Section(o)
  \/ \E start \in Address, length \in Lengths : Prefix(start, length)
  \/ Sort
  \/ \E a \in Address : Lookup(a)
  \/ SearchStep \/ SearchReturns

ProfileSpec == ProfileInit /\ [][ProfileNext]_profileVars

-----------------------------------------------------------------------------

Covers(l, a) == l.start <= a /\ a < l.start + l.length

Disjoint == \A l, m \in lines : l # m => l.start + l.length <= m.start \/ m.start + m.length <= l.start

\* No prefix ends with the last address: its End would be 0.
BelowTop == \A l \in lines : l.start + l.length < Space

\* In a profile whose prefixes neither overlap nor end with the last address,
\* every address has the outbound of the prefix it is in, in whatever order the
\* lines are, or else the default (LoadProfile, GetOutboundByIP).  A prefix
\* inside another can hide the rest of it.
LookupExact ==
  stage = "done" /\ Disjoint /\ BelowTop =>
    /\ \A l \in lines : Covers(l, ip) => result = l.outbound
    /\ (\A l \in lines : ~Covers(l, ip)) => result = DefaultOutbound
=============================================================================
