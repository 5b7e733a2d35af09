---------------------------- MODULE QUICCollector ----------------------------
(***************************************************************************)
(* quicInitialPending and its quicInitialCollector, src/phantomtcp/quic.go: *)
(* the Initials of a client, held until the ClientHello that is spread     *)
(* over them is whole.  The callers (QUICProxy, the transparent proxy, the *)
(* SOCKS server and UDP over TCP) give a hold up at the first error.       *)
(*                                                                         *)
(* Datagrams come in any order, again, or not at all, and a client may     *)
(* begin another connection from the same port: its Initials have another  *)
(* destination connection ID, and other keys.  A datagram here has one     *)
(* Initial; those that share a datagram are read one after the other, as   *)
(* one with the bytes of all.  A cell stands for a part of the hello.      *)
(***************************************************************************)
EXTENDS Integers, Sequences, FiniteSets

CONSTANTS Connection, \* connections of the client, known by their DCID
          Nobody,     \* nil
          Length,     \* cells of a hello
          Hellos,     \* hellos, with the cells that each Initial carries
          Window,     \* 2^8, 2^16, 2^24 or 2^32, by the length of an encoded number
          MaxNumber,  \* 2^62 - 1
          MaxSize     \* datagrams that a hold has room for

Cell == 1 .. Length

ASSUME NobodyAssumption == Nobody \notin Connection
ASSUME LengthAssumption == Length \in Nat \ {0} /\ MaxSize \in Nat
ASSUME HelloAssumption == Hellos \subseteq [cells : Seq(SUBSET Cell), name : BOOLEAN]
\* The numbers that a client uses fit.
ASSUME WindowAssumption ==
  /\ Window \in Nat \ {0} /\ Window % 2 = 0
  /\ MaxNumber \in Nat /\ \A h \in Hellos : Len(h.cells) <= MaxNumber + 1

VARIABLES
  byName,     \* the caller waits for a server name, not only for the hello
  hello,      \* the hello of every connection
  state,      \* "hold", "released": handed on, or "flushed" before it was whole
  dcid,       \* of the collector, Nobody if it has none
  expected,   \* the next packet number
  covered,    \* cells of the stream that it has
  packets,    \* Initials held, as they came: <<connection, number>>
  datagrams,  \* what was handed on
  heard,      \* history: Initials read since the last one of another connection
  unread      \* history: <<number, highest heard of its connection>>, or << >>:
              \* the Initial for which the last hold was given up

hold == <<dcid, expected, covered, packets, heard>>
collectorVars == <<byName, hello, state, hold, datagrams, unread>>

Number(c) == 0 .. Len(hello[c].cells) - 1

CollectorInit ==
  /\ byName \in BOOLEAN
  /\ hello \in [Connection -> Hellos]
  /\ state = "hold"
  /\ dcid = Nobody
  /\ expected = 0
  /\ covered = {}
  /\ packets = << >>
  /\ datagrams = << >>
  /\ heard = {}
  /\ unread = << >>

-----------------------------------------------------------------------------

\* The number in the window around the one that is expected.
decodePacketNumber(truncated, next) ==
  LET candidate == Window * (next \div Window) + truncated
      half == Window \div 2
  IN CASE candidate + half <= next /\ candidate + Window <= MaxNumber -> candidate + Window
       [] candidate > next + half /\ candidate >= Window -> candidate - Window
       [] OTHER -> candidate

Blank == [expected |-> 0, covered |-> {}]

\* Mutant: the stream of the other connection stays.
CollectedKeepsStream(c) ==
  IF dcid \notin {Nobody, c} THEN [Blank EXCEPT !.covered = covered]
  ELSE [expected |-> expected, covered |-> covered]

\* Mutant: the expected number of the other connection stays.
CollectedKeepsNumber(c) ==
  IF dcid \notin {Nobody, c} THEN [Blank EXCEPT !.expected = expected]
  ELSE [expected |-> expected, covered |-> covered]

\* The collector when an Initial of c is read: it begins again if it has another
\* connection ID.
Collected(c) ==
  IF dcid \notin {Nobody, c} THEN Blank ELSE [expected |-> expected, covered |-> covered]

\* With a number that is not its own an Initial cannot be decrypted.
Readable(c, pn) == decodePacketNumber(pn % Window, Collected(c).expected) = pn

Complete(c, cells) == cells = Cell /\ (byName => hello[c].name)

\* Packets by their number; SliceStable keeps the order of equal ones.
Sorted(s) ==
  LET before(i, j) == s[i][2] < s[j][2] \/ (s[i][2] = s[j][2] /\ i < j)
      place(i) == 1 + Cardinality({j \in DOMAIN s : before(j, i)})
  IN [k \in DOMAIN s |-> s[CHOOSE i \in DOMAIN s : place(i) = k]]

Merge(c, pn) ==
  LET now == Collected(c) IN
  /\ dcid' = c
  /\ expected' = IF pn >= now.expected THEN pn + 1 ELSE now.expected
  /\ covered' = now.covered \cup hello[c].cells[pn + 1]
  /\ packets' = Append(packets, <<c, pn>>)
  /\ heard' = {p \in heard : p[1] = c} \cup {<<c, pn>>}

Holding == state = "hold" /\ unread = << >>

\* pending.add, with room for the datagram: the hello is whole, or not yet.
Add(c, pn) ==
  /\ Holding /\ Readable(c, pn) /\ Len(packets) < MaxSize
  /\ Merge(c, pn)
  /\ IF Complete(c, covered')
     THEN state' = "released" /\ datagrams' = Sorted(packets')
     ELSE UNCHANGED <<state, datagrams>>
  /\ UNCHANGED <<byName, hello, unread>>

\* The callers forget what was held.
GiveUp ==
  /\ dcid' = Nobody
  /\ expected' = 0
  /\ covered' = {}
  /\ packets' = << >>
  /\ heard' = {}
  /\ UNCHANGED <<byName, hello, state, datagrams>>

Highest(S) == IF S = {} THEN -1 ELSE CHOOSE n \in S : \A m \in S : m <= n

\* The Initial cannot be decrypted.
Unreadable(c, pn) ==
  /\ Holding /\ ~Readable(c, pn)
  /\ unread' = <<pn, Highest({p[2] : p \in {q \in heard : q[1] = c}})>>
  /\ GiveUp

OverLimit(c, pn) ==
  /\ Holding /\ Readable(c, pn) /\ Len(packets) >= MaxSize
  /\ GiveUp /\ UNCHANGED unread

\* A datagram that is damaged, or for which the next action does not stand; or the
\* hold expires.
Fails ==
  /\ Holding /\ packets # << >>
  /\ GiveUp /\ UNCHANGED unread

\* A datagram that is not an Initial: the SOCKS callers hand on what they have, and
\* this one after it; the others give up.
Flush ==
  /\ Holding /\ ~byName /\ packets # << >>
  /\ state' = "flushed"
  /\ datagrams' = Sorted(packets)
  /\ UNCHANGED <<byName, hello, hold, unread>>

\* The session that was started is over, or the client sends again after a hold
\* was given up: a new one begins.
Anew ==
  /\ ~Holding
  /\ state' = "hold"
  /\ dcid' = Nobody
  /\ expected' = 0
  /\ covered' = {}
  /\ packets' = << >>
  /\ datagrams' = << >>
  /\ heard' = {}
  /\ unread' = << >>
  /\ UNCHANGED <<byName, hello>>

CollectorNext ==
  \/ \E c \in Connection : \E pn \in Number(c) : Add(c, pn) \/ Unreadable(c, pn) \/ OverLimit(c, pn)
  \/ Fails \/ Flush \/ Anew

CollectorSpec == CollectorInit /\ [][CollectorNext]_collectorVars

-----------------------------------------------------------------------------

\* The cells of the Initials that were read of the connection heard last.
HeardCells(c) == UNION {hello[c].cells[p[2] + 1] : p \in heard}

\* A hold is released exactly when the Initials of one connection, read since the
\* last one of another, have the whole hello: it is never put together from two
\* connections, whatever order they come in, and never waited for in vain
\* (quicInitialCollector.add, accumulate).
ReleasedWhole ==
  heard # {} =>
    /\ \A p, q \in heard : p[1] = q[1]
    /\ \A p \in heard : (state = "released") <=> Complete(p[1], HeardCells(p[1]))

\* An Initial that is not damaged makes the callers give up its hold only if its
\* number is half a window away from the next one of its own connection: not
\* because of another connection, nor for coming late or again (decodePacketNumber,
\* reset).
GivenUpOnlyFar ==
  unread # << >> =>
    \/ 2 * unread[1] + Window <= 2 * (unread[2] + 1)
    \/ 2 * unread[1] > 2 * (unread[2] + 1) + Window
=============================================================================
