-------------------------------- MODULE Dial --------------------------------
(***************************************************************************)
(* Outbound.dial: how the first data of a client, the header, is sent.     *)
(* There are two builds of it, src/phantomtcp/tcp_user.go, which works     *)
(* with socket options, and tcp_root.go, which can also send raw packets.  *)
(* The hints of the outbound say how the header is cut, which bytes are    *)
(* sent as urgent data, which decoys are sent beside it, and whether its   *)
(* second half leaves before the first.  SendWithOption, which sends       *)
(* urgent data or under another TTL or TOS, and SendWithFakePayload do so  *)
(* in tcp_linux.go; those of tcp_windows.go and tcp_generic.go send        *)
(* nothing and return no error.                                            *)
(*                                                                         *)
(* A branch of dial is a program: a sequence of sends.  Run executes one   *)
(* send after the other, any of which may fail.  What the server reads is  *)
(* put together from the stream of the kernel and the raw segments.        *)
(*                                                                         *)
(* A cell of the header stands for a byte, <<"b", i>>; "f" are the random  *)
(* bytes of a decoy, "h" those of a handshake with a proxy, "0" is the     *)
(* byte sent only to be dropped.  Whether a host discards a decoy (TTL,    *)
(* checksum, ...) is external.  TCP Fast Open of the raw builds is not     *)
(* modelled here: its data are in the SYN (module ConnMonitor).            *)
(***************************************************************************)
EXTENDS Integers, Sequences

CONSTANTS L,       \* length of the header
          Builds,  \* of {"user", "plain", "passive", "active"}, see below
          Systems, \* of {"linux", "other"}
          HintSets,\* hints an outbound may have
          Protocols, \* of "DIRECT", "HTTP", "HTTPS", "SOCKS4", "SOCKS5"
          MaxKeep  \* bound: data that Keep sends

ASSUME LengthAssumption == L \in Nat /\ L > 4
ASSUME BuildAssumption == Builds \subseteq {"user", "plain", "passive", "active"}
ASSUME SystemAssumption == Systems \subseteq {"linux", "other"}
ASSUME ProtocolAssumption == Protocols \subseteq {"DIRECT", "HTTP", "HTTPS", "SOCKS4", "SOCKS5"}

VARIABLES
  build,    \* tcp_user.go; or tcp_root.go without HINT_FAKE, with PassiveMode, or else
  system,   \* whether SendWithOption and SendWithFakePayload send anything
  Hint,     \* set of hints
  Protocol, \* of the outbound
  offset,   \* where the name begins in the header
  length,   \* its length, 0 if there is none
  cut,      \* where the header is cut
  program,  \* sends to be done
  stage,       \* "start", "syn", "connected", "cut", "sending", "done", "error", "panic"
  kernel,   \* what the kernel has been given to send, as cells
  urgent,   \* positions in kernel of urgent bytes
  raw,      \* raw segments that came first: <<position, cell>>
  seq,      \* synpacket.TCP.Seq, from the first byte of the stream
  pages,    \* what the pages of SendWithFakePayload hold: "fake" or "real"
  ttl,      \* the TTL of the socket: "low" or "default"
  spliced,  \* positions of the stream that are in those pages
  arrived,  \* what the server has of them: "none", "fake" or "real"
  kept,     \* data that Keep has sent
  mishap    \* history: what went wrong, outside or unnoticed

chosen == <<build, system, Hint, Protocol, offset, length>>
pagevars == <<pages, ttl, spliced, arrived>>
dialVars == <<chosen, cut, program, stage, kernel, urgent, raw, seq, pagevars, kept, mishap>>

-----------------------------------------------------------------------------
(* Programs.  Where the error of a send is lost, fallback is done next.      *)

Nothing == << >>
Op(op, from, to, oob) == <<[op |-> op, from |-> from, to |-> to, oob |-> oob, lossy |-> FALSE, fallback |-> << >>]>>
Step(op) == Op(op, 0, 0, Nothing)
Write(from, to) == Op("write", from, to, Nothing)
WriteFake(from, to) == Op("fake", from, to, Nothing)
Option(from, to) == Op("option", from, to, Nothing)
Oob(from, to, oob) == Op("option", from, to, oob)
Lossy(p, fallback) == <<[p[1] EXCEPT !.lossy = TRUE, !.fallback = fallback]>>
Decoy == Step("decoy")

B(i) == <<"b", i>>
Zero == <<"0", 0>>
Has(h) == h \in Hint

\* HINT_OOB in tcp_user.go: with HINT_TTL two bytes of the name are urgent, and
\* the error of that send is lost; with HINT_TCPFRAG that of the first write is.
OOBProgram ==
  IF Has("TTL")
  THEN LET rest == Oob(offset + 2, cut, <<Zero>>) \o Write(cut, L)
       IN Lossy(Oob(0, offset, <<B(offset), B(offset + 1)>>), rest) \o rest
  ELSE IF Has("TCPFRAG")
  THEN LET rest == Oob(1, offset, <<B(offset), Zero>>) \o Write(offset + 1, L)
       IN Lossy(Write(0, 1), rest) \o rest
  ELSE Oob(0, 1, <<B(1), Zero>>) \o Write(2, L)

\* HINT_TTL in tcp_user.go: the pages of the first part hold a decoy until they
\* have been sent with a low TTL; the kernel sends them again as they are then.
SplicePart == IF cut < L THEN cut ELSE L
SpliceFake == Step("lowTTL") \o Op("splice", 0, SplicePart, Nothing)

\* Mutant: the TTL is restored before the pages hold the header.
SwapPagesLate == Step("setTTL") \o Step("copy")

SwapPages == Step("copy") \o Step("setTTL")

\* Mutant: four bytes are split off whatever the cut is.
FragProgramAlways == Option(0, 1) \o Option(1, 4) \o Option(4, cut) \o Option(cut, L)

\* HINT_TCPFRAG in tcp_user.go.
FragProgram ==
  IF cut > 4 THEN Option(0, 1) \o Option(1, 4) \o Option(4, cut) \o Option(cut, L)
  ELSE Option(0, cut) \o Option(cut, L)

\* A name is needed for all of this but Fast Open; without one, or a hint, there
\* is the handshake with the proxy, and the header.
UserProgram ==
  IF Has("TFO") THEN IF length # 0 /\ Has("TCPFRAG") THEN Write(0, cut) \o Write(cut, L) ELSE Write(0, L)
  ELSE IF length # 0 /\ Has("OOB") THEN OOBProgram
  ELSE IF length # 0 /\ Has("TTL")
  THEN SpliceFake \o SwapPages \o (IF SplicePart < L THEN Write(SplicePart, L) ELSE Nothing)
  ELSE IF length # 0 /\ Has("TCPFRAG") THEN FragProgram
  ELSE Step("handshake") \o Write(0, L)

\* tcp_root.go without HINT_FAKE: HINT_TCPFRAG splits off four bytes.  With
\* HINT_OOB the errors before the last urgent send are lost.
PlainProgram ==
  LET Tagged(SegOffset) == Oob(SegOffset, cut, <<Zero>>) \o Write(cut, L)
  IN Step("handshake") \o
     IF cut <= 4 \/ Hint \cap {"TCPFRAG", "OOB"} = {} THEN Write(0, L)
     ELSE IF ~Has("OOB") THEN Write(0, 1) \o Write(1, 4) \o Write(4, L)
     ELSE IF ~Has("TCPFRAG") THEN Tagged(0)
     ELSE Lossy(Write(0, 1), Tagged(0)) \o Lossy(Oob(1, 3, <<B(3)>>), Tagged(4)) \o Tagged(4)

\* PassiveMode: an error of the first send is lost, and the rest with it.
PassiveProgram ==
  Step("handshake") \o
  IF length > 0 THEN Lossy(Option(0, cut), Nothing) \o Write(cut, L) ELSE Write(0, L)

\* HINT_REVERSE: the second part leaves in a raw segment, and random bytes take
\* its place in the stream of the kernel.
ReverseProgram(SegOffset) ==
  Step("raw") \o Write(SegOffset, cut) \o WriteFake(cut, L)

\* Raw packets: decoys before each part.  seq is added to where the kernel is.
ActiveProgram ==
  LET frag == Has("TCPFRAG") /\ cut > 4
      SegOffset == IF frag THEN 4 ELSE 0
  IN Step("handshake") \o
     IF Protocol = "HTTPS" THEN Lossy(Write(0, L), Nothing)
     ELSE Decoy \o (IF frag THEN Write(0, 1) \o Write(1, 4) ELSE Nothing) \o
          (IF Has("REVERSE") THEN ReverseProgram(SegOffset)
           ELSE Write(SegOffset, cut) \o Decoy \o Write(cut, L)) \o
          Step("addLen") \o (IF Has("SAT") THEN Decoy ELSE Nothing)

\* The handshake with the proxy: the bytes it sends, and proxy_seq.
Handshake ==
  CASE Protocol = "DIRECT" -> [sent |-> 0, proxy_seq |-> 0]
    [] Protocol \in {"HTTP", "SOCKS4"} -> [sent |-> 2, proxy_seq |-> 2]
    [] Protocol = "HTTPS" -> [sent |-> 2, proxy_seq |-> 0]
    [] Protocol = "SOCKS5" -> [sent |-> 3 + 1, proxy_seq |-> 5 + 1]

-----------------------------------------------------------------------------

\* HintMap of the builds, and HINT_FAKE, which HINT_TTL is part of.
Possible ==
  /\ build = "user" => Hint \cap {"REVERSE", "RAND", "SAT"} = {}
  /\ build = "plain" => "TTL" \notin Hint
  /\ "TFO" \in Hint => build = "user"

DialInit ==
  /\ build \in Builds
  /\ system \in Systems
  /\ Hint \in HintSets
  /\ Possible
  /\ Protocol \in Protocols
  /\ \E name \in {<<0, 0>>} \cup {n \in (1 .. L) \X (1 .. L) : n[1] + n[2] <= L} :
       offset = name[1] /\ length = name[2]
  /\ cut = 0
  /\ program = << >>
  /\ stage = "start"
  /\ kernel = << >>
  /\ urgent = {}
  /\ raw = {}
  /\ seq = 0
  /\ pages = "fake"
  /\ ttl = "default"
  /\ spliced = {}
  /\ arrived = "none"
  /\ kept = 0
  /\ mishap = {}

\* DialConnInfo: seq is that of the SYN, which the kernel is asked for, or the
\* monitor has seen; without it there is no connection.
DialConnInfo ==
  /\ stage = "start" /\ build = "active"
  /\ \/ stage' = "syn" /\ seq' = -1
     \/ stage' = "error" /\ UNCHANGED seq
  /\ UNCHANGED <<chosen, cut, program, kernel, urgent, raw, pagevars, kept, mishap>>

\* The SYN has a number of its own.
CountSyn ==
  /\ stage = "syn"
  /\ stage' = "connected"
  /\ seq' = seq + 1
  /\ UNCHANGED <<chosen, cut, program, kernel, urgent, raw, pagevars, kept, mishap>>

\* The connection without raw packets.  With Fast Open it is made again if it was established at
\* once; the error of that is lost, and GetTCPState ends the program (that of the other
\* systems never says that it was established).
OpenConnection ==
  /\ stage = "start" /\ build # "active"
  /\ stage' \in {"connected", "error"} \cup IF Has("TFO") /\ system = "linux" THEN {"panic"} ELSE {}
  /\ UNCHANGED <<chosen, cut, program, kernel, urgent, raw, seq, pagevars, kept, mishap>>

\* The cut is the middle of the name, or, where a decoy of the name is made, the
\* middle between its first and last dot.
Cuts ==
  IF offset = 0 THEN {IF build = "active" THEN L \div 2 ELSE 0}
  ELSE IF ~Has("RAND") /\ (build = "active" \/ (build = "user" /\ Has("TTL") /\ ~Has("OOB")))
  THEN offset .. offset + length - 1
  ELSE {offset + length \div 2}

Cut ==
  /\ stage = "connected"
  /\ stage' = "cut"
  /\ cut' \in Cuts
  /\ UNCHANGED <<chosen, program, kernel, urgent, raw, seq, pagevars, kept, mishap>>

\* The branch that is taken.
Branch ==
  /\ stage = "cut"
  /\ stage' = "sending"
  /\ program' = CASE build = "user" -> UserProgram
                  [] build = "plain" -> PlainProgram
                  [] build = "passive" -> PassiveProgram
                  [] build = "active" -> ActiveProgram
  /\ UNCHANGED <<chosen, cut, kernel, urgent, raw, seq, pagevars, kept, mishap>>

Top == program[1]

\* What SendWithOption and SendWithFakePayload do.
SystemOps == {"option", "splice", "lowTTL", "copy", "setTTL"}
Does(op) == system = "linux" \/ op \notin SystemOps

Sending(ops) == stage = "sending" /\ program # << >> /\ Top.op \in ops
Drop == program' = Tail(program) /\ UNCHANGED <<chosen, cut, kept>>

Cells(kind, from, to) == [i \in 1 .. to - from |-> <<kind, from + i - 1>>]

InBounds == Top.from <= Top.to /\ Top.to <= L

\* SendWithOption of tcp_linux.go is given the TLS connection with the proxy.
NotTCP == system = "linux" /\ build = "passive" /\ Protocol = "HTTPS"

\* A slice of the header whose bounds are in the wrong order, or a socket option
\* for a connection that is not a TCP connection but TLS over it.
Panic ==
  /\ Sending({"write", "option", "fake", "splice"})
  /\ ~InBounds \/ (Top.op = "option" /\ NotTCP)
  /\ stage' = "panic"
  /\ Drop
  /\ UNCHANGED <<kernel, urgent, raw, seq, pagevars, mishap>>

\* After the handshake with an HTTPS proxy tcp_root.go goes on to write to the
\* TCP connection below, if it has no HINT_FAKE.
Kind ==
  CASE Top.op = "fake" -> "f"
    [] build = "plain" /\ Protocol = "HTTPS" -> "clear"
    [] OTHER -> "b"

Send ==
  /\ Sending({"write", "option", "fake"})
  /\ InBounds /\ Does(Top.op)
  /\ Top.op = "option" => ~NotTCP
  /\ kernel' = kernel \o Cells(Kind, Top.from, Top.to) \o Top.oob
  /\ urgent' = urgent \cup {Len(kernel') - i : i \in 0 .. Len(Top.oob) - 1}
  /\ Drop
  /\ UNCHANGED <<stage, raw, seq, pagevars, mishap>>

\* On the other systems: nothing is sent, and there is no error.
Skip ==
  /\ Sending(SystemOps) /\ ~Does(Top.op)
  /\ InBounds
  /\ mishap' = mishap \cup {"skipped"}
  /\ Drop
  /\ UNCHANGED <<stage, kernel, urgent, raw, seq, pagevars>>

\* SendWithOption sends two urgent bytes one after the other; the error of the first,
\* which the data are sent with, is lost when there is none of the second.
FirstUrgentLost ==
  /\ Sending({"option"}) /\ Does(Top.op)
  /\ InBounds /\ Len(Top.oob) = 2
  /\ kernel' = Append(kernel, Top.oob[2])
  /\ urgent' = urgent \cup {Len(kernel')}
  /\ mishap' = mishap \cup {"errorLost"}
  /\ Drop
  /\ UNCHANGED <<stage, raw, seq, pagevars>>

\* Any send may fail; an error that is lost does not end the dial.
Fail ==
  /\ Sending({"write", "option", "fake", "decoy", "raw", "splice", "lowTTL", "setTTL"})
  /\ InBounds /\ Does(Top.op)
  /\ IF Top.lossy
     THEN /\ program' = Top.fallback
          /\ mishap' = mishap \cup {"errorLost"}
          /\ UNCHANGED stage
     ELSE /\ program' = << >>
          /\ stage' = "error"
          /\ UNCHANGED mishap
  /\ UNCHANGED <<chosen, cut, kernel, urgent, raw, seq, pagevars, kept>>

\* ProxyHandshake.  A SOCKS5 proxy that refuses makes it return no connection:
\* tcp_root.go closes what it returns.
DoHandshake ==
  /\ Sending({"handshake"})
  /\ \/ /\ kernel' = kernel \o Cells("h", 0, Handshake.sent)
        /\ seq' = IF build = "active" THEN seq + Handshake.proxy_seq ELSE seq
        /\ UNCHANGED stage
     \/ /\ Protocol # "DIRECT"
        /\ stage' = IF Protocol = "SOCKS5" /\ build \in {"passive", "active"} THEN "panic" ELSE "error"
        /\ UNCHANGED <<kernel, seq>>
  /\ Drop
  /\ UNCHANGED <<urgent, raw, pagevars, mishap>>

\* send_magic_packet: seq is what it was; the server might take the decoy.
SendDecoy ==
  /\ Sending({"decoy"})
  /\ mishap' \in {mishap, mishap \cup {"decoyTaken"}}
  /\ Drop
  /\ UNCHANGED <<stage, kernel, urgent, raw, seq, pagevars>>

\* The raw segment with the second part: the server has it before the bytes of
\* the kernel at its place, unless it is lost or those are there first.
SendRaw ==
  /\ Sending({"raw"})
  /\ seq' = seq + cut
  /\ \/ /\ raw' = {<<seq + i, B(i)>> : i \in {j \in cut .. L - 1 : seq + j >= Len(kernel)}}
        /\ UNCHANGED mishap
     \/ mishap' = mishap \cup {"rawLost"} /\ UNCHANGED raw
  /\ Drop
  /\ UNCHANGED <<stage, kernel, urgent, pagevars>>

AddLen ==
  /\ Sending({"addLen"})
  /\ seq' = seq + (IF Has("REVERSE") THEN L - cut ELSE L)
  /\ Drop
  /\ UNCHANGED <<stage, kernel, urgent, raw, pagevars, mishap>>

\* SendWithFakePayload.
SetTTL ==
  /\ Sending({"lowTTL", "setTTL"}) /\ Does(Top.op)
  /\ ttl' = IF Top.op = "lowTTL" THEN "low" ELSE "default"
  /\ Drop
  /\ UNCHANGED <<stage, kernel, urgent, raw, seq, pages, spliced, arrived, mishap>>

Splice ==
  /\ Sending({"splice"}) /\ Does(Top.op)
  /\ InBounds
  /\ kernel' = kernel \o Cells("b", Top.from, Top.to)
  /\ spliced' = Len(kernel) + 1 .. Len(kernel')
  /\ \/ UNCHANGED <<arrived, mishap>>
     \/ arrived' = "fake" /\ mishap' = mishap \cup {"decoyTaken"}
  /\ Drop
  /\ UNCHANGED <<stage, urgent, raw, seq, pages, ttl>>

CopyPages ==
  /\ Sending({"copy"}) /\ Does(Top.op)
  /\ pages' = "real"
  /\ Drop
  /\ UNCHANGED <<stage, kernel, urgent, raw, seq, ttl, spliced, arrived, mishap>>

\* The kernel sends the pages again; they arrive unless the TTL is low.
Retransmit ==
  /\ spliced # {} /\ arrived = "none" /\ ttl = "default"
  /\ arrived' = pages
  /\ UNCHANGED <<chosen, cut, program, stage, kernel, urgent, raw, seq, pages, ttl, spliced, kept, mishap>>

\* An urgent byte that is not the last one is read in line, unless the server
\* had read everything before it.
UrgentRead ==
  /\ urgent # {} /\ stage = "sending"
  /\ mishap' = mishap \cup {"urgentRead"}
  /\ UNCHANGED <<chosen, cut, program, stage, kernel, urgent, raw, seq, pagevars, kept>>

Finish ==
  /\ stage = "sending" /\ program = << >>
  /\ stage' = "done"
  /\ UNCHANGED <<chosen, cut, program, kernel, urgent, raw, seq, pagevars, kept, mishap>>

\* Mutant: the number is not moved on.
KeepStill ==
  /\ stage = "done" /\ build = "active" /\ kept < MaxKeep
  /\ kept' = kept + 1
  /\ kernel' = Append(kernel, <<"k", kept>>)
  /\ UNCHANGED <<chosen, cut, program, stage, urgent, raw, seq, pagevars, mishap>>

\* Keep: a decoy, the data of the client, and the number moves on.
Keep ==
  /\ stage = "done" /\ build = "active" /\ kept < MaxKeep
  /\ kept' = kept + 1
  /\ kernel' = Append(kernel, <<"k", kept>>)
  /\ seq' = seq + 1
  /\ UNCHANGED <<chosen, cut, program, stage, urgent, raw, pagevars, mishap>>

DialNext ==
  \/ DialConnInfo \/ CountSyn \/ OpenConnection \/ Cut \/ Branch
  \/ Panic \/ Send \/ Skip \/ FirstUrgentLost \/ Fail \/ DoHandshake \/ SendDecoy \/ SendRaw
  \/ AddLen \/ SetTTL \/ Splice \/ CopyPages \/ Retransmit \/ UrgentRead \/ Finish \/ Keep

DialSpec == DialInit /\ [][DialNext]_dialVars

-----------------------------------------------------------------------------

\* What the server reads: the kernel's bytes, but for a raw segment that was
\* there first, for pages of which it has another version, and for the last
\* urgent byte.
LastUrgent == IF urgent = {} THEN 0 ELSE CHOOSE i \in urgent : \A j \in urgent : j <= i

Byte(i) ==
  IF \E r \in raw : r[1] = i - 1
  THEN (CHOOSE r \in raw : r[1] = i - 1)[2]
  ELSE IF i \in spliced /\ arrived = "fake" THEN <<"f", 0>> ELSE kernel[i]

Read ==
  LET all == [i \in DOMAIN kernel |-> Byte(i)]
      n == LastUrgent
  IN IF n = 0 THEN all ELSE SubSeq(all, 1, n - 1) \o SubSeq(all, n + 1, Len(all))

\* The branches of tcp_user.go that cut the header never speak to a proxy; and
\* what tcp_root.go writes below the TLS of an HTTPS proxy.
MissesProxy ==
  \/ /\ build = "user" /\ Protocol # "DIRECT"
     /\ Has("TFO") \/ (length # 0 /\ Hint \cap {"OOB", "TTL", "TCPFRAG"} # {})
  \/ build = "plain" /\ Protocol = "HTTPS"

\* The numbers are right: a handshake with SOCKS5 adds more than it sends, one
\* with HTTPS nothing.
SeqKnown == Protocol \notin {"SOCKS5", "HTTPS"}

\* When dial returns without an error the server reads the handshake and then
\* the header, every byte once and in order, for every cut and any mixture of
\* hints: unless an error was lost, a decoy taken, a raw segment lost, an urgent
\* byte read too early, the proxy missed, the numbers are off, or a send was left to
\* SendWithOption or SendWithFakePayload on a system other than Linux (dial).
StreamTrue ==
  stage = "done" /\ kept = 0 /\ mishap = {} /\ ~MissesProxy /\ (SeqKnown \/ ~Has("REVERSE")) =>
    Read = Cells("h", 0, Handshake.sent) \o Cells("b", 0, L)

\* The number that decoys are sent with is that of the next byte of the stream
\* when dial returns and as long as Keep goes on, unless the handshake with the
\* proxy leaves it behind or ahead (dial, ProxyHandshake, Keep).
SeqTrue == stage = "done" /\ build = "active" /\ SeqKnown => seq = Len(kernel)

\* dial ends the program only for a name shorter than four bytes whose first two
\* are urgent, when a SOCKS5 proxy refuses a raw build, and, on Linux, when a second
\* dial with Fast Open fails and for an HTTPS proxy in PassiveMode: never for any
\* other mixture of hints and place of the name (dial).
PanicOnlyKnown ==
  stage = "panic" =>
    \/ Has("TFO") /\ system = "linux"
    \/ build = "user" /\ {"OOB", "TTL"} \subseteq Hint /\ length \in 1 .. 3
    \/ NotTCP /\ length > 0
    \/ build \in {"passive", "active"} /\ Protocol = "SOCKS5"
=============================================================================
