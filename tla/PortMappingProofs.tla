-------------------------- MODULE PortMappingProofs --------------------------
(***************************************************************************)
(* UDPMapping for any number of clients, connections and datagrams: the    *)
(* map of clients is exact, and a reply goes astray only to a client that  *)
(* sent later.  Each form of the mapping has an invariant of its own; the  *)
(* steps of the other and of the TCP mappings leave its variables alone.   *)
(* The map of clients implements FlowTable.                                *)
(***************************************************************************)
EXTENDS PortMapping, TLAPS

\* The loop dials only for a client that is not mapped, and what it has dialed is
\* open and has no reader.
LoopInv ==
  /\ loop # "read" => current # None
  /\ loop \in {"dial", "insert"} => UDPMap[current] = None
  /\ loop = "insert" =>
       /\ dialed # None /\ dialed \in open
       /\ owner[dialed] = current
       /\ reader[dialed] = "none" /\ dialed \notin firstFail

\* A connection that was never dialed has nothing; one whose first write failed has
\* no reader.
ConnInv ==
  /\ \A k \in Conn : owner[k] = None => reader[k] = "none" /\ k \notin open \cup firstFail
  /\ \A k \in firstFail : reader[k] = "none"

\* The inductive invariant of the map.
MapInv == TypeOK /\ MapExact /\ LoopInv /\ ConnInv

\* The last datagram of all is that of SrcAddr, and every request is no later.
SeqInv ==
  /\ \A c \in Client : lastSeen[c] <= seq
  /\ SrcAddr # None => lastSeen[SrcAddr] = seq
  /\ \A r \in asked : r[2] <= seq /\ (r[2] = seq => SrcAddr \in {None, r[1]})

MisledType == misled \subseteq (Client \X Nat) \X Client

\* The inductive invariant of the replies.
ReplyInv == TypeOK /\ SeqInv /\ MisledType /\ MisledOnlyByLater

-----------------------------------------------------------------------------

LEMMA InitInv == Init => MapInv /\ ReplyInv
<1> SUFFICES ASSUME Init PROVE MapInv /\ ReplyInv
  OBVIOUS
<1>1. TypeOK
  BY DEF Init, TypeOK
<1>2. MapExact /\ LoopInv /\ ConnInv
  BY NoneAssumption DEF Init, MapExact, LoopInv, ConnInv
<1>3. SeqInv /\ MisledType /\ MisledOnlyByLater
  BY DEF Init, SeqInv, MisledType, MisledOnlyByLater
<1> QED
  BY <1>1, <1>2, <1>3 DEF MapInv, ReplyInv

\* The steps that touch neither form of UDPMapping.
LEMMA OtherSteps ==
  ASSUME Next
  PROVE  \/ \E c \in Client : FixedRead(c) \/ MapRead(c)
         \/ FixedReadError
         \/ \E r \in asked : FixedReply(r)
         \/ MapLookup \/ MapDial \/ MapDialFails \/ MapInsert
         \/ \E k \in Conn : ReaderStep(k)
         \/ UNCHANGED <<fixedVars, mapVars>>
<1>1. ASSUME NEW i \in Relay, Accept(i) \/ DialTCPBind(i) \/ RelayStep(i)
      PROVE  UNCHANGED <<fixedVars, mapVars>>
  BY <1>1 DEF Accept, DialTCPBind, RelayStep, WaitInbound, Script, DialRemote, UpEnds,
              DownReads, DownWritten, DownEnds
<1>2. ASSUME NEW i \in Relay, NEW peer \in {"client", "gone", "remote"}, PeerEnds(i, peer)
      PROVE  UNCHANGED <<fixedVars, mapVars>>
  BY <1>2 DEF PeerEnds
<1>3. AcceptError => UNCHANGED <<fixedVars, mapVars>>
  BY DEF AcceptError
<1> QED
  BY <1>1, <1>2, <1>3 DEF Next

-----------------------------------------------------------------------------
(* The map of clients.                                                     *)

LEMMA TypeStep ==
  ASSUME TypeOK, LoopInv, ConnInv, [Next]_vars
  PROVE  TypeOK'
<1>1. ASSUME NEW c \in Client, FixedRead(c)
      PROVE  TypeOK'
  BY <1>1 DEF TypeOK, FixedRead, mapVars
<1>2. ASSUME NEW c \in Client, MapRead(c)
      PROVE  TypeOK'
  BY <1>2 DEF TypeOK, MapRead, fixedVars
<1>3. ASSUME FixedReadError
      PROVE  TypeOK'
  BY <1>3 DEF TypeOK, FixedReadError, mapVars
<1>4. ASSUME NEW r \in asked, FixedReply(r)
      PROVE  TypeOK'
  BY <1>4 DEF TypeOK, FixedReply, mapVars
<1>5. ASSUME MapLookup \/ MapDialFails
      PROVE  TypeOK'
  BY <1>5 DEF TypeOK, MapLookup, MapDialFails, fixedVars
<1>6. ASSUME MapDial
      PROVE  TypeOK'
  BY <1>6 DEF TypeOK, MapDial, fixedVars
<1>7. ASSUME MapInsert
      PROVE  TypeOK'
  BY <1>7 DEF TypeOK, LoopInv, MapInsert, fixedVars
<1>8. ASSUME NEW k \in Conn, ReaderStep(k)
      PROVE  TypeOK'
  BY <1>8 DEF TypeOK, ReaderStep, ReaderError, ReaderDelete, ReaderClose, fixedVars
<1>9. ASSUME UNCHANGED <<fixedVars, mapVars>>
      PROVE  TypeOK'
  BY <1>9 DEF TypeOK, fixedVars, mapVars
<1> QED
  BY <1>1, <1>2, <1>3, <1>4, <1>5, <1>6, <1>7, <1>8, <1>9, OtherSteps DEF vars

LEMMA MapUnchanged ==
  ASSUME MapExact, LoopInv, ConnInv, UNCHANGED mapVars
  PROVE  MapExact' /\ LoopInv' /\ ConnInv'
BY DEF MapExact, LoopInv, ConnInv, mapVars

\* What the loop inserts is for a client without an entry.
LEMMA InsertStep ==
  ASSUME MapInv, MapInsert
  PROVE  MapExact' /\ LoopInv' /\ ConnInv'
<1> USE NoneAssumption
<1>1. /\ current \in Client /\ dialed \in Conn /\ dialed \in open
      /\ owner[dialed] = current /\ reader[dialed] = "none"
      /\ dialed \notin firstFail /\ UDPMap[current] = None
  BY DEF MapInv, TypeOK, LoopInv, MapInsert
<1>2. MapExact'
  BY <1>1 DEF MapInv, TypeOK, MapExact, ConnInv, MapInsert
<1>3. LoopInv'
  BY DEF LoopInv, MapInsert
<1>4. ConnInv'
  BY <1>1 DEF MapInv, TypeOK, ConnInv, MapInsert
<1> QED
  BY <1>2, <1>3, <1>4

\* A reader finds its own connection in the entry that it deletes.
LEMMA ReaderSteps ==
  ASSUME MapInv, NEW k \in Conn, ReaderStep(k)
  PROVE  MapExact' /\ LoopInv' /\ ConnInv'
<1> USE NoneAssumption
<1>0. owner[k] \in Client
  BY DEF MapInv, TypeOK, ConnInv, ReaderStep, ReaderError, ReaderDelete, ReaderClose
<1>1. CASE ReaderError(k)
  <2>1. MapExact'
    BY <1>1 DEF MapInv, TypeOK, MapExact, ReaderError
  <2>2. LoopInv' /\ ConnInv'
    BY <1>1 DEF MapInv, TypeOK, LoopInv, ConnInv, ReaderError
  <2> QED
    BY <2>1, <2>2
<1>2. CASE ReaderDelete(k)
  <2>1. UDPMap[owner[k]] = k
    BY <1>2 DEF MapInv, MapExact, ReaderDelete
  <2>2. MapExact'
    BY <1>0, <1>2, <2>1 DEF MapInv, TypeOK, MapExact, ReaderDelete
  <2>3. LoopInv' /\ ConnInv'
    BY <1>0, <1>2 DEF MapInv, TypeOK, LoopInv, ConnInv, ReaderDelete
  <2> QED
    BY <2>2, <2>3
<1>3. CASE ReaderClose(k)
  <2>1. \A c \in Client : UDPMap[c] # k
    BY <1>3 DEF MapInv, TypeOK, MapExact, ConnInv, ReaderClose
  <2>2. MapExact'
    BY <1>3, <2>1 DEF MapInv, TypeOK, MapExact, ReaderClose
  <2>3. LoopInv' /\ ConnInv'
    BY <1>0, <1>3 DEF MapInv, TypeOK, LoopInv, ConnInv, ReaderClose
  <2> QED
    BY <2>2, <2>3
<1> QED
  BY <1>1, <1>2, <1>3 DEF ReaderStep

LEMMA MapStep ==
  ASSUME MapInv, [Next]_vars
  PROVE  MapInv'
<1> USE NoneAssumption
<1>0. TypeOK'
  BY TypeStep DEF MapInv
<1>1. ASSUME NEW c \in Client, MapRead(c)
      PROVE  MapExact' /\ LoopInv' /\ ConnInv'
  BY <1>1 DEF MapInv, MapExact, LoopInv, ConnInv, MapRead
<1>2. ASSUME MapLookup \/ MapDialFails
      PROVE  MapExact' /\ LoopInv' /\ ConnInv'
  BY <1>2 DEF MapInv, MapExact, LoopInv, ConnInv, MapLookup, MapDialFails
<1>3. ASSUME MapDial
      PROVE  MapExact' /\ LoopInv' /\ ConnInv'
  <2>1. PICK k \in Conn :
          /\ owner[k] = None
          /\ dialed' = k
          /\ owner' = [owner EXCEPT ![k] = current]
          /\ open' = open \cup {k}
    BY <1>3 DEF MapDial
  <2>2. current \in Client /\ reader[k] = "none" /\ k \notin firstFail /\ \A c \in Client : UDPMap[c] # k
    BY <1>3, <2>1 DEF MapInv, TypeOK, MapExact, LoopInv, ConnInv, MapDial
  <2>3. MapExact'
    BY <1>3, <2>1, <2>2 DEF MapInv, TypeOK, MapExact, MapDial
  <2>4. LoopInv' /\ ConnInv'
    BY <1>3, <2>1, <2>2 DEF MapInv, TypeOK, LoopInv, ConnInv, MapDial
  <2> QED
    BY <2>3, <2>4
<1>4. ASSUME UNCHANGED mapVars
      PROVE  MapExact' /\ LoopInv' /\ ConnInv'
  BY <1>4, MapUnchanged DEF MapInv
<1>5. ASSUME \/ \E c \in Client : FixedRead(c)
             \/ FixedReadError
             \/ \E r \in asked : FixedReply(r)
      PROVE  UNCHANGED mapVars
  BY <1>5 DEF FixedRead, FixedReadError, FixedReply
<1>6. MapExact' /\ LoopInv' /\ ConnInv'
  BY <1>1, <1>2, <1>3, <1>4, <1>5, InsertStep, ReaderSteps, OtherSteps DEF vars
<1> QED
  BY <1>0, <1>6 DEF MapInv

\* For any number of clients, connections and dials, a mapped connection is open
\* and its client's, and no reader deletes the entry of a successor (UDPMapping).
THEOREM MapIsExact == Spec => []MapExact
<1>1. MapInv => MapExact
  BY DEF MapInv
<1> QED
  BY InitInv, MapStep, <1>1, PTL DEF Spec

-----------------------------------------------------------------------------
(* The replies of a mapping with one SrcAddr.                              *)

LEMMA ReplyUnchanged ==
  ASSUME SeqInv, MisledType, MisledOnlyByLater, UNCHANGED fixedVars
  PROVE  SeqInv' /\ MisledType' /\ MisledOnlyByLater'
BY DEF SeqInv, MisledType, MisledOnlyByLater, fixedVars

LEMMA ReadStep ==
  ASSUME ReplyInv, NEW c \in Client, FixedRead(c)
  PROVE  SeqInv' /\ MisledType' /\ MisledOnlyByLater'
<1> USE NoneAssumption
<1>1. /\ seq' = seq + 1 /\ seq \in Nat /\ SrcAddr' = c
      /\ lastSeen \in [Client -> Nat]
      /\ lastSeen' = [lastSeen EXCEPT ![c] = seq + 1]
      /\ asked' = asked \cup {<<c, seq + 1>>} /\ asked \subseteq Client \X Nat
      /\ misled' = misled
  BY DEF ReplyInv, TypeOK, FixedRead
<1>2. SeqInv'
  BY <1>1 DEF ReplyInv, SeqInv
<1>3. MisledType'
  BY <1>1 DEF ReplyInv, MisledType
<1>4. MisledOnlyByLater'
  <2> SUFFICES ASSUME NEW m \in misled PROVE lastSeen'[m[2]] > m[1][2]
    BY <1>1 DEF MisledOnlyByLater
  <2>1. m[2] \in Client /\ m[1][2] \in Nat
    BY DEF ReplyInv, MisledType
  <2>2. lastSeen[m[2]] > m[1][2] /\ lastSeen[m[2]] <= seq
    BY <2>1 DEF ReplyInv, MisledOnlyByLater, SeqInv
  <2>3. lastSeen'[m[2]] \in {lastSeen[m[2]], seq + 1} /\ lastSeen[m[2]] \in Nat
    BY <1>1, <2>1
  <2> QED
    BY <1>1, <2>1, <2>2, <2>3
<1> QED
  BY <1>2, <1>3, <1>4

\* The request answered is not the last datagram, if that is not its client's.
LEMMA ReplyStep ==
  ASSUME ReplyInv, NEW r \in asked, FixedReply(r)
  PROVE  SeqInv' /\ MisledType' /\ MisledOnlyByLater'
<1> USE NoneAssumption
<1>1. /\ r \in Client \X Nat /\ seq \in Nat /\ lastSeen \in [Client -> Nat]
      /\ SrcAddr \in Client \cup {None}
      /\ misled' = IF SrcAddr \in {None, r[1]} THEN misled ELSE misled \cup {<<r, SrcAddr>>}
      /\ asked' = asked \ {r}
      /\ SrcAddr' = SrcAddr /\ seq' = seq /\ lastSeen' = lastSeen
  BY DEF ReplyInv, TypeOK, FixedReply
<1>2. SeqInv'
  BY <1>1 DEF ReplyInv, SeqInv
<1>3. MisledType'
  BY <1>1 DEF ReplyInv, MisledType
<1>4. SrcAddr \notin {None, r[1]} => lastSeen[SrcAddr] > r[2]
  BY <1>1 DEF ReplyInv, SeqInv
<1>5. MisledOnlyByLater'
  BY <1>1, <1>4 DEF ReplyInv, MisledOnlyByLater
<1> QED
  BY <1>2, <1>3, <1>5

LEMMA ReplyNext ==
  ASSUME ReplyInv, MapInv, [Next]_vars
  PROVE  ReplyInv'
<1>0. TypeOK'
  BY TypeStep DEF MapInv
<1>1. ASSUME FixedReadError
      PROVE  SeqInv' /\ MisledType' /\ MisledOnlyByLater'
  BY <1>1 DEF ReplyInv, SeqInv, MisledType, MisledOnlyByLater, FixedReadError
<1>2. ASSUME \/ \E c \in Client : MapRead(c)
             \/ MapLookup \/ MapDial \/ MapDialFails \/ MapInsert
             \/ \E k \in Conn : ReaderStep(k)
      PROVE  UNCHANGED fixedVars
  BY <1>2 DEF MapRead, MapLookup, MapDial, MapDialFails, MapInsert,
              ReaderStep, ReaderError, ReaderDelete, ReaderClose
<1>3. ASSUME UNCHANGED fixedVars
      PROVE  SeqInv' /\ MisledType' /\ MisledOnlyByLater'
  BY <1>3, ReplyUnchanged DEF ReplyInv
<1>4. SeqInv' /\ MisledType' /\ MisledOnlyByLater'
  BY <1>1, <1>2, <1>3, ReadStep, ReplyStep, OtherSteps DEF vars
<1> QED
  BY <1>0, <1>4 DEF ReplyInv

\* For any number of clients and datagrams, the unlocked SrcAddr sends a reply to
\* another client only if that one sent after the request (UDPMapping).
THEOREM MisledIsByLater == Spec => []MisledOnlyByLater
<1>1. ReplyInv /\ MapInv => MisledOnlyByLater
  BY DEF ReplyInv
<1> QED
  BY InitInv, MapStep, ReplyNext, <1>1, PTL DEF Spec

-----------------------------------------------------------------------------
(* The map of clients as a table of sessions.                              *)

\* Whatever touches neither the map nor a connection keeps the table.
LEMMA TableKept ==
  ASSUME UNCHANGED <<UDPMap, owner, open>>
  PROVE  [Table!Next]_(Table!vars)
BY DEF Table!vars, Live

LEMMA TableDial ==
  ASSUME MapInv, MapDial
  PROVE  [Table!Next]_(Table!vars)
<1>1. PICK k \in Conn :
        /\ owner[k] = None
        /\ owner' = [owner EXCEPT ![k] = current]
        /\ open' = open \cup {k}
  BY DEF MapDial
<1>2. current \in Client /\ k \notin open /\ owner \in [Conn -> Client \cup {None}]
  BY <1>1 DEF MapInv, TypeOK, LoopInv, ConnInv, MapDial
<1>3. \A c \in Client : <<k, c>> \notin Live
  BY <1>2 DEF Live
<1>4. Live' = Live \cup {<<k, current>>}
  BY <1>1, <1>2 DEF Live
<1>5. Table!Dial(k, current)
  BY <1>3, <1>4 DEF Table!Dial, MapDial
<1> QED BY <1>2, <1>5 DEF Table!Next

LEMMA TableInsert ==
  ASSUME MapInv, MapInsert
  PROVE  [Table!Next]_(Table!vars)
<1>1. /\ current \in Client /\ dialed \in Conn /\ dialed \in open
      /\ owner[dialed] = current /\ UDPMap[current] = None
      /\ UDPMap' = [UDPMap EXCEPT ![current] = dialed]
      /\ UNCHANGED Live
  BY DEF MapInv, TypeOK, LoopInv, MapInsert, Live
<1>2. <<dialed, current>> \in Live
  BY <1>1 DEF Live
<1>3. Table!Insert(dialed, current)
  BY <1>1, <1>2 DEF Table!Insert
<1> QED BY <1>1, <1>3 DEF Table!Next

LEMMA TableRemove ==
  ASSUME MapInv, NEW k \in Conn, ReaderDelete(k)
  PROVE  [Table!Next]_(Table!vars)
<1>1. owner[k] \in Client /\ UDPMap[owner[k]] = k /\ UNCHANGED Live
  BY DEF MapInv, TypeOK, MapExact, ConnInv, ReaderDelete, Live
<1>2. Table!Remove(owner[k])
  BY <1>1, NoneAssumption DEF Table!Remove, ReaderDelete
<1> QED BY <1>1, <1>2 DEF Table!Next

\* Each connection is closed once, by its reader.
LEMMA TableClose ==
  ASSUME MapInv, NEW k \in Conn, ReaderClose(k)
  PROVE  [Table!Next]_(Table!vars)
<1>1. /\ owner[k] \in Client /\ UDPMap[owner[k]] # k
      /\ owner' = owner /\ UDPMap' = UDPMap /\ open' = open \ {k}
  BY NoneAssumption DEF MapInv, TypeOK, MapExact, ConnInv, ReaderClose
<1>2. CASE k \notin open
  BY <1>1, <1>2, TableKept
<1>3. CASE k \in open
  <2>1. <<k, owner[k]>> \in Live
    BY <1>1, <1>3 DEF Live
  <2>2. Live' = Live \ {<<k, owner[k]>>}
    BY <1>1 DEF Live
  <2>3. Table!Close(k, owner[k])
    BY <1>1, <2>1, <2>2 DEF Table!Close
  <2> QED BY <1>1, <2>3 DEF Table!Next
<1> QED BY <1>2, <1>3

LEMMA TableStep ==
  ASSUME MapInv, [Next]_vars
  PROVE  [Table!Next]_(Table!vars)
<1>1. ASSUME \/ \E c \in Client : FixedRead(c) \/ MapRead(c)
             \/ FixedReadError
             \/ \E r \in asked : FixedReply(r)
             \/ MapLookup \/ MapDialFails
             \/ \E k \in Conn : ReaderError(k)
             \/ UNCHANGED <<fixedVars, mapVars>>
      PROVE  UNCHANGED <<UDPMap, owner, open>>
  BY <1>1 DEF FixedRead, MapRead, FixedReadError, FixedReply, MapLookup, MapDialFails,
              ReaderError, mapVars
<1>2. \/ \E c \in Client : FixedRead(c) \/ MapRead(c)
      \/ FixedReadError
      \/ \E r \in asked : FixedReply(r)
      \/ MapLookup \/ MapDial \/ MapDialFails \/ MapInsert
      \/ \E k \in Conn : ReaderStep(k)
      \/ UNCHANGED <<fixedVars, mapVars>>
  BY OtherSteps DEF vars
<1> QED BY <1>1, <1>2, TableKept, TableDial, TableInsert, TableRemove, TableClose DEF ReaderStep

\* For any number of clients, connections and dials the mapping keeps the table that
\* FlowTable describes: nothing is entered over an entry, or closed while it is
\* mapped (UDPMapping).
THEOREM TableIsKept == Spec => KeepsTable
<1>1. Init => Table!Init
  BY DEF Init, Live, Table!Init
<1>2. MapInv /\ [Next]_vars => [Table!Next]_(Table!vars)
  BY TableStep
<1> QED BY <1>1, <1>2, InitInv, MapStep, PTL DEF Spec, KeepsTable, Table!Spec
=============================================================================
