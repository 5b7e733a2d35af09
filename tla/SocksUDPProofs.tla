--------------------------- MODULE SocksUDPProofs ---------------------------
(***************************************************************************)
(* The map of the SOCKS UDP server is exact, for any flows, any sessions   *)
(* and any limits, although both goroutines delete its entries by key; and *)
(* the server implements FlowTable.                                        *)
(***************************************************************************)
EXTENDS SocksUDP, TLAPS

Unmapped(s) == \A k \in Key : ConnMap[k] # s

\* A session that main sets up is open, has no reader, and its flow has no entry
\* until main makes it; one that main or a reader is about to close has none left.
MainInv ==
  /\ main.at \in {"zero", "map", "go"} => conn[main.session] = "open" /\ reader[main.session] = "off"
  /\ main.at \in {"zero", "map"} => ConnMap[skey[main.session]] = None /\ Unmapped(main.session)
  /\ main.at = "go" /\ ~flushFailed => ConnMap[skey[main.session]] = main.session
  /\ main.at \in {"unmap", "close"} => flushFailed
  /\ main.at = "close" => Unmapped(main.session)

ReaderInv == \A s \in Session : reader[s] = "close" => Unmapped(s)

\* The inductive invariant.
IInv == MapExact /\ MainInv /\ ReaderInv

-----------------------------------------------------------------------------

LEMMA InitInv == Init => IInv
<1> SUFFICES ASSUME Init PROVE IInv
  OBVIOUS
<1> USE NoneAssumption, KeyAssumption, LimitAssumption
<1>1. skey \in [Session -> Key]
  BY DEF Init
<1>2. TypeOK
  <2>1. flushFailed \in BOOLEAN
    BY Zenon DEF Init
  <2>2. dnsSem \in 0..DNSConcurrency
    BY DEF Init
  <2> QED
    BY <1>1, <2>1, <2>2 DEF Init, TypeOK
<1>3. MapExact /\ MainInv /\ ReaderInv
  BY <1>2 DEF Init, MapExact, MainInv, ReaderInv, Idle
<1> QED
  BY <1>3 DEF IInv

\* What main has in hand.
LEMMA MainType ==
  ASSUME TypeOK
  PROVE  /\ main.at \in {"read", "start", "continue"} \cup Steps
         /\ main.at \in Steps => main.session \in Session
         /\ main.at \in {"start", "continue"} => main.key \in Key
BY DEF TypeOK, Idle, Steps

\* A step of main to s, or back to reading, has the type of main.
LEMMA MainSteps ==
  /\ Idle \in {Idle} \cup [at : Steps, session : Session] \cup [at : {"start"}, key : Key]
                     \cup [at : {"continue"}, key : Key, kind : Kind]
  /\ \A step \in Steps, s \in Session : On(step, s) \in [at : Steps, session : Session]
  /\ Idle.at = "read"
  /\ \A step \in Steps, s \in Session : On(step, s).at = step /\ On(step, s).session = s
BY DEF Idle, On

-----------------------------------------------------------------------------
(* Steps of main that leave the map and the sessions alone.                *)

LEMMA MapKept ==
  ASSUME IInv, TypeOK', UNCHANGED <<ConnMap, connVars>>, flushFailed => flushFailed'
  PROVE  MapExact' /\ ReaderInv'
BY DEF IInv, MapExact, ReaderInv, Unmapped, connVars

LEMMA QuietType ==
  ASSUME TypeOK,
         \/ \E k \in Key : ReadMapped(k) \/ \E kind \in Kind : ReadNew(k, kind) \/ ReadPending(k, kind)
         \/ ReadDNS \/ InterceptDNSReturns \/ WriteUpstream
         \/ ContinueGiveUp \/ ContinueWait \/ ContinueStart \/ StartAbort
  PROVE  TypeOK' /\ UNCHANGED <<ConnMap, connVars, flushFailed>>
<1> USE LimitAssumption, MainType, MainSteps
<1>1. ASSUME NEW k \in Key, ReadMapped(k)
      PROVE  TypeOK' /\ UNCHANGED <<ConnMap, connVars, flushFailed>>
  BY <1>1 DEF TypeOK, ReadMapped, connVars, Steps
<1>2. ASSUME NEW k \in Key, NEW kind \in Kind, ReadNew(k, kind)
      PROVE  TypeOK' /\ UNCHANGED <<ConnMap, connVars, flushFailed>>
  BY <1>2 DEF TypeOK, ReadNew, StartOn, connVars
<1>3. ASSUME NEW k \in Key, NEW kind \in Kind, ReadPending(k, kind)
      PROVE  TypeOK' /\ UNCHANGED <<ConnMap, connVars, flushFailed>>
  BY <1>3 DEF TypeOK, ReadPending, connVars
<1>4. ASSUME ReadDNS \/ InterceptDNSReturns
      PROVE  TypeOK' /\ UNCHANGED <<ConnMap, connVars, flushFailed>>
  BY <1>4 DEF TypeOK, ReadDNS, InterceptDNSReturns, connVars
<1>5. ASSUME WriteUpstream \/ StartAbort
      PROVE  TypeOK' /\ UNCHANGED <<ConnMap, connVars, flushFailed>>
  BY <1>5 DEF TypeOK, WriteUpstream, StartAbort, connVars
<1>6. ASSUME ContinueGiveUp \/ ContinueWait \/ ContinueStart
      PROVE  TypeOK' /\ UNCHANGED <<ConnMap, connVars, flushFailed>>
  BY <1>6 DEF TypeOK, ContinueGiveUp, ContinueWait, ContinueStart, Forget, StartOn, connVars
<1> QED
  BY <1>1, <1>2, <1>3, <1>4, <1>5, <1>6

LEMMA QuietStep ==
  ASSUME IInv,
         \/ \E k \in Key : ReadMapped(k) \/ \E kind \in Kind : ReadNew(k, kind) \/ ReadPending(k, kind)
         \/ ReadDNS \/ InterceptDNSReturns \/ WriteUpstream
         \/ ContinueGiveUp \/ ContinueWait \/ ContinueStart \/ StartAbort
  PROVE  IInv'
<1>1. TypeOK' /\ UNCHANGED <<ConnMap, connVars, flushFailed>>
  BY QuietType DEF IInv, MapExact
<1>2. main' = main \/ main'.at \in {"read", "write", "start", "continue"}
  BY DEF ReadMapped, ReadNew, ReadPending, ReadDNS, InterceptDNSReturns, WriteUpstream,
         ContinueGiveUp, ContinueWait, ContinueStart, StartAbort, StartOn, On, Idle
<1>3. MainInv'
  BY <1>1, <1>2 DEF IInv, MainInv, Unmapped, connVars
<1> QED
  BY <1>1, <1>3, MapKept DEF IInv

-----------------------------------------------------------------------------
(* The set-up of a session.                                                *)

LEMMA DialStep ==
  ASSUME IInv, Dial
  PROVE  IInv'
<1> USE NoneAssumption, MainType, MainSteps
<1>1. PICK s \in Session :
        /\ Unreferenced(s)
        /\ skey' = [skey EXCEPT ![s] = main.key]
        /\ conn' = [conn EXCEPT ![s] = "open"]
        /\ main' = On(IF main.key \in ZeroKey THEN "zero" ELSE "map", s)
  BY DEF Dial
<1>2. /\ main.key \in Key /\ ConnMap[main.key] = None
      /\ conn[s] # "open" /\ reader[s] = "off"
      /\ UNCHANGED <<ConnMap, pendingMap, reader, dnsSem, flushFailed>>
  BY <1>1 DEF Dial, IInv, MapExact, Unreferenced
<1>3. Unmapped(s)
  BY <1>2 DEF IInv, MapExact, TypeOK, Unmapped
<1>4. main'.at \in {"zero", "map"} /\ main'.session = s /\ main' \in [at : Steps, session : Session]
  BY <1>1 DEF Steps
<1>5. TypeOK'
  BY <1>1, <1>2, <1>4 DEF IInv, MapExact, TypeOK
<1>6. MapExact'
  BY <1>1, <1>2, <1>3, <1>5 DEF IInv, MapExact, TypeOK, Unmapped
<1>7. MainInv' /\ ReaderInv'
  BY <1>1, <1>2, <1>3, <1>4 DEF IInv, MapExact, TypeOK, MainInv, ReaderInv, Unmapped
<1> QED
  BY <1>6, <1>7 DEF IInv

LEMMA ZeroStep ==
  ASSUME IInv, WriteZero
  PROVE  IInv'
<1> USE NoneAssumption, MainType, MainSteps
<1> DEFINE s == main.session
<1>1. /\ s \in Session /\ conn[s] = "open" /\ reader[s] = "off"
      /\ ConnMap[skey[s]] = None /\ Unmapped(s)
      /\ UNCHANGED <<ConnMap, pendingMap, skey, reader, dnsSem, flushFailed>>
  BY DEF IInv, MapExact, MainInv, WriteZero, Steps
<1>2. CASE main' = On("map", s) /\ UNCHANGED conn
  <2>1. TypeOK'
    BY <1>1, <1>2 DEF IInv, MapExact, TypeOK, Steps
  <2>2. MainInv'
    BY <1>1, <1>2 DEF MainInv, Unmapped, Steps
  <2> QED
    BY <1>1, <1>2, <2>1, <2>2, MapKept DEF IInv, connVars
<1>3. CASE main' = Idle /\ conn' = [conn EXCEPT ![s] = "closed"]
  <2>1. TypeOK'
    BY <1>1, <1>3 DEF IInv, MapExact, TypeOK
  <2>2. MapExact' /\ ReaderInv'
    BY <1>1, <1>3, <2>1 DEF IInv, MapExact, TypeOK, ReaderInv, Unmapped
  <2>3. MainInv'
    BY <1>3 DEF MainInv
  <2> QED
    BY <2>2, <2>3 DEF IInv
<1> QED
  BY <1>2, <1>3 DEF WriteZero

LEMMA MapSessionStep ==
  ASSUME IInv, MapSession
  PROVE  IInv'
<1> USE NoneAssumption, MainType, MainSteps
<1> DEFINE s == main.session
<1>1. /\ s \in Session /\ conn[s] = "open" /\ reader[s] = "off"
      /\ ConnMap[skey[s]] = None /\ Unmapped(s) /\ skey[s] \in Key
      /\ ConnMap' = [ConnMap EXCEPT ![skey[s]] = s]
      /\ main' = On("go", s)
      /\ UNCHANGED <<pendingMap, skey, conn, reader, dnsSem, flushFailed>>
  BY DEF IInv, MapExact, TypeOK, MainInv, MapSession, Steps, connVars
<1>2. TypeOK'
  BY <1>1 DEF IInv, MapExact, TypeOK, Steps
<1>3. MapExact'
  BY <1>1, <1>2 DEF IInv, MapExact, TypeOK, Unmapped
<1>4. MainInv'
  BY <1>1 DEF IInv, MapExact, TypeOK, MainInv, Steps
<1>5. ReaderInv'
  BY <1>1 DEF IInv, MapExact, TypeOK, ReaderInv, Unmapped
<1> QED
  BY <1>3, <1>4, <1>5 DEF IInv

LEMMA GoStep ==
  ASSUME IInv, GoRunSession
  PROVE  IInv'
<1> USE NoneAssumption, MainType, MainSteps
<1> DEFINE s == main.session
<1>1. /\ s \in Session /\ conn[s] = "open" /\ reader[s] = "off"
      /\ flushFailed \/ ConnMap[skey[s]] = s
      /\ reader' = [reader EXCEPT ![s] = "read"]
      /\ main' = On("flush", s)
      /\ UNCHANGED <<ConnMap, pendingMap, skey, conn, dnsSem, flushFailed>>
  BY DEF IInv, MapExact, MainInv, GoRunSession, Steps
<1>2. TypeOK'
  BY <1>1 DEF IInv, MapExact, TypeOK, Steps
<1>3. MapExact'
  BY <1>1, <1>2 DEF IInv, MapExact, TypeOK
<1>4. MainInv' /\ ReaderInv'
  BY <1>1 DEF IInv, MapExact, TypeOK, MainInv, ReaderInv, Unmapped, Steps
<1> QED
  BY <1>3, <1>4 DEF IInv

-----------------------------------------------------------------------------
(* A first write that fails.                                               *)

LEMMA FlushStep ==
  ASSUME IInv, FlushInitial
  PROVE  IInv'
<1> USE MainType, MainSteps
<1>1. /\ main.session \in Session
      /\ UNCHANGED <<ConnMap, pendingMap, connVars, dnsSem>>
      /\ \/ main' = Idle /\ UNCHANGED flushFailed
         \/ main' = On("unmap", main.session) /\ flushFailed' = TRUE
  BY DEF IInv, MapExact, FlushInitial, Steps
<1>2. TypeOK'
  <2>1. flushFailed' \in BOOLEAN
    BY <1>1, Zenon DEF IInv, MapExact, TypeOK
  <2>2. main' \in {Idle} \cup [at : Steps, session : Session]
    BY <1>1 DEF Steps
  <2> QED
    BY <1>1, <2>1, <2>2 DEF IInv, MapExact, TypeOK, connVars
<1>3. MainInv'
  BY <1>1 DEF MainInv, Steps
<1>4. flushFailed => flushFailed'
  BY <1>1
<1> QED
  BY <1>1, <1>2, <1>3, <1>4, MapKept DEF IInv

LEMMA FlushFailedStep ==
  ASSUME IInv, FlushFailedUnmap \/ FlushFailedClose
  PROVE  IInv'
<1> USE NoneAssumption, MainType, MainSteps
<1> DEFINE s == main.session
<1>1. s \in Session /\ flushFailed /\ skey[s] \in Key
  BY DEF IInv, MapExact, TypeOK, MainInv, FlushFailedUnmap, FlushFailedClose, Steps
<1>2. CASE FlushFailedUnmap
  <2>1. /\ ConnMap' = [ConnMap EXCEPT ![skey[s]] = None]
        /\ main' = On("close", s)
        /\ UNCHANGED <<pendingMap, skey, conn, reader, dnsSem, flushFailed>>
    BY <1>2 DEF FlushFailedUnmap, Delete, connVars
  <2>2. TypeOK'
    BY <1>1, <2>1 DEF IInv, MapExact, TypeOK, Steps
  <2>3. MapExact'
    BY <1>1, <2>1, <2>2 DEF IInv, MapExact, TypeOK
  <2>4. \A k \in Key : ConnMap'[k] # s
    BY <1>1, <2>1 DEF IInv, MapExact, TypeOK
  <2>5. MainInv'
    BY <1>1, <2>1, <2>4 DEF MainInv, Steps, Unmapped
  <2>6. ReaderInv'
    BY <1>1, <2>1 DEF IInv, MapExact, TypeOK, ReaderInv, Unmapped
  <2> QED
    BY <2>3, <2>5, <2>6 DEF IInv
<1>3. CASE FlushFailedClose
  <2>1. /\ conn' = [conn EXCEPT ![s] = "closed"] /\ main' = Idle /\ Unmapped(s)
        /\ UNCHANGED <<ConnMap, pendingMap, skey, reader, dnsSem, flushFailed>>
    BY <1>3 DEF FlushFailedClose, IInv, MainInv
  <2>2. TypeOK'
    BY <1>1, <2>1 DEF IInv, MapExact, TypeOK
  <2>3. MapExact' /\ ReaderInv'
    BY <1>1, <2>1, <2>2 DEF IInv, MapExact, TypeOK, ReaderInv, Unmapped
  <2>4. MainInv'
    BY <2>1 DEF MainInv
  <2> QED
    BY <2>3, <2>4 DEF IInv
<1> QED
  BY <1>2, <1>3

-----------------------------------------------------------------------------
(* The goroutine of a session.                                             *)

LEMMA ReaderStep ==
  ASSUME IInv, NEW s \in Session, Reader(s)
  PROVE  IInv'
<1> USE NoneAssumption, MainType
<1>0. skey[s] \in Key
  BY DEF IInv, MapExact, TypeOK
<1>1. CASE ReadFails(s)
  <2>1. TypeOK'
    BY <1>1 DEF IInv, MapExact, TypeOK, ReadFails
  <2>2. MapExact' /\ ReaderInv'
    BY <1>1, <2>1 DEF IInv, MapExact, TypeOK, ReaderInv, Unmapped, ReadFails
  <2>3. MainInv'
    BY <1>1 DEF IInv, MapExact, TypeOK, MainInv, Unmapped, ReadFails, Steps
  <2> QED
    BY <2>2, <2>3 DEF IInv
<1>2. CASE ReaderUnmap(s)
  <2>1. /\ ConnMap' = [ConnMap EXCEPT ![skey[s]] = None]
        /\ reader[s] = "unmap" /\ reader' = [reader EXCEPT ![s] = "close"]
        /\ UNCHANGED <<main, pendingMap, skey, conn, dnsSem, flushFailed>>
    BY <1>2 DEF ReaderUnmap, Delete
  <2>2. TypeOK'
    BY <1>0, <2>1 DEF IInv, MapExact, TypeOK
  <2>3. flushFailed \/ ConnMap[skey[s]] = s
    BY <2>1 DEF IInv, MapExact
  <2>4. MapExact'
    BY <1>0, <2>1, <2>2, <2>3 DEF IInv, MapExact, TypeOK
  <2>5. ReaderInv'
    BY <1>0, <2>1 DEF IInv, MapExact, TypeOK, ReaderInv, Unmapped
  <2>6. MainInv'
    BY <1>0, <2>1, <2>3 DEF IInv, MapExact, TypeOK, MainInv, Unmapped, Steps
  <2> QED
    BY <2>4, <2>5, <2>6 DEF IInv
<1>3. CASE ReaderClose(s)
  <2>1. /\ conn' = [conn EXCEPT ![s] = "closed"] /\ Unmapped(s)
        /\ reader[s] = "close" /\ reader' = [reader EXCEPT ![s] = "off"]
        /\ UNCHANGED <<main, ConnMap, pendingMap, skey, dnsSem, flushFailed>>
    BY <1>3 DEF ReaderClose, IInv, ReaderInv
  <2>2. TypeOK'
    BY <2>1 DEF IInv, MapExact, TypeOK
  <2>3. MapExact' /\ ReaderInv'
    BY <2>1, <2>2 DEF IInv, MapExact, TypeOK, ReaderInv, Unmapped
  <2>4. MainInv'
    BY <2>1 DEF IInv, MapExact, TypeOK, MainInv, Unmapped, Steps
  <2> QED
    BY <2>3, <2>4 DEF IInv
<1> QED
  BY <1>1, <1>2, <1>3 DEF Reader

LEMMA NextInv ==
  ASSUME IInv, [Next]_vars
  PROVE  IInv'
<1>1. ASSUME UNCHANGED vars
      PROVE  IInv'
  BY <1>1 DEF vars, connVars, IInv, MapExact, TypeOK, MainInv, ReaderInv, Unmapped
<1>2. ASSUME Main
      PROVE  IInv'
  BY <1>2, QuietStep, DialStep, ZeroStep, MapSessionStep, GoStep, FlushStep, FlushFailedStep DEF Main
<1>3. ASSUME Client \/ InterceptDNSReturns
      PROVE  IInv'
  BY <1>3, QuietStep DEF Client
<1> QED
  BY <1>1, <1>2, <1>3, ReaderStep DEF Next

\* For any flows, sessions and limits: no flow is mapped to a closed connection or
\* another flow's, and none loses its session to the delete of an older one
\* before a first write has failed (SocksUDPProxy, socksUDPRunSession).
THEOREM MapIsExact == Spec => []MapExact
<1>1. IInv => MapExact
  BY DEF IInv
<1> QED
  BY InitInv, NextInv, <1>1, PTL DEF Spec

-----------------------------------------------------------------------------
(* The table of sessions.                                                  *)

LEMMA TableDial ==
  ASSUME TypeOK, NEW s \in Session, NEW k \in Key, conn[s] # "open",
         skey' = [skey EXCEPT ![s] = k], conn' = [conn EXCEPT ![s] = "open"], UNCHANGED ConnMap
  PROVE  [Table!Next]_(Table!vars)
<1>1. conn \in [Session -> {"none", "open", "closed"}] /\ skey \in [Session -> Key]
  BY DEF TypeOK
<1>2. \A g \in Key : <<s, g>> \notin Live
  BY DEF Live
<1>3. Live' = Live \cup {<<s, k>>}
  BY <1>1 DEF Live
<1>4. Table!Dial(s, k)
  BY <1>2, <1>3 DEF Table!Dial
<1> QED BY <1>4 DEF Table!Next

LEMMA TableInsert ==
  ASSUME TypeOK, NEW s \in Session, conn[s] = "open", ConnMap[skey[s]] = None,
         ConnMap' = [ConnMap EXCEPT ![skey[s]] = s], UNCHANGED <<skey, conn>>
  PROVE  [Table!Next]_(Table!vars)
<1>1. skey[s] \in Key /\ UNCHANGED Live
  BY DEF TypeOK, Live
<1>2. <<s, skey[s]>> \in Live
  BY <1>1 DEF Live
<1>3. Table!Insert(s, skey[s])
  BY <1>1, <1>2 DEF Table!Insert
<1> QED BY <1>1, <1>3 DEF Table!Next

\* A delete that finds nothing does nothing.
LEMMA TableRemove ==
  ASSUME TypeOK, NEW k \in Key, ConnMap' = [ConnMap EXCEPT ![k] = None], UNCHANGED <<skey, conn>>
  PROVE  [Table!Next]_(Table!vars)
<1>1. UNCHANGED Live
  BY DEF Live
<1>2. CASE ConnMap[k] = None
  BY <1>1, <1>2 DEF TypeOK, Table!vars
<1>3. CASE ConnMap[k] # None
  <2>1. Table!Remove(k)
    BY <1>1, <1>3 DEF Table!Remove
  <2> QED BY <2>1 DEF Table!Next
<1> QED BY <1>2, <1>3

\* Nor does closing a connection once more.
LEMMA TableClose ==
  ASSUME TypeOK, NEW s \in Session, ConnMap[skey[s]] # s,
         conn' = [conn EXCEPT ![s] = "closed"], UNCHANGED <<skey, ConnMap>>
  PROVE  [Table!Next]_(Table!vars)
<1>1. conn \in [Session -> {"none", "open", "closed"}] /\ skey[s] \in Key
  BY DEF TypeOK
<1>2. CASE conn[s] # "open"
  <2>1. UNCHANGED Live
    BY <1>1, <1>2 DEF Live
  <2> QED BY <2>1 DEF Table!vars
<1>3. CASE conn[s] = "open"
  <2>1. <<s, skey[s]>> \in Live
    BY <1>1, <1>3 DEF Live
  <2>2. Live' = Live \ {<<s, skey[s]>>}
    BY <1>1 DEF Live
  <2>3. Table!Close(s, skey[s])
    BY <2>1, <2>2 DEF Table!Close
  <2> QED BY <1>1, <2>3 DEF Table!Next
<1> QED BY <1>2, <1>3

LEMMA TableKept ==
  ASSUME UNCHANGED <<ConnMap, skey, conn>>
  PROVE  [Table!Next]_(Table!vars)
BY DEF Table!vars, Live

LEMMA TableStep ==
  ASSUME IInv, [Next]_vars
  PROVE  [Table!Next]_(Table!vars)
<1>0. TypeOK /\ \A s \in Session : skey[s] \in Key
  BY DEF IInv, MapExact, TypeOK
<1> USE MainType
<1>1. ASSUME \/ UNCHANGED vars \/ Client \/ InterceptDNSReturns
             \/ WriteUpstream \/ ContinueGiveUp \/ ContinueWait \/ ContinueStart \/ StartAbort
             \/ FlushInitial \/ GoRunSession
             \/ \E s \in Session : ReadFails(s)
      PROVE  UNCHANGED <<ConnMap, skey, conn>>
  <2>1. CASE Client \/ InterceptDNSReturns
    BY <2>1 DEF Client, ReadMapped, ReadNew, ReadPending, ReadDNS, InterceptDNSReturns, connVars
  <2>2. CASE UNCHANGED vars \/ WriteUpstream \/ ContinueGiveUp \/ ContinueWait \/ ContinueStart
    BY <2>2 DEF vars, WriteUpstream, ContinueGiveUp, ContinueWait, ContinueStart, connVars
  <2>3. CASE StartAbort \/ FlushInitial \/ GoRunSession \/ \E s \in Session : ReadFails(s)
    BY <2>3 DEF StartAbort, FlushInitial, GoRunSession, ReadFails, connVars
  <2> QED BY <1>1, <2>1, <2>2, <2>3
<1>2. ASSUME Dial PROVE [Table!Next]_(Table!vars)
  BY <1>0, <1>2, TableDial DEF Dial, Unreferenced
<1>3. ASSUME WriteZero PROVE [Table!Next]_(Table!vars)
  <2>1. main.session \in Session /\ ConnMap[skey[main.session]] # main.session
    BY <1>0, <1>3, NoneAssumption DEF IInv, MainInv, WriteZero, Steps
  <2>2. UNCHANGED conn \/ conn' = [conn EXCEPT ![main.session] = "closed"]
    BY <1>3 DEF WriteZero
  <2> QED BY <1>0, <1>3, <2>1, <2>2, TableClose, TableKept DEF WriteZero
<1>4. ASSUME MapSession PROVE [Table!Next]_(Table!vars)
  <2>1. /\ main.session \in Session /\ conn[main.session] = "open"
        /\ ConnMap[skey[main.session]] = None
    BY <1>0, <1>4 DEF IInv, MainInv, MapSession, Steps
  <2> QED BY <1>0, <1>4, <2>1, TableInsert DEF MapSession, connVars
<1>5. ASSUME FlushFailedUnmap PROVE [Table!Next]_(Table!vars)
  <2>1. skey[main.session] \in Key
    BY <1>0, <1>5 DEF FlushFailedUnmap, Steps
  <2> QED BY <1>0, <1>5, <2>1, TableRemove DEF FlushFailedUnmap, Delete, connVars
<1>6. ASSUME FlushFailedClose PROVE [Table!Next]_(Table!vars)
  <2>1. main.session \in Session /\ ConnMap[skey[main.session]] # main.session
    BY <1>0, <1>6 DEF IInv, MainInv, Unmapped, FlushFailedClose, Steps
  <2> QED BY <1>0, <1>6, <2>1, TableClose DEF FlushFailedClose
<1>7. ASSUME NEW s \in Session, ReaderUnmap(s) PROVE [Table!Next]_(Table!vars)
  BY <1>0, <1>7, TableRemove DEF ReaderUnmap, Delete
<1>8. ASSUME NEW s \in Session, ReaderClose(s) PROVE [Table!Next]_(Table!vars)
  <2>1. ConnMap[skey[s]] # s
    BY <1>0, <1>8 DEF IInv, ReaderInv, Unmapped, ReaderClose
  <2> QED BY <1>0, <1>8, <2>1, TableClose DEF ReaderClose
<1> QED BY <1>1, <1>2, <1>3, <1>4, <1>5, <1>6, <1>7, <1>8, TableKept DEF Next, Main, Reader

\* For any flows, sessions and limits the server keeps the table that FlowTable
\* describes: nothing is entered over an entry, or closed while it is mapped, also
\* after a stale delete (socksUDPStartSession, socksUDPRunSession).
THEOREM TableIsKept == Spec => KeepsTable
<1>1. Init => Table!Init
  BY DEF Init, Live, Table!Init
<1>2. IInv /\ [Next]_vars => [Table!Next]_(Table!vars)
  BY TableStep
<1> QED BY <1>1, <1>2, InitInv, NextInv, PTL DEF Spec, KeepsTable, Table!Spec
=============================================================================
