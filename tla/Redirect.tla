------------------------------ MODULE Redirect ------------------------------
(***************************************************************************)
(* tcp_redirect of src/phantomtcp/proxy.go: what becomes of one connection *)
(* of a client.  The outbound is chosen from the address or the name, and  *)
(* again from the server name in the TLS hello; the connection is dialed,  *)
(* with retries and fallbacks, the first answer of the server is awaited,  *)
(* and relay copies both ways until one direction ends.                    *)
(*                                                                         *)
(* The contents of the messages are external; of the hello we keep the     *)
(* server name, whether it is encrypted, and whether it offers TLS 1.3.    *)
(* dial is an action with the outcomes of tcp_user.go and tcp_root.go.     *)
(***************************************************************************)
EXTENDS Naturals, FiniteSets

CONSTANTS Outbound, \* the outbounds of the profile
          Domain,   \* names
          Profiles, \* configurations
          Retries,  \* retries with HINT_OOB: 5
          MaxDial,  \* bound: connections that are dialed
          Nil       \* nil

ASSUME NilAssumption == Nil \notin Outbound \cup Domain
\* What Nose has for a fake address: a name, and the outbound that made the entry (that
\* of the name's rule, one that looked the name up as a fallback, or that of a line).
Lie == [Name : Domain, Interface : Outbound \cup {Nil}]

\* A configuration: Hint and Fallback of every outbound, GetOutbound of every
\* name, GetOutboundByIP of the address, and the entries of Nose.
Config == [Hint : [Outbound -> SUBSET {"NOTCP", "OOB", "TLS1_3", "MOVE", "STRIP", "OTHER"}],
            Fallback : [Outbound -> Outbound \cup {Nil}],
            rule : [Domain -> Outbound \cup {Nil}],
            ipRule : Outbound \cup {Nil},
            Nose : SUBSET Lie]

\* CreateOutbounds looks a fallback up among the outbounds before it.
ASSUME ProfileAssumption ==
  /\ Profiles \subseteq Config
  /\ \A p \in Profiles : \E rank \in [Outbound -> 1 .. Cardinality(Outbound)] :
       \A o \in Outbound : p.Fallback[o] # Nil => rank[p.Fallback[o]] < rank[o]
ASSUME RetryAssumption == Retries \in Nat /\ MaxDial \in Nat

VARIABLES
  config,     \* the configuration
  pc,         \* where tcp_redirect is
  byName,     \* addr.IP is nil
  domain,     \* the name that is dialed, Nil for an address alone
  lie,        \* what the fake address that is asked for leads to; Nil without one, or
              \* when its index is out of range
  outbound,   \* the outbound in use
  hello,      \* [sni, ech, tls13] of the header, Nil if it is not a hello
  given,      \* the caller has the header already (SNIProxy)
  retry,      \* retries left
  conn,       \* the connection in use
  info,       \* dial has returned a packet of its connection, to go on from in Keep
  dialed,     \* connections dialed so far
  open,       \* connections that are open
  client,     \* the client's connection is open
  kept,       \* Keep copies, and not relay
  copies,     \* per direction of relay, or of Keep: where its goroutine is
  errch,      \* values in the channel of relay
  ended,      \* peers that have ended their side
  left        \* history: connections of attempts that were given up without closing them

choice == <<byName, domain, lie, outbound, hello, given>>
attempt == <<retry, conn, info, dialed, open>>
tail == <<kept, copies, errch>>
redirectVars == <<config, pc, choice, attempt, client, tail, ended, left>>

Hint == config.Hint
Fallback == config.Fallback
rule == config.rule
ipRule == config.ipRule

Header == [sni : Domain \cup {Nil}, ech : BOOLEAN, tls13 : BOOLEAN] \cup {Nil}

Directions == {"up", "down"}

RedirectInit ==
  /\ config \in Profiles
  /\ pc = "choose"
  /\ byName \in BOOLEAN
  /\ domain \in IF byName THEN Domain \cup {Nil} ELSE {Nil}
  /\ lie \in IF byName /\ domain = Nil THEN config.Nose \cup {Nil} ELSE {Nil}
  /\ outbound = Nil
  /\ hello = Nil
  /\ given \in (IF domain = Nil THEN {FALSE} ELSE BOOLEAN)
  /\ retry = Retries
  /\ conn = 0
  /\ info = FALSE
  /\ dialed = 0
  /\ open = {}
  /\ client = TRUE
  /\ kept = FALSE
  /\ copies = [x \in Directions |-> "none"]
  /\ errch = 0
  /\ ended = {}
  /\ left = {}

\* Return before there is a connection to relay: client.Close() is deferred.
Return == pc' = "done" /\ client' = FALSE

-----------------------------------------------------------------------------
(* The outbound.                                                           *)

\* From a name, from a fake address that leads to one, or from the address.  The outbound
\* of a fake address is the one in Nose, if there is one.
Choose ==
  /\ pc = "choose"
  /\ \/ /\ byName /\ domain # Nil
        /\ outbound' = rule[domain]
        /\ UNCHANGED domain
     \/ /\ lie # Nil
        /\ domain' = lie.Name
        /\ outbound' = IF lie.Interface # Nil THEN lie.Interface ELSE rule[lie.Name]
     \/ /\ ~byName
        /\ outbound' = ipRule
        /\ UNCHANGED domain
  /\ pc' = IF outbound' = Nil \/ Hint[outbound'] = {} THEN "direct" ELSE "header"
  /\ UNCHANGED <<config, byName, lie, hello, given, attempt, client, tail, ended, left>>

\* A fake address beyond the end of Nose.
OutOfRange ==
  /\ pc = "choose" /\ byName /\ domain = Nil /\ lie = Nil
  /\ Return
  /\ UNCHANGED <<config, choice, attempt, tail, ended, left>>

\* HINT_NOTCP ends it; otherwise the header is read unless the caller has it.
ReadHeader ==
  /\ pc = "header"
  /\ IF "NOTCP" \in Hint[outbound] THEN Return /\ UNCHANGED hello
     ELSE \/ /\ hello' \in Header
             /\ pc' = IF hello' = Nil THEN "plain" ELSE "hello"
             /\ UNCHANGED client
          \/ ~given /\ Return /\ UNCHANGED hello
  /\ UNCHANGED <<config, byName, domain, lie, outbound, given, attempt, tail, ended, left>>

\* Mutant: the name of the hello is dialed with the outbound of the other name.
UseSNIName(d) == domain' = d /\ UNCHANGED outbound

\* A name in the hello that differs from the one asked for is the one to dial,
\* with its own outbound, unless the hello is encrypted.  One without a name is
\* not looked into.
UseSNI(d) == domain' = d /\ outbound' = rule[d]

OtherName == byName /\ hello.sni \notin {Nil, domain} /\ ~hello.ech

Hello ==
  /\ pc = "hello" /\ ~(OtherName /\ rule[hello.sni] = Nil)
  /\ IF OtherName THEN UseSNI(hello.sni) ELSE UNCHANGED <<domain, outbound>>
  /\ IF hello.sni # Nil /\ "TLS1_3" \in Hint[outbound'] /\ ~hello.tls13
     THEN Return
     ELSE pc' = "connect" /\ UNCHANGED client
  /\ UNCHANGED <<config, byName, lie, hello, given, attempt, tail, ended, left>>

\* The name in the hello has no outbound.
HelloNoRule ==
  /\ pc = "hello" /\ OtherName /\ rule[hello.sni] = Nil
  /\ Return
  /\ UNCHANGED <<config, choice, attempt, tail, ended, left>>

-----------------------------------------------------------------------------
(* The connection.                                                         *)

NewConn ==
  /\ dialed < MaxDial
  /\ dialed' = dialed + 1
  /\ conn' = dialed + 1

\* dial succeeds, fails, or fails to write the header to a connection that it
\* then returns with the error.
Dial(ok, err) ==
  \/ /\ NewConn
     /\ open' = open \cup {dialed + 1}
     /\ \/ pc' = ok /\ UNCHANGED left
        \/ pc' = err /\ left' = left \cup {dialed + 1}
  \/ /\ pc' = err
     /\ UNCHANGED <<conn, dialed, open, left>>

Connect ==
  /\ pc = "connect"
  /\ Dial("awaitHello", "failed")
  /\ UNCHANGED <<config, choice, retry, info, client, tail, ended>>

CanRetry == "OOB" \in Hint[outbound] /\ retry > 0

\* The hello of the server: passed on to the client, who may be gone.
HelloPassed ==
  /\ pc = "awaitHello"
  /\ \/ pc' = "relay" /\ UNCHANGED <<client, left>>
     \/ "client" \in ended /\ Return /\ left' = left \cup {conn}
  /\ UNCHANGED <<config, choice, attempt, tail, ended>>

\* Mutant: the retry leaves the connection open.
HelloRetryOpen ==
  /\ pc = "awaitHello" /\ CanRetry
  /\ retry' = retry - 1
  /\ pc' = "connect"
  /\ UNCHANGED <<config, choice, conn, info, dialed, open, client, tail, ended, left>>

\* An alert, or no answer, with retries left: the connection is closed.
HelloRetry ==
  /\ pc = "awaitHello" /\ CanRetry
  /\ retry' = retry - 1
  /\ open' = open \ {conn}
  /\ pc' = "connect"
  /\ UNCHANGED <<config, choice, conn, info, dialed, client, tail, ended, left>>

\* No answer, and no retry left: the connection is not closed.
HelloFails ==
  /\ pc = "awaitHello" /\ ~CanRetry
  /\ pc' = "failed"
  /\ left' = left \cup {conn}
  /\ UNCHANGED <<config, choice, attempt, client, tail, ended>>

\* The next outbound of the chain, or the end.  The retries are not renewed.
Failed ==
  /\ pc = "failed"
  /\ IF Fallback[outbound] # Nil
     THEN /\ outbound' = Fallback[outbound]
          /\ pc' = IF hello = Nil THEN "plainAgain" ELSE "connect"
          /\ UNCHANGED client
     ELSE Return /\ UNCHANGED outbound
  /\ UNCHANGED <<config, byName, domain, lie, hello, given, attempt, tail, ended, left>>

\* A request that is not a hello: answered with a redirection, sent over TLS,
\* or dialed with at most one fallback.
Plain ==
  /\ pc = "plain"
  /\ \/ /\ "MOVE" \in Hint[outbound]
        /\ Return
        /\ UNCHANGED <<conn, info, dialed, open, left>>
     \/ /\ "MOVE" \notin Hint[outbound] /\ "STRIP" \in Hint[outbound]
        /\ \/ Return /\ UNCHANGED <<conn, dialed, open, left>>
           \/ /\ NewConn
              /\ open' = open \cup {dialed + 1}
              /\ \/ pc' = "relay" /\ UNCHANGED <<client, left>>
                 \/ Return /\ left' = left \cup {dialed + 1}
        /\ UNCHANGED info
     \/ /\ Hint[outbound] \cap {"MOVE", "STRIP"} = {}
        /\ Dial("dialed", "failed")
        /\ info' \in {FALSE, conn' # conn}
        /\ UNCHANGED client
  /\ UNCHANGED <<config, choice, retry, tail, ended>>

\* The packet of the first connection stays in info, also when it was returned with an
\* error; that of the second is dropped.
PlainAgain ==
  /\ pc = "plainAgain"
  /\ Dial("dialed", "giveUp")
  /\ UNCHANGED <<config, choice, retry, info, client, tail, ended>>

\* The error of the second dial is final.
GiveUp ==
  /\ pc = "giveUp"
  /\ Return
  /\ UNCHANGED <<config, choice, attempt, tail, ended, left>>

KeepOrRelay ==
  /\ pc = "dialed"
  /\ pc' = "relay"
  /\ kept' = info
  /\ UNCHANGED <<config, choice, attempt, client, copies, errch, ended, left>>

\* No outbound, or one that changes nothing: connect to the address or name.
Direct ==
  /\ pc = "direct"
  /\ \/ /\ NewConn
        /\ open' = open \cup {dialed + 1}
        /\ pc' = "relay"
        /\ UNCHANGED client
     \/ Return /\ UNCHANGED <<conn, dialed, open>>
  /\ UNCHANGED <<config, choice, retry, info, tail, ended, left>>

-----------------------------------------------------------------------------
(* relay and Keep.                                                         *)

PeerEnds(p) ==
  /\ ended' = ended \cup {p}
  /\ UNCHANGED <<config, pc, choice, attempt, client, tail, left>>

Begin ==
  /\ pc = "relay" /\ copies["up"] = "none"
  /\ copies' = [x \in Directions |-> "copy"]
  /\ UNCHANGED <<config, pc, choice, attempt, client, kept, errch, ended, left>>

Source(x) == IF x = "up" THEN "client" ELSE "server"

\* A copy ends with its source, or with either connection.
CopyEnds(x) ==
  /\ copies[x] = "copy"
  /\ Source(x) \in ended \/ ~client \/ conn \notin open
  /\ copies' = [copies EXCEPT ![x] = "send"]
  /\ UNCHANGED <<config, pc, choice, attempt, client, kept, errch, ended, left>>

\* Mutant: the channel has no buffer.
RelaySendSync(x) ==
  /\ copies[x] = "send" /\ ~kept /\ pc = "relay" /\ errch = 0
  /\ copies' = [copies EXCEPT ![x] = "done"]
  /\ errch' = errch + 1
  /\ UNCHANGED <<config, pc, choice, attempt, client, kept, ended, left>>

\* errch has room for both results.
RelaySend(x) ==
  /\ copies[x] = "send" /\ ~kept /\ errch < 2
  /\ copies' = [copies EXCEPT ![x] = "done"]
  /\ errch' = errch + 1
  /\ UNCHANGED <<config, pc, choice, attempt, client, kept, ended, left>>

\* relay returns with the first result; both connections are closed.
RelayReturns ==
  /\ pc = "relay" /\ errch > 0
  /\ errch' = errch - 1
  /\ open' = open \ {conn}
  /\ Return
  /\ UNCHANGED <<config, choice, retry, conn, info, dialed, kept, copies, ended, left>>

\* Keep: the copy to the client is the caller, which then closes the client;
\* the goroutine for the other direction closes the server's connection.
KeepDownEnds ==
  /\ kept /\ copies["down"] = "send"
  /\ copies' = [copies EXCEPT !["down"] = "done"]
  /\ Return
  /\ UNCHANGED <<config, choice, attempt, kept, errch, ended, left>>

KeepUpEnds ==
  /\ kept /\ copies["up"] = "send"
  /\ open' = open \ {conn}
  /\ copies' = [copies EXCEPT !["up"] = "done"]
  /\ UNCHANGED <<config, pc, choice, retry, conn, info, dialed, client, kept, errch, ended, left>>

-----------------------------------------------------------------------------

Local ==
  \/ Choose \/ OutOfRange \/ Hello \/ HelloNoRule \/ Connect \/ Failed \/ Plain \/ PlainAgain \/ GiveUp
  \/ KeepOrRelay \/ Direct \/ Begin \/ RelayReturns \/ KeepDownEnds \/ KeepUpEnds

AwaitHello == HelloPassed \/ HelloRetry \/ HelloFails

Copy(x) == CopyEnds(x) \/ RelaySend(x)

RedirectNext ==
  \/ Local \/ ReadHeader \/ AwaitHello
  \/ \E x \in Directions : Copy(x)
  \/ \E p \in {"client", "server"} : PeerEnds(p)

\* The goroutines go on, and dial returns.  The reads of the header and of the
\* server's hello have no time limit of their own: they return when the peer
\* has ended.
Fairness ==
  /\ WF_redirectVars(Local)
  /\ WF_redirectVars("client" \in ended /\ ReadHeader)
  /\ WF_redirectVars("server" \in ended /\ AwaitHello)
  /\ \A x \in Directions : WF_redirectVars(Copy(x))

RedirectSpec == RedirectInit /\ [][RedirectNext]_redirectVars /\ Fairness

-----------------------------------------------------------------------------

\* The outbounds that Fallback leads to from o, and o: the least set with o that
\* Fallback does not leave.
Chain(o) ==
  {q \in Outbound : o # Nil /\ \A S \in SUBSET Outbound :
     o \in S /\ (\A r \in S : Fallback[r] \in S \cup {Nil}) => q \in S}

Settled == pc = "done" /\ ~client /\ \A x \in Directions : copies[x] \in {"none", "done"}

\* The outbound that goes with what is dialed: that of the rule of the address, of the
\* name, or the one that was stored with the fake address as long as its name is dialed.
OwnOutbound ==
  IF ~byName THEN ipRule
  ELSE IF lie # Nil /\ lie.Name = domain /\ lie.Interface # Nil THEN lie.Interface
  ELSE rule[domain]

\* Whatever is dialed is dialed by the outbound of its own name, fake address or
\* address, or by a fallback of it, never that of the name the client asked for before
\* its hello named another one; without one nothing is (tcp_redirect).
OutboundOfDomain ==
  pc \in {"connect", "plain", "plainAgain", "awaitHello"} => outbound \in Chain(OwnOutbound)

\* When a redirect is over, the only connections left open are those that dial returned
\* with an error, that gave no answer to the hello when no retry was left, and that the
\* request or the answer could not be written to or passed on from; every other one is
\* closed, those of retries before and after among them (tcp_redirect, relay, Keep).
AllClosed == Settled => open = left

\* When both peers have ended, the redirect ends with all its goroutines: the
\* retries and fallbacks come to an end, and neither copy is left waiting for the
\* channel of relay (tcp_redirect, relay, Keep).
RedirectEnds == {"client", "server"} \subseteq ended ~> Settled
=============================================================================
