--------------------------- MODULE ProxyConnProofs ---------------------------
(***************************************************************************)
(* Proofs about ProxyConn, for any schemas, any number of password rounds, *)
(* of queries and of changes of the active branch: types, that no query    *)
(* runs outside the schema that was looked up, and that the client gets    *)
(* the answers to its own queries and nothing else.                        *)
(***************************************************************************)
EXTENDS ProxyConn, SequenceTheorems, TLAPS

-----------------------------------------------------------------------------
(* The inductive invariant.  Client, handler and server pass one turn from *)
(* one to the next: at any time at most one of them has anything to read.  *)
(* Only while the handler injects its statement there are two turns, the   *)
(* client's and the statement's.                                           *)

Ready       == Msg("ready")
SetDone     == Msg("set done")
SetError    == Msg("set error")
QueryMsg(n) == [kind |-> "query", n |-> n]
AnswerTo(n) == [kind |-> "answer", n |-> n]

UpQuiet   == toProxy = <<>> /\ toServer = <<>>
DownQuiet == fromServer = <<>> /\ toClient = <<>>

\* What the handler reads before it forwards the start-up packet, whole or
\* without what it has read, and a password.
RequestPackets ==
    {<<Msg("length8"), Msg("ssl code")>>, <<Msg("ssl code")>>,
     <<Msg("length8"), Msg("gss code")>>, <<Msg("gss code")>>}
StartPackets == {StartupPacket, <<Msg("startup")>>, <<Msg("password")>>}

Greeted == client \in {"greeting", "starting", "closed"}
Started == client \in {"starting", "closed"}

StartUpTurn ==
    \/ UpQuiet /\ DownQuiet
    \/ Greeted /\ toProxy \in RequestPackets /\ toServer = <<>> /\ DownQuiet
    \/ Started /\ toProxy \in StartPackets /\ toServer = <<>> /\ DownQuiet
    \/ /\ Started /\ toServer \in {<<Msg("startup")>>, <<Msg("password")>>}
       /\ toProxy = <<>> /\ DownQuiet
    \/ /\ Started /\ fromServer \in {<<Msg("auth")>>, <<Msg("other auth")>>, <<Ready>>,
                                   <<Msg("refusal")>>}
       /\ toClient = <<>> /\ UpQuiet
    \/ /\ Greeted /\ toClient = <<Msg("no")>> /\ fromServer = <<>> /\ UpQuiet
    \/ /\ Started /\ toClient \in {<<Msg("auth")>>, <<Msg("other auth")>>, <<Msg("refusal")>>}
       /\ fromServer = <<>> /\ UpQuiet

StartUpSteps == {"dial", "length", "code", "second length", "payload", "relay", "password"}

\* Nothing has been looked up, and nothing but the start-up has crossed a socket.
StartingUp ==
    /\ handler \in StartUpSteps \cup {"ended"}
    /\ client \in {"new", "greeting", "starting", "closed"}
    /\ asked = 0 /\ got = <<>> /\ ran = <<>> /\ path = Public
    /\ StartUpTurn

\* The client has had the answers to all it has asked, or they are in the wires
\* to it: in toClient, and behind that in rest.
Answered(rest) ==
    /\ toProxy = <<>>
    /\ \/ /\ Len(got) = 2 * asked + 1 /\ client \in {"idle", "closed"}
          /\ toClient = <<>> /\ rest = <<>>
       \/ /\ Len(got) = 2 * asked /\ client \in {"starting", "busy", "closed"}
          /\ \/ toClient = <<Ready>> /\ rest = <<>>
             \/ toClient = <<>> /\ rest = <<Ready>>
       \/ /\ asked > 0 /\ Len(got) = 2 * asked - 1 /\ client \in {"busy", "closed"}
          /\ \/ toClient = <<AnswerTo(asked), Ready>> /\ rest = <<>>
             \/ toClient = <<AnswerTo(asked)>> /\ rest = <<Ready>>
             \/ toClient = <<>> /\ rest = <<AnswerTo(asked), Ready>>

\* The last query of the client is on its way to the server.
Asking(up, upper) ==
    /\ asked > 0 /\ Len(got) = 2 * asked - 1 /\ client \in {"busy", "closed"}
    /\ toClient = <<>>
    /\ up = <<QueryMsg(asked)>> /\ upper = <<>>

Routed(p) == p \in since \/ (failed /\ p = Public)

\* The statement has not been sent, is on its way, or has been answered.
StatementTurn ==
    \/ /\ handler # "drain" /\ toServer = <<>> /\ path = Public
       /\ fromServer = <<>>
    \/ /\ handler \in {"drain", "ended"} /\ toServer = <<Msg("set")>> /\ path = Public
       /\ fromServer = <<>>
    \/ /\ handler \in {"drain", "ended"} /\ toServer = <<>> /\ Routed(path)
       /\ fromServer \in {<<SetDone, Ready>>, <<SetError, Ready>>, <<Ready>>}

Opening ==
    /\ handler \in {"lookup", "inject", "drain", "ended"}
    /\ handler # "lookup" => Routed(found)
    /\ ran = <<>>
    /\ StatementTurn
    /\ Answered(<<>>) \/ Asking(toProxy, <<>>)

Piping ==
    /\ handler \in {"pipe", "ended"}
    /\ Routed(path)
    /\ \A i \in 1..Len(ran) : ran[i] = path
    /\ \/ toServer = <<>> /\ Answered(fromServer)
       \/ fromServer = <<>> /\ Asking(toProxy, toServer)
       \/ fromServer = <<>> /\ Asking(toServer, toProxy)

Turns == StartingUp \/ Opening \/ Piping

GotExpected == \A i \in 1..Len(got) : got[i] = Expected(i)

ConnInv ==
    /\ TypeOK
    /\ active \in since
    /\ GotExpected
    /\ Turns

-----------------------------------------------------------------------------
(* The bounds are numbers.                                                 *)
LEMMA Bounds ==
    /\ Public \in Schemas
    /\ MaxRounds \in Nat /\ MaxQueries \in Nat /\ MaxSwitches \in Nat
BY ConnAssumption

-----------------------------------------------------------------------------
(* Short sequences.                                                        *)

(* What the operators on sequences do to sequences of at most two messages, *)
(* which is all that a wire ever holds.                                     *)
LEMMA ShortSequences ==
    ASSUME NEW S, NEW a \in S, NEW b \in S
    PROVE  /\ Head(<<a>>) = a /\ Tail(<<a>>) = <<>> /\ <<a>> # <<>>
           /\ Head(<<a, b>>) = a /\ Tail(<<a, b>>) = <<b>> /\ <<a, b>> # <<>>
           /\ Append(<<>>, a) = <<a>> /\ Append(<<a>>, b) = <<a, b>>
           /\ <<>> \o <<a>> = <<a>> /\ <<>> \o <<a, b>> = <<a, b>>
  <1>1. Head(<<a>>) = a /\ Tail(<<a>>) = <<>> /\ <<a>> # <<>>
    OBVIOUS
  <1>2. Head(<<a, b>>) = a /\ Tail(<<a, b>>) = <<b>> /\ <<a, b>> # <<>>
    OBVIOUS
  <1>3. Append(<<>>, a) = <<a>> /\ Append(<<a>>, b) = <<a, b>>
    <2>1. Append(<<>>, a) = <<a>>
      OBVIOUS
    <2>2. Append(<<a>>, b) = <<a, b>>
      <3>1. <<a>> \in Seq(S) /\ Len(<<a>>) = 1 /\ <<a>>[1] = a
        OBVIOUS
      <3>2. /\ Append(<<a>>, b) \in Seq(S) /\ Len(Append(<<a>>, b)) = 2
            /\ Append(<<a>>, b)[1] = a /\ Append(<<a>>, b)[2] = b
        BY <3>1
      <3>3. <<a, b>> \in Seq(S) /\ Len(<<a, b>>) = 2 /\ <<a, b>>[1] = a /\ <<a, b>>[2] = b
        OBVIOUS
      <3> DEFINE s == Append(<<a>>, b)
                 t == <<a, b>>
      <3>4. s \in Seq(S) /\ t \in Seq(S) /\ Len(s) = Len(t)
        BY <3>2, <3>3
      <3>5. \A i \in 1..Len(s) : s[i] = t[i]
        BY <3>2, <3>3
      <3> HIDE DEF s, t
      <3>6. s = t
        BY <3>4, <3>5, SeqEqual
      <3> QED BY <3>6 DEF s, t
    <2> QED BY <2>1, <2>2
  <1>4. <<>> \o <<a>> = <<a>> /\ <<>> \o <<a, b>> = <<a, b>>
    OBVIOUS
  <1> QED BY <1>1, <1>2, <1>3, <1>4

(* What they do to any sequence over a set.                                *)
LEMMA SeqSteps ==
    ASSUME NEW S, NEW s \in Seq(S)
    PROVE  /\ s # <<>> => Head(s) \in S /\ Tail(s) \in Seq(S)
           /\ \A a \in S : Append(s, a) \in Seq(S) /\ s \o <<a>> \in Seq(S)
           /\ \A a, b \in S : s \o <<a, b>> \in Seq(S)
  OBVIOUS

(* The messages that the actions send are messages.                        *)
LEMMA MsgTypes ==
    /\ Msg("length8") \in Msgs /\ Msg("length") \in Msgs /\ Msg("ssl code") \in Msgs
    /\ Msg("gss code") \in Msgs /\ Msg("startup") \in Msgs /\ Msg("no") \in Msgs
    /\ Msg("auth") \in Msgs /\ Msg("password") \in Msgs /\ Msg("ready") \in Msgs
    /\ Msg("refusal") \in Msgs /\ Msg("set") \in Msgs /\ Msg("set done") \in Msgs
    /\ Msg("other auth") \in Msgs /\ Msg("set error") \in Msgs
    /\ \A n \in 0..MaxQueries : [kind |-> "query", n |-> n] \in Msgs
    /\ \A n \in 0..MaxQueries : [kind |-> "answer", n |-> n] \in Msgs
  BY Bounds DEF Msg, Msgs, Kinds

-----------------------------------------------------------------------------
(* Types.                                                                  *)

(* The steps of the environment, the client and the server.                *)
LEMMA PeersKeepTypes ==
    ASSUME TypeOK,
           \/ Switch \/ Greet \/ ClientReceives \/ Query \/ ClientCloses
           \/ ServerReceives \/ ServerCloses
    PROVE  TypeOK'
  <1> USE Bounds DEF TypeOK, envVars, clientVars, serverVars, proxyVars, wires
  <1>1. CASE Switch
    BY <1>1 DEF Switch
  <1>2. CASE Greet
    <2>1. \A a, b \in Msgs : toProxy \o <<a, b>> \in Seq(Msgs)
      BY SeqSteps
    <2>m. /\ Msg("length") \in Msgs /\ Msg("startup") \in Msgs /\ Msg("length8") \in Msgs
          /\ Msg("ssl code") \in Msgs /\ Msg("gss code") \in Msgs
      BY MsgTypes
    <2>p. \E a, b \in Msgs : toProxy' = toProxy \o <<a, b>>
      BY <1>2, <2>m DEF Greet, Send, StartupPacket
    <2>2. toProxy' \in Seq(Msgs)
      BY <2>1, <2>p
    <2>3. client' \in {"greeting", "starting"}
      BY <1>2 DEF Greet
    <2> QED BY <1>2, <2>2, <2>3 DEF Greet
  <1>3. CASE ClientReceives
    <2>1. toClient' \in Seq(Msgs) /\ Head(toClient) \in Msgs
      BY <1>3 DEF ClientReceives
    <2>2. got' \in Seq(Msgs)
      BY <1>3, <2>1 DEF ClientReceives
    <2>s. /\ \A a, b \in Msgs : toProxy \o <<a, b>> \in Seq(Msgs)
          /\ \A a \in Msgs : toProxy \o <<a>> \in Seq(Msgs)
      BY SeqSteps
    <2>3. toProxy' \in Seq(Msgs)
      BY <1>3, MsgTypes, <2>s, Zenon DEF ClientReceives, Send, StartupPacket
    <2>4. client' \in {"new", "greeting", "starting", "idle", "busy", "closed"}
      BY <1>3 DEF ClientReceives
    <2> QED BY <1>3, <2>1, <2>2, <2>3, <2>4 DEF ClientReceives
  <1>4. CASE Query
    <2>1. asked' \in 0..MaxQueries
      BY <1>4 DEF Query
    <2>2. toProxy' \in Seq(Msgs)
      <3>1. toProxy' = toProxy \o <<[kind |-> "query", n |-> asked']>>
        BY <1>4 DEF Query, Send
      <3>2. [kind |-> "query", n |-> asked'] \in Msgs
        BY <2>1, MsgTypes
      <3> QED BY <3>1, <3>2, SeqSteps
    <2> QED BY <1>4, <2>1, <2>2 DEF Query
  <1>5. CASE ClientCloses
    BY <1>5 DEF ClientCloses
  <1>6. CASE ServerReceives
    <2>0. toServer # <<>> /\ toServer' = Tail(toServer)
      BY <1>6 DEF ServerReceives
    <2>1. toServer' \in Seq(Msgs) /\ Head(toServer) \in Msgs
      BY <2>0, SeqSteps
    <2>2. Head(toServer).n \in 0..MaxQueries
      BY <2>1 DEF Msgs
    <2>s. /\ \A a, b \in Msgs : fromServer \o <<a, b>> \in Seq(Msgs)
          /\ \A a \in Msgs : fromServer \o <<a>> \in Seq(Msgs)
          /\ \A a \in Schemas : Append(ran, a) \in Seq(Schemas)
      BY SeqSteps
    <2> DEFINE m == Head(toServer)
    <2>c. /\ \/ \E kind \in {"auth", "other auth", "ready", "refusal"} : Reply(<<Msg(kind)>>)
             \/ Reply(<<Msg("set done"), Msg("ready")>>)
             \/ Reply(<<Msg("set error"), Msg("ready")>>)
             \/ Reply(<<[kind |-> "answer", n |-> m.n], Msg("ready")>>)
          /\ rounds' = rounds \/ (rounds > 0 /\ rounds' = rounds - 1)
          /\ server' \in {server, "auth", "session", "closed"}
          /\ path' \in {path, found} /\ failed' \in {failed, TRUE}
          /\ ran' \in {ran, Append(ran, path)}
      <3> HIDE DEF Reply
      <3>1. CASE m.kind \in {"startup", "password"}
        <4>1. \/ \E kind \in AuthKinds : Reply(<<Msg(kind)>>)
              \/ Reply(<<Msg("ready")>>)
              \/ Reply(<<Msg("refusal")>>)
          BY <1>6, <3>1, Zenon DEF ServerReceives
        <4>2. \E kind \in {"auth", "other auth", "ready", "refusal"} : Reply(<<Msg(kind)>>)
          BY <4>1, ConnAssumption, Zenon
        <4>3. /\ rounds' = rounds \/ (rounds > 0 /\ rounds' = rounds - 1)
              /\ server' \in {server, "auth", "session", "closed"}
              /\ path' = path /\ ran' = ran /\ failed' = failed
          BY <1>6, <3>1, Zenon DEF ServerReceives
        <4> HIDE DEF TypeOK
        <4> QED BY <4>2, <4>3, Zenon
      <3>2. CASE m.kind = "set"
        BY <1>6, <3>2, Zenon DEF ServerReceives
      <3>3. CASE m.kind = "query"
        BY <1>6, <3>3, Zenon DEF ServerReceives
      <3> QED BY <1>6, <3>1, <3>2, <3>3, Zenon DEF ServerReceives
    <2>3. fromServer' \in Seq(Msgs)
      <3>m. /\ \A kind \in {"auth", "other auth", "ready", "refusal", "set done", "set error"} :
                 Msg(kind) \in Msgs
            /\ [kind |-> "answer", n |-> m.n] \in Msgs
        BY MsgTypes, <2>2
      <3>1. CASE \E kind \in {"auth", "other auth", "ready", "refusal"} : Reply(<<Msg(kind)>>)
        BY <3>1, <3>m, <2>s DEF Reply
      <3>2. CASE Reply(<<Msg("set done"), Msg("ready")>>)
        BY <3>2, <3>m, <2>s DEF Reply
      <3>4. CASE Reply(<<Msg("set error"), Msg("ready")>>)
        BY <3>4, <3>m, <2>s DEF Reply
      <3>3. CASE Reply(<<[kind |-> "answer", n |-> m.n], Msg("ready")>>)
        <4> DEFINE a == [kind |-> "answer", n |-> m.n]
        <4>1. a \in Msgs
          BY <3>m
        <4>2. Reply(<<a, Msg("ready")>>)
          BY <3>3
        <4> HIDE DEF a
        <4> QED BY <4>1, <4>2, <3>m, <2>s DEF Reply
      <3> QED BY <3>1, <3>2, <3>3, <3>4, <2>c
    <2>4. rounds' \in 0..MaxRounds /\ server' \in {"new", "auth", "session", "closed"}
      <3>0. rounds \in 0..MaxRounds /\ MaxRounds \in Nat
        OBVIOUS
      <3>1. rounds' \in 0..MaxRounds
        <4>1. rounds' = rounds \/ (rounds > 0 /\ rounds' = rounds - 1)
          BY <2>c
        <4> HIDE DEF TypeOK
        <4> QED BY <3>0, <4>1
      <3>2. server' \in {"new", "auth", "session", "closed"}
        BY <2>c
      <3> QED BY <3>1, <3>2
    <2>5. path' \in Schemas /\ ran' \in Seq(Schemas)
      BY <2>c, <2>s
    <2>6. failed' \in BOOLEAN
      <3>1. failed \in BOOLEAN
        OBVIOUS
      <3> HIDE DEF TypeOK
      <3> QED BY <2>c, <3>1, Zenon
    <2> QED BY <2>6, <1>6, <2>1, <2>3, <2>4, <2>5 DEF ServerReceives
  <1>7. CASE ServerCloses
    BY <1>7 DEF ServerCloses
  <1> QED BY <1>1, <1>2, <1>3, <1>4, <1>5, <1>6, <1>7

(* The steps of the handler and of the two copying goroutines.             *)
LEMMA ProxyKeepsTypes ==
    ASSUME TypeOK, HandlerStep \/ CopierStep
    PROVE  TypeOK'
  <1> USE Bounds DEF TypeOK, envVars, clientVars, serverVars, wires, At, Goto,
                             HandlerSteps
  <1>m. /\ Msg("no") \in Msgs /\ Msg("startup") \in Msgs /\ Msg("password") \in Msgs
        /\ Msg("set") \in Msgs
    BY MsgTypes
  <1>a. /\ \A a \in Msgs : Append(toServer, a) \in Seq(Msgs)
        /\ \A a \in Msgs : Append(toClient, a) \in Seq(Msgs)
    BY SeqSteps
  <1>f. ASSUME NEW kinds, FromClient(kinds)
        PROVE  toProxy' \in Seq(Msgs)
    <2>1. toProxy # <<>> /\ toProxy' = Tail(toProxy)
      BY <1>f DEF FromClient
    <2> QED BY <2>1, SeqSteps
  <1>1. CASE Dial
    BY <1>1 DEF Dial
  <1>2. CASE ReadLength
    BY <1>2, <1>f DEF ReadLength
  <1>3. CASE ReadCode
    <2>1. toClient' \in Seq(Msgs)
      BY <1>3, <1>m, <1>a, Zenon DEF ReadCode
    <2> QED BY <1>3, <1>f, <2>1 DEF ReadCode
  <1>4. CASE ReadSecondLength
    BY <1>4, <1>f DEF ReadSecondLength
  <1>5. CASE ForwardStartup
    BY <1>5, <1>f, <1>m, <1>a DEF ForwardStartup
  <1>6. CASE Relay
    <2>1. Head(fromServer) \in Msgs /\ fromServer' \in Seq(Msgs)
      BY <1>6 DEF Relay
    <2>2. handler' \in HandlerSteps
      BY <1>6 DEF Relay
    <2> QED BY <1>6, <2>1, <2>2 DEF Relay
  <1>7. CASE RelayPassword
    BY <1>7, <1>f, <1>m, <1>a DEF RelayPassword
  <1>8. CASE Lookup
    BY <1>8 DEF Lookup
  <1>9. CASE Inject
    BY <1>9, <1>m, <1>a DEF Inject
  <1>10. CASE Drain
    <2>1. fromServer # <<>> /\ fromServer' = Tail(fromServer)
      BY <1>10 DEF Drain
    <2>2. fromServer' \in Seq(Msgs)
      BY <2>1, SeqSteps
    <2>3. handler' \in HandlerSteps
      BY <1>10, Zenon DEF Drain
    <2>4. copier' \in [{"up", "down"} -> {"off", "running", "done"}]
      BY <1>10 DEF Drain
    <2> QED BY <1>10, <2>2, <2>3, <2>4 DEF Drain
  <1>11. CASE HandlerFails
    BY <1>11 DEF HandlerFails
  <1>12. CASE PipeEnds
    BY <1>12 DEF PipeEnds
  <1>13. CASE CopyUp
    BY <1>13 DEF CopyUp, proxyVars
  <1>14. CASE CopyDown
    BY <1>14 DEF CopyDown, proxyVars
  <1>15. CASE \E d \in {"up", "down"} : CopyEnds(d)
    <2>1. PICK d \in {"up", "down"} :
            /\ copier' = [copier EXCEPT ![d] = "done"]
            /\ UNCHANGED <<envVars, clientVars, serverVars, handler, found, failed, wires>>
      BY <1>15, Zenon DEF CopyEnds
    <2> QED BY <2>1
  <1> QED BY <1>1, <1>2, <1>3, <1>4, <1>5, <1>6, <1>7, <1>8, <1>9, <1>10, <1>11, <1>12,
             <1>13, <1>14, <1>15 DEF HandlerStep, CopierStep

-----------------------------------------------------------------------------
(* Turns.                                                                  *)

(* ShortSequences for messages, as the proofs below use it.                *)
LEMMA ShortMsgs ==
    \A a, b \in Msgs :
        /\ Head(<<a>>) = a /\ Tail(<<a>>) = <<>> /\ <<a>> # <<>>
        /\ Head(<<a, b>>) = a /\ Tail(<<a, b>>) = <<b>> /\ <<a, b>> # <<>>
        /\ Append(<<>>, a) = <<a>> /\ Append(<<a>>, b) = <<a, b>>
        /\ <<>> \o <<a>> = <<a>> /\ <<>> \o <<a, b>> = <<a, b>>
  BY ShortSequences

(* A change of the active branch disturbs no turn: the schema that a       *)
(* handler has looked up was active once and stays among those.            *)
LEMMA SwitchKeepsTurns ==
    ASSUME ConnInv, Switch
    PROVE  Turns'
  <1> USE DEF Switch, clientVars, serverVars, proxyVars, wires
  <1>1. ASSUME StartingUp PROVE StartingUp'
    BY <1>1 DEF StartingUp, StartUpTurn, UpQuiet, DownQuiet, Greeted, Started
  <1>r. (Routed(found) => Routed(found)') /\ (Routed(path) => Routed(path)')
    BY DEF Routed
  <1>2. ASSUME Opening PROVE Opening'
    BY <1>2, <1>r DEF Opening, StatementTurn, Answered, Asking
  <1>3. ASSUME Piping PROVE Piping'
    BY <1>3, <1>r DEF Piping, Answered, Asking
  <1> QED BY <1>1, <1>2, <1>3 DEF ConnInv, Turns

(* Neither does a peer that goes away.                                     *)
LEMMA ClosingKeepsTurns ==
    ASSUME ConnInv, ClientCloses \/ ServerCloses
    PROVE  Turns'
  <1> USE DEF ClientCloses, ServerCloses, envVars, serverVars, proxyVars, wires, clientVars
  <1>u. /\ UNCHANGED <<envVars, asked, got, path, ran, proxyVars, wires>>
        /\ client' \in {client, "closed"}
    OBVIOUS
  <1> USE DEF Greeted, Started
  <1>1. ASSUME StartingUp PROVE StartingUp'
    BY <1>1, <1>u DEF StartingUp, StartUpTurn, UpQuiet, DownQuiet
  <1>r. (Routed(found) => Routed(found)') /\ (Routed(path) => Routed(path)')
    BY <1>u DEF Routed
  <1>2. ASSUME Opening PROVE Opening'
    BY <1>2, <1>r, <1>u DEF Opening, StatementTurn, Answered, Asking
  <1>3. ASSUME Piping PROVE Piping'
    BY <1>3, <1>r, <1>u DEF Piping, Answered, Asking
  <1> QED BY <1>1, <1>2, <1>3 DEF ConnInv, Turns

(* A client that begins finds nothing in the wires.                        *)
LEMMA GreetKeepsTurns ==
    ASSUME ConnInv, Greet
    PROVE  Turns'
  <1>1. client = "new"
    BY DEF Greet
  <1>2. StartingUp
    BY <1>1 DEF ConnInv, Turns, Opening, Piping, Answered, Asking
  <1>3. UpQuiet /\ DownQuiet
    BY <1>1, <1>2 DEF StartingUp, StartUpTurn, Greeted, Started
  <1>4. /\ UNCHANGED <<handler, asked, got, ran, path, toServer, fromServer, toClient>>
        /\ \/ toProxy' = StartupPacket /\ client' = "starting"
           \/ /\ client' = "greeting"
              /\ toProxy' \in {<<Msg("length8"), Msg("ssl code")>>,
                               <<Msg("length8"), Msg("gss code")>>}
    <2>1. \A a, b \in Msgs : toProxy \o <<a, b>> = <<a, b>>
      BY <1>3, ShortMsgs DEF UpQuiet
    <2>2. /\ Msg("length") \in Msgs /\ Msg("startup") \in Msgs /\ Msg("length8") \in Msgs
          /\ Msg("ssl code") \in Msgs /\ Msg("gss code") \in Msgs
      BY MsgTypes
    <2>3. /\ toProxy \o StartupPacket = StartupPacket
          /\ toProxy \o <<Msg("length8"), Msg("ssl code")>> = <<Msg("length8"), Msg("ssl code")>>
          /\ toProxy \o <<Msg("length8"), Msg("gss code")>> = <<Msg("length8"), Msg("gss code")>>
      BY <2>1, <2>2 DEF StartupPacket
    <2>4. \/ toProxy' = StartupPacket /\ client' = "starting"
          \/ /\ client' = "greeting"
             /\ toProxy' \in {<<Msg("length8"), Msg("ssl code")>>,
                              <<Msg("length8"), Msg("gss code")>>}
      BY <2>3, Zenon DEF Greet, Send
    <2> QED BY <2>4 DEF Greet, proxyVars, serverVars
  <1>5. StartUpTurn'
    BY <1>3, <1>4 DEF StartUpTurn, UpQuiet, DownQuiet, Greeted, Started, StartPackets,
                      RequestPackets
  <1>6. StartingUp'
    BY <1>2, <1>4, <1>5 DEF StartingUp
  <1> QED BY <1>6 DEF Turns

(* A client that asks has had all answers.                                 *)
LEMMA QueryKeepsTurns ==
    ASSUME ConnInv, Query
    PROVE  Turns'
  <1> USE DEF Query, envVars, serverVars, proxyVars
  <1>1. /\ client = "idle" /\ client' = "busy" /\ asked' = asked + 1 /\ asked \in Nat
        /\ UNCHANGED <<since, got, path, ran, handler, found, failed, toServer, fromServer,
                       toClient>>
    BY Bounds DEF ConnInv, TypeOK
  <1>2. ~StartingUp
    BY <1>1 DEF StartingUp
  <1>3. toProxy = <<>> => toProxy' = <<QueryMsg(asked')>>
    <2>1. QueryMsg(asked') \in Msgs
      <3>1. asked' \in 0..MaxQueries
        BY <1>1, Bounds DEF ConnInv, TypeOK
      <3> QED BY <3>1, MsgTypes DEF QueryMsg
    <2>2. toProxy' = toProxy \o <<QueryMsg(asked')>>
      BY DEF Send, QueryMsg
    <2> HIDE DEF Query
    <2> QED BY <2>1, <2>2, ShortMsgs
  <1>4. ASSUME NEW rest, Answered(rest)
        PROVE  /\ toProxy = <<>> /\ toClient = <<>> /\ rest = <<>>
               /\ asked' > 0 /\ Len(got') = 2 * asked' - 1
    BY <1>1, <1>4 DEF Answered
  <1>5. ASSUME NEW up, NEW upper PROVE ~Asking(up, upper)
    BY <1>1 DEF Asking
  <1>r. (Routed(found) => Routed(found)') /\ (Routed(path) => Routed(path)')
    BY <1>1 DEF Routed
  <1> HIDE DEF Query
  <1>6. ASSUME Opening PROVE Opening'
    <2>1. Answered(<<>>)
      BY <1>5, <1>6 DEF Opening
    <2>2. Asking(toProxy, <<>>)'
      BY <2>1, <1>1, <1>3, <1>4 DEF Asking
    <2> QED BY <1>1, <1>6, <1>r, <2>2 DEF Opening, StatementTurn
  <1>7. ASSUME Piping PROVE Piping'
    <2>1. toServer = <<>> /\ Answered(fromServer)
      BY <1>5, <1>7 DEF Piping
    <2>2. Asking(toProxy, toServer)'
      BY <2>1, <1>1, <1>3, <1>4 DEF Asking
    <2>3. fromServer' = <<>>
      BY <2>1, <1>1, <1>4
    <2> QED BY <1>1, <1>7, <1>r, <2>2, <2>3 DEF Piping
  <1> QED BY <1>2, <1>6, <1>7 DEF ConnInv, Turns

(* What the messages of a session are, and where they stand in got.        *)
LEMMA SessionMsgs ==
    ASSUME TypeOK
    PROVE  /\ asked \in Nat /\ Len(got) \in Nat /\ got \in Seq(Msgs)
           /\ Ready \in Msgs /\ SetDone \in Msgs /\ SetError \in Msgs
           /\ AnswerTo(asked) \in Msgs /\ QueryMsg(asked) \in Msgs
           /\ Ready.kind = "ready" /\ AnswerTo(asked).kind = "answer"
           /\ QueryMsg(asked).kind = "query" /\ QueryMsg(asked).n = asked
           /\ SetDone.kind = "set done" /\ SetError.kind = "set error"
           /\ \A kind : Msg(kind).kind = kind
  <1>1. asked \in 0..MaxQueries /\ got \in Seq(Msgs)
    BY DEF TypeOK
  <1>2. AnswerTo(asked) \in Msgs /\ QueryMsg(asked) \in Msgs
    BY <1>1, MsgTypes DEF AnswerTo, QueryMsg
  <1>3. Ready \in Msgs /\ SetDone \in Msgs /\ SetError \in Msgs
    BY MsgTypes DEF Ready, SetDone, SetError
  <1>4. \A kind : Msg(kind).kind = kind
    BY DEF Msg
  <1>5. /\ Ready.kind = "ready" /\ AnswerTo(asked).kind = "answer"
        /\ QueryMsg(asked).kind = "query" /\ QueryMsg(asked).n = asked
        /\ SetDone.kind = "set done" /\ SetError.kind = "set error"
    BY <1>4 DEF Ready, AnswerTo, QueryMsg, SetDone, SetError
  <1>6. asked \in Nat /\ Len(got) \in Nat
    BY <1>1, Bounds
  <1> QED BY <1>1, <1>2, <1>3, <1>4, <1>5, <1>6

(* The client takes the next message of the session.                       *)
LEMMA ReceiveOfSession ==
    ASSUME ConnInv, ClientReceives, NEW rest, Answered(rest)
    PROVE  /\ toProxy' = <<>> /\ got' = Append(got, Head(toClient))
           /\ \/ /\ Head(toClient) = Ready /\ Len(got) = 2 * asked
                 /\ rest = <<>> /\ toClient' = <<>> /\ client' = "idle"
              \/ /\ Head(toClient) = AnswerTo(asked) /\ Len(got) = 2 * asked - 1
                 /\ client' = "busy"
                 /\ \/ rest = <<>> /\ toClient' = <<Ready>>
                    \/ rest = <<Ready>> /\ toClient' = <<>>
  <1>0. TypeOK
    BY DEF ConnInv
  <1>s. /\ Ready \in Msgs /\ AnswerTo(asked) \in Msgs
        /\ Ready.kind = "ready" /\ AnswerTo(asked).kind = "answer"
    BY <1>0, SessionMsgs
  <1>1. client # "closed" /\ toClient # <<>> /\ toClient' = Tail(toClient)
    BY DEF ClientReceives
  <1>2. toProxy = <<>>
    BY DEF Answered
  <1>3. CASE toClient = <<Ready>>
    <2>1. Head(toClient) = Ready /\ toClient' = <<>>
      BY <1>1, <1>3, <1>s, ShortMsgs
    <2>2. got' = Append(got, Ready) /\ client' = "idle" /\ toProxy' = toProxy
      BY <2>1, <1>s DEF ClientReceives, Dialogue, Requests
    <2>3. toClient # <<AnswerTo(asked)>> /\ toClient # <<AnswerTo(asked), Ready>>
      BY <2>1, <1>s, ShortMsgs
    <2>4. Len(got) = 2 * asked /\ rest = <<>>
      BY <1>1, <1>3, <2>3 DEF Answered
    <2> QED BY <1>2, <2>1, <2>2, <2>4
  <1>4. CASE toClient = <<AnswerTo(asked), Ready>> \/ toClient = <<AnswerTo(asked)>>
    <2>1. /\ Head(toClient) = AnswerTo(asked)
          /\ \/ toClient = <<AnswerTo(asked), Ready>> /\ toClient' = <<Ready>>
             \/ toClient = <<AnswerTo(asked)>> /\ toClient' = <<>>
      BY <1>1, <1>4, <1>s, ShortMsgs
    <2>2. got' = Append(got, AnswerTo(asked)) /\ client' = client /\ toProxy' = toProxy
      BY <2>1, <1>s DEF ClientReceives, Dialogue, Requests
    <2>3. toClient # <<Ready>>
      BY <2>1, <1>s, ShortMsgs
    <2>4. <<AnswerTo(asked)>> # <<AnswerTo(asked), Ready>>
      BY <1>s, ShortMsgs
    <2>5. /\ Len(got) = 2 * asked - 1 /\ client \in {"busy", "closed"}
          /\ \/ toClient = <<AnswerTo(asked), Ready>> /\ rest = <<>>
             \/ toClient = <<AnswerTo(asked)>> /\ rest = <<Ready>>
      BY <1>1, <2>3 DEF Answered
    <2> QED BY <1>1, <1>2, <2>1, <2>2, <2>4, <2>5
  <1> QED BY <1>1, <1>3, <1>4 DEF Answered

(* Places in got: answers at even ones, the ends of replies at odd ones.   *)
LEMMA Places ==
    \A n \in Nat : Expected(2 * n + 1) = Ready /\ Expected(2 * n) = AnswerTo(n)
  <1>1. \A n \in Nat : (2 * n + 1) % 2 = 1 /\ (2 * n) % 2 = 0 /\ (2 * n) \div 2 = n
    OBVIOUS
  <1> QED BY <1>1 DEF Expected, Ready, AnswerTo

(* What the client receives is what it expects, and it goes on from there. *)
LEMMA ReceiveKeepsTurns ==
    ASSUME ConnInv, ClientReceives
    PROVE  Turns' /\ GotExpected'
  <1>0. TypeOK
    BY DEF ConnInv
  <1>u. UNCHANGED <<since, asked, path, ran, handler, found, failed, toServer, fromServer>>
    BY DEF ClientReceives, envVars, serverVars, proxyVars
  <1>t. client # "closed" /\ toClient # <<>> /\ toClient' = Tail(toClient)
    BY DEF ClientReceives
  <1>s. asked \in Nat /\ Len(got) \in Nat /\ got \in Seq(Msgs)
    BY <1>0, SessionMsgs
  <1>r. (Routed(found) => Routed(found)') /\ (Routed(path) => Routed(path)')
    BY <1>u DEF Routed
  <1>1. ASSUME StartingUp PROVE StartingUp' /\ got' = got
    <2> DEFINE m == Head(toClient)
    <2>1. PICK kind \in {"no", "auth", "other auth", "refusal"} :
            /\ toClient = <<Msg(kind)>>
            /\ kind # "no" => Started
            /\ Greeted /\ UpQuiet /\ fromServer = <<>>
      BY <1>1, <1>t DEF StartingUp, StartUpTurn, DownQuiet, Started, Greeted
    <2>2. Msg(kind) \in Msgs /\ Msg(kind).kind = kind
      BY MsgTypes, SessionMsgs, <1>0
    <2>3. m = Msg(kind) /\ toClient' = <<>> /\ m.kind = kind
      BY <1>t, <2>1, <2>2, ShortMsgs
    <2>4. got' = got
      BY <2>3 DEF ClientReceives, Dialogue, Requests
    <2>5. \A a, b \in Msgs : toProxy \o <<a>> = <<a>> /\ toProxy \o <<a, b>> = <<a, b>>
      BY <2>1, ShortMsgs DEF UpQuiet
    <2>6. /\ toProxy \o StartupPacket = StartupPacket
          /\ toProxy \o <<Msg("password")>> = <<Msg("password")>>
      <3>1. Msg("length") \in Msgs /\ Msg("startup") \in Msgs /\ Msg("password") \in Msgs
        BY MsgTypes
      <3> QED BY <3>1, <2>5 DEF StartupPacket
    <2>7. \/ kind = "no" /\ client' = "starting" /\ toProxy' = StartupPacket
          \/ kind \in {"auth", "other auth"} /\ client' = client /\ toProxy' = <<Msg("password")>>
          \/ kind = "refusal" /\ client' = client /\ toProxy' = toProxy
      <3> HIDE DEF m
      <3> QED BY <2>1, <2>3, <2>6 DEF ClientReceives, Requests, Send, m
    <2>8. StartUpTurn'
      BY <1>u, <2>1, <2>3, <2>7 DEF StartUpTurn, UpQuiet, DownQuiet, Started, Greeted,
                                    StartPackets
    <2>9. client' \in {"new", "greeting", "starting", "closed"}
      BY <2>1, <2>7 DEF Greeted
    <2> QED BY <1>1, <1>u, <2>4, <2>8, <2>9 DEF StartingUp
  <1>2. ASSUME NEW rest, Answered(rest)
        PROVE  /\ GotExpected' /\ toProxy' = <<>>
               /\ \/ /\ Len(got') = 2 * asked' + 1 /\ client' = "idle"
                     /\ toClient' = <<>> /\ rest = <<>>
                  \/ /\ Len(got') = 2 * asked' /\ client' = "busy"
                     /\ \/ toClient' = <<Ready>> /\ rest = <<>>
                        \/ toClient' = <<>> /\ rest = <<Ready>>
    <2>1. /\ toProxy' = <<>> /\ got' = Append(got, Head(toClient))
          /\ \/ /\ Head(toClient) = Ready /\ Len(got) = 2 * asked
                /\ rest = <<>> /\ toClient' = <<>> /\ client' = "idle"
             \/ /\ Head(toClient) = AnswerTo(asked) /\ Len(got) = 2 * asked - 1
                /\ client' = "busy"
                /\ \/ rest = <<>> /\ toClient' = <<Ready>>
                   \/ rest = <<Ready>> /\ toClient' = <<>>
      BY <1>2, ReceiveOfSession
    <2>2. Head(toClient) = Expected(Len(got) + 1)
      <3>1. CASE Head(toClient) = Ready /\ Len(got) = 2 * asked
        BY <3>1, <1>s, Places
      <3>2. CASE Head(toClient) = AnswerTo(asked) /\ Len(got) = 2 * asked - 1
        <4>1. Len(got) + 1 = 2 * asked
          BY <3>2, <1>s
        <4> QED BY <3>2, <4>1, <1>s, Places
      <3> QED BY <2>1, <3>1, <3>2
    <2>3. Head(toClient) \in Msgs
      BY <1>0, <1>t, SeqSteps DEF TypeOK
    <2>4. /\ Len(got') = Len(got) + 1 /\ got'[Len(got) + 1] = Head(toClient)
          /\ \A i \in 1..Len(got) : got'[i] = got[i]
      BY <2>1, <2>3, <1>s
    <2>5. GotExpected'
      <3> SUFFICES ASSUME NEW i \in 1..Len(got') PROVE got'[i] = Expected(i)
        BY DEF GotExpected
      <3>1. CASE i \in 1..Len(got)
        BY <3>1, <2>4 DEF ConnInv, GotExpected
      <3>2. CASE i = Len(got) + 1
        BY <3>2, <2>2, <2>4
      <3> QED BY <3>1, <3>2, <2>4, <1>s
    <2> QED BY <1>s, <1>u, <2>1, <2>4, <2>5
  <1>3. ASSUME NEW up, NEW upper PROVE ~Asking(up, upper)
    BY <1>t DEF Asking
  <1>4. ASSUME Opening PROVE Opening' /\ GotExpected'
    <2>1. Answered(<<>>)
      BY <1>3, <1>4 DEF Opening
    <2>2. Answered(<<>>)' /\ GotExpected'
      BY <1>2, <2>1 DEF Answered
    <2> QED BY <1>4, <1>r, <1>u, <2>2 DEF Opening, StatementTurn
  <1>5. ASSUME Piping PROVE Piping' /\ GotExpected'
    <2>1. toServer = <<>> /\ Answered(fromServer)
      BY <1>3, <1>5 DEF Piping
    <2>2. Answered(fromServer)' /\ GotExpected'
      BY <1>2, <1>u, <2>1 DEF Answered
    <2> QED BY <1>5, <1>r, <1>u, <2>1, <2>2 DEF Piping
  <1> QED BY <1>1, <1>4, <1>5 DEF ConnInv, Turns, GotExpected

(* What the server is sent it answers with its whole reply.                *)
LEMMA ServeKeepsTurns ==
    ASSUME ConnInv, ServerReceives
    PROVE  Turns'
  <1>0. TypeOK
    BY DEF ConnInv
  <1>u. /\ UNCHANGED <<since, asked, got, client, handler, found, toProxy, toClient>>
        /\ failed => failed'
    <2>1. UNCHANGED <<since, asked, got, client, handler, found, toProxy, toClient>>
      BY DEF ServerReceives, envVars, clientVars
    <2>2. failed' = failed \/ failed' = TRUE
      BY Zenon DEF ServerReceives
    <2> QED BY <2>1, <2>2
  <1>t. toServer # <<>> /\ toServer' = Tail(toServer)
    BY DEF ServerReceives
  <1>s. /\ asked \in Nat /\ Ready \in Msgs /\ SetDone \in Msgs /\ SetError \in Msgs
        /\ AnswerTo(asked) \in Msgs /\ QueryMsg(asked) \in Msgs
        /\ QueryMsg(asked).kind = "query" /\ QueryMsg(asked).n = asked
        /\ \A kind : Msg(kind).kind = kind
    BY <1>0, SessionMsgs
  <1>m. /\ Msg("startup") \in Msgs /\ Msg("password") \in Msgs /\ Msg("set") \in Msgs
        /\ Msg("auth") \in Msgs /\ Msg("other auth") \in Msgs /\ Msg("refusal") \in Msgs
    BY MsgTypes
  <1>r. (Routed(found) => Routed(found)') /\ (Routed(path) /\ path' = path => Routed(path)')
    BY <1>u DEF Routed
  <1>1. ASSUME StartingUp PROVE StartingUp'
    <2>1. PICK kind \in {"startup", "password"} : toServer = <<Msg(kind)>>
      BY <1>1, <1>t DEF StartingUp, StartUpTurn, UpQuiet
    <2>2. Msg(kind) \in Msgs
      BY <1>m
    <2>3. toServer' = <<>> /\ Head(toServer).kind \in {"startup", "password"}
      BY <1>t, <1>s, <2>1, <2>2, ShortMsgs
    <2>4. Started /\ toProxy = <<>> /\ DownQuiet
      <3>1. \A a, b \in Msgs : <<a>> # <<>>
        BY ShortMsgs
      <3> QED BY <1>1, <1>t DEF StartingUp, StartUpTurn, UpQuiet, Started
    <2>5. \A a \in Msgs : fromServer \o <<a>> = <<a>>
      BY <2>4, ShortMsgs DEF DownQuiet
    <2>6. /\ \/ fromServer' = <<Msg("auth")>>
             \/ fromServer' = <<Msg("other auth")>>
             \/ fromServer' = <<Ready>>
             \/ fromServer' = <<Msg("refusal")>>
          /\ ran' = ran /\ path' = path
      <3>1. /\ \/ fromServer' = fromServer \o <<Msg("auth")>>
               \/ fromServer' = fromServer \o <<Msg("other auth")>>
               \/ fromServer' = fromServer \o <<Ready>>
               \/ fromServer' = fromServer \o <<Msg("refusal")>>
            /\ ran' = ran /\ path' = path
        BY <2>3, ConnAssumption DEF ServerReceives, Reply, Ready
      <3> QED BY <3>1, <2>5, <1>m, <1>s
    <2>7. StartUpTurn'
      BY <1>u, <2>3, <2>4, <2>6 DEF StartUpTurn, UpQuiet, DownQuiet, Started
    <2> QED BY <1>1, <1>u, <2>6, <2>7 DEF StartingUp
  <1>2. ASSUME Opening PROVE Opening'
    <2>1. /\ handler \in {"drain", "ended"} /\ toServer = <<Msg("set")>>
          /\ fromServer = <<>> /\ path = Public /\ Routed(found)
      BY <1>2, <1>t DEF Opening, StatementTurn
    <2>2. toServer' = <<>> /\ Head(toServer).kind = "set"
      BY <1>t, <1>s, <1>m, <2>1, ShortMsgs
    <2>3. /\ \/ fromServer' = fromServer \o <<SetDone, Ready>> /\ path' = found
             \/ fromServer' = fromServer \o <<SetError, Ready>> /\ path' = path /\ failed'
          /\ ran' = ran
      BY <2>2, Zenon DEF ServerReceives, Reply, SetDone, SetError, Ready
    <2>4. fromServer' \in {<<SetDone, Ready>>, <<SetError, Ready>>}
      BY <2>1, <2>3, <1>s, ShortMsgs
    <2>5. Routed(path)'
      BY <1>r, <1>u, <2>1, <2>3 DEF Routed
    <2> QED BY <1>2, <1>r, <1>u, <2>1, <2>2, <2>3, <2>4, <2>5
            DEF Opening, StatementTurn, Answered, Asking
  <1>3. ASSUME Piping PROVE Piping'
    <2>1. fromServer = <<>> /\ (Asking(toServer, toProxy) \/ Asking(toProxy, toServer))
      BY <1>3, <1>t DEF Piping
    <2>2. Asking(toServer, toProxy)
      BY <1>t, <2>1 DEF Asking
    <2>3. /\ asked > 0 /\ Len(got) = 2 * asked - 1 /\ client \in {"busy", "closed"}
          /\ toClient = <<>> /\ toServer = <<QueryMsg(asked)>> /\ toProxy = <<>>
      BY <2>2 DEF Asking
    <2>4. toServer' = <<>> /\ Head(toServer) = QueryMsg(asked)
      BY <1>t, <1>s, <2>3, ShortMsgs
    <2>5. /\ fromServer' = fromServer \o <<AnswerTo(asked), Ready>> /\ path' = path
          /\ ran' = Append(ran, path)
      BY <2>4, <1>s DEF ServerReceives, Reply, AnswerTo, Ready
    <2>6. fromServer' = <<AnswerTo(asked), Ready>>
      BY <2>1, <2>5, <1>s, ShortMsgs
    <2>7. Answered(fromServer)'
      BY <1>u, <2>3, <2>6 DEF Answered
    <2>8. \A i \in 1..Len(ran') : ran'[i] = path'
      <3>1. ran \in Seq(Schemas) /\ path \in Schemas
        BY <1>0 DEF TypeOK
      <3>2. \A i \in 1..Len(ran) : ran[i] = path
        BY <1>3 DEF Piping
      <3>3. /\ Len(ran') = Len(ran) + 1 /\ ran'[Len(ran) + 1] = path
            /\ \A i \in 1..Len(ran) : ran'[i] = ran[i]
        BY <2>5, <3>1
      <3> QED BY <2>5, <3>1, <3>2, <3>3
    <2> QED BY <1>3, <1>r, <1>u, <2>4, <2>5, <2>7, <2>8 DEF Piping
  <1> QED BY <1>1, <1>2, <1>3 DEF ConnInv, Turns

(* Reading and forwarding the start-up: Dial to RelayPassword, Relay left  *)
(* out.                                                                    *)
LEMMA ForwardingKeepsTurns ==
    ASSUME ConnInv,
           Dial \/ ReadLength \/ ReadCode \/ ReadSecondLength \/ ForwardStartup \/ RelayPassword
    PROVE  Turns'
  <1> USE DEF At, Goto
  <1>u. UNCHANGED <<asked, got, client, ran, path, fromServer>>
    BY DEF Dial, ReadLength, ReadCode, ReadSecondLength, ForwardStartup, RelayPassword,
           clientVars, serverVars, wires
  <1>h. handler \in StartUpSteps \ {"relay"} /\ handler' \in StartUpSteps \cup {"ended"}
    BY DEF Dial, ReadLength, ReadCode, ReadSecondLength, ForwardStartup, RelayPassword,
           StartUpSteps
  <1>1. StartingUp
    BY <1>h DEF ConnInv, Turns, Opening, Piping, StartUpSteps
  <1>s. \A kind : Msg(kind).kind = kind
    BY SessionMsgs DEF ConnInv
  <1>m. /\ Msg("length") \in Msgs /\ Msg("length8") \in Msgs /\ Msg("ssl code") \in Msgs
        /\ Msg("gss code") \in Msgs /\ Msg("startup") \in Msgs /\ Msg("password") \in Msgs
        /\ Msg("no") \in Msgs
    BY MsgTypes
  <1>2. CASE Dial
    BY <1>2, <1>1, <1>h, <1>u
       DEF Dial, Turns, StartingUp, StartUpTurn, UpQuiet, DownQuiet, Started, Greeted, wires
  <1>3. CASE ~Dial
    <2>1. PICK kinds : FromClient(kinds)
      BY <1>3 DEF ReadLength, ReadCode, ReadSecondLength, ForwardStartup, RelayPassword
    <2>2. toProxy # <<>> /\ toProxy' = Tail(toProxy)
      BY <2>1 DEF FromClient
    <2>3. /\ toServer = <<>> /\ DownQuiet /\ Greeted
          /\ toProxy \in RequestPackets \/ (toProxy \in StartPackets /\ Started)
      BY <1>1, <2>2 DEF StartingUp, StartUpTurn, UpQuiet, Started, Greeted
    <2>4. \/ /\ toProxy = <<Msg("length8"), Msg("ssl code")>> /\ Head(toProxy).kind = "length8"
             /\ toProxy' = <<Msg("ssl code")>>
          \/ /\ toProxy = <<Msg("length8"), Msg("gss code")>> /\ Head(toProxy).kind = "length8"
             /\ toProxy' = <<Msg("gss code")>>
          \/ /\ toProxy = <<Msg("ssl code")>> /\ Head(toProxy).kind = "ssl code"
             /\ toProxy' = <<>>
          \/ /\ toProxy = <<Msg("gss code")>> /\ Head(toProxy).kind = "gss code"
             /\ toProxy' = <<>>
          \/ /\ Started /\ toProxy = StartupPacket /\ Head(toProxy).kind = "length"
             /\ toProxy' = <<Msg("startup")>>
          \/ /\ Started /\ toProxy = <<Msg("startup")>> /\ Head(toProxy).kind = "startup"
             /\ toProxy' = <<>>
          \/ /\ Started /\ toProxy = <<Msg("password")>> /\ Head(toProxy).kind = "password"
             /\ toProxy' = <<>>
      <3>1. CASE toProxy = <<Msg("length8"), Msg("ssl code")>>
        BY <3>1, <1>m, <1>s, <2>2, ShortMsgs
      <3>2. CASE toProxy = <<Msg("length8"), Msg("gss code")>>
        BY <3>2, <1>m, <1>s, <2>2, ShortMsgs
      <3>3. CASE toProxy = <<Msg("ssl code")>>
        BY <3>3, <1>m, <1>s, <2>2, ShortMsgs
      <3>4. CASE toProxy = <<Msg("gss code")>>
        BY <3>4, <1>m, <1>s, <2>2, ShortMsgs
      <3>5. CASE Started /\ toProxy = StartupPacket
        BY <3>5, <1>m, <1>s, <2>2, ShortMsgs DEF StartupPacket
      <3>6. CASE Started /\ toProxy = <<Msg("startup")>>
        BY <3>6, <1>m, <1>s, <2>2, ShortMsgs
      <3>7. CASE Started /\ toProxy = <<Msg("password")>>
        BY <3>7, <1>m, <1>s, <2>2, ShortMsgs
      <3> QED BY <2>3, <3>1, <3>2, <3>3, <3>4, <3>5, <3>6, <3>7 DEF RequestPackets, StartPackets
    <2>5. ASSUME \/ ReadLength \/ ReadSecondLength
          PROVE  StartUpTurn'
      <3>1. /\ Head(toProxy).kind \in {"length8", "length"}
            /\ UNCHANGED <<toServer, toClient>>
        BY <2>5 DEF ReadLength, ReadSecondLength, FromClient
      <3>2. \/ toProxy' \in {<<Msg("ssl code")>>, <<Msg("gss code")>>}
            \/ Started /\ toProxy' = <<Msg("startup")>>
        BY <2>4, <3>1
      <3> QED BY <1>u, <2>3, <3>1, <3>2
              DEF StartUpTurn, UpQuiet, DownQuiet, Started, Greeted, RequestPackets, StartPackets
    <2>6. ASSUME ReadCode
          PROVE  StartUpTurn'
      <3>1. /\ Head(toProxy).kind \in {"ssl code", "gss code"}
            /\ toServer' = toServer
            /\ toClient' \in {toClient, Append(toClient, Msg("no"))}
        BY <2>6 DEF ReadCode, FromClient
      <3>2. toProxy' = <<>>
        BY <2>4, <3>1
      <3>3. Append(toClient, Msg("no")) = <<Msg("no")>>
        BY <1>m, <2>3, ShortMsgs DEF DownQuiet
      <3> QED BY <1>u, <2>3, <3>1, <3>2, <3>3 DEF StartUpTurn, UpQuiet, DownQuiet, Greeted
    <2>7. ASSUME ForwardStartup \/ RelayPassword
          PROVE  StartUpTurn'
      <3>1. /\ Head(toProxy).kind \in {"startup", "password"}
            /\ toServer' \in {Append(toServer, Msg("startup")),
                              Append(toServer, Msg("password"))}
            /\ toClient' = toClient
        BY <2>7 DEF ForwardStartup, RelayPassword, FromClient
      <3>2. toProxy' = <<>> /\ Started
        BY <2>4, <3>1
      <3>3. toServer' \in {<<Msg("startup")>>, <<Msg("password")>>}
        BY <1>m, <2>3, <3>1, ShortMsgs
      <3> QED BY <1>u, <2>3, <3>1, <3>2, <3>3 DEF StartUpTurn, DownQuiet, Started
    <2> QED BY <1>1, <1>3, <1>h, <1>u, <2>5, <2>6, <2>7 DEF Turns, StartingUp
  <1> QED BY <1>2, <1>3

(* Before the first query the client has had nothing of the session.       *)
LEMMA NothingYet == Len(<<>>) = 2 * 0
  <1>1. Len(<<>>) = 0
    BY EmptySeq
  <1> QED BY <1>1

(* Relaying a message of the server; the end of the start-up opens the     *)
(* session.                                                                *)
LEMMA RelayKeepsTurns ==
    ASSUME ConnInv, Relay
    PROVE  Turns'
  <1>u. /\ UNCHANGED <<asked, got, client, ran, path, toProxy, toServer>>
        /\ fromServer # <<>> /\ fromServer' = Tail(fromServer)
        /\ toClient' = Append(toClient, Head(fromServer))
    BY DEF Relay, clientVars, serverVars
  <1>1. StartingUp
    BY DEF Relay, At, ConnInv, Turns, Opening, Piping
  <1>2. PICK kind \in {"auth", "other auth", "ready", "refusal"} :
          /\ fromServer = <<Msg(kind)>>
          /\ Started /\ toClient = <<>> /\ UpQuiet
    BY <1>1, <1>u DEF StartingUp, StartUpTurn, DownQuiet, Started, Ready
  <1>3. Msg(kind) \in Msgs /\ Msg(kind).kind = kind
    BY MsgTypes, SessionMsgs DEF ConnInv
  <1>4. fromServer' = <<>> /\ toClient' = <<Msg(kind)>> /\ Head(fromServer).kind = kind
    BY <1>u, <1>2, <1>3, ShortMsgs
  <1>5. /\ kind = "ready" => handler' = "lookup"
        /\ kind # "ready" => handler' \in {"password", "relay"}
    BY <1>4 DEF Relay, Goto
  <1>6. CASE kind = "ready"
    <2>1. toClient' = <<Ready>>
      BY <1>4, <1>6 DEF Ready
    <2>2. Len(got') = 2 * asked'
      <3>1. got' = <<>> /\ asked' = 0
        BY <1>1, <1>u DEF StartingUp
      <3> QED BY <3>1, NothingYet, Zenon
    <2>3. Answered(<<>>)'
      BY <1>2, <1>u, <2>1, <2>2 DEF Answered, Started, UpQuiet
    <2>4. Opening'
      BY <1>1, <1>2, <1>4, <1>5, <1>6, <1>u, <2>3 DEF Opening, StatementTurn, StartingUp, UpQuiet
    <2> QED BY <2>4 DEF Turns
  <1>7. CASE kind # "ready"
    <2>1. StartUpTurn'
      BY <1>2, <1>4, <1>7, <1>u DEF StartUpTurn, UpQuiet, Started
    <2>2. StartingUp'
      BY <1>1, <1>5, <1>7, <1>u, <2>1 DEF StartingUp, StartUpSteps
    <2> QED BY <2>2 DEF Turns
  <1> QED BY <1>6, <1>7

(* The lookup, the statement and the answer to it.                         *)
LEMMA InjectionKeepsTurns ==
    ASSUME ConnInv, Lookup \/ Inject \/ Drain
    PROVE  Turns'
  <1> USE DEF At, Goto
  <1>0. TypeOK
    BY DEF ConnInv
  <1>u. UNCHANGED <<active, since, asked, got, client, path, ran, toProxy, toClient>>
    BY DEF Lookup, Inject, Drain, envVars, clientVars, serverVars, wires
  <1>h. handler \in {"lookup", "inject", "drain"}
    BY DEF Lookup, Inject, Drain
  <1>1. Opening
    BY <1>h DEF ConnInv, Turns, StartingUp, Piping, StartUpSteps
  <1>2. /\ Answered(<<>>)' \/ Asking(toProxy, <<>>)'
        /\ Answered(<<>>) \/ Asking(toProxy, <<>>)
    BY <1>1, <1>u DEF Opening, Answered, Asking
  <1>3. CASE Lookup
    <2>1. /\ handler = "lookup" /\ handler' = "inject"
          /\ UNCHANGED <<toServer, fromServer>>
          /\ found' = active \/ (found' = Public /\ failed')
      BY <1>3 DEF Lookup, wires
    <2>2. Routed(found)'
      BY <1>u, <2>1 DEF Routed, ConnInv
    <2>3. Opening'
      BY <1>1, <1>2, <1>u, <2>1, <2>2 DEF Opening, StatementTurn
    <2> QED BY <2>3 DEF Turns
  <1>4. CASE Inject
    <2>1. /\ handler = "inject" /\ handler' = "drain"
          /\ UNCHANGED <<found, failed, fromServer>>
          /\ toServer' = Append(toServer, Msg("set"))
      BY <1>4 DEF Inject
    <2>2. toServer = <<>> /\ fromServer = <<>>
      BY <1>1, <2>1 DEF Opening, StatementTurn
    <2>3. toServer' = <<Msg("set")>>
      BY <2>1, <2>2, ShortMsgs, MsgTypes
    <2>4. Routed(found)'
      BY <1>1, <1>u, <2>1 DEF Routed, Opening
    <2>5. Opening'
      BY <1>1, <1>2, <1>u, <2>1, <2>2, <2>3, <2>4 DEF Opening, StatementTurn
    <2> QED BY <2>5 DEF Turns
  <1>5. CASE Drain
    <2>1. /\ handler = "drain" /\ UNCHANGED <<found, failed, toServer>>
          /\ fromServer # <<>> /\ fromServer' = Tail(fromServer)
      BY <1>5 DEF Drain
    <2>s. /\ Ready \in Msgs /\ SetDone \in Msgs /\ SetError \in Msgs /\ Ready.kind = "ready"
          /\ SetDone.kind = "set done" /\ SetError.kind = "set error"
      BY <1>0, SessionMsgs
    <2>3. /\ toServer = <<>> /\ Routed(found) /\ Routed(path)
          /\ fromServer \in {<<SetDone, Ready>>, <<SetError, Ready>>, <<Ready>>}
      BY <1>1, <2>1 DEF Opening, StatementTurn
    <2>2. Routed(found)' /\ Routed(path)'
      BY <1>u, <2>1, <2>3 DEF Routed
    <2>4. CASE fromServer = <<SetDone, Ready>> \/ fromServer = <<SetError, Ready>>
      <3>1. Head(fromServer) \in {SetDone, SetError} /\ fromServer' = <<Ready>>
        BY <2>1, <2>4, <2>s, ShortMsgs
      <3>2. handler' = handler
        BY <1>5, <2>s, <3>1 DEF Drain
      <3>3. Opening'
        BY <1>1, <1>2, <1>u, <2>1, <2>2, <2>3, <3>1, <3>2 DEF Opening, StatementTurn
      <3> QED BY <3>3 DEF Turns
    <2>5. CASE fromServer = <<Ready>>
      <3>1. Head(fromServer) = Ready /\ fromServer' = <<>>
        BY <2>1, <2>5, <2>s, ShortMsgs
      <3>2. handler' = "pipe"
        BY <1>5, <2>s, <3>1 DEF Drain
      <3>3. \A i \in 1..Len(ran') : ran'[i] = path'
        BY <1>1, <1>u DEF Opening
      <3>4. toServer' = <<>>
        BY <1>u, <2>1, <2>3
      <3>5. Answered(fromServer)' \/ Asking(toProxy, toServer)'
        BY <1>2, <3>1, <3>4 DEF Answered, Asking
      <3>6. Piping'
        BY <2>2, <3>1, <3>2, <3>3, <3>4, <3>5 DEF Piping
      <3> QED BY <3>6 DEF Turns
    <2> QED BY <2>3, <2>4, <2>5
  <1> QED BY <1>3, <1>4, <1>5

(* The handler gives up, or the pipe ends.                                 *)
LEMMA EndingKeepsTurns ==
    ASSUME ConnInv, HandlerFails \/ PipeEnds \/ (\E d \in {"up", "down"} : CopyEnds(d))
    PROVE  Turns'
  <1>1. /\ UNCHANGED <<since, asked, got, client, path, ran, found, failed>>
        /\ UNCHANGED <<toProxy, toServer, fromServer, toClient>>
        /\ \/ handler' = handler
           \/ handler' = "ended" /\ handler # "lookup"
    <2>1. CASE HandlerFails
      BY <2>1 DEF HandlerFails, ReadFails, WriteFails, At, Goto, envVars, clientVars, serverVars,
                  wires
    <2>2. CASE PipeEnds
      BY <2>2 DEF PipeEnds, At, Goto, envVars, clientVars, serverVars, wires
    <2>3. CASE \E d \in {"up", "down"} : CopyEnds(d)
      BY <2>3 DEF CopyEnds, envVars, clientVars, serverVars, wires
    <2> QED BY <2>1, <2>2, <2>3
  <1>2. ASSUME StartingUp PROVE StartingUp'
    BY <1>1, <1>2 DEF StartingUp, StartUpTurn, UpQuiet, DownQuiet, Started, Greeted
  <1>r. (Routed(found) => Routed(found)') /\ (Routed(path) => Routed(path)')
    BY <1>1 DEF Routed
  <1>3. ASSUME Opening PROVE Opening'
    BY <1>1, <1>3, <1>r DEF Opening, StatementTurn, Answered, Asking
  <1>4. ASSUME Piping PROVE Piping'
    BY <1>1, <1>4, <1>r DEF Piping, Answered, Asking
  <1> QED BY <1>2, <1>3, <1>4 DEF ConnInv, Turns

(* What the two goroutines copy is the next message of the turn.           *)
LEMMA CopyingKeepsTurns ==
    ASSUME ConnInv, CopyUp \/ CopyDown
    PROVE  Turns'
  <1>0. TypeOK
    BY DEF ConnInv
  <1>u. /\ UNCHANGED <<since, asked, got, client, path, ran, handler, found, failed>>
        /\ handler = "pipe"
    BY DEF CopyUp, CopyDown, envVars, clientVars, serverVars, proxyVars
  <1>1. Piping
    BY <1>u DEF ConnInv, Turns, StartingUp, Opening, StartUpSteps
  <1>r. Routed(path)'
    BY <1>1, <1>u DEF Routed, Piping
  <1>s. Ready \in Msgs /\ AnswerTo(asked) \in Msgs /\ QueryMsg(asked) \in Msgs
    BY <1>0, SessionMsgs
  <1>2. CASE CopyUp
    <2>1. /\ toProxy # <<>> /\ toProxy' = Tail(toProxy)
          /\ toServer' = Append(toServer, Head(toProxy))
          /\ UNCHANGED <<fromServer, toClient>>
      BY <1>2 DEF CopyUp
    <2>2. fromServer = <<>> /\ Asking(toProxy, toServer)
      BY <1>1, <2>1 DEF Piping, Answered, Asking
    <2>3. toProxy' = <<>> /\ toServer' = <<QueryMsg(asked)>>
      BY <1>s, <2>1, <2>2, ShortMsgs DEF Asking
    <2>4. Asking(toServer, toProxy)'
      BY <1>u, <2>1, <2>2, <2>3 DEF Asking
    <2> QED BY <1>1, <1>r, <1>u, <2>1, <2>2, <2>4 DEF Piping, Turns
  <1>3. CASE CopyDown
    <2>1. /\ fromServer # <<>> /\ fromServer' = Tail(fromServer)
          /\ toClient' = Append(toClient, Head(fromServer))
          /\ UNCHANGED <<toProxy, toServer>>
      BY <1>3 DEF CopyDown
    <2>2. toServer = <<>> /\ Answered(fromServer)
      BY <1>1, <2>1 DEF Piping
    <2>3. \/ /\ fromServer = <<Ready>> /\ toClient = <<>>
             /\ fromServer' = <<>> /\ toClient' = <<Ready>>
          \/ /\ fromServer = <<Ready>> /\ toClient = <<AnswerTo(asked)>>
             /\ fromServer' = <<>> /\ toClient' = <<AnswerTo(asked), Ready>>
          \/ /\ fromServer = <<AnswerTo(asked), Ready>> /\ toClient = <<>>
             /\ fromServer' = <<Ready>> /\ toClient' = <<AnswerTo(asked)>>
      <3>1. CASE fromServer = <<Ready>> /\ toClient = <<>>
        BY <1>s, <2>1, <3>1, ShortMsgs
      <3>2. CASE fromServer = <<Ready>> /\ toClient = <<AnswerTo(asked)>>
        BY <1>s, <2>1, <3>2, ShortMsgs
      <3>3. CASE fromServer = <<AnswerTo(asked), Ready>> /\ toClient = <<>>
        BY <1>s, <2>1, <3>3, ShortMsgs
      <3> QED BY <2>1, <2>2, <3>1, <3>2, <3>3 DEF Answered
    <2>d. /\ <<Ready>> # <<AnswerTo(asked), Ready>>
          /\ <<Ready>> # <<>> /\ <<AnswerTo(asked)>> # <<>>
          /\ <<AnswerTo(asked), Ready>> # <<>>
      BY <1>s, ShortMsgs
    <2>4. Answered(fromServer)'
      BY <1>u, <2>1, <2>2, <2>3, <2>d DEF Answered
    <2> QED BY <1>1, <1>r, <1>u, <2>1, <2>2, <2>4 DEF Piping, Turns
  <1> QED BY <1>2, <1>3

-----------------------------------------------------------------------------
(* Theorems.                                                               *)

(* The schemas that were active include the one that is, after any step.   *)
LEMMA ActiveIsKnown ==
    ASSUME ConnInv, [Next]_vars
    PROVE  (active \in since)'
  <1>1. CASE Switch
    BY <1>1 DEF Switch
  <1>2. CASE Next /\ ~Switch
    <2>1. UNCHANGED <<active, since>>
      BY <1>2 DEF Next, envVars, HandlerStep, CopierStep, Greet, ClientReceives, Query,
           ClientCloses, ServerReceives, ServerCloses, Dial, ReadLength, ReadCode,
           ReadSecondLength, ForwardStartup, Relay, RelayPassword, Lookup, Inject, Drain,
           HandlerFails, PipeEnds, CopyUp, CopyDown, CopyEnds
    <2> QED BY <2>1 DEF ConnInv
  <1>3. CASE UNCHANGED vars
    BY <1>3 DEF ConnInv, vars, envVars
  <1> QED BY <1>1, <1>2, <1>3

(* Nobody but the client itself adds to what it has received.              *)
LEMMA OthersLeaveGot ==
    ASSUME Next, ~ClientReceives
    PROVE  got' = got
  BY DEF Next, clientVars, HandlerStep, CopierStep, Switch, Greet, Query, ClientCloses,
         ServerReceives, ServerCloses, Dial, ReadLength, ReadCode, ReadSecondLength,
         ForwardStartup, Relay, RelayPassword, Lookup, Inject, Drain, HandlerFails, PipeEnds,
         CopyUp, CopyDown, CopyEnds

(* The inductive invariant: of the client's turn and that of the injected  *)
(* statement, what is where in each phase of a connection.                 *)
THEOREM ConnInvariance == Spec => []ConnInv
  <1>1. Init => ConnInv
    <2> SUFFICES ASSUME Init PROVE ConnInv
      OBVIOUS
    <2>1. TypeOK
      <3> USE Bounds DEF Init
      <3>1. /\ active \in Schemas /\ since \subseteq Schemas /\ path \in Schemas
            /\ found \in Schemas
        OBVIOUS
      <3>4. /\ switches \in 0..MaxSwitches /\ asked \in 0..MaxQueries
            /\ rounds \in 0..MaxRounds
        OBVIOUS
      <3>5. failed \in BOOLEAN
        BY Zenon
      <3>2. /\ client = "new" /\ server = "new" /\ handler \in HandlerSteps
            /\ copier \in [{"up", "down"} -> {"off", "running", "done"}]
        BY DEF HandlerSteps
      <3>3. /\ got \in Seq(Msgs) /\ ran \in Seq(Schemas) /\ toProxy \in Seq(Msgs)
            /\ toServer \in Seq(Msgs) /\ fromServer \in Seq(Msgs) /\ toClient \in Seq(Msgs)
        OBVIOUS
      <3> HIDE DEF Init
      <3> QED BY <3>1, <3>2, <3>3, <3>4, <3>5 DEF TypeOK
    <2>2. StartingUp
      BY DEF Init, StartingUp, StartUpTurn, UpQuiet, DownQuiet, StartUpSteps
    <2>3. active \in since /\ GotExpected
      BY DEF Init, GotExpected
    <2> QED BY <2>1, <2>2, <2>3 DEF ConnInv, Turns
  <1>2. ConnInv /\ [Next]_vars => ConnInv'
    <2> SUFFICES ASSUME ConnInv, [Next]_vars PROVE ConnInv'
      OBVIOUS
    <2>1. CASE Next
      <3>1. TypeOK'
        BY <2>1, PeersKeepTypes, ProxyKeepsTypes DEF Next, ConnInv
      <3>2. Turns'
        BY <2>1, SwitchKeepsTurns, GreetKeepsTurns, ReceiveKeepsTurns, QueryKeepsTurns,
           ClosingKeepsTurns, ServeKeepsTurns, ForwardingKeepsTurns, RelayKeepsTurns,
           InjectionKeepsTurns, EndingKeepsTurns, CopyingKeepsTurns
           DEF Next, HandlerStep, CopierStep
      <3>3. GotExpected'
        BY <2>1, ReceiveKeepsTurns, OthersLeaveGot DEF ConnInv, GotExpected
      <3>4. (active \in since)'
        BY ActiveIsKnown
      <3> QED BY <3>1, <3>2, <3>3, <3>4 DEF ConnInv
    <2>2. CASE UNCHANGED vars
      <3>1. TypeOK'
        BY <2>2 DEF ConnInv, vars, envVars, clientVars, serverVars, proxyVars, wires, TypeOK
      <3>2. UNCHANGED <<since, client, asked, got, path, ran, handler, found, failed, wires>>
        BY <2>2 DEF vars, envVars, clientVars, serverVars, proxyVars
      <3>3. StartingUp => StartingUp'
        BY <3>2 DEF StartingUp, StartUpTurn, UpQuiet, DownQuiet, Started, Greeted, wires
      <3>4. Opening => Opening'
        BY <3>2 DEF Opening, StatementTurn, Answered, Asking, Routed, wires
      <3>5. Piping => Piping'
        BY <3>2 DEF Piping, Answered, Asking, Routed, wires
      <3>6. (active \in since)' /\ GotExpected'
        BY <2>2 DEF ConnInv, GotExpected, vars, envVars, clientVars
      <3> QED BY <3>1, <3>3, <3>4, <3>5, <3>6 DEF ConnInv, Turns
    <2> QED BY <2>1, <2>2
  <1> QED BY <1>1, <1>2, PTL DEF Spec

(* The types hold throughout: what the handler, its goroutines and both    *)
(* peers do, and what crosses the sockets.                                 *)
THEOREM ConnTypeCorrect == Spec => []TypeOK
  <1>1. ConnInv => TypeOK
    BY DEF ConnInv
  <1> QED BY <1>1, ConnInvariance, PTL

(* No query runs anywhere but in a branch that was active at some time     *)
(* since the connection was accepted, or in public for want of one or      *)
(* after a failed lookup or a failed SET, for any schemas and however      *)
(* often the active branch changes.                                        *)
THEOREM QueriesRouted == Spec => []QueriesAreRouted
  <1>1. ConnInv => QueriesAreRouted
    <2> SUFFICES ASSUME ConnInv, NEW i \in 1..Len(ran)
                 PROVE  ran[i] \in since \/ (failed /\ ran[i] = Public)
      BY DEF QueriesAreRouted
    <2>1. CASE ran = <<>>
      BY <2>1
    <2>2. CASE Piping
      BY <2>2 DEF Piping, Routed
    <2> QED BY <2>1, <2>2 DEF ConnInv, Turns, StartingUp, Opening
  <1> QED BY <1>1, ConnInvariance, PTL

(* The client sees the end of the start-up and then the answers to its own *)
(* queries, in order and each once, for any number of queries, password    *)
(* rounds and changes of the active branch: the answer to the injected     *)
(* statement never reaches it, nor does an answer get lost before another. *)
THEOREM AnswersAreOwn == Spec => []ClientSeesOwnAnswers
  <1>1. ConnInv => ClientSeesOwnAnswers
    <2> SUFFICES ASSUME ConnInv PROVE ClientSeesOwnAnswers
      OBVIOUS
    <2>1. \A i \in 1..Len(got) : got[i] = Expected(i)
      BY DEF ConnInv, GotExpected
    <2>2. asked \in Nat
      BY SessionMsgs DEF ConnInv
    <2>3. Len(got) <= 2 * asked + 1
      <3>1. CASE StartingUp
        BY <3>1, <2>2 DEF StartingUp
      <3>2. ASSUME NEW rest, Answered(rest) PROVE Len(got) <= 2 * asked + 1
        BY <3>2, <2>2 DEF Answered
      <3>3. ASSUME NEW up, NEW upper, Asking(up, upper) PROVE Len(got) <= 2 * asked + 1
        BY <3>3, <2>2 DEF Asking
      <3> QED BY <3>1, <3>2, <3>3 DEF ConnInv, Turns, Opening, Piping
    <2> QED BY <2>1, <2>3 DEF ClientSeesOwnAnswers
  <1> QED BY <1>1, ConnInvariance, PTL

=============================================================================
