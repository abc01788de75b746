------------------------------ MODULE ProxyConn ------------------------------
(***************************************************************************)
(* One client connection through the proxy (internal/proxy,                *)
(* handleConnection): the handler relays the start-up, looks the active    *)
(* branch up, injects SET search_path and drops the answer to it, and then *)
(* leaves the two sockets to two copying goroutines.  Client and server    *)
(* follow the PostgreSQL protocol; either may go away at any time.         *)
(*                                                                         *)
(* An operator named in a parenthesis before a definition is a wrong form  *)
(* of that definition, kept to show that some property notices the bug.    *)
(***************************************************************************)
EXTENDS Integers, Sequences

CONSTANTS
    Schemas,       \* schema names of branches, and "public"
    Greetings,     \* how the client may begin: "plain", "ssl", "gss"
    AuthKinds,     \* what the server may ask for: "auth", "other auth"
    MaxRounds,     \* most password messages that the server asks for
    MaxQueries,    \* bound on queries of the client
    MaxSwitches    \* bound on changes of the active branch

Public == "public"

ASSUME ConnAssumption ==
    /\ Public \in Schemas
    /\ Greetings \subseteq {"plain", "ssl", "gss"}
    /\ AuthKinds \subseteq {"auth", "other auth"}
    /\ MaxRounds \in Nat /\ MaxQueries \in Nat /\ MaxSwitches \in Nat

\* What crosses a socket.  The client's first packets come as a length word and
\* the rest, since the handler reads them so.  n numbers the queries.  "auth" is
\* a request of type 3, 5, 10 or 11, "other auth" one of type 7, 8 or 9 (GSSAPI
\* and SSPI), which needs an answer of the client just as well.
Kinds == {"length8", "length", "ssl code", "gss code", "startup", "no", "auth",
          "other auth", "password", "ready", "refusal", "set", "set done", "set error",
          "query", "answer"}
Msgs  == [kind : Kinds, n : 0..MaxQueries]
Msg(kind) == [kind |-> kind, n |-> 0]
Requests == {"auth", "other auth"}
Dialogue == Requests \cup {"no", "refusal"}

VARIABLES
    active,     \* schema of the active branch, Public if there is none
    switches,   \* changes of the active branch left
    since,      \* schemas that were active at some time since the accept
    client,     \* what the client is doing
    asked,      \* queries it has sent
    got,        \* what it has received of the session, after the start-up dialogue
    server,     \* what the server is doing
    rounds,     \* password messages it will still ask for
    path,       \* search_path of the server's session
    ran,        \* search_path under which each query has run
    handler,    \* where the handler is
    found,      \* the schema it looked up
    failed,     \* for the properties: its lookup or the statement has failed
    copier,     \* the two copying goroutines
    toProxy,    \* client to proxy
    toServer,   \* proxy to server
    fromServer, \* server to proxy
    toClient    \* proxy to client

envVars    == <<active, switches, since>>
clientVars == <<client, asked, got>>
serverVars == <<server, rounds, path, ran>>
proxyVars  == <<handler, found, failed, copier>>
wires      == <<toProxy, toServer, fromServer, toClient>>
vars       == <<envVars, clientVars, serverVars, proxyVars, wires>>

HandlerSteps == {"dial", "length", "code", "second length", "payload", "relay", "password",
                 "lookup", "inject", "drain", "pipe", "ended"}

TypeOK ==
    /\ active \in Schemas
    /\ switches \in 0..MaxSwitches
    /\ since \subseteq Schemas
    /\ client \in {"new", "greeting", "starting", "idle", "busy", "closed"}
    /\ asked \in 0..MaxQueries
    /\ got \in Seq(Msgs)
    /\ server \in {"new", "auth", "session", "closed"}
    /\ rounds \in 0..MaxRounds
    /\ path \in Schemas
    /\ ran \in Seq(Schemas)
    /\ handler \in HandlerSteps
    /\ found \in Schemas
    /\ failed \in BOOLEAN
    /\ copier \in [{"up", "down"} -> {"off", "running", "done"}]
    /\ toProxy \in Seq(Msgs)
    /\ toServer \in Seq(Msgs)
    /\ fromServer \in Seq(Msgs)
    /\ toClient \in Seq(Msgs)

Init ==
    /\ active \in Schemas
    /\ switches = MaxSwitches
    /\ since = {active}
    /\ client = "new" /\ asked = 0 /\ got = <<>>
    /\ server = "new" /\ rounds \in 0..MaxRounds /\ path = Public /\ ran = <<>>
    /\ handler = "dial" /\ found = Public /\ failed = FALSE
    /\ copier = [d \in {"up", "down"} |-> "off"]
    /\ toProxy = <<>> /\ toServer = <<>> /\ fromServer = <<>> /\ toClient = <<>>

\* chuck checkout, merge or drop, by somebody else.
Switch ==
    /\ switches > 0
    /\ switches' = switches - 1
    /\ active' \in Schemas \ {active}
    /\ since' = since \cup {active'}
    /\ UNCHANGED <<clientVars, serverVars, proxyVars, wires>>

-----------------------------------------------------------------------------
(* The client.                                                             *)

StartupPacket == <<Msg("length"), Msg("startup")>>

Send(packet) == toProxy' = toProxy \o packet

Greet ==
    /\ client = "new"
    /\ \/ /\ "plain" \in Greetings
          /\ Send(StartupPacket)
          /\ client' = "starting"
       \/ /\ "ssl" \in Greetings
          /\ Send(<<Msg("length8"), Msg("ssl code")>>)
          /\ client' = "greeting"
       \/ /\ "gss" \in Greetings
          /\ Send(<<Msg("length8"), Msg("gss code")>>)
          /\ client' = "greeting"
    /\ UNCHANGED <<envVars, asked, got, serverVars, proxyVars, toServer, fromServer, toClient>>

ClientReceives ==
    /\ client # "closed"
    /\ toClient # <<>>
    /\ toClient' = Tail(toClient)
    /\ LET m == Head(toClient)
       IN  /\ got' = IF m.kind \in Dialogue THEN got ELSE Append(got, m)
           /\ \/ /\ m.kind = "no"
                 /\ client' = "starting"
                 /\ Send(StartupPacket)
              \/ /\ m.kind \in Requests
                 /\ Send(<<Msg("password")>>)
                 /\ UNCHANGED client
              \/ /\ m.kind = "ready"
                 /\ client' = "idle"
                 /\ UNCHANGED toProxy
              \/ /\ m.kind \notin Requests \cup {"no", "ready"}
                 /\ UNCHANGED <<client, toProxy>>
    /\ UNCHANGED <<envVars, asked, serverVars, proxyVars, toServer, fromServer>>

Query ==
    /\ client = "idle"
    /\ asked < MaxQueries
    /\ asked' = asked + 1
    /\ Send(<<[kind |-> "query", n |-> asked']>>)
    /\ client' = "busy"
    /\ UNCHANGED <<envVars, got, serverVars, proxyVars, toServer, fromServer, toClient>>

ClientCloses ==
    /\ client # "closed"
    /\ client' = "closed"
    /\ UNCHANGED <<envVars, asked, got, serverVars, proxyVars, wires>>

-----------------------------------------------------------------------------
(* The server: start-up, password rounds or a refusal, then one reply to   *)
(* each query.  The injected statement may be refused, as by a timeout or  *)
(* a cancel request.                                                       *)

Reply(ms) == fromServer' = fromServer \o ms

ServerReceives ==
    /\ server # "closed"
    /\ toServer # <<>>
    /\ toServer' = Tail(toServer)
    /\ LET m == Head(toServer)
       IN  \/ /\ m.kind \in {"startup", "password"}
              /\ \/ /\ rounds > 0
                    /\ rounds' = rounds - 1
                    /\ server' = "auth"
                    /\ \E kind \in AuthKinds : Reply(<<Msg(kind)>>)
                 \/ /\ rounds = 0
                    /\ server' = "session"
                    /\ Reply(<<Msg("ready")>>)
                    /\ UNCHANGED rounds
                 \/ /\ server' = "closed"
                    /\ Reply(<<Msg("refusal")>>)
                    /\ UNCHANGED rounds
              /\ UNCHANGED <<path, ran, failed>>
           \/ /\ m.kind = "set"
              /\ \/ /\ path' = found
                    /\ Reply(<<Msg("set done"), Msg("ready")>>)
                    /\ UNCHANGED failed
                 \/ /\ failed' = TRUE
                    /\ Reply(<<Msg("set error"), Msg("ready")>>)
                    /\ UNCHANGED path
              /\ UNCHANGED <<server, rounds, ran>>
           \/ /\ m.kind = "query"
              /\ ran' = Append(ran, path)
              /\ Reply(<<[kind |-> "answer", n |-> m.n], Msg("ready")>>)
              /\ UNCHANGED <<server, rounds, path, failed>>
    /\ UNCHANGED <<envVars, clientVars, handler, found, copier, toProxy, toClient>>

\* Shutdown, pg_terminate_backend, a crash, or its own timeout.
ServerCloses ==
    /\ server # "closed"
    /\ server' = "closed"
    /\ UNCHANGED <<envVars, clientVars, rounds, path, ran, proxyVars, wires>>

-----------------------------------------------------------------------------
(* The handler up to the pipe.  A read waits for data or the end of the    *)
(* stream; any error returns, and the deferred calls close both sockets.   *)

At(step)   == handler = step
Goto(step) == handler' = step

ClientEnd == client = "closed" /\ toProxy = <<>>
ServerEnd == server = "closed" /\ fromServer = <<>>

Dial ==
    /\ At("dial")
    /\ Goto("length") \/ Goto("ended")
    /\ UNCHANGED <<envVars, clientVars, serverVars, found, failed, copier, wires>>

FromClient(kinds) == toProxy # <<>> /\ Head(toProxy).kind \in kinds /\ toProxy' = Tail(toProxy)

ReadLength ==
    /\ At("length")
    /\ \/ FromClient({"length8"}) /\ Goto("code")
       \/ FromClient({"length"}) /\ Goto("payload")
    /\ UNCHANGED <<envVars, clientVars, serverVars, found, failed, copier, toServer, fromServer,
                   toClient>>

\* SSL is refused with one byte; after any other code the handler still reads
\* the four bytes that a length of 8 promises.
\* (ReadCodeSilently: does not answer the SSL request.)
ReadCodeSilently ==
    /\ At("code")
    /\ \/ FromClient({"ssl code"}) /\ Goto("second length")
       \/ FromClient({"gss code"}) /\ Goto("payload")
    /\ UNCHANGED <<envVars, clientVars, serverVars, found, failed, copier, toServer, fromServer,
                   toClient>>
ReadCode ==
    /\ At("code")
    /\ \/ /\ FromClient({"ssl code"})
          /\ toClient' = Append(toClient, Msg("no"))
          /\ Goto("second length")
       \/ /\ FromClient({"gss code"})
          /\ UNCHANGED toClient
          /\ Goto("payload")
    /\ UNCHANGED <<envVars, clientVars, serverVars, found, failed, copier, toServer, fromServer>>

ReadSecondLength ==
    /\ At("second length")
    /\ FromClient({"length"})
    /\ Goto("payload")
    /\ UNCHANGED <<envVars, clientVars, serverVars, found, failed, copier, toServer, fromServer,
                   toClient>>

ForwardStartup ==
    /\ At("payload")
    /\ FromClient({"startup"})
    /\ toServer' = Append(toServer, Msg("startup"))
    /\ Goto("relay")
    /\ UNCHANGED <<envVars, clientVars, serverVars, found, failed, copier, fromServer, toClient>>

\* A message of the server goes to the client; a request of a type it knows is
\* followed by a message of the client, 'Z' ends the start-up.  After a request
\* of another type the handler goes on to wait for the server.
Relay ==
    /\ At("relay")
    /\ fromServer # <<>>
    /\ fromServer' = Tail(fromServer)
    /\ toClient' = Append(toClient, Head(fromServer))
    /\ Goto(CASE Head(fromServer).kind = "ready" -> "lookup"
              [] Head(fromServer).kind = "auth"  -> "password"
              [] OTHER                           -> "relay")
    /\ UNCHANGED <<envVars, clientVars, serverVars, found, failed, copier, toProxy, toServer>>

RelayPassword ==
    /\ At("password")
    /\ FromClient({"password"})
    /\ toServer' = Append(toServer, Msg("password"))
    /\ Goto("relay")
    /\ UNCHANGED <<envVars, clientVars, serverVars, found, failed, copier, fromServer, toClient>>

\* Any failure of the lookup counts as no active branch.
\* (LookupEmpty: leaves the name empty then.)
LookupEmpty ==
    /\ At("lookup")
    /\ \/ found' = active /\ UNCHANGED failed
       \/ found' = "" /\ failed' = TRUE
    /\ Goto("inject")
    /\ UNCHANGED <<envVars, clientVars, serverVars, copier, wires>>
Lookup ==
    /\ At("lookup")
    /\ \/ found' = active /\ UNCHANGED failed
       \/ found' = Public /\ failed' = TRUE
    /\ Goto("inject")
    /\ UNCHANGED <<envVars, clientVars, serverVars, copier, wires>>

\* (InjectNothing: starts the pipe without the statement.)
InjectNothing ==
    /\ At("inject")
    /\ Goto("pipe") /\ copier' = [d \in {"up", "down"} |-> "running"]
    /\ UNCHANGED <<envVars, clientVars, serverVars, found, failed, wires>>
Inject ==
    /\ At("inject")
    /\ toServer' = Append(toServer, Msg("set"))
    /\ Goto("drain")
    /\ UNCHANGED <<envVars, clientVars, serverVars, found, failed, copier, toProxy, fromServer,
                   toClient>>

\* (DrainOne: takes one message for the whole answer.)
DrainOne ==
    /\ At("drain")
    /\ fromServer # <<>>
    /\ fromServer' = Tail(fromServer)
    /\ Goto("pipe") /\ copier' = [d \in {"up", "down"} |-> "running"]
    /\ UNCHANGED <<envVars, clientVars, serverVars, found, failed, toProxy, toServer, toClient>>
Drain ==
    /\ At("drain")
    /\ fromServer # <<>>
    /\ fromServer' = Tail(fromServer)
    /\ IF Head(fromServer).kind = "ready"
       THEN Goto("pipe") /\ copier' = [d \in {"up", "down"} |-> "running"]
       ELSE UNCHANGED <<handler, copier>>
    /\ UNCHANGED <<envVars, clientVars, serverVars, found, failed, toProxy, toServer, toClient>>

\* Before the pipe: the end of the stream in a read, or a failed write of what
\* was read.  The peer that is not being read or written is not noticed.
ReadFails ==
    \/ ClientEnd /\ handler \in {"length", "code", "second length", "payload", "password"}
    \/ ServerEnd /\ handler \in {"relay", "drain"}

WriteFails ==
    \/ client = "closed" /\ \/ At("code") /\ toProxy # <<>>
                            \/ At("relay") /\ fromServer # <<>>
    \/ server = "closed" /\ \/ handler \in {"payload", "password"} /\ toProxy # <<>>
                            \/ At("inject")

HandlerFails ==
    /\ ReadFails \/ WriteFails
    /\ Goto("ended")
    /\ UNCHANGED <<envVars, clientVars, serverVars, found, failed, copier, wires>>

-----------------------------------------------------------------------------
(* The pipe.                                                               *)

CopyUp ==
    /\ copier["up"] = "running"
    /\ handler = "pipe"
    /\ server # "closed"
    /\ toProxy # <<>>
    /\ toProxy' = Tail(toProxy)
    /\ toServer' = Append(toServer, Head(toProxy))
    /\ UNCHANGED <<envVars, clientVars, serverVars, proxyVars, fromServer, toClient>>

CopyDown ==
    /\ copier["down"] = "running"
    /\ handler = "pipe"
    /\ client # "closed"
    /\ fromServer # <<>>
    /\ fromServer' = Tail(fromServer)
    /\ toClient' = Append(toClient, Head(fromServer))
    /\ UNCHANGED <<envVars, clientVars, serverVars, proxyVars, toProxy, toServer>>

\* The end of the stream, a failed write to a peer that has gone, or a socket
\* that the handler has closed.
CopyEnds(d) ==
    /\ copier[d] = "running"
    /\ \/ handler = "ended"
       \/ d = "up" /\ (ClientEnd \/ (server = "closed" /\ toProxy # <<>>))
       \/ d = "down" /\ (ServerEnd \/ (client = "closed" /\ fromServer # <<>>))
    /\ copier' = [copier EXCEPT ![d] = "done"]
    /\ UNCHANGED <<envVars, clientVars, serverVars, handler, found, failed, wires>>

\* The first goroutine to end ends the handler: <-errChan.
\* (PipeEndsWhenBoth: waits for both of them.)
PipeEndsWhenBoth ==
    /\ At("pipe")
    /\ copier["up"] = "done" /\ copier["down"] = "done"
    /\ Goto("ended")
    /\ UNCHANGED <<envVars, clientVars, serverVars, found, failed, copier, wires>>
PipeEnds ==
    /\ At("pipe")
    /\ copier["up"] = "done" \/ copier["down"] = "done"
    /\ Goto("ended")
    /\ UNCHANGED <<envVars, clientVars, serverVars, found, failed, copier, wires>>

-----------------------------------------------------------------------------
HandlerStep ==
    \/ Dial \/ ReadLength \/ ReadCode \/ ReadSecondLength \/ ForwardStartup
    \/ Relay \/ RelayPassword \/ Lookup \/ Inject \/ Drain
    \/ HandlerFails \/ PipeEnds

CopierStep ==
    \/ CopyUp \/ CopyDown
    \/ \E d \in {"up", "down"} : CopyEnds(d)

Next ==
    \/ Switch
    \/ Greet \/ ClientReceives \/ Query \/ ClientCloses
    \/ ServerReceives \/ ServerCloses
    \/ HandlerStep \/ CopierStep

\* Go schedules every goroutine that can run.  Client and server read what
\* arrives and react to it; nobody has to begin, to ask or to close.
Spec ==
    /\ Init /\ [][Next]_vars
    /\ WF_vars(HandlerStep)
    /\ WF_vars(CopyUp) /\ WF_vars(CopyDown)
    /\ \A d \in {"up", "down"} : WF_vars(CopyEnds(d))
    /\ WF_vars(ClientReceives) /\ WF_vars(ServerReceives)

-----------------------------------------------------------------------------
(* Properties.                                                             *)

(* No query runs before the session is routed, and it is routed to a       *)
(* branch that was active at some time since the connection was accepted;  *)
(* it goes to public only without an active branch, after a failed lookup  *)
(* or after an error of the injected statement, which is dropped like any  *)
(* other answer to it (proxy.go:253-285).                                  *)
QueriesAreRouted ==
    \A i \in 1..Len(ran) : ran[i] \in since \/ (failed /\ ran[i] = Public)

(* The client sees the end of the start-up and the answers to its own      *)
(* queries, each once and in order: nothing of the injected statement,     *)
(* nothing lost in between (proxy.go:277-296).                             *)
Expected(i) == IF i % 2 = 1 THEN Msg("ready") ELSE [kind |-> "answer", n |-> i \div 2]
ClientSeesOwnAnswers ==
    /\ Len(got) <= 2 * asked + 1
    /\ \A i \in 1..Len(got) : got[i] = Expected(i)

(* Once the client has gone, the handler and both goroutines end, and with *)
(* the handler both sockets; once the server has gone too, if the client   *)
(* has sent anything (proxy.go:288-298: only one goroutine is waited for). *)
AllEnd == handler = "ended" /\ copier["up"] # "running" /\ copier["down"] # "running"
OneSideEndsAll ==
    (client = "closed" \/ (server = "closed" /\ client # "new")) ~> AllEnd

(* A client that has begun gets a session, an answer to each query, or a   *)
(* closed connection: it does not wait for ever (README.md:69).            *)
ClientIsServed ==
    client \in {"greeting", "starting", "busy"} ~> client = "idle" \/ AllEnd
=============================================================================
