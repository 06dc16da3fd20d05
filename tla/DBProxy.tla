------------------------------ MODULE DBProxy ------------------------------
(***************************************************************************)
(* core/db_proxy.py and the session part of its two drivers: one asyncio   *)
(* process serving several client connections, each joined to an upstream  *)
(* connection of its own by two tasks, the filter (client to server) and   *)
(* the relay (server to client). All connections share one driver object.  *)
(*                                                                         *)
(* A coroutine runs from one await to the next without interruption, so an *)
(* action is what happens between two awaits that may suspend. The upstream*)
(* connection of client c is named c.                                      *)
(***************************************************************************)
EXTENDS Naturals, Sequences, SequencesExt, FiniteSetsExt

CONSTANTS Clients,    \* connections accepted by the proxy
          Settings,   \* driver and upstream TLS of the policy's connection
          MaxFrames,  \* bound on the frames the clients send, together
          NoStream    \* MySQLDriver._server_writer before the first login

VARIABLES
  setting,   \* which of Settings this proxy runs with
  stash,     \* MySQLDriver._server_writer: an upstream, or NoStream
  pc,        \* where handle_client is
  filter,    \* the filter_client_frames task
  relay,     \* the _relay task
  route,     \* the upstream the filter writes to
  client,    \* "open", "left" (closed by the client), "closed" (by the proxy)
  upOpen,    \* the server has not closed the upstream connection
  sent,      \* history: frames the client wrote
  inbox,     \* frames the client wrote and the filter has not read
  forwarded, \* history: frames of the client that the filter passed on
  pending,   \* frames on an upstream the server has not handled: kind, owner
  served,    \* history: whose queries were answered on an upstream
  replies,   \* answers on an upstream the relay has not read
  delivered  \* history: answers written to the client

proxyVars    == <<stash, pc, filter, relay, route>>
clientVars   == <<client, sent, inbox, delivered>>
upstreamVars == <<upOpen, pending, served, replies>>
vars == <<setting, proxyVars, clientVars, upstreamVars, forwarded>>

AllSettings == {"postgres", "mysqlPlain", "mysqlTls"}
Mysql == setting \in {"mysqlPlain", "mysqlTls"}

(* What the filter tells apart: SQL the policy allows, SQL it denies       *)
(* (oversized and malformed frames end a session the same way), the frame  *)
(* that ends a session (COM_QUIT, Terminate), and frames without SQL.      *)
Kind  == {"allowed", "denied", "quit", "other"}
Frame == [kind : Kind, owner : Clients]

(* "No upstream yet" is told from every upstream.                          *)
ASSUME StreamAssumption == NoStream \notin Clients

TypeOK ==
  /\ setting \in Settings
  /\ stash \in Clients \cup {NoStream}
  /\ pc \in [Clients -> {"new", "connect", "auth", "session", "closed"}]
  /\ filter \in [Clients -> {"none", "created", "loop", "done"}]
  /\ relay \in [Clients -> {"none", "loop", "done"}]
  /\ route \in [Clients -> Clients \cup {NoStream}]
  /\ client \in [Clients -> {"open", "left", "closed"}]
  /\ upOpen \in [Clients -> BOOLEAN]
  /\ \A c \in Clients : route[c] = NoStream <=> filter[c] \in {"none", "created"}
  /\ sent \in [Clients -> Seq(Kind)] /\ inbox \in [Clients -> Seq(Kind)]
  /\ forwarded \in [Clients -> Seq(Kind)] /\ pending \in [Clients -> Seq(Frame)]
  /\ served \in [Clients -> Seq(Clients)] /\ replies \in [Clients -> Seq(Clients)]
  /\ delivered \in [Clients -> Seq(Clients)]

Init ==
  /\ setting \in Settings
  /\ stash = NoStream
  /\ pc = [c \in Clients |-> "new"]
  /\ filter = [c \in Clients |-> "none"]
  /\ relay = [c \in Clients |-> "none"]
  /\ route = [c \in Clients |-> NoStream]
  /\ client = [c \in Clients |-> "open"]
  /\ upOpen = [c \in Clients |-> FALSE]
  /\ sent = [c \in Clients |-> <<>>]
  /\ inbox = [c \in Clients |-> <<>>]
  /\ forwarded = [c \in Clients |-> <<>>]
  /\ pending = [c \in Clients |-> <<>>]
  /\ served = [c \in Clients |-> <<>>]
  /\ replies = [c \in Clients |-> <<>>]
  /\ delivered = [c \in Clients |-> <<>>]

-----------------------------------------------------------------------------
(* handle_client.                                                          *)

(* The finally clause closes both ends.                                    *)
CloseBoth(c) ==
  /\ pc' = [pc EXCEPT ![c] = "closed"]
  /\ client' = [client EXCEPT ![c] = IF @ = "open" THEN "closed" ELSE @]
  /\ upOpen' = [upOpen EXCEPT ![c] = FALSE]
  /\ pending' = [pending EXCEPT ![c] = <<>>]
  /\ replies' = [replies EXCEPT ![c] = <<>>]

Accept(c) ==
  /\ pc[c] = "new"
  /\ pc' = [pc EXCEPT ![c] = "connect"]
  /\ UNCHANGED <<setting, stash, filter, relay, route, clientVars,
                 upstreamVars, forwarded>>

Connected(c) ==
  /\ pc[c] = "connect"
  /\ pc' = [pc EXCEPT ![c] = "auth"]
  /\ upOpen' = [upOpen EXCEPT ![c] = TRUE]
  /\ UNCHANGED <<setting, stash, filter, relay, route, clientVars, pending,
                 served, replies, forwarded>>

(* The upstream refuses, or does not answer within the timeout.            *)
ConnectFails(c) ==
  /\ pc[c] = "connect"
  /\ CloseBoth(c)
  /\ UNCHANGED <<setting, stash, filter, relay, route, sent, inbox, delivered,
                 served, forwarded>>

(* Mutant: the upgraded streams stay in local variables.                   *)
LoginKeepsNoStreams(c) ==
  /\ pc[c] = "auth"
  /\ pc' = [pc EXCEPT ![c] = "session"]
  /\ filter' = [filter EXCEPT ![c] = "created"]
  /\ relay' = [relay EXCEPT ![c] = "loop"]
  /\ UNCHANGED <<setting, stash, route, clientVars, upstreamVars, forwarded>>

(* intercept_auth returns True (DBLogin has its dialogue; either end may   *)
(* have left after its last message), and gather creates the two tasks     *)
(* without a pause: they first run in the next iteration of the event loop,*)
(* after whatever else was ready in this one, other logins' ends included. *)
LoginSucceeds(c) ==
  /\ pc[c] = "auth"
  /\ stash' = IF Mysql THEN c ELSE stash
  /\ pc' = [pc EXCEPT ![c] = "session"]
  /\ filter' = [filter EXCEPT ![c] = "created"]
  /\ relay' = [relay EXCEPT ![c] = "loop"]
  /\ UNCHANGED <<setting, route, clientVars, upstreamVars, forwarded>>

LoginFails(c) ==
  /\ pc[c] = "auth"
  /\ CloseBoth(c)
  /\ UNCHANGED <<setting, stash, filter, relay, route, sent, inbox, delivered,
                 served, forwarded>>

(* gather waits for both tasks, whatever became of either.                 *)
Finish(c) ==
  /\ pc[c] = "session" /\ filter[c] = "done" /\ relay[c] = "done"
  /\ CloseBoth(c)
  /\ UNCHANGED <<setting, stash, filter, relay, route, sent, inbox, delivered,
                 served, forwarded>>

-----------------------------------------------------------------------------
(* filter_client_frames.                                                   *)

(* The MySQL driver takes the writer its last login left in the object.    *)
FilterStarts(c) ==
  /\ filter[c] = "created"
  /\ filter' = [filter EXCEPT ![c] = "loop"]
  /\ route' = [route EXCEPT ![c] = IF Mysql THEN stash ELSE c]
  /\ UNCHANGED <<setting, stash, pc, relay, clientVars, upstreamVars, forwarded>>

Reading(c, kinds) ==
  /\ filter[c] = "loop"
  /\ inbox[c] # <<>> /\ Head(inbox[c]) \in kinds
  /\ inbox' = [inbox EXCEPT ![c] = Tail(@)]

PassOn(c) ==
  LET to == route[c] IN
    /\ forwarded' = [forwarded EXCEPT ![c] = Append(@, Head(inbox[c]))]
    /\ pending' = IF upOpen[to]
         THEN [pending EXCEPT ![to] =
                 Append(@, [kind |-> Head(inbox[c]), owner |-> c])]
         ELSE pending

(* Writing to a connection the server has closed raises sooner or later.   *)
FilterForwards(c) ==
  /\ Reading(c, {"allowed", "other", "quit"})
  /\ PassOn(c)
  /\ LET ends == Mysql /\ Head(inbox[c]) = "quit" IN
       \/ filter' = [filter EXCEPT ![c] = IF ends THEN "done" ELSE @]
       \/ ~upOpen[route[c]] /\ filter' = [filter EXCEPT ![c] = "done"]
  /\ UNCHANGED <<setting, stash, pc, relay, route, client, sent, delivered,
                 upOpen, served, replies>>

(* Mutant: a denied frame is dropped and the session goes on.              *)
FilterDropsDenied(c) ==
  /\ Reading(c, {"denied"})
  /\ UNCHANGED <<setting, proxyVars, client, sent, delivered, upstreamVars,
                 forwarded>>

(* An error packet, the client's connection closed, the task over.         *)
FilterDenies(c) ==
  /\ Reading(c, {"denied"})
  /\ filter' = [filter EXCEPT ![c] = "done"]
  /\ client' = [client EXCEPT ![c] = IF @ = "open" THEN "closed" ELSE @]
  /\ UNCHANGED <<setting, stash, pc, relay, route, sent, delivered, upstreamVars,
                 forwarded>>

(* IncompleteReadError: the MySQL driver returns, the other one lets gather*)
(* keep the exception.                                                     *)
FilterEnds(c) ==
  /\ filter[c] = "loop"
  /\ inbox[c] = <<>> /\ client[c] # "open"
  /\ filter' = [filter EXCEPT ![c] = "done"]
  /\ UNCHANGED <<setting, stash, pc, relay, route, clientVars, upstreamVars,
                 forwarded>>

-----------------------------------------------------------------------------
(* _relay reads the stream handle_client holds. Once MySQL has wrapped the *)
(* transport in TLS, that reader gets neither data nor end of file.        *)
Hears(c) == relay[c] = "loop" /\ setting # "mysqlTls"

(* Mutant: the relay reads the stream of the driver's last login.          *)
RelayPassesShared(c) ==
  LET u == IF Mysql THEN stash ELSE c IN
    /\ Hears(c) /\ replies[u] # <<>> /\ client[c] = "open"
    /\ replies' = [replies EXCEPT ![u] = Tail(@)]
    /\ delivered' = [delivered EXCEPT ![c] = Append(@, Head(replies[u]))]
    /\ UNCHANGED <<setting, proxyVars, client, sent, inbox, upOpen, pending,
                   served, forwarded>>

(* Mutant: the end of the filter cancels the relay's work.                 *)
RelayPassesWhileFiltering(c) ==
  /\ Hears(c) /\ replies[c] # <<>> /\ client[c] = "open" /\ filter[c] = "loop"
  /\ replies' = [replies EXCEPT ![c] = Tail(@)]
  /\ delivered' = [delivered EXCEPT ![c] = Append(@, Head(replies[c]))]
  /\ UNCHANGED <<setting, proxyVars, client, sent, inbox, upOpen, pending,
                 served, forwarded>>

RelayPasses(c) ==
  /\ Hears(c) /\ replies[c] # <<>> /\ client[c] = "open"
  /\ replies' = [replies EXCEPT ![c] = Tail(@)]
  /\ delivered' = [delivered EXCEPT ![c] = Append(@, Head(replies[c]))]
  /\ UNCHANGED <<setting, proxyVars, client, sent, inbox, upOpen, pending,
                 served, forwarded>>

(* A write to a client that is gone is dropped, and one of them raises.    *)
RelayDrops(c) ==
  /\ Hears(c) /\ replies[c] # <<>> /\ client[c] # "open"
  /\ replies' = [replies EXCEPT ![c] = Tail(@)]
  /\ \E next \in {"loop", "done"} : relay' = [relay EXCEPT ![c] = next]
  /\ UNCHANGED <<setting, stash, pc, filter, route, clientVars, upOpen, pending,
                 served, forwarded>>

(* Mutant: end of file is noticed only while there is a client.            *)
RelayEndsForClient(c) ==
  /\ Hears(c) /\ replies[c] = <<>> /\ ~upOpen[c] /\ client[c] = "open"
  /\ relay' = [relay EXCEPT ![c] = "done"]
  /\ UNCHANGED <<setting, stash, pc, filter, route, clientVars, upstreamVars,
                 forwarded>>

RelayEnds(c) ==
  /\ Hears(c) /\ replies[c] = <<>> /\ ~upOpen[c]
  /\ relay' = [relay EXCEPT ![c] = "done"]
  /\ UNCHANGED <<setting, stash, pc, filter, route, clientVars, upstreamVars,
                 forwarded>>

-----------------------------------------------------------------------------
(* The clients and the server.                                             *)

SentByAll == MapThenSumSet(LAMBDA c : Len(sent[c]), Clients)

ClientSends(c) ==
  /\ client[c] = "open" /\ pc[c] = "session"
  /\ SentByAll < MaxFrames
  /\ ~Contains(sent[c], "quit")
  /\ \E kind \in Kind :
       /\ sent' = [sent EXCEPT ![c] = Append(@, kind)]
       /\ inbox' = [inbox EXCEPT ![c] = Append(@, kind)]
  /\ UNCHANGED <<setting, proxyVars, client, delivered, upstreamVars, forwarded>>

ClientLeaves(c) ==
  /\ client[c] = "open" /\ pc[c] \in {"connect", "auth", "session"}
  /\ client' = [client EXCEPT ![c] = "left"]
  /\ UNCHANGED <<setting, proxyVars, sent, inbox, delivered, upstreamVars,
                 forwarded>>

(* The server answers the frames of a connection in order and closes it on *)
(* a quit.                                                                 *)
Serve(u) ==
  /\ upOpen[u] /\ pending[u] # <<>>
  /\ LET frame == Head(pending[u]) IN
       /\ pending' = [pending EXCEPT ![u] = Tail(@)]
       /\ upOpen' = [upOpen EXCEPT ![u] = frame.kind # "quit"]
       /\ IF frame.kind = "allowed"
            THEN /\ served' = [served EXCEPT ![u] = Append(@, frame.owner)]
                 /\ replies' = [replies EXCEPT ![u] = Append(@, frame.owner)]
            ELSE UNCHANGED <<served, replies>>
  /\ UNCHANGED <<setting, proxyVars, clientVars, forwarded>>

ServerCloses(u) ==
  /\ upOpen[u]
  /\ upOpen' = [upOpen EXCEPT ![u] = FALSE]
  /\ pending' = [pending EXCEPT ![u] = <<>>]
  /\ UNCHANGED <<setting, proxyVars, clientVars, served, replies, forwarded>>

-----------------------------------------------------------------------------
Filter(c) == FilterStarts(c) \/ FilterForwards(c) \/ FilterDenies(c) \/ FilterEnds(c)
Relay(c)  == RelayPasses(c) \/ RelayDrops(c) \/ RelayEnds(c)
Handle(c) == Accept(c) \/ Connected(c) \/ ConnectFails(c) \/ Finish(c)

Next ==
  \E c \in Clients :
    \/ Handle(c) \/ LoginSucceeds(c) \/ LoginFails(c)
    \/ Filter(c) \/ Relay(c)
    \/ ClientSends(c) \/ ClientLeaves(c) \/ Serve(c) \/ ServerCloses(c)

(* The event loop runs every ready task. A login waits for its client and  *)
(* its server without a time limit, and nobody has to send or to close.    *)
Spec ==
  /\ Init /\ [][Next]_vars
  /\ \A c \in Clients :
       WF_vars(Handle(c)) /\ WF_vars(Filter(c)) /\ WF_vars(Relay(c))
                          /\ WF_vars(Serve(c))

-----------------------------------------------------------------------------
(* Correctness.                                                            *)

(* The firewall holds frame by frame: what is passed on of a client is, in *)
(* order and without a gap, what it sent before its first denied frame.    *)
ForwardsScreenedPrefix ==
  \A c \in Clients :
    IsPrefix(forwarded[c], sent[c]) /\ ~Contains(forwarded[c], "denied")

(* A client receives answers of its own upstream connection only, each     *)
(* once and in the server's order.                                         *)
RelaysInOrder ==
  \A c \in Clients : IsPrefix(delivered[c], served[c])

(* A session ends when its client and its server have both gone, whichever *)
(* goes first and whatever is still queued (MySQL over TLS excepted).      *)
EndsWhenBothGone ==
  \A c \in Clients :
    (pc[c] = "session" /\ client[c] # "open" /\ ~upOpen[c] /\ setting # "mysqlTls")
      ~> pc[c] = "closed"

(* An answer of the server reaches the client, or the client is gone.      *)
AnswersArrive ==
  \A c \in Clients :
    (replies[c] # <<>> /\ setting # "mysqlTls") ~> replies[c] = <<>>

(* "Server streams the driver upgraded during TLS negotiation. Populated by*)
(* intercept_auth so filter_client_frames uses the correct writer": the    *)
(* frames on an upstream connection are those of its own client.           *)
OwnFramesOnly ==
  \A u \in Clients : \A k \in 1 .. Len(pending[u]) : pending[u][k].owner = u

(* "Stash the (possibly upgraded) server streams back for the caller": an  *)
(* answer of the server reaches the client, or the client is gone, over    *)
(* TLS too.                                                                *)
AnswersArriveOverTls ==
  \A c \in Clients : replies[c] # <<>> ~> replies[c] = <<>>
=============================================================================
