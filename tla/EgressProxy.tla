----------------------------- MODULE EgressProxy -----------------------------
(***************************************************************************)
(* core/egress_proxy.py and core/_ssrf_guard.py: one connection of the     *)
(* sandbox, from its request to the end of the relay or tunnel. The        *)
(* connections of a proxy share only the policy, which does not change.    *)
(*                                                                         *)
(* An action is what the handler or a relay does between two awaits; the   *)
(* client, the origin server and the name service move at any time.        *)
(***************************************************************************)
EXTENDS Naturals, Sequences, FiniteSets

CONSTANTS Hosts,      \* host names
          Addrs,      \* IP addresses
          Private,    \* those in _PRIVATE_NETS
          Requests,   \* what the client may ask for: Request
          Policies,   \* values of allowed_domains: sequences of Entry
          MaxChunks,  \* bound on what either side sends
          None        \* no address, no request

VARIABLES
  policy,     \* policy_domains
  dns,        \* the addresses a lookup of the host would return now
  pc,         \* where handle is
  req,        \* the request, or None before it has been read
  looked,     \* history: the addresses the lookup returned
  endpoints,  \* the addresses not tried yet, in order
  address,    \* history: the address connected to, or None
  origin,     \* the connection to the origin server
  up, down,   \* the relays from and to the client
  client,     \* "open", "half" (has shut down its side), "left", "closed"
  answer,     \* the status the proxy itself wrote to the client
  unread,     \* chunks from the client the proxy has not read
  replies,    \* chunks from the origin the proxy has not read
  chunksLeft  \* what client and origin may still send

peers  == <<dns, client, unread, chunksLeft>>
relays == <<up, down>>
vars   == <<policy, peers, pc, req, looked, endpoints, address, origin, relays,
            answer, replies>>

-----------------------------------------------------------------------------
(* CONNECT carries neither a method nor a path.                            *)
Protocol == {"http", "https"}
Method   == {"GET", "POST"}
Path     == {"/", "/api"}
Request  ==
  [how : {"connect"}, host : Hosts, protocol : Protocol]
    \cup [how : {"plain"}, host : Hosts, protocol : Protocol, method : Method,
          path : Path]

(* An entry with the hosts its domain pattern matches and the paths its    *)
(* routes match.                                                           *)
Entry == [hosts : SUBSET Hosts, protocols : SUBSET Protocol,
          methods : SUBSET Method, routes : SUBSET Path]

ASSUME EgressAssumption ==
  /\ IsFiniteSet(Addrs) /\ Private \subseteq Addrs
  /\ Requests \subseteq Request
  /\ Policies \subseteq Seq(Entry)
  /\ MaxChunks \in Nat
  /\ None \notin Addrs /\ None \notin Requests

TypeOK ==
  /\ policy \in Policies
  /\ dns \in SUBSET Addrs
  /\ pc \in {"new", "read", "resolve", "connect", "relay", "closing", "closed"}
  /\ req \in Requests \cup {None}
  /\ looked \subseteq Addrs
  /\ endpoints \in Seq(Addrs)
  /\ address \in Addrs \cup {None}
  /\ origin \in {"none", "open", "ended", "closed"}
  /\ up \in {"none", "loop", "done"} /\ down \in {"none", "loop", "done"}
  /\ client \in {"open", "half", "left", "closed"}
  /\ answer \in {"none", "200", "403", "502"}
  /\ unread \in 0 .. MaxChunks /\ replies \in 0 .. MaxChunks
  /\ chunksLeft \in [{"client", "origin"} -> 0 .. MaxChunks]

Init ==
  /\ policy \in Policies
  /\ dns \in SUBSET Addrs
  /\ pc = "new" /\ req = None
  /\ looked = {} /\ endpoints = <<>> /\ address = None /\ origin = "none"
  /\ up = "none" /\ down = "none"
  /\ client = "open" /\ answer = "none" /\ unread = 0 /\ replies = 0
  /\ chunksLeft = [side \in {"client", "origin"} |-> MaxChunks]

-----------------------------------------------------------------------------
(* check_policy: the first entry whose domain matches decides. An entry    *)
(* without methods allows them all.                                        *)
Matching(host) == {k \in DOMAIN policy : host \in policy[k].hosts}

Permits(entry, r) ==
  /\ r.protocol \in entry.protocols
  /\ r.how = "plain" =>
       /\ entry.methods = {} \/ r.method \in entry.methods
       /\ r.path \in entry.routes

(* Mutant: a later, looser entry rescues a request.                        *)
CheckEveryEntry(r) == \E k \in Matching(r.host) : Permits(policy[k], r)

CheckPolicy(r) ==
  \E k \in Matching(r.host) :
    /\ \A i \in Matching(r.host) : k <= i
    /\ Permits(policy[k], r)

-----------------------------------------------------------------------------
(* handle, _dispatch, _handle_http and _handle_connect.                    *)

Accept ==
  /\ pc = "new"
  /\ pc' = "read"
  /\ UNCHANGED <<policy, peers, req, looked, endpoints, address, origin, relays,
                 answer, replies>>

(* A connection left by its client swallows what is written to it.         *)
Answer(status) == answer' = IF client = "left" THEN answer ELSE status

(* The check follows the request without a pause.                          *)
ReadRequest ==
  /\ pc = "read"
  /\ \E r \in Requests :
       /\ req' = r
       /\ IF CheckPolicy(r)
            THEN pc' = "resolve" /\ UNCHANGED answer
            ELSE pc' = "closing" /\ Answer("403")
  /\ UNCHANGED <<policy, peers, looked, endpoints, address, origin, relays,
                 replies>>

(* Ten seconds, an early end of file, or nothing like a request.           *)
RequestFails ==
  /\ pc = "read"
  /\ pc' = "closing"
  /\ UNCHANGED <<policy, peers, req, looked, endpoints, address, origin, relays,
                 answer, replies>>

(* An order in which the acceptable addresses may come.                    *)
OrdersOf(S) ==
  {seq \in [1 .. Cardinality(S) -> S] : {seq[k] : k \in DOMAIN seq} = S}

(* resolve_public_endpoints: the one lookup of the connection.             *)
Resolve ==
  /\ pc = "resolve"
  /\ looked' = dns
  /\ IF dns \ Private = {}
       THEN pc' = "closing" /\ Answer("403") /\ UNCHANGED endpoints
       ELSE /\ endpoints' \in OrdersOf(dns \ Private)
            /\ pc' = "connect" /\ UNCHANGED answer
  /\ UNCHANGED <<policy, peers, req, address, origin, relays, replies>>

(* A name the codec refuses raises something the guard does not catch.     *)
LookupRaises ==
  /\ pc = "resolve"
  /\ pc' = "closing"
  /\ UNCHANGED <<policy, peers, req, looked, endpoints, address, origin, relays,
                 answer, replies>>

ConnectFails ==
  /\ pc = "connect"
  /\ IF endpoints # <<>>
       THEN endpoints' = Tail(endpoints) /\ UNCHANGED <<pc, answer>>
       ELSE /\ pc' = "closing"
            /\ Answer(IF req.how = "connect" THEN "403" ELSE "502")
            /\ UNCHANGED endpoints
  /\ UNCHANGED <<policy, peers, req, looked, address, origin, relays, replies>>

(* Mutant: the loop over the addresses goes on after a success.            *)
ConnectedWithoutBreak ==
  /\ pc = "connect" /\ endpoints # <<>>
  /\ address' = Head(endpoints)
  /\ endpoints' = Tail(endpoints)
  /\ origin' = "open"
  /\ UNCHANGED <<policy, peers, pc, req, looked, relays, answer, replies>>

(* Mutant: the name is handed to open_connection, which looks it up again. *)
ConnectedByName ==
  /\ pc = "connect" /\ endpoints # <<>>
  /\ address' \in dns
  /\ endpoints' = <<>>
  /\ origin' = "open"
  /\ pc' = "relay" /\ down' = "loop"
  /\ UNCHANGED <<policy, peers, req, looked, up, answer, replies>>

(* A plain request is written to the origin and its answer relayed. For a  *)
(* tunnel the 200 goes to the client first, before the try block: if the   *)
(* client has left, drain raises and nobody closes the origin.             *)
Connected ==
  /\ pc = "connect" /\ endpoints # <<>>
  /\ address' = Head(endpoints)
  /\ endpoints' = <<>>
  /\ origin' = "open"
  /\ \/ /\ req.how = "plain"
        /\ pc' = "relay" /\ down' = "loop"
        /\ UNCHANGED <<up, answer>>
     \/ /\ req.how = "connect" /\ client # "left"
        /\ pc' = "relay" /\ up' = "loop" /\ down' = "loop"
        /\ answer' = "200"
     \/ /\ req.how = "connect" /\ client = "left"
        /\ pc' = "closing"
        /\ UNCHANGED <<relays, answer>>
  /\ UNCHANGED <<policy, peers, req, looked, replies>>

(* Mutant: the first relay to end ends the tunnel.                         *)
FinishOnFirst ==
  /\ pc = "relay" /\ "done" \in {up, down}
  /\ pc' = "closing"
  /\ origin' = "closed" /\ replies' = 0
  /\ UNCHANGED <<policy, peers, req, looked, endpoints, address, relays, answer>>

(* Mutant: no finally around gather.                                       *)
FinishKeepsOrigin ==
  /\ pc = "relay" /\ up # "loop" /\ down = "done"
  /\ pc' = "closing"
  /\ UNCHANGED <<policy, peers, req, looked, endpoints, address, origin, relays,
                 answer, replies>>

Finish ==
  /\ pc = "relay" /\ up # "loop" /\ down = "done"
  /\ pc' = "closing"
  /\ origin' = "closed" /\ replies' = 0
  /\ UNCHANGED <<policy, peers, req, looked, endpoints, address, relays, answer>>

CloseClient ==
  /\ pc = "closing"
  /\ pc' = "closed"
  /\ client' = IF client = "left" THEN "left" ELSE "closed"
  /\ UNCHANGED <<policy, dns, unread, chunksLeft, req, looked, endpoints, address,
                 origin, relays, answer, replies>>

-----------------------------------------------------------------------------
(* _relay, once in each direction. The end of one is not passed on.        *)

(* Mutant: an empty read is not told from data.                            *)
UpPassesOnEmpty ==
  /\ up = "loop"
  /\ unread' = unread - 1
  /\ UNCHANGED <<policy, dns, client, chunksLeft, pc, req, looked, endpoints,
                 address, origin, relays, answer, replies>>

UpPasses ==
  /\ up = "loop" /\ unread > 0
  /\ unread' = unread - 1
  /\ \/ UNCHANGED up
     \/ origin = "ended" /\ up' = "done"
  /\ UNCHANGED <<policy, dns, client, chunksLeft, pc, req, looked, endpoints,
                 address, origin, down, answer, replies>>

(* Mutant: the end of one direction only is not noticed.                   *)
UpEndsWhenLeft ==
  /\ up = "loop" /\ unread = 0 /\ client = "left"
  /\ up' = "done"
  /\ UNCHANGED <<policy, peers, pc, req, looked, endpoints, address, origin, down,
                 answer, replies>>

UpEnds ==
  /\ up = "loop" /\ unread = 0 /\ client # "open"
  /\ up' = "done"
  /\ UNCHANGED <<policy, peers, pc, req, looked, endpoints, address, origin, down,
                 answer, replies>>

(* Mutant: a client that has shut down its side gets nothing more.         *)
DownPassesToOpen ==
  /\ down = "loop" /\ replies > 0 /\ client # "half"
  /\ replies' = replies - 1
  /\ down' = IF client = "left" THEN "done" ELSE "loop"
  /\ UNCHANGED <<policy, peers, pc, req, looked, endpoints, address, origin, up,
                 answer>>

(* Writing to a client that has left ends the relay.                       *)
DownPasses ==
  /\ down = "loop" /\ replies > 0
  /\ replies' = replies - 1
  /\ down' = IF client = "left" THEN "done" ELSE "loop"
  /\ UNCHANGED <<policy, peers, pc, req, looked, endpoints, address, origin, up,
                 answer>>

DownEnds ==
  /\ down = "loop" /\ replies = 0 /\ origin = "ended"
  /\ down' = "done"
  /\ UNCHANGED <<policy, peers, pc, req, looked, endpoints, address, origin, up,
                 answer, replies>>

-----------------------------------------------------------------------------
(* The client, the origin and the name service.                            *)

ClientSends ==
  /\ client = "open" /\ pc # "new" /\ chunksLeft["client"] > 0
  /\ unread' = unread + 1
  /\ chunksLeft' = [chunksLeft EXCEPT !["client"] = @ - 1]
  /\ UNCHANGED <<policy, dns, client, pc, req, looked, endpoints, address, origin,
                 relays, answer, replies>>

(* Half or wholly, and a reset loses what the proxy had not read.          *)
ClientLeaves ==
  /\ client \in {"open", "half"} /\ pc # "new"
  /\ \/ client = "open" /\ client' = "half" /\ UNCHANGED unread
     \/ client' = "left" /\ unread' \in {unread, 0}
  /\ UNCHANGED <<policy, dns, chunksLeft, pc, req, looked, endpoints, address,
                 origin, relays, answer, replies>>

OriginSends ==
  /\ origin = "open" /\ chunksLeft["origin"] > 0
  /\ replies' = replies + 1
  /\ chunksLeft' = [chunksLeft EXCEPT !["origin"] = @ - 1]
  /\ UNCHANGED <<policy, dns, client, unread, pc, req, looked, endpoints, address,
                 origin, relays, answer>>

OriginEnds ==
  /\ origin = "open"
  /\ origin' = "ended"
  /\ replies' \in {replies, 0}
  /\ UNCHANGED <<policy, peers, pc, req, looked, endpoints, address, relays,
                 answer>>

DnsChanges ==
  /\ dns' \in SUBSET Addrs
  /\ UNCHANGED <<policy, client, unread, chunksLeft, pc, req, looked, endpoints,
                 address, origin, relays, answer, replies>>

-----------------------------------------------------------------------------
Handle ==
  Accept \/ ReadRequest \/ RequestFails \/ Resolve \/ LookupRaises
         \/ ConnectFails \/ Connected \/ Finish \/ CloseClient

Up   == UpPasses \/ UpEnds
Down == DownPasses \/ DownEnds

Next ==
  \/ Handle \/ Up \/ Down
  \/ ClientSends \/ ClientLeaves \/ OriginSends \/ OriginEnds \/ DnsChanges

(* The event loop runs every ready task; a request must be read within ten *)
(* seconds, and a lookup or a connection attempt comes to an end. Nobody   *)
(* has to send, to leave or to close.                                      *)
Spec ==
  Init /\ [][Next]_vars /\ WF_vars(Handle) /\ WF_vars(Up) /\ WF_vars(Down)

-----------------------------------------------------------------------------
(* Correctness.                                                            *)

(* A name is looked up, and its server connected to, only for a request    *)
(* that the first entry with its host covers: the protocol of a tunnel, the*)
(* method and route as well of a plain request. A later, looser entry does *)
(* not rescue it.                                                          *)
OnlyListed ==
  pc \in {"resolve", "connect", "relay"} \/ address # None =>
    \E k \in DOMAIN policy :
      /\ req.host \in policy[k].hosts /\ Permits(policy[k], req)
      /\ \A i \in DOMAIN policy : req.host \in policy[i].hosts => k <= i

(* The address connected to is public and one of those the lookup returned *)
(* whatever the name service says in the meantime.                         *)
OnlyScreened == address # None => address \in looked \ Private

(* A client is told either that it is refused or that its tunnel stands:   *)
(* a refusal means that no connection was opened for it.                   *)
RefusedMeansUnopened == answer \in {"403", "502"} => address = None

(* When the handler is over the connection to the origin is closed, except *)
(* in the one case the code forgets: a tunnel whose client left before the *)
(* 200 could be written.                                                   *)
OriginClosed ==
  pc = "closed" /\ ~(req # None /\ req.how = "connect" /\ answer = "none")
    => origin \in {"none", "closed"}

(* The proxy cuts nothing off: it closes the connection to the origin only *)
(* when all the origin sent has been passed on, or the client has left.    *)
NothingCutOff ==
  [][origin' = "closed" => replies = 0 \/ client = "left"]_vars

(* What the origin sends is passed on, also to a client that has shut down *)
(* its own side.                                                           *)
AnswersArrive == replies > 0 /\ pc = "relay" ~> replies = 0

(* A connection ends once the client and the origin have both gone.        *)
EndsWhenBothGone ==
  pc = "relay" /\ client \in {"half", "left"} /\ origin = "ended" ~> pc = "closed"
=============================================================================
