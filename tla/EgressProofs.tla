---------------------------- MODULE EgressProofs ----------------------------
(* Theorems about EgressProxy, for any policy, hosts, addresses, requests  *)
(* and numbers of chunks.                                                  *)
EXTENDS EgressProxy, FiniteSetTheorems, TLAPS

(* Nothing has happened yet while the request is being read.               *)
BeforeRequest ==
  pc \in {"new", "read"} =>
    req = None /\ address = None /\ origin = "none" /\ answer = "none"

(* No connection exists before one is attempted, and none is attempted for *)
(* a request that was refused.                                             *)
BeforeConnect ==
  pc \in {"resolve", "connect"} =>
    /\ req \in Requests
    /\ address = None /\ origin = "none" /\ answer = "none"

(* What is left to try has passed the guard.                               *)
EndpointsScreened ==
  pc = "connect" => \A k \in DOMAIN endpoints : endpoints[k] \in looked \ Private

(* The handler closes the origin when it has started to relay; it has not  *)
(* started if the client left before the 200.                              *)
OriginAccounted ==
  /\ pc = "relay" => req \in Requests /\ address # None
                       /\ (req.how = "connect" => answer = "200")
  /\ pc \in {"closing", "closed"} =>
       \/ origin \in {"none", "closed"}
       \/ req \in Requests /\ req.how = "connect" /\ answer = "none"

(* Nothing is read that was not sent.                                      *)
ChunksCounted ==
  /\ unread + chunksLeft["client"] <= MaxChunks
  /\ replies + chunksLeft["origin"] <= MaxChunks

EInv ==
  /\ TypeOK /\ ChunksCounted
  /\ OnlyListed /\ OnlyScreened /\ RefusedMeansUnopened
  /\ BeforeRequest /\ BeforeConnect /\ EndpointsScreened /\ OriginAccounted

(* What is checked is what the first entry with the host permits.          *)
LEMMA CheckedIsListed ==
  ASSUME NEW r, CheckPolicy(r)
  PROVE  \E k \in DOMAIN policy :
           /\ r.host \in policy[k].hosts /\ Permits(policy[k], r)
           /\ \A i \in DOMAIN policy : r.host \in policy[i].hosts => k <= i
BY DEF CheckPolicy, Matching

(* Every order of a finite set is a sequence of its members.               *)
LEMMA OrdersAreSequences ==
  ASSUME NEW S, IsFiniteSet(S), NEW seq \in OrdersOf(S)
  PROVE  seq \in Seq(S) /\ \A k \in DOMAIN seq : seq[k] \in S
<1>1. Cardinality(S) \in Nat
  BY FS_CardinalityType
<1>2. seq \in [1 .. Cardinality(S) -> S]
  BY DEF OrdersOf
<1> QED
  BY <1>1, <1>2

LEMMA InitEInv == ASSUME Init PROVE EInv
BY EgressAssumption
   DEF Init, EInv, TypeOK, OnlyListed, OnlyScreened, RefusedMeansUnopened,
       BeforeRequest, BeforeConnect, EndpointsScreened, OriginAccounted,
       ChunksCounted

-----------------------------------------------------------------------------
(* The parts of EInv, unfolded where a step is looked at.                  *)
LEMMA HandlerEInv ==
  ASSUME EInv, Handle
  PROVE  EInv'
<1> USE EgressAssumption
<1> USE DEF EInv, TypeOK, OnlyListed, OnlyScreened, RefusedMeansUnopened,
            BeforeRequest, BeforeConnect, EndpointsScreened, OriginAccounted,
            ChunksCounted, Permits, peers, relays, Answer
<1>1. CASE Accept
  BY <1>1 DEF Accept
<1>2. CASE ReadRequest
  <2>1. PICK r \in Requests :
          /\ req' = r
          /\ IF CheckPolicy(r)
               THEN pc' = "resolve" /\ UNCHANGED answer
               ELSE pc' = "closing" /\ Answer("403")
    BY <1>2 DEF ReadRequest
  <2>2. OnlyListed'
    <3>1. CASE CheckPolicy(r)
      BY <1>2, <2>1, <3>1, CheckedIsListed DEF ReadRequest
    <3>2. CASE ~CheckPolicy(r)
      BY <1>2, <2>1, <3>2 DEF ReadRequest
    <3> QED
      BY <3>1, <3>2
  <2>3. (TypeOK /\ ChunksCounted /\ OnlyScreened /\ RefusedMeansUnopened /\ BeforeRequest
          /\ BeforeConnect /\ EndpointsScreened /\ OriginAccounted)'
    BY <1>2, <2>1 DEF ReadRequest
  <2> QED
    BY <2>2, <2>3
<1>3. CASE RequestFails
  BY <1>3 DEF RequestFails
<1>4. CASE Resolve
  <2>1. IsFiniteSet(dns \ Private)
    BY FS_Subset
  <2>2. \A seq \in OrdersOf(dns \ Private) :
          seq \in Seq(Addrs) /\ \A k \in DOMAIN seq : seq[k] \in dns \ Private
    BY <2>1, OrdersAreSequences
  <2> QED
    BY <1>4, <2>2 DEF Resolve
<1>5. CASE LookupRaises
  BY <1>5 DEF LookupRaises
<1>6. CASE ConnectFails
  <2>1. CASE endpoints = <<>>
    BY <1>6, <2>1 DEF ConnectFails
  <2>2. CASE endpoints # <<>>
    <3>1. Tail(endpoints) \in Seq(Addrs)
      BY <2>2
    <3>2. \A k \in DOMAIN Tail(endpoints) :
            k + 1 \in DOMAIN endpoints /\ Tail(endpoints)[k] = endpoints[k + 1]
      BY <2>2
    <3>3. endpoints' = Tail(endpoints) /\ UNCHANGED <<pc, answer>>
      BY <1>6, <2>2 DEF ConnectFails
    <3>4. EndpointsScreened'
      BY <1>6, <3>2, <3>3 DEF ConnectFails
    <3>5. TypeOK' /\ ChunksCounted'
      BY <1>6, <3>1, <3>3 DEF ConnectFails
    <3>6. OnlyListed' /\ OnlyScreened' /\ RefusedMeansUnopened'
      BY <1>6, <3>3 DEF ConnectFails
    <3>7. BeforeRequest' /\ BeforeConnect' /\ OriginAccounted'
      BY <1>6, <3>3 DEF ConnectFails
    <3> QED
      BY <3>4, <3>5, <3>6, <3>7
  <2> QED
    BY <2>1, <2>2
<1>7. CASE Connected
  <2>1. 1 \in DOMAIN endpoints /\ Head(endpoints) = endpoints[1]
    BY <1>7 DEF Connected
  <2>2. /\ address' \in looked \ Private
        /\ endpoints' = <<>> /\ endpoints' \in Seq(Addrs)
    BY <1>7, <2>1 DEF Connected
  <2>3. CASE req.how = "plain"
    BY <1>7, <2>2, <2>3 DEF Connected
  <2>4. CASE req.how = "connect" /\ client # "left"
    BY <1>7, <2>2, <2>4 DEF Connected
  <2>5. CASE req.how = "connect" /\ client = "left"
    BY <1>7, <2>2, <2>5 DEF Connected
  <2> QED
    BY <1>7, <2>3, <2>4, <2>5 DEF Connected
<1>8. CASE Finish
  BY <1>8 DEF Finish
<1>9. CASE CloseClient
  BY <1>9 DEF CloseClient
<1> QED
  BY <1>1, <1>2, <1>3, <1>4, <1>5, <1>6, <1>7, <1>8, <1>9 DEF Handle

(* Relays, peers and the name service: none of them touches the request,   *)
(* the addresses or the proxy's answer.                                    *)
LEMMA OthersEInv ==
  ASSUME EInv, Next, ~Handle
  PROVE  EInv'
<1> USE EgressAssumption
<1> USE DEF EInv, TypeOK, OnlyListed, OnlyScreened, RefusedMeansUnopened,
            BeforeRequest, BeforeConnect, EndpointsScreened, OriginAccounted,
            ChunksCounted, Permits, peers, relays
<1>1. CASE UpPasses
  BY <1>1 DEF UpPasses
<1>2. CASE UpEnds
  BY <1>2 DEF UpEnds
<1>3. CASE DownPasses
  BY <1>3 DEF DownPasses
<1>4. CASE DownEnds
  BY <1>4 DEF DownEnds
<1>5. CASE ClientSends
  <2>1. /\ chunksLeft' \in [{"client", "origin"} -> 0 .. MaxChunks]
        /\ chunksLeft'["client"] = chunksLeft["client"] - 1
        /\ chunksLeft'["origin"] = chunksLeft["origin"]
    BY <1>5 DEF ClientSends
  <2>2. unread' \in 0 .. MaxChunks /\ ChunksCounted'
    BY <1>5, <2>1 DEF ClientSends
  <2>3. TypeOK'
    BY <1>5, <2>1, <2>2 DEF ClientSends
  <2>4. /\ OnlyListed' /\ OnlyScreened' /\ RefusedMeansUnopened'
        /\ BeforeRequest' /\ BeforeConnect' /\ EndpointsScreened' /\ OriginAccounted'
    BY <1>5 DEF ClientSends
  <2> QED
    BY <2>2, <2>3, <2>4
<1>6. CASE ClientLeaves
  BY <1>6 DEF ClientLeaves
<1>7. CASE OriginSends
  BY <1>7 DEF OriginSends
<1>8. CASE OriginEnds
  BY <1>8 DEF OriginEnds
<1>9. CASE DnsChanges
  BY <1>9 DEF DnsChanges
<1> QED
  BY <1>1, <1>2, <1>3, <1>4, <1>5, <1>6, <1>7, <1>8, <1>9 DEF Next, Up, Down

-----------------------------------------------------------------------------
(* EInv is inductive.                                                      *)
THEOREM EgressInvariant == Spec => []EInv
<1>1. Init => EInv
  BY InitEInv
<1>2. EInv /\ [Next]_vars => EInv'
  <2> SUFFICES ASSUME EInv, [Next]_vars PROVE EInv'
    OBVIOUS
  <2>1. CASE Handle
    BY <2>1, HandlerEInv
  <2>2. CASE Next /\ ~Handle
    BY <2>2, OthersEInv
  <2>3. CASE UNCHANGED vars
    BY <2>3
       DEF vars, peers, relays, EInv, TypeOK, OnlyListed, OnlyScreened,
           RefusedMeansUnopened, BeforeRequest, BeforeConnect,
           EndpointsScreened, OriginAccounted, ChunksCounted, Permits
  <2> QED
    BY <2>1, <2>2, <2>3
<1> QED
  BY <1>1, <1>2, PTL DEF Spec

(* The variables of a connection keep their types; the chunks the proxy    *)
(* has not read never exceed what was sent.                                *)
THEOREM EgressTypes == Spec => []TypeOK
<1>1. EInv => TypeOK
  BY DEF EInv
<1> QED
  BY <1>1, EgressInvariant, PTL

(* check_policy is asked before anything else: no name is looked up and no *)
(* server connected to but for a request the policy covers.                *)
THEOREM LookupsListed == Spec => []OnlyListed
<1>1. EInv => OnlyListed
  BY DEF EInv
<1> QED
  BY <1>1, EgressInvariant, PTL

(* The guard of _ssrf_guard.py holds for the connection that is made,      *)
(* whatever the name service answers later.                                *)
THEOREM ConnectionsScreened == Spec => []OnlyScreened
<1>1. EInv => OnlyScreened
  BY DEF EInv
<1> QED
  BY <1>1, EgressInvariant, PTL

(* A 403 or a 502 is never written for a connection that was opened.       *)
THEOREM RefusalsUnopened == Spec => []RefusedMeansUnopened
<1>1. EInv => RefusedMeansUnopened
  BY DEF EInv
<1> QED
  BY <1>1, EgressInvariant, PTL

(* The handler closes what it opened, but for the tunnel whose client left *)
(* before the 200.                                                         *)
THEOREM OriginsClosed == Spec => []OriginClosed
<1>1. EInv => OriginClosed
  BY EgressAssumption DEF EInv, OriginAccounted, OriginClosed
<1> QED
  BY <1>1, EgressInvariant, PTL

-----------------------------------------------------------------------------
(* The relay to the client is done only when there is nothing left to pass *)
(* on, now or later, or nobody to pass it on to.                           *)
DownInv ==
  /\ pc \in {"new", "read", "resolve", "connect"} => down = "none"
  /\ down = "done" =>
       client = "left" \/ (replies = 0 /\ origin \in {"ended", "closed"})
  /\ origin = "closed" => replies = 0

LEMMA DownInvInductive ==
  ASSUME EInv, DownInv, [Next]_vars PROVE DownInv'
<1> USE DEF DownInv, peers, relays, Answer
<1>1. CASE UNCHANGED vars
  BY <1>1 DEF vars
<1>2. CASE Accept \/ ReadRequest \/ RequestFails \/ Resolve \/ LookupRaises
  BY <1>2 DEF Accept, ReadRequest, RequestFails, Resolve, LookupRaises
<1>3. CASE ConnectFails \/ Connected
  BY <1>3 DEF ConnectFails, Connected, EInv, BeforeConnect
<1>4. CASE Finish \/ CloseClient
  BY <1>4 DEF Finish, CloseClient
<1>5. CASE UpPasses \/ UpEnds
  BY <1>5 DEF UpPasses, UpEnds
<1>6. CASE DownPasses \/ DownEnds
  BY <1>6 DEF DownPasses, DownEnds, EInv, TypeOK
<1>7. CASE ClientSends \/ ClientLeaves \/ DnsChanges
  BY <1>7 DEF ClientSends, ClientLeaves, DnsChanges
<1>8. CASE OriginSends \/ OriginEnds
  BY <1>8 DEF OriginSends, OriginEnds
<1> QED
  BY <1>1, <1>2, <1>3, <1>4, <1>5, <1>6, <1>7, <1>8 DEF Next, Handle, Up, Down

(* Only Finish closes the origin; where it is closed already nothing was   *)
(* left unread.                                                            *)
LEMMA ClosesKindly ==
  ASSUME EInv, DownInv, [Next]_vars
  PROVE  [origin' = "closed" => replies = 0 \/ client = "left"]_vars
<1> SUFFICES ASSUME Next, origin' = "closed", origin # "closed"
             PROVE  replies = 0 \/ client = "left"
  BY DEF DownInv
<1>1. Finish
  BY DEF Next, Handle, Up, Down, Accept, ReadRequest, RequestFails, Resolve,
         LookupRaises, ConnectFails, Connected, CloseClient, UpPasses, UpEnds,
         DownPasses, DownEnds, ClientSends, ClientLeaves, OriginSends,
         OriginEnds, DnsChanges
<1> QED
  BY <1>1 DEF Finish, DownInv

(* No answer of an origin is cut off by the proxy, however the two sides   *)
(* of a tunnel end.                                                        *)
THEOREM AnswersNotCutOff == Spec => NothingCutOff
<1>1. Init => DownInv
  BY DEF Init, DownInv
<1>2. EInv /\ DownInv /\ [Next]_vars => DownInv'
  BY DownInvInductive
<1>3. EInv /\ DownInv /\ [Next]_vars
        => [origin' = "closed" => replies = 0 \/ client = "left"]_vars
  BY ClosesKindly
<1> QED
  BY <1>1, <1>2, <1>3, EgressInvariant, PTL DEF Spec, NothingCutOff
=============================================================================
