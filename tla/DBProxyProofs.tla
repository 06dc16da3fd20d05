--------------------------- MODULE DBProxyProofs ---------------------------
(* Theorems about DBProxy, for any number of clients and any frames.       *)
EXTENDS DBProxy, SequenceTheorems, TLAPS

LEMMA MoveHead ==
  ASSUME NEW S, NEW f \in Seq(S), NEW i \in Seq(S), i # <<>>
  PROVE  /\ Append(f, Head(i)) \in Seq(S) /\ Tail(i) \in Seq(S)
         /\ Append(f, Head(i)) \o Tail(i) = f \o i
<1>1. Head(i) \in S /\ Tail(i) \in Seq(S) /\ Len(i) \in Nat /\ Len(f) \in Nat
  OBVIOUS
<1>2. Append(f, Head(i)) \in Seq(S)
  BY <1>1
<1>3. Len(Append(f, Head(i)) \o Tail(i)) = Len(f \o i)
  BY <1>1, <1>2
<1>4. \A k \in 1 .. Len(f \o i) : (Append(f, Head(i)) \o Tail(i))[k] = (f \o i)[k]
  BY <1>1, <1>2
<1> QED
  BY <1>1, <1>2, <1>3, <1>4, SeqEqual

LEMMA AppendRight ==
  ASSUME NEW S, NEW f \in Seq(S), NEW i \in Seq(S), NEW x \in S
  PROVE  f \o Append(i, x) = Append(f \o i, x)
<1>1. Len(f \o Append(i, x)) = Len(Append(f \o i, x))
  OBVIOUS
<1>2. \A k \in 1 .. Len(Append(f \o i, x)) :
        (f \o Append(i, x))[k] = Append(f \o i, x)[k]
  OBVIOUS
<1>3. f \o Append(i, x) \in Seq(S) /\ Append(f \o i, x) \in Seq(S)
  OBVIOUS
<1> QED
  BY <1>1, <1>2, <1>3, SeqEqual

-----------------------------------------------------------------------------
(* The invariant, client by client.                                        *)

(* No filter before the login ends. The MySQL driver holds a stream from   *)
(* then on; the PostgreSQL driver never takes another client's.            *)
Stashed(c) ==
  /\ pc[c] \in {"new", "connect", "auth"} => filter[c] = "none"
  /\ Mysql /\ filter[c] = "created" => stash \in Clients
  /\ ~Mysql => route[c] \in {NoStream, c}

(* Until its filter is done, what a client sent is what was passed on and  *)
(* what is still to be read.                                               *)
Screened(c) ==
  /\ ~Contains(forwarded[c], "denied")
  /\ IsPrefix(forwarded[c], sent[c])
  /\ filter[c] # "done" => sent[c] = forwarded[c] \o inbox[c]

(* As long as the client is there, what was served is what was delivered   *)
(* and what the relay has still to read.                                   *)
Relayed(c) ==
  /\ IsPrefix(delivered[c], served[c])
  /\ client[c] = "open" => served[c] = delivered[c] \o replies[c]

(* Over PostgreSQL a connection carries its own client's frames only.      *)
Owned(u) == ~Mysql => \A k \in 1 .. Len(pending[u]) : pending[u][k].owner = u

PInv ==
  /\ TypeOK
  /\ \A c \in Clients : Stashed(c) /\ Screened(c) /\ Relayed(c) /\ Owned(c)

LEMMA PrefixOfConcat ==
  ASSUME NEW S, NEW f \in Seq(S), NEW i \in Seq(S)
  PROVE  IsPrefix(f, f \o i)
<1>1. SubSeq(f, 1, Len(f)) = f
  BY SubSeqFull
<1>2. Len(f) \in Nat /\ Len(f) <= Len(f \o i) /\ f \o i \in Seq(S)
  OBVIOUS
<1>3. SubSeq(f \o i, 1, Len(f)) = f
  <2>1. /\ SubSeq(f \o i, 1, Len(f)) \in Seq(S)
        /\ Len(SubSeq(f \o i, 1, Len(f))) = Len(f)
        /\ \A k \in 1 .. Len(f) : SubSeq(f \o i, 1, Len(f))[k] = (f \o i)[k]
    BY <1>2
  <2>2. \A k \in 1 .. Len(f) : (f \o i)[k] = f[k]
    OBVIOUS
  <2> QED
    BY <2>1, <2>2, SeqEqual
<1> QED
  BY <1>1, <1>2, <1>3 DEF IsPrefix

LEMMA PrefixOfAppend ==
  ASSUME NEW S, NEW f \in Seq(S), NEW t \in Seq(S), NEW x \in S, IsPrefix(f, t)
  PROVE  IsPrefix(f, Append(t, x))
<1>1. Len(f) \in Nat /\ Len(t) \in Nat /\ Len(f) <= Len(t)
  BY DEF IsPrefix
<1>2. SubSeq(Append(t, x), 1, Len(f)) = SubSeq(t, 1, Len(f))
  <2>1. /\ SubSeq(Append(t, x), 1, Len(f)) \in Seq(S)
        /\ SubSeq(t, 1, Len(f)) \in Seq(S)
        /\ Len(SubSeq(Append(t, x), 1, Len(f))) = Len(f)
        /\ Len(SubSeq(t, 1, Len(f))) = Len(f)
    BY <1>1
  <2>2. \A k \in 1 .. Len(f) : SubSeq(Append(t, x), 1, Len(f))[k] = SubSeq(t, 1, Len(f))[k]
    BY <1>1
  <2> QED
    BY <2>1, <2>2, SeqEqual
<1>3. Len(Append(t, x)) = Len(t) + 1
  OBVIOUS
<1> QED
  BY <1>1, <1>2, <1>3 DEF IsPrefix

LEMMA InitP == Init => PInv
<1> SUFFICES ASSUME Init
             PROVE  PInv
  OBVIOUS
<1>1. <<>> \in Seq(Kind) /\ <<>> \in Seq(Frame) /\ <<>> \in Seq(Clients)
  OBVIOUS
<1>2. TypeOK
  BY <1>1, StreamAssumption DEF Init, TypeOK
<1>3. IsPrefix(<<>>, <<>>) /\ <<>> \o <<>> = <<>> /\ ~Contains(<<>>, "denied") /\ Len(<<>>) = 0
  BY DEF IsPrefix, Contains
<1> QED
  BY <1>2, <1>3 DEF PInv, Init, Stashed, Screened, Relayed, Owned

-----------------------------------------------------------------------------
(* Types.                                                                  *)

LEMMA Update ==
  ASSUME NEW S, NEW T, NEW f \in [S -> T], NEW x \in S, NEW v \in T
  PROVE  [f EXCEPT ![x] = v] \in [S -> T]
OBVIOUS

LEMMA TypeStep ==
  ASSUME TypeOK, \A c \in Clients : Stashed(c), [Next]_vars
  PROVE  TypeOK'
<1> USE DEF TypeOK
<1>1. CASE UNCHANGED vars
  BY <1>1 DEF vars, proxyVars, clientVars, upstreamVars
<1>2. ASSUME NEW c \in Clients
      PROVE  <<>> \in Seq(Frame) /\ <<>> \in Seq(Clients)
  OBVIOUS
<1>3. ASSUME NEW c \in Clients, Handle(c) \/ LoginSucceeds(c) \/ LoginFails(c)
      PROVE  TypeOK'
  <2> USE DEF clientVars, upstreamVars
  <2>1. CASE Accept(c)
    BY <2>1 DEF Accept
  <2>2. CASE Connected(c)
    BY <2>2 DEF Connected
  <2>3. CASE ConnectFails(c) \/ LoginFails(c) \/ Finish(c)
    <3>1. CloseBoth(c) /\ UNCHANGED <<setting, stash, filter, relay, route, sent, inbox,
                                       delivered, served, forwarded>>
      BY <2>3 DEF ConnectFails, LoginFails, Finish
    <3>2. pending' \in [Clients -> Seq(Frame)] /\ replies' \in [Clients -> Seq(Clients)]
      BY <1>2, <3>1, Update DEF CloseBoth
    <3>3. /\ pc' \in [Clients -> {"new", "connect", "auth", "session", "closed"}]
          /\ client' \in [Clients -> {"open", "left", "closed"}]
          /\ upOpen' \in [Clients -> BOOLEAN]
      BY <3>1 DEF CloseBoth
    <3> QED
      BY <3>1, <3>2, <3>3
  <2>4. CASE LoginSucceeds(c)
    <3>1. stash' \in Clients \cup {NoStream}
      BY <2>4 DEF LoginSucceeds
    <3>2. filter' \in [Clients -> {"none", "created", "loop", "done"}]
      BY <2>4 DEF LoginSucceeds
    <3>3. \A d \in Clients : route'[d] = NoStream <=> filter'[d] \in {"none", "created"}
      BY <2>4 DEF LoginSucceeds, Stashed
    <3> QED
      BY <2>4, <3>1, <3>2, <3>3 DEF LoginSucceeds
  <2> QED
    BY <1>3, <2>1, <2>2, <2>3, <2>4 DEF Handle
<1>4. ASSUME NEW c \in Clients, Filter(c)
      PROVE  TypeOK'
  <2> USE DEF clientVars, upstreamVars
  <2>1. CASE FilterStarts(c)
    BY <2>1, StreamAssumption DEF FilterStarts, Stashed
  <2>2. ASSUME NEW kinds, Reading(c, kinds)
        PROVE  /\ Head(inbox[c]) \in Kind \cap kinds
               /\ inbox' \in [Clients -> Seq(Kind)]
               /\ filter[c] = "loop" /\ route[c] \in Clients
    <3>1. inbox[c] \in Seq(Kind) /\ inbox[c] # <<>> /\ filter[c] = "loop"
      BY <2>2 DEF Reading
    <3>2. Head(inbox[c]) \in Kind /\ Tail(inbox[c]) \in Seq(Kind)
      BY <3>1
    <3>3. inbox' \in [Clients -> Seq(Kind)]
      BY <2>2, <3>2, Update DEF Reading
    <3> QED
      BY <2>2, <3>1, <3>2, <3>3 DEF Reading
  <2>3. CASE FilterForwards(c)
    <3> DEFINE frame == [kind |-> Head(inbox[c]), owner |-> c]
    <3>1. /\ Head(inbox[c]) \in Kind /\ inbox' \in [Clients -> Seq(Kind)]
          /\ filter[c] = "loop" /\ route[c] \in Clients
      BY <2>2, <2>3 DEF FilterForwards
    <3>2. frame \in Frame
      BY <3>1 DEF Frame
    <3> HIDE DEF frame
    <3>3. forwarded' \in [Clients -> Seq(Kind)]
      BY <2>3, <3>1 DEF FilterForwards, PassOn
    <3>4. pending' \in [Clients -> Seq(Frame)]
      <4>1. pending' = IF upOpen[route[c]]
              THEN [pending EXCEPT ![route[c]] = Append(@, frame)] ELSE pending
        BY <2>3 DEF FilterForwards, PassOn, frame
      <4> QED
        BY <3>1, <3>2, <4>1
    <3>5. /\ filter' \in [Clients -> {"none", "created", "loop", "done"}]
          /\ \A d \in Clients :
               filter'[d] \in {"none", "created"} <=> filter[d] \in {"none", "created"}
      BY <2>3, <3>1 DEF FilterForwards
    <3> QED
      BY <2>3, <3>1, <3>3, <3>4, <3>5 DEF FilterForwards
  <2>4. CASE FilterDenies(c)
    <3>1. inbox' \in [Clients -> Seq(Kind)] /\ filter[c] = "loop"
      BY <2>2, <2>4 DEF FilterDenies
    <3> QED
      BY <2>4, <3>1 DEF FilterDenies
  <2>5. CASE FilterEnds(c)
    BY <2>5 DEF FilterEnds
  <2> QED
    BY <1>4, <2>1, <2>3, <2>4, <2>5 DEF Filter
<1>5. ASSUME NEW c \in Clients, Relay(c)
      PROVE  TypeOK'
  <2> USE DEF clientVars, upstreamVars, proxyVars
  <2>1. ASSUME replies[c] # <<>>
        PROVE  Head(replies[c]) \in Clients /\ Tail(replies[c]) \in Seq(Clients)
    BY <2>1
  <2>2. CASE RelayPasses(c)
    <3>1. replies' \in [Clients -> Seq(Clients)]
      BY <2>1, <2>2, Update DEF RelayPasses
    <3>2. delivered' \in [Clients -> Seq(Clients)]
      <4>1. Append(delivered[c], Head(replies[c])) \in Seq(Clients)
        BY <2>1, <2>2 DEF RelayPasses
      <4> QED
        BY <2>2, <4>1, Update DEF RelayPasses
    <3> QED
      BY <2>2, <3>1, <3>2 DEF RelayPasses
  <2>3. CASE RelayDrops(c)
    <3>1. replies' \in [Clients -> Seq(Clients)]
      BY <2>1, <2>3, Update DEF RelayDrops
    <3>2. relay' \in [Clients -> {"none", "loop", "done"}]
      BY <2>3, Update DEF RelayDrops
    <3> QED
      BY <2>3, <3>1, <3>2 DEF RelayDrops
  <2>4. CASE RelayEnds(c)
    BY <2>4 DEF RelayEnds
  <2> QED
    BY <1>5, <2>2, <2>3, <2>4 DEF Relay
<1>6. ASSUME NEW c \in Clients,
             ClientSends(c) \/ ClientLeaves(c) \/ Serve(c) \/ ServerCloses(c)
      PROVE  TypeOK'
  <2> USE DEF clientVars, upstreamVars, proxyVars
  <2>1. CASE ClientSends(c)
    <3>1. PICK kind \in Kind : /\ sent' = [sent EXCEPT ![c] = Append(@, kind)]
                               /\ inbox' = [inbox EXCEPT ![c] = Append(@, kind)]
      BY <2>1 DEF ClientSends
    <3>2. Append(sent[c], kind) \in Seq(Kind) /\ Append(inbox[c], kind) \in Seq(Kind)
      OBVIOUS
    <3>3. sent' \in [Clients -> Seq(Kind)] /\ inbox' \in [Clients -> Seq(Kind)]
      BY <3>1, <3>2, Update
    <3> QED
      BY <2>1, <3>3 DEF ClientSends
  <2>2. CASE ClientLeaves(c)
    BY <2>2 DEF ClientLeaves
  <2>3. CASE Serve(c)
    <3>1. Head(pending[c]) \in Frame /\ Tail(pending[c]) \in Seq(Frame)
      BY <2>3 DEF Serve
    <3>2. Head(pending[c]).owner \in Clients
      BY <3>1 DEF Frame
    <3> DEFINE owner == Head(pending[c]).owner
    <3>3. Append(served[c], owner) \in Seq(Clients) /\ Append(replies[c], owner) \in Seq(Clients)
      BY <3>2
    <3>4. served' \in [Clients -> Seq(Clients)] /\ replies' \in [Clients -> Seq(Clients)]
      <4>1. \/ /\ served' = [served EXCEPT ![c] = Append(served[c], owner)]
               /\ replies' = [replies EXCEPT ![c] = Append(replies[c], owner)]
            \/ served' = served /\ replies' = replies
        BY <2>3 DEF Serve
      <4>2. served \in [Clients -> Seq(Clients)] /\ replies \in [Clients -> Seq(Clients)]
        OBVIOUS
      <4>3. /\ [served EXCEPT ![c] = Append(served[c], owner)] \in [Clients -> Seq(Clients)]
            /\ [replies EXCEPT ![c] = Append(replies[c], owner)] \in [Clients -> Seq(Clients)]
        <5> HIDE DEF TypeOK, owner
        <5> QED
          BY <3>3, <4>2, Update
      <4> HIDE DEF TypeOK, owner
      <4> QED
        BY <4>1, <4>2, <4>3
    <3>5. pending' \in [Clients -> Seq(Frame)]
      BY <2>3, <3>1, Update DEF Serve
    <3>6. upOpen' \in [Clients -> BOOLEAN]
      BY <2>3, Update DEF Serve
    <3> QED
      BY <2>3, <3>4, <3>5, <3>6 DEF Serve
  <2>4. CASE ServerCloses(c)
    BY <2>4, <1>2 DEF ServerCloses
  <2> QED
    BY <1>6, <2>1, <2>2, <2>3, <2>4
<1> QED
  BY <1>1, <1>3, <1>4, <1>5, <1>6 DEF Next

-----------------------------------------------------------------------------
(* The other parts, each disturbed by few actions.                         *)

LEMMA StashedStep ==
  ASSUME PInv, [Next]_vars, NEW c \in Clients
  PROVE  Stashed(c)'
<1> USE DEF PInv, TypeOK, Stashed, Mysql
<1>1. CASE UNCHANGED <<setting, stash, pc, filter, route>>
  BY <1>1
<1>2. ASSUME NEW d \in Clients, Handle(d) \/ LoginSucceeds(d) \/ LoginFails(d)
      PROVE  Stashed(c)'
  BY <1>2 DEF Handle, Accept, Connected, ConnectFails, CloseBoth, Finish, LoginSucceeds,
              LoginFails
<1>3. ASSUME NEW d \in Clients, Filter(d)
      PROVE  Stashed(c)'
  <2>1. /\ filter[d] \in {"created", "loop"} /\ UNCHANGED <<setting, stash, pc>>
        /\ filter' \in {[filter EXCEPT ![d] = "done"], [filter EXCEPT ![d] = "loop"], filter}
        /\ \/ route' = route
           \/ route' = [route EXCEPT ![d] = IF Mysql THEN stash ELSE d]
    BY <1>3 DEF Filter, FilterStarts, FilterForwards, Reading, FilterDenies, FilterEnds
  <2>2. pc[d] \notin {"new", "connect", "auth"}
    BY <2>1
  <2>3. filter'[c] = filter[c] \/ (c = d /\ filter'[c] \in {"done", "loop"})
    BY <2>1
  <2>4. route'[c] = route[c] \/ (c = d /\ route'[c] = IF Mysql THEN stash ELSE d)
    BY <2>1
  <2> QED
    BY <2>1, <2>2, <2>3, <2>4
<1>4. ASSUME NEW d \in Clients,
             Relay(d) \/ ClientSends(d) \/ ClientLeaves(d) \/ Serve(d) \/ ServerCloses(d)
      PROVE  UNCHANGED <<setting, stash, pc, filter, route>>
  BY <1>4 DEF Relay, RelayPasses, RelayDrops, RelayEnds, ClientSends, ClientLeaves, Serve,
              ServerCloses, proxyVars
<1> QED
  BY <1>1, <1>2, <1>3, <1>4 DEF Next, vars, proxyVars

LEMMA ContainsOfAppend ==
  ASSUME NEW S, NEW s \in Seq(S), NEW x \in S, NEW e
  PROVE  Contains(Append(s, x), e) <=> Contains(s, e) \/ x = e
<1>1. Len(Append(s, x)) = Len(s) + 1 /\ Len(s) \in Nat
  OBVIOUS
<1>2. \A k \in 1 .. Len(s) + 1 : Append(s, x)[k] = IF k = Len(s) + 1 THEN x ELSE s[k]
  OBVIOUS
<1> QED
  BY <1>1, <1>2 DEF Contains

LEMMA ScreenedStep ==
  ASSUME PInv, [Next]_vars, NEW c \in Clients
  PROVE  Screened(c)'
<1>0. /\ forwarded[c] \in Seq(Kind) /\ inbox[c] \in Seq(Kind) /\ sent[c] \in Seq(Kind)
      /\ Screened(c)
  BY DEF PInv, TypeOK
<1> USE DEF PInv, TypeOK
<1>1. CASE UNCHANGED <<sent[c], inbox[c], forwarded[c]>> /\ (filter[c] = "done" => filter'[c] = "done")
  BY <1>0, <1>1 DEF Screened, Contains
<1>2. ASSUME NEW d \in Clients, Handle(d) \/ LoginSucceeds(d) \/ LoginFails(d)
      PROVE  /\ UNCHANGED <<sent, inbox, forwarded>>
             /\ filter[c] = "done" => filter'[c] = "done"
  BY <1>2 DEF Handle, Accept, Connected, ConnectFails, CloseBoth, Finish, LoginSucceeds,
              LoginFails, clientVars, Stashed
<1>3. CASE FilterForwards(c)
  <2> DEFINE kind == Head(inbox[c])
  <2>1. /\ inbox[c] # <<>> /\ kind # "denied" /\ filter[c] = "loop"
        /\ inbox' = [inbox EXCEPT ![c] = Tail(inbox[c])]
        /\ forwarded' = [forwarded EXCEPT ![c] = Append(forwarded[c], kind)]
        /\ sent' = sent
    BY <1>3 DEF FilterForwards, PassOn, Reading
  <2>2. /\ Append(forwarded[c], kind) \in Seq(Kind) /\ Tail(inbox[c]) \in Seq(Kind)
        /\ Append(forwarded[c], kind) \o Tail(inbox[c]) = forwarded[c] \o inbox[c]
    <3> HIDE DEF PInv, TypeOK
    <3> QED
      BY <1>0, <2>1, MoveHead
  <2>3. sent[c] = Append(forwarded[c], kind) \o Tail(inbox[c])
    BY <1>0, <2>1, <2>2 DEF Screened
  <2>4. IsPrefix(Append(forwarded[c], kind), sent[c])
    <3> HIDE DEF PInv, TypeOK, kind
    <3> QED
      BY <2>2, <2>3, PrefixOfConcat
  <2>5. ~Contains(Append(forwarded[c], kind), "denied")
    BY <1>0, <2>1, ContainsOfAppend DEF Screened
  <2>6. forwarded'[c] = Append(forwarded[c], kind) /\ inbox'[c] = Tail(inbox[c])
    BY <2>1
  <2> HIDE DEF PInv, TypeOK, kind
  <2> QED
    BY <2>1, <2>3, <2>4, <2>5, <2>6 DEF Screened, Contains
<1>4. CASE FilterDenies(c) \/ FilterEnds(c)
  <2>1. /\ filter' = [filter EXCEPT ![c] = "done"] /\ UNCHANGED <<sent, forwarded>>
    BY <1>4 DEF FilterDenies, FilterEnds, clientVars
  <2> QED
    BY <1>0, <2>1 DEF Screened, Contains
<1>5. CASE FilterStarts(c)
  BY <1>1, <1>5 DEF FilterStarts, clientVars
<1>6. ASSUME NEW d \in Clients, d # c, Filter(d)
      PROVE  UNCHANGED <<sent[c], inbox[c], forwarded[c], filter[c]>>
  BY <1>6 DEF Filter, FilterStarts, FilterForwards, PassOn, Reading, FilterDenies, FilterEnds,
              clientVars
<1>7. ASSUME NEW d \in Clients,
             Relay(d) \/ ClientLeaves(d) \/ Serve(d) \/ ServerCloses(d)
      PROVE  UNCHANGED <<sent, inbox, forwarded, filter>>
  BY <1>7 DEF Relay, RelayPasses, RelayDrops, RelayEnds, ClientLeaves, Serve,
              ServerCloses, proxyVars, clientVars
<1>8. CASE ClientSends(c)
  <2>1. PICK kind \in Kind : /\ sent' = [sent EXCEPT ![c] = Append(@, kind)]
                             /\ inbox' = [inbox EXCEPT ![c] = Append(@, kind)]
    BY <1>8 DEF ClientSends
  <2>2. UNCHANGED <<filter, forwarded>>
    BY <1>8 DEF ClientSends, proxyVars
  <2>3. IsPrefix(forwarded[c], Append(sent[c], kind))
    BY <1>0, PrefixOfAppend DEF Screened
  <2>4. forwarded[c] \o Append(inbox[c], kind) = Append(forwarded[c] \o inbox[c], kind)
    <3> DEFINE f == forwarded[c]  i == inbox[c]
    <3>1. f \in Seq(Kind) /\ i \in Seq(Kind)
      BY <1>0
    <3> HIDE DEF PInv, TypeOK, f, i
    <3>2. f \o Append(i, kind) = Append(f \o i, kind)
      BY <2>1, <3>1, AppendRight
    <3> QED
      BY <3>2 DEF f, i
  <2> QED
    BY <1>0, <2>1, <2>2, <2>3, <2>4 DEF Screened, Contains
<1>9. ASSUME NEW d \in Clients, d # c, ClientSends(d)
      PROVE  UNCHANGED <<sent[c], inbox[c], forwarded[c], filter[c]>>
  BY <1>9 DEF ClientSends, proxyVars
<1> QED
  BY <1>1, <1>2, <1>3, <1>4, <1>5, <1>6, <1>7, <1>8, <1>9
  DEF Next, Filter, vars, proxyVars, clientVars

LEMMA RelayedStep ==
  ASSUME PInv, [Next]_vars, NEW c \in Clients
  PROVE  Relayed(c)'
<1>0. /\ served[c] \in Seq(Clients) /\ delivered[c] \in Seq(Clients)
      /\ replies[c] \in Seq(Clients) /\ Relayed(c)
  BY DEF PInv, TypeOK
<1> USE DEF PInv, TypeOK
<1>1. CASE /\ UNCHANGED <<served[c], delivered[c]>>
           /\ replies'[c] = replies[c] \/ client[c] # "open"
           /\ client'[c] = "open" => client[c] = "open"
  BY <1>0, <1>1 DEF Relayed
<1>2. CASE UNCHANGED <<served[c], delivered[c]>> /\ client'[c] # "open"
  BY <1>0, <1>2 DEF Relayed
<1>3. ASSUME NEW d \in Clients, Handle(d) \/ LoginSucceeds(d) \/ LoginFails(d)
      PROVE  Relayed(c)'
  <2>1. CASE CloseBoth(d) /\ UNCHANGED <<served, delivered>>
    <3>1. CASE c = d
      BY <2>1, <3>1, <1>2 DEF CloseBoth
    <3>2. CASE c # d
      BY <2>1, <3>2, <1>1 DEF CloseBoth
    <3> QED
      BY <3>1, <3>2
  <2>2. CASE UNCHANGED <<client, served, delivered, replies>>
    BY <2>2, <1>1
  <2> QED
    BY <1>3, <2>1, <2>2 DEF Handle, Accept, Connected, ConnectFails, Finish, LoginSucceeds,
                            LoginFails, clientVars, upstreamVars
<1>4. ASSUME NEW d \in Clients, Filter(d) \/ ClientSends(d) \/ ClientLeaves(d)
      PROVE  Relayed(c)'
  <2>1. /\ UNCHANGED <<served, delivered, replies>>
        /\ client'[c] = "open" => client[c] = "open"
    BY <1>4 DEF Filter, FilterStarts, FilterForwards, FilterDenies, FilterEnds,
                ClientSends, ClientLeaves, clientVars, upstreamVars, proxyVars
  <2> QED
    BY <2>1, <1>1
<1>5. CASE RelayPasses(c)
  <2> DEFINE owner == Head(replies[c])
  <2>1. /\ replies[c] # <<>> /\ client[c] = "open"
        /\ replies'[c] = Tail(replies[c]) /\ delivered'[c] = Append(delivered[c], owner)
        /\ UNCHANGED <<client, served>>
    BY <1>5 DEF RelayPasses
  <2> HIDE DEF PInv, TypeOK
  <2>2. /\ Append(delivered[c], owner) \in Seq(Clients) /\ Tail(replies[c]) \in Seq(Clients)
        /\ Append(delivered[c], owner) \o Tail(replies[c]) = delivered[c] \o replies[c]
    <3> DEFINE f == delivered[c]  i == replies[c]
    <3>1. f \in Seq(Clients) /\ i \in Seq(Clients) /\ i # <<>>
      BY <1>0, <2>1
    <3> HIDE DEF f, i
    <3>2. /\ Append(f, Head(i)) \in Seq(Clients) /\ Tail(i) \in Seq(Clients)
          /\ Append(f, Head(i)) \o Tail(i) = f \o i
      BY <3>1, MoveHead
    <3> QED
      BY <3>2 DEF f, i
  <2> HIDE DEF owner
  <2>3. served[c] = Append(delivered[c], owner) \o Tail(replies[c])
    BY <1>0, <2>1, <2>2 DEF Relayed
  <2>4. IsPrefix(Append(delivered[c], owner), served[c])
    BY <2>2, <2>3, PrefixOfConcat
  <2> QED
    BY <2>1, <2>3, <2>4 DEF Relayed
<1>6. ASSUME NEW d \in Clients, RelayDrops(d) \/ RelayEnds(d) \/ (d # c /\ RelayPasses(d))
             \/ (d # c /\ Serve(d)) \/ ServerCloses(d)
      PROVE  Relayed(c)'
  <2>1. /\ UNCHANGED <<served[c], delivered[c], client>>
        /\ replies'[c] = replies[c] \/ client[c] # "open"
    BY <1>6 DEF RelayDrops, RelayEnds, RelayPasses, Serve, ServerCloses, clientVars,
                upstreamVars
  <2> QED
    BY <2>1, <1>1
<1>7. CASE Serve(c)
  <2> DEFINE owner == Head(pending[c]).owner
  <2>1. /\ UNCHANGED <<client, delivered>>
        /\ \/ UNCHANGED <<served, replies>>
           \/ /\ served'[c] = Append(served[c], owner)
              /\ replies'[c] = Append(replies[c], owner)
    BY <1>7 DEF Serve, clientVars
  <2>2. owner \in Clients
    <3>1. Head(pending[c]) \in Frame
      BY <1>7 DEF Serve
    <3> QED
      BY <3>1 DEF Frame
  <2> HIDE DEF PInv, TypeOK, owner
  <2>3. IsPrefix(delivered[c], Append(served[c], owner))
    BY <1>0, <2>2, PrefixOfAppend DEF Relayed
  <2>4. delivered[c] \o Append(replies[c], owner) = Append(delivered[c] \o replies[c], owner)
    <3> DEFINE f == delivered[c]  i == replies[c]
    <3>1. f \in Seq(Clients) /\ i \in Seq(Clients)
      BY <1>0
    <3> HIDE DEF f, i
    <3>2. f \o Append(i, owner) = Append(f \o i, owner)
      BY <2>2, <3>1, AppendRight
    <3> QED
      BY <3>2 DEF f, i
  <2> QED
    BY <1>0, <2>1, <2>3, <2>4 DEF Relayed
<1>8. CASE UNCHANGED vars
  BY <1>8, <1>1 DEF vars, clientVars, upstreamVars
<1> QED
  BY <1>3, <1>4, <1>5, <1>6, <1>7, <1>8 DEF Next, Relay

LEMMA OwnedStep ==
  ASSUME PInv, [Next]_vars, NEW u \in Clients
  PROVE  Owned(u)'
<1>0. pending[u] \in Seq(Frame) /\ Owned(u) /\ (Mysql' <=> Mysql)
  <2>1. setting' = setting
    BY DEF Next, Handle, Accept, Connected, ConnectFails, Finish, LoginSucceeds, LoginFails,
           Filter, FilterStarts, FilterForwards, FilterDenies, FilterEnds,
           Relay, RelayPasses, RelayDrops, RelayEnds,
           ClientSends, ClientLeaves, Serve, ServerCloses, vars
  <2> QED
    BY <2>1 DEF PInv, TypeOK, Mysql
<1>1. CASE pending'[u] = pending[u] \/ pending'[u] = <<>>
  BY <1>0, <1>1 DEF Owned
<1> USE DEF PInv, TypeOK
<1>2. ASSUME NEW c \in Clients, FilterForwards(c), ~Mysql, pending'[u] # pending[u]
      PROVE  Owned(u)'
  <2> DEFINE frame == [kind |-> Head(inbox[c]), owner |-> c]
  <2>1. filter[c] = "loop" /\ route[c] = c
    BY <1>2 DEF FilterForwards, Reading, Stashed
  <2>2. u = c /\ pending'[u] = Append(pending[u], frame)
    BY <1>2, <2>1 DEF FilterForwards, PassOn
  <2>3. frame.owner = u
    BY <2>2
  <2> HIDE DEF PInv, TypeOK, frame
  <2>4. Len(Append(pending[u], frame)) = Len(pending[u]) + 1 /\ Len(pending[u]) \in Nat
        /\ \A k \in 1 .. Len(pending[u]) + 1 :
             Append(pending[u], frame)[k] =
               IF k = Len(pending[u]) + 1 THEN frame ELSE pending[u][k]
    BY <1>0
  <2> QED
    BY <1>0, <2>2, <2>3, <2>4 DEF Owned
<1>3. CASE Serve(u)
  <2>1. pending[u] # <<>> /\ pending'[u] = Tail(pending[u])
    BY <1>3 DEF Serve
  <2> HIDE DEF PInv, TypeOK
  <2>2. Len(Tail(pending[u])) = Len(pending[u]) - 1 /\ Len(pending[u]) \in Nat
        /\ \A k \in 1 .. Len(pending[u]) - 1 : Tail(pending[u])[k] = pending[u][k + 1]
    BY <1>0, <2>1
  <2> QED
    BY <1>0, <2>1, <2>2 DEF Owned
<1>4. ASSUME NEW c \in Clients,
             Handle(c) \/ LoginSucceeds(c) \/ LoginFails(c) \/ ServerCloses(c)
      PROVE  pending'[u] = pending[u] \/ pending'[u] = <<>>
  BY <1>4 DEF Handle, Accept, Connected, ConnectFails, CloseBoth, Finish, LoginSucceeds,
              LoginFails, ServerCloses, upstreamVars
<1>5. ASSUME NEW c \in Clients,
             FilterStarts(c) \/ FilterDenies(c) \/ FilterEnds(c) \/ Relay(c)
             \/ ClientSends(c) \/ ClientLeaves(c) \/ (c # u /\ Serve(c))
      PROVE  pending'[u] = pending[u]
  BY <1>5 DEF FilterStarts, FilterDenies, FilterEnds, Relay, RelayPasses, RelayDrops,
              RelayEnds, ClientSends, ClientLeaves, Serve, upstreamVars
<1>6. CASE Mysql
  BY <1>0, <1>6 DEF Owned
<1>7. CASE UNCHANGED vars
  BY <1>1, <1>7 DEF vars, upstreamVars
<1> QED
  BY <1>1, <1>2, <1>3, <1>4, <1>5, <1>6, <1>7 DEF Next, Filter

-----------------------------------------------------------------------------
(* Both directions of every connection, and whose frames it carries.       *)
THEOREM ProxyInvariant == Spec => []PInv
<1>1. Init => PInv
  BY InitP
<1>2. PInv /\ [Next]_vars => PInv'
  <2> SUFFICES ASSUME PInv, [Next]_vars
               PROVE  PInv'
    OBVIOUS
  <2>1. TypeOK'
    BY TypeStep DEF PInv
  <2>2. \A c \in Clients : Stashed(c)' /\ Screened(c)' /\ Relayed(c)' /\ Owned(c)'
    BY StashedStep, ScreenedStep, RelayedStep, OwnedStep
  <2> QED
    BY <2>1, <2>2 DEF PInv
<1> QED
  BY <1>1, <1>2, PTL DEF Spec

(* The variables of db_proxy.py and of the drivers keep their types.       *)
THEOREM ProxyTypes == Spec => []TypeOK
<1>1. PInv => TypeOK
  BY DEF PInv
<1> QED
  BY <1>1, ProxyInvariant, PTL

(* filter_client_frames: whatever the clients send and whoever goes first, *)
(* what reaches a server of a client's frames is a screened prefix.        *)
THEOREM ForwardsScreened == Spec => []ForwardsScreenedPrefix
<1>1. PInv => ForwardsScreenedPrefix
  BY DEF PInv, Screened, ForwardsScreenedPrefix
<1> QED
  BY <1>1, ProxyInvariant, PTL

(* _relay: a client reads what its own connection answered, in order.      *)
THEOREM RelaysServed == Spec => []RelaysInOrder
<1>1. PInv => RelaysInOrder
  BY DEF PInv, Relayed, RelaysInOrder
<1> QED
  BY <1>1, ProxyInvariant, PTL

(* PostgresDriver.filter_client_frames takes the writer it is given: no    *)
(* frame of one client is ever written to the connection of another.       *)
THEOREM PostgresKeepsApart == Spec => [](setting = "postgres" => OwnFramesOnly)
<1>1. PInv => (setting = "postgres" => OwnFramesOnly)
  BY DEF PInv, Owned, OwnFramesOnly, Mysql
<1> QED
  BY <1>1, ProxyInvariant, PTL
=============================================================================
