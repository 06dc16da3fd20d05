-------------------------- MODULE ParsePoolProofs --------------------------
(* Theorems about ParsePool, for any number of clients and workers, and any*)
(* texts and policies.                                                     *)
EXTENDS ParsePool, FiniteSetTheorems, TLAPS

Running == {k \in 1 .. Len(parses) : parses[k].state = "running"}

(* Every worker is idle or has a parse.                                    *)
WorkersConserved == idle + Cardinality(Running) = Workers

(* A parse that found no worker left was submitted to a full pool.         *)
LateMeansCrowded ==
  \A k \in 1 .. Len(parses) : parses[k].late => parses[k].crowd >= Workers

(* What is parsed, no rule had decided.                                    *)
SubmittedUndecided ==
  \A k \in 1 .. Len(parses) :
    ~DeniedUnparsed(driver, parses[k].text) /\ ~AllowedUnparsed(driver, parses[k].text)

(* What VerdictsFollowPolicy and NoNeedlessTimeout say of a verdict alone. *)
Justified(v) ==
  /\ v.allowed <=> v.timely /\ Permitted(driver, v.text, policy)
  /\ ~v.timely /\ v.text.cost = "quick" => v.crowd >= Workers

VerdictsJustified == \A v \in Verdicts : Justified(v)

(* Each filter has given its verdicts in the order its client sent texts,  *)
(* and the parse the loop waits for is of a text whose turn it is.         *)
InTurn ==
  \A c \in Clients :
    /\ Len(verdicts[c]) <= Len(sent[c])
    /\ \A k \in 1 .. Len(verdicts[c]) : verdicts[c][k].text = sent[c][k]

AwaitedIsNext ==
  waitsFor # 0 => /\ Unread(Awaited.client)
                  /\ Awaited.text = NextText(Awaited.client)

PInv == /\ TypeOK /\ WorkersConserved /\ LateMeansCrowded /\ SubmittedUndecided
        /\ VerdictsJustified /\ InTurn /\ AwaitedIsNext

-----------------------------------------------------------------------------
(* The firewall.                                                           *)

(* What a rule decides without a parse is what the rules say.              *)
LEMMA UndeniedPermitted ==
  ASSUME NEW t, DeniedUnparsed(driver, t) \/ AllowedUnparsed(driver, t)
  PROVE  AllowedUnparsed(driver, t) <=> Permitted(driver, t, policy)
BY DEF AllowedUnparsed, Permitted

-----------------------------------------------------------------------------
(* The sets of parses are finite, and split by state.                      *)
LEMMA PoolSets ==
  ASSUME TypeOK
  PROVE  /\ IsFiniteSet(Queued) /\ IsFiniteSet(Running) /\ IsFiniteSet(Unfinished)
         /\ Cardinality(Unfinished) = Cardinality(Queued) + Cardinality(Running)
         /\ Cardinality(Queued) \in Nat /\ Cardinality(Running) \in Nat
<1>1. Len(parses) \in Nat
  BY DEF TypeOK
<1>2. IsFiniteSet(1 .. Len(parses))
  BY <1>1, FS_Interval
<1>3. IsFiniteSet(Queued) /\ IsFiniteSet(Running)
  BY <1>2, FS_Subset DEF Queued, Running
<1>4. \A k \in 1 .. Len(parses) : parses[k].state \in States
  <2> SUFFICES ASSUME NEW k \in 1 .. Len(parses) PROVE parses[k].state \in States
    OBVIOUS
  <2>1. parses[k] \in Parse
    BY DEF TypeOK
  <2> QED
    BY <2>1 DEF Parse
<1>5. Unfinished = Queued \cup Running /\ Queued \cap Running = {}
  BY <1>4 DEF Unfinished, Queued, Running, States
<1>6. /\ IsFiniteSet(Unfinished)
      /\ Cardinality(Unfinished) = Cardinality(Queued) + Cardinality(Running) - Cardinality({})
  BY <1>3, <1>5, FS_Union
<1>7. Cardinality(Queued) \in Nat /\ Cardinality(Running) \in Nat /\ Cardinality({}) = 0
  BY <1>3, FS_CardinalityType, FS_EmptySet
<1> QED
  BY <1>3, <1>6, <1>7

(* A verdict is added to those there were.                                 *)
LEMMA DecideAddsVerdict ==
  ASSUME TypeOK, NEW c \in Clients, NEW t \in Texts, NEW allowed \in BOOLEAN,
         NEW timely \in BOOLEAN, NEW crowd \in Nat,
         Decide(c, t, allowed, timely, crowd)
  PROVE  LET new == [text |-> t, allowed |-> allowed, timely |-> timely,
                     crowd |-> crowd] IN
         /\ verdicts' \in [Clients -> Seq(Verdict)]
         /\ \A v \in Verdicts' : v \in Verdicts \/ v = new
         /\ \A d \in Clients : verdicts'[d] = IF d = c THEN Append(verdicts[d], new)
                                                       ELSE verdicts[d]
<1> DEFINE new == [text |-> t, allowed |-> allowed, timely |-> timely, crowd |-> crowd]
<1>1. new \in Verdict
  BY DEF Verdict
<1>2. verdicts' = [verdicts EXCEPT ![c] = Append(@, new)]
  BY DEF Decide
<1>3. \A d \in Clients : verdicts[d] \in Seq(Verdict)
  BY DEF TypeOK
<1>4. \A d \in Clients : verdicts'[d] = IF d = c THEN Append(verdicts[d], new)
                                                 ELSE verdicts[d]
  BY <1>2 DEF TypeOK
<1>5. verdicts' \in [Clients -> Seq(Verdict)]
  BY <1>1, <1>2, <1>3 DEF TypeOK
<1>6. ASSUME NEW v \in Verdicts' PROVE v \in Verdicts \/ v = new
  <2>1. PICK d \in Clients : \E k \in 1 .. Len(verdicts'[d]) : v = verdicts'[d][k]
    BY <1>6 DEF Verdicts
  <2>2. PICK k \in 1 .. Len(verdicts'[d]) : v = verdicts'[d][k]
    BY <2>1
  <2>3. CASE d # c
    BY <1>4, <2>2, <2>3 DEF Verdicts
  <2>4. CASE d = c
    <3> DEFINE old == verdicts[c]
    <3>1. old \in Seq(Verdict) /\ verdicts'[d] = Append(old, new)
      BY <1>3, <1>4, <2>4
    <3> HIDE DEF new, old
    <3>2. /\ k \in 1 .. Len(old) + 1
          /\ v = IF k = Len(old) + 1 THEN new ELSE old[k]
      BY <1>1, <2>2, <3>1
    <3>3. v = new \/ \E i \in 1 .. Len(old) : v = old[i]
      BY <3>1, <3>2
    <3> QED
      BY <3>3 DEF Verdicts, old
  <2> QED
    BY <2>3, <2>4
<1> QED
  BY <1>4, <1>5, <1>6

(* A verdict on the text whose turn it is keeps the order.                 *)
LEMMA TurnsKept ==
  ASSUME TypeOK, InTurn, NEW c \in Clients, NEW t \in Texts, NEW allowed \in BOOLEAN,
         NEW timely \in BOOLEAN, NEW crowd \in Nat,
         Decide(c, t, allowed, timely, crowd),
         Unread(c), t = NextText(c), UNCHANGED sent
  PROVE  InTurn'
<1> DEFINE new == [text |-> t, allowed |-> allowed, timely |-> timely, crowd |-> crowd]
<1>1. \A d \in Clients : verdicts'[d] = IF d = c THEN Append(verdicts[d], new)
                                                 ELSE verdicts[d]
  BY DecideAddsVerdict
<1>2. new.text = t
  OBVIOUS
<1>3. new \in Verdict
  BY DEF Verdict
<1> SUFFICES ASSUME NEW d \in Clients
             PROVE  /\ Len(verdicts'[d]) <= Len(sent[d])
                    /\ \A k \in 1 .. Len(verdicts'[d]) : verdicts'[d][k].text = sent[d][k]
  BY DEF InTurn
<1>4. verdicts[d] \in Seq(Verdict) /\ sent[d] \in Seq(Texts)
  BY DEF TypeOK
<1>5. CASE d # c
  BY <1>1, <1>5 DEF InTurn
<1>6. CASE d = c
  <2> HIDE DEF new
  <2>1. verdicts'[d] = Append(verdicts[d], new)
    BY <1>1, <1>6
  <2>2. /\ Len(verdicts'[d]) = Len(verdicts[d]) + 1
        /\ \A k \in 1 .. Len(verdicts[d]) + 1 :
             verdicts'[d][k] = IF k = Len(verdicts[d]) + 1 THEN new ELSE verdicts[d][k]
    BY <1>3, <1>4, <2>1
  <2>3. Len(verdicts[d]) < Len(sent[d]) /\ t = sent[d][Len(verdicts[d]) + 1]
    BY <1>6 DEF Unread, NextText
  <2>4. Len(verdicts'[d]) <= Len(sent[d])
    BY <1>4, <2>2, <2>3
  <2>5. ASSUME NEW k \in 1 .. Len(verdicts'[d])
        PROVE  verdicts'[d][k].text = sent[d][k]
    <3>1. CASE k = Len(verdicts[d]) + 1
      BY <1>2, <2>2, <2>3, <3>1
    <3>2. CASE k # Len(verdicts[d]) + 1
      <4>1. k \in 1 .. Len(verdicts[d])
        BY <1>4, <2>2, <3>2
      <4> QED
        BY <2>2, <3>2, <4>1 DEF InTurn
    <3> QED
      BY <3>1, <3>2
  <2> QED
    BY <2>4, <2>5
<1> QED
  BY <1>5, <1>6

(* A verdict that is justified keeps all of them justified.                *)
LEMMA JustifiedVerdictKept ==
  ASSUME TypeOK, VerdictsJustified, UNCHANGED config,
         NEW c \in Clients, NEW t \in Texts, NEW allowed \in BOOLEAN,
         NEW timely \in BOOLEAN, NEW crowd \in Nat,
         Decide(c, t, allowed, timely, crowd),
         Justified([text |-> t, allowed |-> allowed, timely |-> timely,
                    crowd |-> crowd])
  PROVE  VerdictsJustified'
<1> DEFINE new == [text |-> t, allowed |-> allowed, timely |-> timely, crowd |-> crowd]
<1>1. \A v \in Verdicts' : v \in Verdicts \/ v = new
  BY DecideAddsVerdict
<1>2. \A v : Justified(v) => Justified(v)'
  BY DEF Justified, config
<1> QED
  BY <1>1, <1>2 DEF VerdictsJustified

LEMMA InitPInv == ASSUME Init PROVE PInv
<1>1. parses = <<>> /\ Len(parses) = 0 /\ parses \in Seq(Parse)
  BY DEF Init
<1>2. Running = {} /\ Cardinality(Running) = 0
  BY <1>1, FS_EmptySet DEF Running
<1>3. TypeOK
  BY <1>1, PoolAssumption DEF Init, TypeOK
<1>4. Verdicts = {}
  BY DEF Init, Verdicts
<1> QED
  BY <1>1, <1>2, <1>3, <1>4, PoolAssumption
     DEF Init, PInv, WorkersConserved, LateMeansCrowded, SubmittedUndecided,
         VerdictsJustified, InTurn, AwaitedIsNext

-----------------------------------------------------------------------------
(* A text whose turn it is is one of those the clients may send.           *)
LEMMA NextIsText ==
  ASSUME TypeOK, NEW c \in Clients, Unread(c)
  PROVE  NextText(c) \in Texts
<1>1. sent[c] \in Seq(Texts) /\ verdicts[c] \in Seq(Verdict)
  BY DEF TypeOK
<1> QED
  BY <1>1 DEF Unread, NextText

(* Submitting a parse.                                                     *)
LEMMA SubmitKeeps ==
  ASSUME PInv, NEW c \in Clients, Free, Unread(c),
         UNCHANGED <<config, idle, sent, term, open, verdicts>>,
         ~DeniedUnparsed(driver, NextText(c)), ~AllowedUnparsed(driver, NextText(c)),
         parses' = Append(parses, [client |-> c, text |-> NextText(c),
           state |-> "queued", late |-> Cardinality(Queued) >= idle,
           crowd |-> Cardinality(Unfinished)]),
         waitsFor' = Len(parses) + 1
  PROVE  PInv'
<1> DEFINE new == [client |-> c, text |-> NextText(c), state |-> "queued",
                   late |-> Cardinality(Queued) >= idle,
                   crowd |-> Cardinality(Unfinished)]
<1>1. NextText(c) \in Texts
  BY NextIsText DEF PInv
<1>2. /\ Cardinality(Unfinished) \in Nat
      /\ Cardinality(Unfinished) = Cardinality(Queued) + Cardinality(Running)
      /\ Cardinality(Queued) \in Nat /\ Cardinality(Running) \in Nat
  BY PoolSets DEF PInv
<1>3. new \in Parse
  BY <1>1, <1>2 DEF Parse, States
<1>4. parses \in Seq(Parse) /\ idle \in 0 .. Workers /\ Workers \in Nat
  BY PoolAssumption DEF PInv, TypeOK
<1>5. new.late => new.crowd >= Workers
  <2>1. Cardinality(Queued) >= idle => Cardinality(Unfinished) >= Workers
    BY <1>2, <1>4 DEF PInv, WorkersConserved
  <2>2. new.late = (Cardinality(Queued) >= idle) /\ new.crowd = Cardinality(Unfinished)
    BY Zenon
  <2> QED
    BY <2>1, <2>2, Zenon
<1>6. new.state = "queued" /\ new.text = NextText(c)
  OBVIOUS
<1> HIDE DEF new
<1>7. /\ parses' \in Seq(Parse) /\ Len(parses') = Len(parses) + 1
      /\ Len(parses) \in Nat
      /\ \A k \in 1 .. Len(parses') :
           parses'[k] = IF k = Len(parses) + 1 THEN new ELSE parses[k]
  BY <1>3, <1>4 DEF new
<1>8. TypeOK'
  BY <1>7 DEF PInv, TypeOK, config
<1>9. Running' = Running
  <2>1. \A k \in 1 .. Len(parses') :
          parses'[k].state = "running" <=> k \in 1 .. Len(parses) /\ parses[k].state = "running"
    BY <1>6, <1>7
  <2>2. 1 .. Len(parses) \subseteq 1 .. Len(parses')
    BY <1>7
  <2> QED
    BY <2>1, <2>2 DEF Running
<1>10. WorkersConserved'
  BY <1>9 DEF PInv, WorkersConserved
<1>11. LateMeansCrowded'
  BY <1>5, <1>7 DEF PInv, LateMeansCrowded
<1>12. SubmittedUndecided'
  BY <1>6, <1>7 DEF PInv, SubmittedUndecided, config
<1>13. VerdictsJustified'
  BY DEF PInv, VerdictsJustified, Verdicts, Justified, config
<1>14. InTurn' /\ AwaitedIsNext'
  <2>1. new.client = c
    BY DEF new
  <2>2. UNCHANGED <<sent, verdicts>>
    OBVIOUS
  <2> QED
    BY <1>6, <1>7, <2>1, <2>2
       DEF PInv, InTurn, AwaitedIsNext, Awaited, Unread, NextText
<1> QED
  BY <1>8, <1>10, <1>11, <1>12, <1>13, <1>14 DEF PInv

(* A decision, whoever takes it: parses and workers are left alone.        *)
LEMMA DecisionKeeps ==
  ASSUME PInv, NEW c \in Clients, NEW t \in Texts, Unread(c), t = NextText(c),
         NEW allowed \in BOOLEAN, NEW timely \in BOOLEAN, NEW crowd \in Nat,
         Decide(c, t, allowed, timely, crowd),
         Justified([text |-> t, allowed |-> allowed, timely |-> timely,
                    crowd |-> crowd]),
         waitsFor' = 0,
         UNCHANGED <<config, sent, open, parses, idle, term>>
  PROVE  PInv'
<1>1. VerdictsJustified'
  BY JustifiedVerdictKept DEF PInv
<1>2. TypeOK'
  <2>1. verdicts' \in [Clients -> Seq(Verdict)] /\ open' \subseteq Clients
    BY DecideAddsVerdict DEF PInv, TypeOK, Decide
  <2> QED
    BY <2>1 DEF PInv, TypeOK, config
<1>3. WorkersConserved' /\ LateMeansCrowded' /\ SubmittedUndecided' /\ AwaitedIsNext'
  BY DEF PInv, WorkersConserved, LateMeansCrowded, SubmittedUndecided, Running, config,
         AwaitedIsNext
<1>4. InTurn'
  BY TurnsKept DEF PInv
<1> QED
  BY <1>1, <1>2, <1>3, <1>4 DEF PInv

-----------------------------------------------------------------------------
LEMMA ScreenKeeps ==
  ASSUME PInv, NEW c \in Clients, Screen(c)
  PROVE  PInv'
<1> DEFINE t == NextText(c)
           allows == AllowedUnparsed(driver, t)
<1>1. t \in Texts /\ Unread(c)
  BY NextIsText DEF Screen, PInv
<1>2. CASE DeniedUnparsed(driver, t) \/ AllowedUnparsed(driver, t)
  <2>1. /\ Decide(c, t, allows, TRUE, 0)
        /\ waitsFor' = 0 /\ UNCHANGED <<config, sent, open, parses, idle, term>>
    BY <1>2 DEF Screen, Free
  <2>2. allows \in BOOLEAN
    BY DEF AllowedUnparsed
  <2>3. allows <=> Permitted(driver, t, policy)
    BY <1>2, UndeniedPermitted
  <2> DEFINE v == [text |-> t, allowed |-> allows, timely |-> TRUE, crowd |-> 0]
  <2>4. v.text = t /\ v.allowed = allows /\ v.timely = TRUE
    BY Zenon
  <2>5. Justified(v)
    BY <2>3, <2>4, Zenon DEF Justified
  <2> QED
    BY <1>1, <2>1, <2>2, <2>5, DecisionKeeps
<1>3. CASE ~DeniedUnparsed(driver, t) /\ ~AllowedUnparsed(driver, t)
  BY <1>1, <1>3, SubmitKeeps DEF Screen
<1> QED
  BY <1>2, <1>3

(* The client waited for has its text before it, and its connection open.  *)
LEMMA LoopKeeps ==
  ASSUME PInv, Loop
  PROVE  PInv'
<1> DEFINE k == waitsFor
           p == parses[k]
<1>1. k \in 1 .. Len(parses) /\ k # 0 /\ p \in Parse
  <2>1. waitsFor # 0 /\ waitsFor \in 0 .. Len(parses) /\ parses \in Seq(Parse)
    BY DEF Loop, Answer, TimeOut, PInv, TypeOK
  <2> QED
    BY <2>1
<1>2. p.client \in Clients /\ p.text \in Texts /\ p.crowd \in Nat
  BY <1>1 DEF Parse
<1>3. Unread(p.client) /\ p.text = NextText(p.client)
  BY <1>1 DEF PInv, AwaitedIsNext, Awaited
<1>4. ~DeniedUnparsed(driver, p.text) /\ ~AllowedUnparsed(driver, p.text)
  BY <1>1 DEF PInv, SubmittedUndecided
<1>5. CASE Answer
  <2> DEFINE passes == AllowedParsed(driver, p.text, policy)
             v == [text |-> p.text, allowed |-> passes, timely |-> TRUE,
                   crowd |-> p.crowd]
  <2>1. /\ Decide(p.client, p.text, passes, TRUE, p.crowd)
        /\ waitsFor' = 0 /\ UNCHANGED <<config, sent, open, parses, idle, term>>
    BY <1>5 DEF Answer, Resume, Awaited
  <2>2. passes \in BOOLEAN
    BY DEF AllowedParsed
  <2>3. passes <=> Permitted(driver, p.text, policy)
    BY <1>4 DEF Permitted
  <2>4. v.text = p.text /\ v.allowed = passes /\ v.timely = TRUE
    BY Zenon
  <2>5. Justified(v)
    BY <2>3, <2>4, Zenon DEF Justified
  <2> QED
    BY <1>2, <1>3, <2>1, <2>2, <2>5, DecisionKeeps
<1>6. CASE TimeOut
  <2> DEFINE v == [text |-> p.text, allowed |-> FALSE, timely |-> FALSE,
                   crowd |-> p.crowd]
  <2>1. /\ Decide(p.client, p.text, FALSE, FALSE, p.crowd)
        /\ waitsFor' = 0 /\ UNCHANGED <<config, sent, open, parses, idle, term>>
        /\ p.text.cost # "quick" \/ p.late
    BY <1>6 DEF TimeOut, Resume, Awaited
  <2>2. p.text.cost = "quick" => p.crowd >= Workers
    BY <1>1, <2>1 DEF PInv, LateMeansCrowded
  <2>3. v.text = p.text /\ v.allowed = FALSE /\ v.timely = FALSE /\ v.crowd = p.crowd
    OBVIOUS
  <2>4. Justified(v)
    BY <2>2, <2>3 DEF Justified
  <2> QED
    BY <1>2, <1>3, <2>1, <2>4, DecisionKeeps
<1> QED
  BY <1>5, <1>6 DEF Loop

(* A parse moves on: what was recorded of it at its submission stays.      *)
LEMMA AdvanceKeeps ==
  ASSUME PInv, NEW k \in 1 .. Len(parses), NEW to \in {"running", "done"},
         Advance(k, to), idle' \in 0 .. Workers,
         to = "running" => k \in Queued /\ idle' = idle - 1,
         to = "done" => k \in Running /\ idle' = idle + 1
  PROVE  PInv'
<1>1. parses \in Seq(Parse) /\ Len(parses) \in Nat /\ idle \in 0 .. Workers
      /\ Workers \in Nat
  BY PoolAssumption DEF PInv, TypeOK
<1>2. parses' = [parses EXCEPT ![k].state = to]
  BY DEF Advance
<1>3. \A i \in 1 .. Len(parses) : parses[i] \in Parse
  BY <1>1
<1>4. [parses[k] EXCEPT !.state = to] \in Parse
  BY <1>3 DEF Parse, States
<1>5. parses' \in Seq(Parse) /\ Len(parses') = Len(parses)
  BY <1>1, <1>2, <1>4
<1>6. \A i \in 1 .. Len(parses) :
        parses'[i] = IF i = k THEN [parses[k] EXCEPT !.state = to] ELSE parses[i]
  BY <1>1, <1>2
<1>7. \A i \in 1 .. Len(parses) :
        /\ parses'[i].late = parses[i].late /\ parses'[i].crowd = parses[i].crowd
        /\ parses'[i].text = parses[i].text
        /\ parses'[i].state = IF i = k THEN to ELSE parses[i].state
  BY <1>3, <1>6 DEF Parse
<1>8. TypeOK'
  BY <1>5 DEF PInv, TypeOK, Advance, config
<1>9. LateMeansCrowded' /\ SubmittedUndecided'
  BY <1>5, <1>7 DEF PInv, LateMeansCrowded, SubmittedUndecided, Advance, config
<1>10. WorkersConserved'
  <2>1. IsFiniteSet(Running) /\ Cardinality(Running) \in Nat
    BY PoolSets DEF PInv
  <2>2. CASE to = "running"
    <3>1. k \notin Running /\ Running' = Running \cup {k}
      BY <1>5, <1>7, <2>2 DEF Running, Queued
    <3>2. Cardinality(Running') = Cardinality(Running) + 1
      BY <2>1, <3>1, FS_AddElement
    <3> QED
      BY <1>1, <2>1, <2>2, <3>2 DEF PInv, WorkersConserved
  <2>3. CASE to = "done"
    <3>1. k \in Running /\ Running' = Running \ {k}
      BY <1>5, <1>7, <2>3 DEF Running
    <3>2. Cardinality(Running') = Cardinality(Running) - 1
      BY <2>1, <3>1, FS_RemoveElement
    <3> QED
      BY <1>1, <2>1, <2>3, <3>2 DEF PInv, WorkersConserved
  <2> QED
    BY <2>2, <2>3
<1>11. VerdictsJustified'
  <2>1. Verdicts' = Verdicts
    BY DEF Verdicts, Advance
  <2>2. \A v : Justified(v) => Justified(v)'
    BY DEF Justified, Advance, config
  <2> QED
    BY <2>1, <2>2 DEF PInv, VerdictsJustified
<1>12. InTurn' /\ AwaitedIsNext'
  <2>1. UNCHANGED <<sent, verdicts, waitsFor>>
    BY DEF Advance
  <2>2. waitsFor # 0 => /\ parses'[waitsFor].client = parses[waitsFor].client
                        /\ parses'[waitsFor].text = parses[waitsFor].text
    <3>1. waitsFor \in 0 .. Len(parses)
      BY DEF PInv, TypeOK
    <3>2. \A i \in 1 .. Len(parses) : parses'[i].client = parses[i].client
      BY <1>3, <1>6 DEF Parse
    <3> QED
      BY <1>1, <1>7, <3>1, <3>2
  <2> QED
    BY <2>1, <2>2 DEF PInv, InTurn, AwaitedIsNext, Awaited, Unread, NextText
<1> QED
  BY <1>8, <1>9, <1>10, <1>11, <1>12 DEF PInv

(* Clients and the end of the process: no parse, no verdict.               *)
LEMMA OthersKeep ==
  ASSUME PInv, \/ \E c \in Clients : ClientSends(c) \/ SessionCloses(c)
               \/ Signal \/ StopServer \/ Exit \/ UNCHANGED vars
  PROVE  PInv'
<1>1. UNCHANGED <<config, parses, idle, waitsFor, verdicts>>
  BY DEF ClientSends, SessionCloses, Signal, StopServer, Exit, vars
<1>2. (WorkersConserved /\ LateMeansCrowded /\ SubmittedUndecided)'
  BY <1>1 DEF PInv, WorkersConserved, LateMeansCrowded, SubmittedUndecided, Running, config
<1>3. VerdictsJustified'
  <2>1. Verdicts' = Verdicts
    BY <1>1 DEF Verdicts
  <2>2. \A v : Justified(v) => Justified(v)'
    BY <1>1 DEF Justified, config
  <2> QED
    BY <2>1, <2>2 DEF PInv, VerdictsJustified
<1>4. CASE \E c \in Clients : ClientSends(c)
  <2>1. PICK c \in Clients : ClientSends(c)
    BY <1>4
  <2>2. PICK text \in Texts : sent' = [sent EXCEPT ![c] = Append(@, text)]
    BY <2>1 DEF ClientSends
  <2>3. \A d \in Clients : sent[d] \in Seq(Texts) /\ verdicts[d] \in Seq(Verdict)
    BY DEF PInv, TypeOK
  <2>4. sent' \in [Clients -> Seq(Texts)]
    BY <2>2, <2>3 DEF PInv, TypeOK
  <2>5. \A d \in Clients : /\ Len(sent'[d]) >= Len(sent[d])
                           /\ \A k \in 1 .. Len(sent[d]) : sent'[d][k] = sent[d][k]
    BY <2>2, <2>3 DEF PInv, TypeOK
  <2>6. TypeOK'
    BY <1>1, <2>1, <2>4 DEF PInv, TypeOK, ClientSends, config
  <2>7. InTurn'
    <3> SUFFICES ASSUME NEW d \in Clients
                 PROVE  /\ Len(verdicts[d]) <= Len(sent'[d])
                        /\ \A k \in 1 .. Len(verdicts[d]) : verdicts[d][k].text = sent'[d][k]
      BY <1>1 DEF InTurn
    <3>1. Len(verdicts[d]) \in Nat /\ Len(sent[d]) \in Nat /\ Len(sent'[d]) \in Nat
      BY <2>3, <2>4
    <3> QED
      BY <2>5, <3>1 DEF PInv, InTurn
  <2>8. AwaitedIsNext'
    <3> SUFFICES ASSUME waitsFor # 0
                 PROVE  /\ Len(verdicts[Awaited.client]) < Len(sent'[Awaited.client])
                        /\ Awaited.text = sent'[Awaited.client][Len(verdicts[Awaited.client]) + 1]
      BY <1>1 DEF AwaitedIsNext, Unread, NextText, Awaited
    <3>1. Awaited.client \in Clients
      <4>1. waitsFor \in 1 .. Len(parses) /\ parses[waitsFor] \in Parse
        BY DEF PInv, TypeOK
      <4> QED
        BY <4>1 DEF Awaited, Parse
    <3> DEFINE d == Awaited.client
    <3>2. Len(verdicts[d]) < Len(sent[d]) /\ Awaited.text = sent[d][Len(verdicts[d]) + 1]
      BY DEF PInv, AwaitedIsNext, Unread, NextText
    <3>3. Len(verdicts[d]) \in Nat /\ Len(sent[d]) \in Nat /\ Len(sent'[d]) \in Nat
      BY <2>3, <2>4, <3>1
    <3> HIDE DEF d
    <3>4. Len(verdicts[d]) + 1 \in 1 .. Len(sent[d]) /\ d \in Clients
      BY <3>1, <3>2, <3>3 DEF d
    <3>5. /\ Len(verdicts[d]) < Len(sent'[d])
          /\ Awaited.text = sent'[d][Len(verdicts[d]) + 1]
      BY <2>5, <3>2, <3>3, <3>4
    <3> QED
      BY <3>5 DEF d
  <2> QED
    BY <1>2, <1>3, <2>6, <2>7, <2>8 DEF PInv
<1>5. CASE ~\E c \in Clients : ClientSends(c)
  <2>1. UNCHANGED sent /\ TypeOK'
    BY <1>1, <1>5 DEF SessionCloses, Signal, StopServer, Exit, vars, PInv, TypeOK, config
  <2>2. InTurn' /\ AwaitedIsNext'
    BY <1>1, <2>1 DEF PInv, InTurn, AwaitedIsNext, Awaited, Unread, NextText
  <2> QED
    BY <1>2, <1>3, <2>1, <2>2 DEF PInv
<1> QED
  BY <1>4, <1>5

-----------------------------------------------------------------------------
(* PInv is inductive: the pool loses no worker, given up parses or not.    *)
THEOREM PoolInvariant == Spec => []PInv
<1>1. Init => PInv
  BY InitPInv
<1>2. PInv /\ [Next]_vars => PInv'
  <2> SUFFICES ASSUME PInv, [Next]_vars PROVE PInv'
    OBVIOUS
  <2>1. CASE \E c \in Clients : Screen(c)
    BY <2>1, ScreenKeeps
  <2>2. CASE Loop
    BY <2>2, LoopKeeps
  <2>3. CASE WorkerTakes
    <3>1. PICK k \in Queued : /\ idle > 0 /\ idle' = idle - 1
                              /\ Advance(k, "running")
      BY <2>3 DEF WorkerTakes
    <3>2. k \in 1 .. Len(parses) /\ idle' \in 0 .. Workers
      BY <3>1, PoolAssumption DEF Queued, PInv, TypeOK
    <3> QED
      BY <3>1, <3>2, AdvanceKeeps
  <2>4. CASE \E k \in 1 .. MaxTexts : ParseEnds(k)
    <3>1. PICK k \in 1 .. MaxTexts : ParseEnds(k)
      BY <2>4
    <3>2. k \in Running /\ k \in 1 .. Len(parses)
      BY <3>1 DEF ParseEnds, Running
    <3>3. idle < Workers
      <4>1. IsFiniteSet(Running) /\ Cardinality(Running) \in Nat
        BY PoolSets DEF PInv
      <4>2. Cardinality(Running) # 0
        BY <3>2, <4>1, FS_EmptySet
      <4> QED
        BY <4>1, <4>2, PoolAssumption DEF PInv, TypeOK, WorkersConserved
    <3>4. idle' = idle + 1 /\ idle' \in 0 .. Workers /\ Advance(k, "done")
      BY <3>1, <3>3, PoolAssumption DEF ParseEnds, PInv, TypeOK
    <3> QED
      BY <3>2, <3>4, AdvanceKeeps
  <2>5. CASE \/ \E c \in Clients : ClientSends(c) \/ SessionCloses(c)
             \/ Signal \/ StopServer \/ Exit \/ UNCHANGED vars
    BY <2>5, OthersKeep
  <2> QED
    BY <2>1, <2>2, <2>3, <2>4, <2>5 DEF Next
<1> QED
  BY <1>1, <1>2, PTL DEF Spec

(* Types, among them that no more workers are idle than there are.         *)
THEOREM PoolTypes == Spec => []TypeOK
<1>1. PInv => TypeOK
  BY DEF PInv
<1> QED
  BY <1>1, PoolInvariant, PTL

(* Verdicts come in the order of the texts, each by the rules on its own   *)
(* text unless time ran out, however many parses the pool has given up.    *)
THEOREM VerdictsFollow == Spec => []VerdictsFollowPolicy
<1>1. PInv => VerdictsFollowPolicy
  <2> SUFFICES ASSUME PInv, NEW c \in Clients, NEW k \in 1 .. Len(verdicts[c])
               PROVE  verdicts[c][k].text = sent[c][k] /\ Justified(verdicts[c][k])
    BY DEF VerdictsFollowPolicy, Justified
  <2>1. verdicts[c][k] \in Verdicts
    BY DEF Verdicts
  <2> QED
    BY <2>1 DEF PInv, InTurn, VerdictsJustified
<1> QED
  BY <1>1, PoolInvariant, PTL

(* A quick text is denied for its time behind a full pool only.            *)
THEOREM TimeoutsNeeded == Spec => []NoNeedlessTimeout
<1>1. PInv => NoNeedlessTimeout
  BY DEF PInv, VerdictsJustified, Justified, NoNeedlessTimeout
<1> QED
  BY <1>1, PoolInvariant, PTL
=============================================================================
