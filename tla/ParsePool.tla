----------------------------- MODULE ParsePool -----------------------------
(***************************************************************************)
(* The DB proxy's event loop screening SQL: parse_with_timeout hands a text*)
(* to a pool of worker threads and waits for it without yielding, so that  *)
(* one client's parse stops every other client; a parse that exceeds its   *)
(* budget is given up, but it keeps its worker, or its place in the queue. *)
(* SIGTERM and the end of run_proxy are here too, as they wait for both.   *)
(***************************************************************************)
EXTENDS SqlFirewall, FiniteSetsExt

CONSTANTS Clients,   \* connections in a session
          Texts,     \* SQL texts the clients may send
          Policies,  \* policies the proxy may be given
          Tls,       \* whether connections to the upstream use TLS
          Deaf,      \* clients that may leave what they are sent unread
          Workers,   \* _MAX_PARSE_WORKERS
          MaxTexts   \* bound on the texts all clients send

ASSUME PoolAssumption ==
  /\ Texts \subseteq Text /\ Tls \in BOOLEAN
  /\ Workers \in Nat \ {0} /\ MaxTexts \in Nat

VARIABLES
  driver, policy, \* of this proxy
  sent,      \* the texts each client sent
  open,      \* clients whose handle_client has not returned
  parses,    \* history: the parses submitted: whose, of what, how far
  idle,      \* number of workers without a parse
  waitsFor,  \* the parse the event loop waits for, 0 if it is free
  verdicts,  \* the verdicts on the texts each client's filter has read
  term       \* "no", "signalled", "closing" (run_proxy has ended), "exited"

config == <<driver, policy>>
vars == <<config, sent, open, parses, idle, waitsFor, verdicts, term>>

States == {"queued", "running", "done"}

(* late: no idle worker was left for it when it was submitted; crowd, for   *)
(* the properties: how many parses were unfinished then.                   *)
Parse   == [client : Clients, text : Texts, state : States,
            late : BOOLEAN, crowd : Nat]
Verdict == [text : Texts, allowed : BOOLEAN, timely : BOOLEAN, crowd : Nat]

Unfinished == {k \in 1 .. Len(parses) : parses[k].state # "done"}
Queued     == {k \in 1 .. Len(parses) : parses[k].state = "queued"}

TypeOK ==
  /\ driver \in Drivers /\ policy \in Policies
  /\ sent \in [Clients -> Seq(Texts)]
  /\ open \subseteq Clients
  /\ parses \in Seq(Parse)
  /\ idle \in 0 .. Workers
  /\ waitsFor \in 0 .. Len(parses)
  /\ verdicts \in [Clients -> Seq(Verdict)]
  /\ term \in {"no", "signalled", "closing", "exited"}

Init ==
  /\ driver \in Drivers /\ policy \in Policies
  /\ sent = [c \in Clients |-> <<>>]
  /\ open = Clients
  /\ parses = <<>> /\ idle = Workers /\ waitsFor = 0
  /\ verdicts = [c \in Clients |-> <<>>]
  /\ term = "no"

-----------------------------------------------------------------------------
(* The event loop.                                                         *)

Free == waitsFor = 0 /\ term \in {"no", "signalled"}

(* A filter reads its client's texts one by one, each once it has given    *)
(* the verdict on the one before.                                          *)
Unread(c) == Len(verdicts[c]) < Len(sent[c])
NextText(c) == sent[c][Len(verdicts[c]) + 1]

(* An allowed text goes to the server, a denied one ends the filter, but   *)
(* not the session, which still waits for the relay.                       *)
Filtering(c) ==
  c \in open /\ \A k \in 1 .. Len(verdicts[c]) : verdicts[c][k].allowed

Decide(c, text, allowed, timely, crowd) ==
  verdicts' = [verdicts EXCEPT ![c] = Append(@,
    [text |-> text, allowed |-> allowed, timely |-> timely, crowd |-> crowd])]

(* filter_client_frames reads a text: a rule decides it at once, or it is  *)
(* submitted and the loop waits.                                           *)
Screen(c) ==
  /\ Free /\ Filtering(c) /\ Unread(c)
  /\ LET text == NextText(c) IN
       \/ /\ DeniedUnparsed(driver, text) \/ AllowedUnparsed(driver, text)
          /\ Decide(c, text, AllowedUnparsed(driver, text), TRUE, 0)
          /\ UNCHANGED <<parses, waitsFor>>
       \/ /\ ~DeniedUnparsed(driver, text) /\ ~AllowedUnparsed(driver, text)
          /\ parses' = Append(parses, [client |-> c, text |-> text, state |-> "queued",
               late |-> Cardinality(Queued) >= idle, crowd |-> Cardinality(Unfinished)])
          /\ waitsFor' = Len(parses) + 1
          /\ UNCHANGED verdicts
  /\ UNCHANGED <<config, sent, open, idle, term>>

Awaited == parses[waitsFor]

(* The wait is over, one way or the other.                                 *)
Resume(allowed, timely) ==
  /\ Decide(Awaited.client, Awaited.text, allowed, timely, Awaited.crowd)
  /\ waitsFor' = 0
  /\ UNCHANGED <<config, sent, open, parses, idle, term>>

(* Mutant: the loop takes the result of any parse that ended.              *)
AnswerFromPool ==
  /\ waitsFor # 0
  /\ \E k \in 1 .. Len(parses) :
       /\ parses[k].state = "done"
       /\ Resume(AllowedParsed(driver, parses[k].text, policy), TRUE)

(* future.result returns.                                                  *)
Answer ==
  /\ waitsFor # 0 /\ Awaited.state = "done"
  /\ Resume(AllowedParsed(driver, Awaited.text, policy), TRUE)

(* Mutant: only a parse that runs is given up.                             *)
TimeOutRunning ==
  /\ waitsFor # 0 /\ Awaited.state = "running"
  /\ Awaited.text.cost # "quick" \/ Awaited.late
  /\ Resume(FALSE, FALSE)

(* future.result raises: the text is denied, its parse goes on. An idle    *)
(* worker takes a parse, and ends a quick one, well within the budget.     *)
TimeOut ==
  /\ waitsFor # 0 /\ Awaited.state # "done"
  /\ Awaited.state = "queued" => idle = 0
  /\ Awaited.text.cost # "quick" \/ Awaited.late
  /\ Resume(FALSE, FALSE)

-----------------------------------------------------------------------------
(* The pool takes parses in the order they were submitted, given up or not.*)

Advance(k, state) ==
  /\ parses' = [parses EXCEPT ![k].state = state]
  /\ UNCHANGED <<config, sent, open, waitsFor, verdicts, term>>

(* Mutant: a thread for every parse.                                       *)
WorkerTakesUnbounded ==
  \E k \in Queued :
    /\ idle' = idle - 1
    /\ \A j \in Queued : k <= j
    /\ Advance(k, "running")

WorkerTakes ==
  \E k \in Queued :
    /\ idle > 0 /\ idle' = idle - 1
    /\ \A j \in Queued : k <= j
    /\ Advance(k, "running")

(* Mutant: a worker whose parse was given up does not come back.           *)
ParseEndsForgotten(k) ==
  /\ k \in 1 .. Len(parses)
  /\ parses[k].state = "running" /\ parses[k].text.cost # "endless"
  /\ idle' = IF k = waitsFor THEN idle + 1 ELSE idle
  /\ Advance(k, "done")

ParseEnds(k) ==
  /\ k \in 1 .. Len(parses)
  /\ parses[k].state = "running" /\ parses[k].text.cost # "endless"
  /\ idle' = idle + 1
  /\ Advance(k, "done")

-----------------------------------------------------------------------------
(* Clients, and the end of the process. Left out: what a client sends once *)
(* nothing reads it any more, and clients that leave of themselves.        *)

ClientSends(c) ==
  /\ Filtering(c) /\ term # "closing"
  /\ MapThenSumSet(LAMBDA d : Len(sent[d]), Clients) < MaxTexts
  /\ \E text \in Texts : sent' = [sent EXCEPT ![c] = Append(@, text)]
  /\ UNCHANGED <<config, open, parses, idle, waitsFor, verdicts, term>>

Signal ==
  /\ term = "no" /\ term' = "signalled"
  /\ UNCHANGED <<config, sent, open, parses, idle, waitsFor, verdicts>>

(* Mutant: the sessions are drained first, as the log line says.           *)
StopServerDrains ==
  /\ Free /\ term = "signalled" /\ term' = "closing"
  /\ open = {}
  /\ UNCHANGED <<config, sent, open, parses, idle, waitsFor, verdicts>>

(* run_proxy returns, wait_closed of the server waiting for no session, and*)
(* asyncio.run cancels the sessions: nothing is screened any more, and each*)
(* is in its finally block.                                                *)
StopServer ==
  /\ Free /\ term = "signalled" /\ term' = "closing"
  /\ UNCHANGED <<config, sent, open, parses, idle, waitsFor, verdicts>>

(* Of a connection start_tls upgraded the session closes the first writer, *)
(* the protocol of which is never told that the connection is lost.        *)
NeverCloses == driver = "mysql" /\ Tls

(* A session is cancelled, or its relay ended after its filter did, and    *)
(* wait_closed returns for both of its writers.                            *)
SessionCloses(c) ==
  /\ c \in open
  /\ term = "closing" \/ (Free /\ ~Filtering(c))
  /\ ~NeverCloses
  /\ open' = open \ {c}
  /\ UNCHANGED <<config, sent, parses, idle, waitsFor, verdicts, term>>

(* asyncio.run waits for every session; the interpreter joins the workers, *)
(* which first empty the queue: nobody calls _sql_parse.shutdown.          *)
Exit ==
  /\ term = "closing" /\ open = {} /\ Unfinished = {}
  /\ term' = "exited"
  /\ UNCHANGED <<config, sent, open, parses, idle, waitsFor, verdicts>>

-----------------------------------------------------------------------------
Loop == Answer \/ TimeOut
Next ==
  \/ \E c \in Clients : Screen(c) \/ ClientSends(c) \/ SessionCloses(c)
  \/ Loop \/ Signal \/ StopServer \/ Exit
  \/ WorkerTakes \/ \E k \in 1 .. MaxTexts : ParseEnds(k)

(* The loop runs its callbacks in turn, so that no filter and not the      *)
(* handler of the signal is passed over for ever; its wait has a limit; the*)
(* threads run; once it is cancelled, the session of a client that reads   *)
(* closes. Nothing makes a client send, a server close, or a parse that has*)
(* no end end.                                                             *)
Spec ==
  /\ Init /\ [][Next]_vars
  /\ \A c \in Clients : SF_vars(Screen(c))
  /\ SF_vars(StopServer) /\ WF_vars(Loop) /\ WF_vars(Exit)
  /\ \A c \in Clients \ Deaf : WF_vars(term = "closing" /\ SessionCloses(c))
  /\ WF_vars(WorkerTakes) /\ \A k \in 1 .. MaxTexts : WF_vars(ParseEnds(k))

-----------------------------------------------------------------------------
(* Correctness.                                                            *)

Verdicts == UNION {{verdicts[c][k] : k \in 1 .. Len(verdicts[c])} : c \in Clients}

(* Every verdict is on the text whose turn it was, and is what the rules   *)
(* say of that very text, whatever else the pool ends in the meantime; a   *)
(* text that was given up is denied.                                       *)
VerdictsFollowPolicy ==
  \A c \in Clients : \A k \in 1 .. Len(verdicts[c]) :
    LET v == verdicts[c][k] IN
    /\ v.text = sent[c][k]
    /\ v.allowed <=> v.timely /\ Permitted(driver, v.text, policy)

(* A text that parses quickly is denied for its time only when as many     *)
(* parses as there are workers, all given up, were still unfinished.       *)
NoNeedlessTimeout ==
  \A v \in Verdicts :
    ~v.timely /\ v.text.cost = "quick" => v.crowd >= Workers

(* A client that waits for verdicts gets them all, unless one of them ends *)
(* its filter or the proxy is told to stop, whatever the pool is busy with.*)
EveryTextAnswered ==
  \A c \in Clients :
    Unread(c) ~> ~Unread(c) \/ ~Filtering(c) \/ term # "no"

(* What may hold the process after SIGTERM: a parse that never ends keeps a*)
(* worker, or a client reads nothing and keeps its session.                *)
Held ==
  \/ \E k \in Unfinished : parses[k].text.cost = "endless"
  \/ Deaf \cap open # {}

(* After SIGTERM the process ends, sessions open or not, unless it is held *)
(* or its sessions are MySQL's over TLS.                                   *)
ExitsUnlessStuck ==
  term = "signalled" ~> term = "exited" \/ Held \/ (NeverCloses /\ open # {})
=============================================================================
