----------------------------- MODULE ReadOutput -----------------------------
(***************************************************************************)
(* One sandboxed call from the launch of bwrap to the value its caller     *)
(* gets: dispatcher.py writing into the two pipes, _read_output in the     *)
(* supervisor's thread reading them against a deadline and a size cap, the *)
(* search for the __RESULT__ line, and _execute_rpc in main_app.py.        *)
(*                                                                         *)
(* Output is counted in pieces. On stdout a "line" ends with a newline, a  *)
(* "word" does not; the dispatcher's last print is a "mark" (__RESULT__:   *)
(* and the first part of the JSON) and an "end" (the rest and a newline),  *)
(* so that a cut can fall between them.                                    *)
(***************************************************************************)
EXTENDS Naturals, Sequences, SequencesExt

CONSTANTS Bodies,     \* what the called function may write: sequences of Piece
          MaxOut,     \* max_out_bytes, in pieces
          MaxErr,     \* _MAX_STDERR, in pieces
          Chunk,      \* the size given to os.read, in pieces
          PipeSize    \* capacity of a pipe, in pieces

VARIABLES
  (* the process in the sandbox *)
  fate,       \* how the call ends if nobody kills it
  todo,       \* what it still has to do, in order
  proc,       \* state of bwrap
  open,       \* the pipes whose write end is open
  written,    \* history: everything written to stdout
  outPipe,    \* written to stdout and not read
  errPipe,    \* number of pieces written to stderr and not read
  (* the thread in _read_output *)
  pc,
  watch,      \* fds
  ready,      \* what select returned and the loop has not read yet
  got,        \* stdout_chunks, concatenated
  errGot,     \* stderr_total
  truncated,
  late,       \* the deadline has passed
  (* the caller *)
  rpc         \* what _execute_rpc does

process == <<fate, todo, proc, open, written, outPipe, errPipe>>
reader  == <<pc, watch, ready, got, errGot, truncated>>
vars    == <<process, reader, late, rpc>>

Piece   == {"line", "word", "mark", "end"}
Stream  == {"out", "err"}
Fate    == {"return", "raise", "exit", "hang"}
ExitedProc == {"exit0", "exit1"}

ASSUME SizesAssumption ==
  /\ MaxOut \in Nat /\ MaxErr \in Nat /\ PipeSize \in Nat
  /\ Chunk \in Nat \ {0}

ASSUME BodiesAssumption ==
  \A body \in Bodies : body \in Seq(Piece \cup {"err", "close"})

TypeOK ==
  /\ fate \in Fate
  /\ todo \in Seq(Piece \cup {"err", "close"})
  /\ proc \in {"running", "exit0", "exit1", "killed"}
  /\ open \subseteq Stream
  /\ written \in Seq(Piece) /\ outPipe \in Seq(Piece) /\ got \in Seq(Piece)
  /\ errPipe \in 0 .. PipeSize /\ errGot \in 0 .. MaxErr + Chunk
  /\ pc \in {"top", "select", "poll", "read", "wait", "parse", "done"}
  /\ watch \subseteq Stream /\ ready \subseteq watch
  /\ truncated \in BOOLEAN /\ late \in BOOLEAN
  /\ rpc \in {"pending", "value", "raw", "none", "raised"}

(* main of the dispatcher: the function, then the result line or, on an    *)
(* exception, a traceback. sys.exit in the function is not an Exception.   *)
Script(body, end) ==
  CASE end = "return" -> body \o <<"mark", "end">>
    [] end = "raise"  -> body \o <<"err">>
    [] OTHER          -> body

Init ==
  /\ fate \in Fate
  /\ \E body \in Bodies : todo = Script(body, fate)
  /\ proc = "running"
  /\ open = Stream
  /\ written = <<>> /\ outPipe = <<>> /\ errPipe = 0
  /\ pc = "top" /\ watch = Stream /\ ready = {}
  /\ got = <<>> /\ errGot = 0 /\ truncated = FALSE
  /\ late = FALSE
  /\ rpc = "pending"

-----------------------------------------------------------------------------
(* The process. A write blocks while the pipe is full.                     *)

AboutTo(piece) == proc = "running" /\ todo # <<>> /\ Head(todo) = piece

WriteOut ==
  \E piece \in Piece :
    /\ AboutTo(piece)
    /\ todo' = Tail(todo)
    /\ IF "out" \in open
         THEN /\ Len(outPipe) < PipeSize
              /\ outPipe' = Append(outPipe, piece)
              /\ written' = Append(written, piece)
         ELSE UNCHANGED <<outPipe, written>>
    /\ UNCHANGED <<fate, proc, open, errPipe, reader, late, rpc>>

WriteErr ==
  /\ AboutTo("err")
  /\ todo' = Tail(todo)
  /\ IF "err" \in open
       THEN errPipe < PipeSize /\ errPipe' = errPipe + 1
       ELSE UNCHANGED errPipe
  /\ UNCHANGED <<fate, proc, open, written, outPipe, reader, late, rpc>>

(* The function closes both standard streams and goes on.                  *)
CloseStreams ==
  /\ AboutTo("close")
  /\ todo' = Tail(todo)
  /\ open' = {}
  /\ UNCHANGED <<fate, proc, written, outPipe, errPipe, reader, late, rpc>>

Exit ==
  /\ proc = "running" /\ todo = <<>> /\ fate # "hang"
  /\ proc' = IF fate = "raise" THEN "exit1" ELSE "exit0"
  /\ open' = {}
  /\ UNCHANGED <<fate, todo, written, outPipe, errPipe, reader, late, rpc>>

DeadlinePasses ==
  /\ ~late /\ pc # "done"
  /\ late' = TRUE
  /\ UNCHANGED <<process, reader, rpc>>

(* Popen.kill polls first: a process that has exited keeps its code.       *)
KillProc ==
  /\ proc' = IF proc = "running" THEN "killed" ELSE proc
  /\ open' = {}

-----------------------------------------------------------------------------
(* The loop of _read_output.                                               *)

LoopTop ==
  /\ pc = "top"
  /\ IF watch # {} /\ late
       THEN KillProc
       ELSE UNCHANGED <<proc, open>>
  /\ pc' = IF watch = {} \/ late THEN "wait" ELSE "select"
  /\ UNCHANGED <<fate, todo, written, outPipe, errPipe, watch, ready, got,
                 errGot, truncated, late, rpc>>

(* Readable: data, or end of file.                                         *)
Readable == {s \in watch : \/ s \notin open
                           \/ s = "out" /\ outPipe # <<>>
                           \/ s = "err" /\ errPipe > 0}

(* select returns what is readable, or nothing after half a second.        *)
Select ==
  /\ pc = "select"
  /\ ready' = Readable
  /\ pc' = IF Readable = {} THEN "poll" ELSE "read"
  /\ UNCHANGED <<process, watch, got, errGot, truncated, late, rpc>>

(* Mutant: an idle half second ends the loop.                              *)
PollBreaks ==
  /\ pc = "poll"
  /\ pc' = "wait"
  /\ UNCHANGED <<process, watch, ready, got, errGot, truncated, late, rpc>>

Poll ==
  /\ pc = "poll"
  /\ pc' = IF proc = "running" THEN "top" ELSE "wait"
  /\ UNCHANGED <<process, watch, ready, got, errGot, truncated, late, rpc>>

AfterRead(s) ==
  /\ ready' = ready \ {s}
  /\ pc' = IF ready = {s} THEN "top" ELSE "read"

ChunkOf(pipe) == SubSeq(pipe, 1, IF Len(pipe) < Chunk THEN Len(pipe) ELSE Chunk)

(* Mutant: the flag is only set, never looked at.                          *)
KeepUnguarded(chunk) ==
  IF Len(chunk) > MaxOut - Len(got)
    THEN truncated' = TRUE /\ UNCHANGED got
    ELSE got' = got \o chunk /\ UNCHANGED truncated

(* Mutant: a chunk that goes over the cap is dropped whole.                *)
KeepWholeChunks(chunk) ==
  IF truncated \/ Len(chunk) > MaxOut - Len(got)
    THEN truncated' = TRUE /\ UNCHANGED got
    ELSE got' = got \o chunk /\ UNCHANGED truncated

(* Mutant: and nobody is told.                                             *)
KeepDropsSilently(chunk) ==
  /\ got' = IF Len(chunk) > MaxOut - Len(got) THEN got ELSE got \o chunk
  /\ UNCHANGED truncated

(* What of a chunk is kept: once truncated nothing is, and it is read all  *)
(* the same so that the sandbox does not block on a full pipe.             *)
Keep(chunk) ==
  LET available == MaxOut - Len(got) IN
    IF truncated
      THEN UNCHANGED <<got, truncated>>
      ELSE IF Len(chunk) > available
        THEN got' = got \o SubSeq(chunk, 1, available) /\ truncated' = TRUE
        ELSE got' = got \o chunk /\ UNCHANGED truncated

(* Mutant: stdout is not drained beyond the cap.                           *)
ReadOutStopsAtCap ==
  /\ pc = "read" /\ "out" \in ready
  /\ LET chunk == ChunkOf(outPipe) IN
       /\ outPipe' = SubSeq(outPipe, Len(chunk) + 1, Len(outPipe))
       /\ Keep(chunk)
       /\ watch' = IF chunk = <<>> \/ truncated' THEN watch \ {"out"} ELSE watch
  /\ AfterRead("out")
  /\ UNCHANGED <<fate, todo, proc, open, written, errPipe, errGot, late, rpc>>

ReadOut ==
  /\ pc = "read" /\ "out" \in ready
  /\ LET chunk == ChunkOf(outPipe) IN
       /\ outPipe' = SubSeq(outPipe, Len(chunk) + 1, Len(outPipe))
       /\ watch' = IF chunk = <<>> THEN watch \ {"out"} ELSE watch
       /\ Keep(chunk)
  /\ AfterRead("out")
  /\ UNCHANGED <<fate, todo, proc, open, written, errPipe, errGot, late, rpc>>

(* Mutant: stderr without a cap.                                           *)
ReadErrUncapped ==
  /\ pc = "read" /\ ready = {"err"}
  /\ LET size == IF errPipe < Chunk THEN errPipe ELSE Chunk IN
       /\ errPipe' = errPipe - size
       /\ watch' = IF size = 0 THEN watch \ {"err"} ELSE watch
       /\ errGot' = errGot + size
  /\ AfterRead("err")
  /\ UNCHANGED <<fate, todo, proc, open, written, outPipe, got, truncated, late,
                 rpc>>

(* Stdout comes first in fds. The cap on stderr is tested before a chunk,  *)
(* not after.                                                              *)
ReadErr ==
  /\ pc = "read" /\ ready = {"err"}
  /\ LET size == IF errPipe < Chunk THEN errPipe ELSE Chunk IN
       /\ errPipe' = errPipe - size
       /\ watch' = IF size = 0 THEN watch \ {"err"} ELSE watch
       /\ errGot' = IF errGot < MaxErr THEN errGot + size ELSE errGot
  /\ AfterRead("err")
  /\ UNCHANGED <<fate, todo, proc, open, written, outPipe, got, truncated, late,
                 rpc>>

(* proc.wait(timeout=5), and the kill when it times out.                   *)
WaitProc ==
  /\ pc = "wait"
  /\ KillProc
  /\ pc' = "parse"
  /\ UNCHANGED <<fate, todo, written, outPipe, errPipe, watch, ready, got,
                 errGot, truncated, late, rpc>>

-----------------------------------------------------------------------------
(* handle_request looks for the last line that starts with __RESULT__:, so *)
(* a mark right after a word is part of that word's line.                  *)
AtLineStart(k) == k = 1 \/ got[k - 1] \in {"line", "end"}
Marks  == {k \in 1 .. Len(got) : got[k] = "mark" /\ AtLineStart(k)}

Result ==
  CASE Marks = {}                -> "none"
    [] Marks # {} /\ Max(Marks) < Len(got) -> "value"
    [] OTHER                     -> "raw"

(* _execute_rpc: a nonzero exit code raises; no result line is None; a     *)
(* result that is not JSON is returned as the text it is.                  *)
ExecuteRpc ==
  /\ pc = "parse"
  /\ rpc' = IF proc # "exit0" THEN "raised" ELSE Result
  /\ pc' = "done"
  /\ UNCHANGED <<process, watch, ready, got, errGot, truncated, late>>

Process == WriteOut \/ WriteErr \/ CloseStreams \/ Exit

Reader == LoopTop \/ Select \/ Poll \/ ReadOut \/ ReadErr \/ WaitProc \/ ExecuteRpc

Next == Process \/ Reader \/ DeadlinePasses

(* The process is scheduled and the thread of the supervisor is. Whether   *)
(* the deadline comes before anything else is left open.                   *)
Spec == Init /\ [][Next]_vars /\ WF_vars(Process) /\ WF_vars(Reader)

-----------------------------------------------------------------------------
(* Correctness.                                                            *)

(* What is kept of stdout is, in order and without a gap, the beginning of *)
(* what was written, and no more than the cap.                             *)
KeepsPrefix == IsPrefix(got, written) /\ Len(got) <= MaxOut

(* The truncated flag tells the truth: it is set only on a full buffer     *)
(* with more written, and output read to its end without it is complete.   *)
TruncatedHonest ==
  /\ truncated => Len(got) = MaxOut /\ Len(written) > MaxOut
  /\ "out" \notin watch /\ ~truncated => got = written

(* A process is killed only when the deadline has passed or it has closed  *)
(* both its streams.                                                       *)
KilledForCause == proc = "killed" => late \/ watch = {}

(* What the called function prints holds no mark of its own: no line of it *)
(* begins with __RESULT__:, though the dispatcher would let it print one.  *)
NoOwnMark == \A body \in Bodies : \A k \in 1 .. Len(body) : body[k] # "mark"

(* A function that returned and left its lines terminated is reported as   *)
(* its value or as an error, unless its output was cut, or was still in    *)
(* the pipe when the reader gave up.                                       *)
ValueReported ==
  (/\ rpc \in {"none", "raw"}
   /\ fate = "return"
   /\ "mark" \in Range(written)
   /\ \A k \in 2 .. Len(written) : written[k] = "mark" => written[k - 1] # "word")
    => truncated \/ outPipe # <<>>

(* The reader returns whenever the sandbox ends by itself, however much it *)
(* writes on either stream, and whenever the deadline passes.              *)
ReaderReturns == (fate # "hang" \/ <>late) => <>(pc = "done")

(* "Returns (stdout_bytes, stderr_bytes, truncated)": what a process wrote *)
(* before it exited by itself and in time is returned, or flagged as       *)
(* truncated.                                                              *)
NothingLostUnflagged ==
  pc = "done" /\ proc # "killed" /\ ~late /\ ~truncated => got = written
=============================================================================
