-------------------------- MODULE ReadOutputProofs --------------------------
(* Theorems about ReadOutput, for any caps, any sizes of chunk and pipe    *)
(* and whatever the called function writes.                                *)
EXTENDS ReadOutput, SequenceTheorems, TLAPS

LEMMA Split ==
  ASSUME NEW S, NEW s \in Seq(S), NEW n \in 0 .. Len(s)
  PROVE  /\ SubSeq(s, 1, n) \in Seq(S) /\ Len(SubSeq(s, 1, n)) = n
         /\ SubSeq(s, n + 1, Len(s)) \in Seq(S)
         /\ SubSeq(s, 1, n) \o SubSeq(s, n + 1, Len(s)) = s
<1>1. Len(s) \in Nat /\ \A i \in 1 .. Len(s) : s[i] \in S
  OBVIOUS
<1>2. SubSeq(s, 1, n) \in Seq(S) /\ Len(SubSeq(s, 1, n)) = n
  BY <1>1, SubSeqProperties
<1>3. SubSeq(s, n + 1, Len(s)) \in Seq(S)
  BY <1>1, SubSeqProperties
<1>4. SubSeq(s, 1, n) \o SubSeq(s, n + 1, Len(s)) = SubSeq(s, 1, Len(s))
  <2>1. 1 \in 1 .. Len(s) + 1 /\ n \in 1 - 1 .. Len(s) /\ Len(s) \in n .. Len(s)
    BY <1>1
  <2> QED
    BY <2>1, ConcatAdjacentSubSeq
<1> QED
  BY <1>2, <1>3, <1>4, SubSeqFull

LEMMA Associate ==
  \A s, t, u \in Seq(Piece) : s \o (t \o u) = (s \o t) \o u
BY ConcatAssociative

LEMMA PrefixOfConcat ==
  ASSUME NEW S, NEW g \in Seq(S), NEW p \in Seq(S)
  PROVE  IsPrefix(g, g \o p)
<1>1. Len(g) \in Nat /\ Len(g) <= Len(g \o p) /\ g \o p \in Seq(S)
  OBVIOUS
<1>2. SubSeq(g \o p, 1, Len(g)) \in Seq(S) /\ Len(SubSeq(g \o p, 1, Len(g))) = Len(g)
  BY <1>1, Split
<1>3. \A k \in 1 .. Len(g) : SubSeq(g \o p, 1, Len(g))[k] = g[k]
  BY <1>1
<1>4. SubSeq(g \o p, 1, Len(g)) = g
  BY <1>2, <1>3, SeqEqual
<1> QED
  BY <1>1, <1>4, SubSeqFull DEF IsPrefix

LEMMA PrefixAppend ==
  ASSUME NEW S, NEW g \in Seq(S), NEW w \in Seq(S), NEW x \in S, IsPrefix(g, w)
  PROVE  IsPrefix(g, Append(w, x))
<1>1. /\ Len(g) \in Nat /\ Len(w) \in Nat /\ Len(g) <= Len(w)
      /\ SubSeq(g, 1, Len(g)) = SubSeq(w, 1, Len(g))
      /\ Append(w, x) \in Seq(S) /\ Len(Append(w, x)) = Len(w) + 1
  BY DEF IsPrefix
<1>2. /\ SubSeq(w, 1, Len(g)) \in Seq(S)
      /\ SubSeq(Append(w, x), 1, Len(g)) \in Seq(S)
      /\ Len(SubSeq(w, 1, Len(g))) = Len(SubSeq(Append(w, x), 1, Len(g)))
  BY <1>1, Split
<1>3. \A k \in 1 .. Len(g) :
        SubSeq(w, 1, Len(g))[k] = SubSeq(Append(w, x), 1, Len(g))[k]
  BY <1>1
<1>4. SubSeq(w, 1, Len(g)) = SubSeq(Append(w, x), 1, Len(g))
  BY <1>1, <1>2, <1>3, Split, SeqEqual
<1> QED
  BY <1>1, <1>4 DEF IsPrefix

LEMMA AppendRight ==
  ASSUME NEW S, NEW g \in Seq(S), NEW p \in Seq(S), NEW x \in S
  PROVE  g \o Append(p, x) = Append(g \o p, x)
<1>1. /\ g \o Append(p, x) \in Seq(S) /\ Append(g \o p, x) \in Seq(S)
      /\ Len(g \o Append(p, x)) = Len(Append(g \o p, x))
  OBVIOUS
<1>2. \A k \in 1 .. Len(Append(g \o p, x)) :
        (g \o Append(p, x))[k] = Append(g \o p, x)[k]
  OBVIOUS
<1> QED
  BY <1>1, <1>2, SeqEqual

-----------------------------------------------------------------------------
(* The invariant.                                                          *)

(* As long as nothing is cut off, what was written is what was read and    *)
(* what is in the pipe; after that the buffer is full.                     *)
Kept ==
  /\ ~truncated => written = got \o outPipe /\ Len(got) <= MaxOut
  /\ truncated => /\ Len(got) = MaxOut /\ Len(written) > MaxOut
                  /\ IsPrefix(got, written)

(* select names stdout only when a read tells data from its end, so the    *)
(* loop stops watching it only at its end.                                 *)
AtEnd ==
  /\ pc = "read" /\ "out" \in ready => "out" \notin open \/ outPipe # <<>>
  /\ "out" \notin watch => "out" \notin open /\ outPipe = <<>>

(* The loop is left for one of three reasons.                              *)
LeftForCause ==
  /\ proc = "killed" => late \/ watch = {}
  /\ pc = "wait" => late \/ watch = {} \/ proc # "running"

RInv == TypeOK /\ Kept /\ AtEnd /\ LeftForCause

(* RInv holds before the process has done anything.                        *)
LEMMA InitRInv ==
  ASSUME Init
  PROVE  RInv
<1>1. PICK body \in Bodies : todo = Script(body, fate)
  BY DEF Init
<1>2. body \in Seq(Piece \cup {"err", "close"})
  BY BodiesAssumption
<1>3. /\ body \o <<"mark", "end">> \in Seq(Piece \cup {"err", "close"})
      /\ body \o <<"err">> \in Seq(Piece \cup {"err", "close"})
  <2>1. /\ <<"mark", "end">> \in Seq(Piece \cup {"err", "close"})
        /\ <<"err">> \in Seq(Piece \cup {"err", "close"})
    BY DEF Piece
  <2> QED
    BY <1>2, <2>1, ConcatProperties
<1>4. todo \in Seq(Piece \cup {"err", "close"})
  BY <1>1, <1>2, <1>3 DEF Script
<1>5. TypeOK
  <2>1. fate \in Fate /\ proc = "running" /\ open = Stream /\ watch = Stream
    BY DEF Init
  <2>2. written \in Seq(Piece) /\ outPipe \in Seq(Piece) /\ got \in Seq(Piece)
    BY EmptySeq DEF Init
  <2>3. errPipe \in 0 .. PipeSize /\ errGot \in 0 .. MaxErr + Chunk
    BY SizesAssumption DEF Init
  <2>4. pc = "top" /\ ready = {} /\ ~truncated /\ ~late /\ rpc = "pending"
    BY DEF Init
  <2>5. truncated \in BOOLEAN /\ late \in BOOLEAN
    BY DEF Init
  <2> QED
    BY <1>4, <2>1, <2>2, <2>3, <2>4, <2>5 DEF TypeOK
<1>6. Kept
  BY SizesAssumption DEF Init, Kept
<1>7. AtEnd /\ LeftForCause
  BY DEF Init, AtEnd, LeftForCause, Stream
<1> QED
  BY <1>5, <1>6, <1>7 DEF RInv

-----------------------------------------------------------------------------
(* Steps of the process.                                                   *)

(* A piece written to stdout joins the end of the pipe.                    *)
LEMMA WriteOutKeeps ==
  ASSUME RInv, WriteOut
  PROVE  RInv'
<1> USE DEF RInv
<1>1. PICK piece \in Piece :
        /\ AboutTo(piece)
        /\ todo' = Tail(todo)
        /\ IF "out" \in open
             THEN /\ Len(outPipe) < PipeSize
                  /\ outPipe' = Append(outPipe, piece)
                  /\ written' = Append(written, piece)
             ELSE UNCHANGED <<outPipe, written>>
  BY DEF WriteOut
<1>2. /\ UNCHANGED <<fate, proc, open, errPipe, late, rpc>>
      /\ UNCHANGED <<pc, watch, ready, got, errGot, truncated>>
  BY DEF WriteOut, reader
<1>3. todo' \in Seq(Piece \cup {"err", "close"})
  BY <1>1 DEF TypeOK, AboutTo
<1>4. CASE "out" \notin open
  BY <1>1, <1>2, <1>3, <1>4 DEF TypeOK, Kept, AtEnd, LeftForCause
<1>5. CASE "out" \in open
  <2>1. /\ got \in Seq(Piece) /\ outPipe \in Seq(Piece) /\ written \in Seq(Piece)
        /\ outPipe' = Append(outPipe, piece) /\ written' = Append(written, piece)
    BY <1>1, <1>5 DEF TypeOK
  <2>2. /\ outPipe' \in Seq(Piece) /\ written' \in Seq(Piece)
        /\ outPipe' # <<>> /\ Len(written') = Len(written) + 1
    BY <2>1, AppendProperties
  <2>3. TypeOK'
    BY <1>2, <1>3, <2>2 DEF TypeOK
  <2>4. Kept'
    <3>1. CASE truncated
      <4>1. IsPrefix(got, Append(written, piece))
        BY <2>1, <3>1, PrefixAppend DEF Kept
      <4>2. Len(written) \in Nat
        BY <2>1
      <4> QED
        BY <1>2, <2>1, <2>2, <3>1, <4>1, <4>2, SizesAssumption DEF Kept
    <3>2. CASE ~truncated
      <4>1. got \o Append(outPipe, piece) = Append(got \o outPipe, piece)
        BY <2>1, AppendRight
      <4> QED
        BY <1>2, <2>1, <3>2, <4>1 DEF Kept
    <3> QED
      BY <3>1, <3>2 DEF TypeOK
  <2>5. AtEnd' /\ LeftForCause'
    BY <1>2, <1>5, <2>2 DEF AtEnd, LeftForCause
  <2> QED
    BY <2>3, <2>4, <2>5
<1> QED
  BY <1>4, <1>5

(* The other steps of the process leave stdout as it is, or end it.        *)
LEMMA ProcessKeeps ==
  ASSUME RInv, WriteErr \/ CloseStreams \/ Exit
  PROVE  RInv'
<1> USE DEF RInv
<1>1. CASE WriteErr
  <2>1. /\ todo' \in Seq(Piece \cup {"err", "close"})
        /\ errPipe' \in 0 .. PipeSize
    BY <1>1, SizesAssumption DEF WriteErr, TypeOK, AboutTo
  <2>2. /\ UNCHANGED <<fate, proc, open, written, outPipe, late, rpc>>
        /\ UNCHANGED <<pc, watch, ready, got, errGot, truncated>>
    BY <1>1 DEF WriteErr, reader
  <2> QED
    BY <2>1, <2>2 DEF TypeOK, Kept, AtEnd, LeftForCause
<1>2. CASE CloseStreams
  <2>1. todo' \in Seq(Piece \cup {"err", "close"}) /\ open' = {}
    BY <1>2 DEF CloseStreams, TypeOK, AboutTo
  <2>2. /\ UNCHANGED <<fate, proc, written, outPipe, errPipe, late, rpc>>
        /\ UNCHANGED <<pc, watch, ready, got, errGot, truncated>>
    BY <1>2 DEF CloseStreams, reader
  <2> QED
    BY <2>1, <2>2 DEF TypeOK, Kept, AtEnd, LeftForCause
<1>3. CASE Exit
  <2>1. proc' \in {"exit0", "exit1"} /\ proc = "running" /\ open' = {}
    BY <1>3 DEF Exit
  <2>2. /\ UNCHANGED <<fate, todo, written, outPipe, errPipe, late, rpc>>
        /\ UNCHANGED <<pc, watch, ready, got, errGot, truncated>>
    BY <1>3 DEF Exit, reader
  <2> QED
    BY <2>1, <2>2 DEF TypeOK, Kept, AtEnd, LeftForCause
<1> QED
  BY <1>1, <1>2, <1>3

-----------------------------------------------------------------------------
(* Steps of the reader.                                                    *)

(* What a chunk adds to the buffer, whether or not it reaches the cap, and *)
(* whether or not it is empty.                                             *)
LEMMA ReadOutKeeps ==
  ASSUME RInv, ReadOut
  PROVE  RInv'
<1> USE DEF RInv
<1> DEFINE size == IF Len(outPipe) < Chunk THEN Len(outPipe) ELSE Chunk
           chunk == SubSeq(outPipe, 1, size)
           rest == SubSeq(outPipe, size + 1, Len(outPipe))
<1>1. /\ got \in Seq(Piece) /\ outPipe \in Seq(Piece) /\ written \in Seq(Piece)
      /\ Len(got) \in Nat /\ Len(outPipe) \in Nat /\ Len(written) \in Nat
      /\ MaxOut \in Nat
  BY SizesAssumption DEF TypeOK
<1>2. size \in 0 .. Len(outPipe) /\ (size = 0 => outPipe = <<>>)
  BY <1>1, SizesAssumption
<1>3. /\ chunk \in Seq(Piece) /\ Len(chunk) = size
      /\ rest \in Seq(Piece) /\ chunk \o rest = outPipe
  BY <1>1, <1>2, Split
<1>4. /\ outPipe' = rest
      /\ watch' = IF chunk = <<>> THEN watch \ {"out"} ELSE watch
      /\ Keep(chunk)
      /\ ready' = ready \ {"out"} /\ pc' \in {"top", "read"} /\ pc = "read"
      /\ "out" \in ready
  <2>1. ChunkOf(outPipe) = chunk
    BY DEF ChunkOf
  <2> QED
    BY <1>3, <2>1 DEF ReadOut, AfterRead
<1>5. UNCHANGED <<fate, todo, proc, open, written, errPipe, errGot, late, rpc>>
  BY DEF ReadOut
<1>6. chunk = <<>> => outPipe = <<>> /\ rest = <<>>
  <2>1. chunk = <<>> => size = 0
    BY <1>3
  <2>2. outPipe = <<>> => rest = <<>>
    BY <1>1, <1>2, <1>3, ConcatSimplifications
  <2> QED
    BY <1>2, <2>1, <2>2
<1> HIDE DEF size, chunk, rest
<1>7. got' \in Seq(Piece) /\ truncated' \in BOOLEAN /\ Kept'
  <2>1. CASE truncated
    BY <1>1, <1>4, <1>5, <2>1 DEF Keep, Kept
  <2>2. CASE ~truncated /\ Len(chunk) <= MaxOut - Len(got)
    <3>1. got' = got \o chunk /\ truncated' = truncated /\ truncated \in BOOLEAN
      BY <1>1, <1>2, <1>3, <1>4, <2>2 DEF Keep, TypeOK
    <3>2. got \o chunk \in Seq(Piece) /\ Len(got \o chunk) = Len(got) + Len(chunk)
      BY <1>1, <1>3, ConcatProperties
    <3>3. (got \o chunk) \o rest = written
      <4>1. written = got \o (chunk \o rest)
        BY <1>3, <2>2 DEF Kept
      <4>2. got \o (chunk \o rest) = (got \o chunk) \o rest
        BY <1>1, <1>3, Associate, Zenon
      <4> QED
        BY <4>1, <4>2, Zenon
    <3>4. Len(got \o chunk) <= MaxOut
      BY <1>1, <1>2, <1>3, <2>2, <3>2
    <3> QED
      BY <1>4, <1>5, <2>2, <3>1, <3>2, <3>3, <3>4 DEF Kept
  <2>3. CASE ~truncated /\ Len(chunk) > MaxOut - Len(got)
    <3> DEFINE room == MaxOut - Len(got)
               head == SubSeq(chunk, 1, room)
               cut == SubSeq(chunk, room + 1, Len(chunk))
    <3>1. Len(got) <= MaxOut /\ written = got \o outPipe
      BY <2>3 DEF Kept
    <3>2. room \in 0 .. Len(chunk) /\ Len(chunk) \in Nat /\ room < Len(chunk)
      BY <1>1, <1>2, <1>3, <2>3, <3>1
    <3>3. /\ head \in Seq(Piece) /\ Len(head) = room
          /\ cut \in Seq(Piece) /\ head \o cut = chunk
      BY <1>3, <3>2, Split
    <3>4. got' = got \o head /\ truncated'
      BY <1>4, <2>3 DEF Keep
    <3> HIDE DEF head, cut
    <3>5. got \o head \in Seq(Piece) /\ Len(got \o head) = MaxOut
      BY <1>1, <3>2, <3>3, ConcatProperties
    <3>6. written = (got \o head) \o (cut \o rest)
      <4>1. chunk \o rest = head \o (cut \o rest)
        BY <1>3, <3>3, Associate, Zenon
      <4>2. cut \o rest \in Seq(Piece)
        BY <1>3, <3>3, ConcatProperties
      <4>3. written = got \o (head \o (cut \o rest))
        BY <1>3, <3>1, <4>1
      <4>4. got \o (head \o (cut \o rest)) = (got \o head) \o (cut \o rest)
        BY <1>1, <3>3, <4>2, Associate, Zenon
      <4> QED
        BY <4>3, <4>4, Zenon
    <3>7. IsPrefix(got \o head, written)
      <4>1. cut \o rest \in Seq(Piece)
        BY <1>3, <3>3, ConcatProperties
      <4> QED
        BY <3>5, <3>6, <4>1, PrefixOfConcat
    <3>8. Len(written) > MaxOut
      <4>1. Len(written) = Len(got) + Len(outPipe)
        BY <1>1, <3>1, ConcatProperties
      <4>2. Len(outPipe) >= Len(chunk)
        BY <1>1, <1>2, <1>3
      <4> QED
        BY <1>1, <2>3, <3>2, <4>1, <4>2
    <3> QED
      BY <1>5, <3>4, <3>5, <3>7, <3>8 DEF Kept
  <2>4. Len(chunk) <= MaxOut - Len(got) \/ Len(chunk) > MaxOut - Len(got)
    BY <1>1, <1>2, <1>3
  <2> QED
    BY <2>1, <2>2, <2>3, <2>4, Zenon
<1>8. TypeOK'
  BY <1>3, <1>4, <1>5, <1>7 DEF TypeOK
<1>9. AtEnd'
  <2>1. "out" \notin watch' => chunk = <<>>
    BY <1>4 DEF TypeOK
  <2>2. chunk = <<>> => "out" \notin open
    BY <1>4, <1>6 DEF AtEnd
  <2> QED
    BY <1>4, <1>5, <1>6, <2>1, <2>2 DEF AtEnd
<1>10. LeftForCause'
  BY <1>4, <1>5 DEF LeftForCause
<1> QED
  BY <1>7, <1>8, <1>9, <1>10

LEMMA ReadErrKeeps ==
  ASSUME RInv, ReadErr
  PROVE  RInv'
<1> USE DEF RInv
<1> DEFINE size == IF errPipe < Chunk THEN errPipe ELSE Chunk
<1>1. /\ errPipe' = errPipe - size
      /\ watch' = IF size = 0 THEN watch \ {"err"} ELSE watch
      /\ errGot' = IF errGot < MaxErr THEN errGot + size ELSE errGot
      /\ ready' = ready \ {"err"} /\ pc' = "top" /\ ready = {"err"}
      /\ UNCHANGED <<fate, todo, proc, open, written, outPipe, got, truncated,
                     late, rpc>>
  BY DEF ReadErr, AfterRead
<1>2. errPipe' \in 0 .. PipeSize /\ errGot' \in 0 .. MaxErr + Chunk
  BY <1>1, SizesAssumption DEF TypeOK
<1>3. watch' \subseteq watch /\ ("out" \in watch => "out" \in watch') /\ ready' = {}
  BY <1>1
<1> HIDE DEF size
<1>4. TypeOK'
  BY <1>1, <1>2, <1>3 DEF TypeOK
<1>5. Kept' /\ AtEnd' /\ LeftForCause'
  BY <1>1, <1>3 DEF Kept, AtEnd, LeftForCause
<1> QED
  BY <1>4, <1>5

(* Only the loop's condition and its last wait kill the process.           *)
LEMMA LoopKeeps ==
  ASSUME RInv, LoopTop \/ Select \/ Poll \/ WaitProc \/ ExecuteRpc
  PROVE  RInv'
<1> USE DEF RInv
<1>1. CASE LoopTop
  <2>1. UNCHANGED <<fate, todo, written, outPipe, errPipe, watch, ready, got,
                    errGot, truncated, late, rpc>>
    BY <1>1 DEF LoopTop
  <2>2. /\ open' \subseteq open
        /\ proc' \in {"running", "exit0", "exit1", "killed"}
        /\ proc' = proc \/ late
        /\ pc' \in {"wait", "select"} /\ (pc' = "wait" => late \/ watch = {})
    BY <1>1 DEF LoopTop, KillProc, TypeOK
  <2> QED
    BY <2>1, <2>2 DEF TypeOK, Kept, AtEnd, LeftForCause
<1>2. CASE Select
  <2>1. UNCHANGED <<watch, got, errGot, truncated, late, rpc>>
    BY <1>2 DEF Select
  <2>2. UNCHANGED <<fate, todo, proc, open, written, outPipe, errPipe>>
    BY <1>2 DEF Select, process
  <2>3. ready' = Readable /\ pc' \in {"poll", "read"} /\ Readable \subseteq watch
    BY <1>2 DEF Select, Readable
  <2>4. "out" \in Readable => "out" \notin open \/ outPipe # <<>>
    BY DEF Readable
  <2> QED
    BY <2>1, <2>2, <2>3, <2>4 DEF TypeOK, Kept, AtEnd, LeftForCause
<1>3. CASE Poll
  <2>1. UNCHANGED <<fate, todo, proc, open, written, outPipe, errPipe>>
    BY <1>3 DEF Poll, process
  <2>2. /\ UNCHANGED <<watch, ready, got, errGot, truncated, late, rpc>>
        /\ pc' \in {"top", "wait"} /\ (pc' = "wait" => proc # "running")
    BY <1>3 DEF Poll
  <2> QED
    BY <2>1, <2>2 DEF TypeOK, Kept, AtEnd, LeftForCause
<1>4. CASE WaitProc
  <2>1. UNCHANGED <<fate, todo, written, outPipe, errPipe, watch, ready, got,
                    errGot, truncated, late, rpc>>
    BY <1>4 DEF WaitProc
  <2>2. /\ open' = {} /\ pc' = "parse" /\ pc = "wait"
        /\ proc' = IF proc = "running" THEN "killed" ELSE proc
    BY <1>4 DEF WaitProc, KillProc
  <2> QED
    BY <2>1, <2>2 DEF TypeOK, Kept, AtEnd, LeftForCause
<1>5. CASE ExecuteRpc
  <2>1. UNCHANGED <<fate, todo, proc, open, written, outPipe, errPipe>>
    BY <1>5 DEF ExecuteRpc, process
  <2>2. Result \in {"none", "value", "raw"}
    BY DEF Result
  <2>3. /\ UNCHANGED <<watch, ready, got, errGot, truncated, late>>
        /\ pc' = "done" /\ rpc' \in {"raised", "none", "value", "raw"}
    BY <1>5, <2>2 DEF ExecuteRpc
  <2> QED
    BY <2>1, <2>3 DEF TypeOK, Kept, AtEnd, LeftForCause
<1> QED
  BY <1>1, <1>2, <1>3, <1>4, <1>5

(* RInv is kept by every step.                                             *)
LEMMA NextKeeps ==
  ASSUME RInv, [Next]_vars
  PROVE  RInv'
<1>1. CASE WriteOut
  BY <1>1, WriteOutKeeps
<1>2. CASE WriteErr \/ CloseStreams \/ Exit
  BY <1>2, ProcessKeeps
<1>3. CASE ReadOut
  BY <1>3, ReadOutKeeps
<1>4. CASE ReadErr
  BY <1>4, ReadErrKeeps
<1>5. CASE LoopTop \/ Select \/ Poll \/ WaitProc \/ ExecuteRpc
  BY <1>5, LoopKeeps
<1>6. CASE DeadlinePasses
  <2>1. late' = TRUE
    BY <1>6 DEF DeadlinePasses
  <2>2. /\ UNCHANGED <<fate, todo, proc, open, written, outPipe, errPipe>>
        /\ UNCHANGED <<pc, watch, ready, got, errGot, truncated, rpc>>
    BY <1>6 DEF DeadlinePasses, process, reader
  <2> QED
    BY <2>1, <2>2 DEF RInv, TypeOK, Kept, AtEnd, LeftForCause
<1>7. CASE UNCHANGED vars
  BY <1>7 DEF vars, process, reader, RInv, TypeOK, Kept, AtEnd, LeftForCause
<1> QED
  BY <1>1, <1>2, <1>3, <1>4, <1>5, <1>6, <1>7 DEF Next, Process, Reader

-----------------------------------------------------------------------------
(* The theorems.                                                           *)

(* What was written, read and left in the pipe of a sandbox stay together, *)
(* for any behaviour of the process and any moment of the deadline.        *)
THEOREM ReaderInvariant == Spec => []RInv
<1>1. Init => RInv
  BY InitRInv
<1>2. RInv /\ [Next]_vars => RInv'
  BY NextKeeps
<1> QED
  BY <1>1, <1>2, PTL DEF Spec

(* Every variable of _read_output keeps its type; the bytes counted on     *)
(* stderr never pass the cap by more than a chunk.                         *)
THEOREM ReaderTypes == Spec => []TypeOK
<1>1. RInv => TypeOK
  BY DEF RInv
<1> QED
  BY <1>1, ReaderInvariant, PTL

(* What _read_output keeps of stdout is the beginning of what the process  *)
(* wrote and not longer than max_out_bytes, however the writes, the reads  *)
(* and the kill fall.                                                      *)
THEOREM PrefixKept == Spec => []KeepsPrefix
<1>1. RInv => KeepsPrefix
  <2> SUFFICES ASSUME RInv PROVE KeepsPrefix
    OBVIOUS
  <2>1. /\ got \in Seq(Piece) /\ outPipe \in Seq(Piece) /\ Len(got) \in Nat
        /\ MaxOut \in Nat
    BY SizesAssumption DEF RInv, TypeOK
  <2>2. CASE truncated
    BY <2>1, <2>2 DEF RInv, Kept, KeepsPrefix
  <2>3. CASE ~truncated
    BY <2>1, <2>3, PrefixOfConcat DEF RInv, Kept, KeepsPrefix
  <2> QED
    BY <2>2, <2>3
<1> QED
  BY <1>1, ReaderInvariant, PTL

(* The truncated flag of _read_output is set only on a full buffer with    *)
(* more written, and stdout read to its end without it is complete.        *)
THEOREM FlagHonest == Spec => []TruncatedHonest
<1>1. RInv => TruncatedHonest
  <2> SUFFICES ASSUME RInv PROVE TruncatedHonest
    OBVIOUS
  <2>1. got \in Seq(Piece) /\ got \o <<>> = got
    BY ConcatEmptySeq DEF RInv, TypeOK
  <2> QED
    BY <2>1 DEF RInv, Kept, AtEnd, TruncatedHonest
<1> QED
  BY <1>1, ReaderInvariant, PTL

(* _read_output kills a process only past the deadline or after both its   *)
(* streams have ended.                                                     *)
THEOREM KillsForCause == Spec => []KilledForCause
<1>1. RInv => KilledForCause
  BY DEF RInv, LeftForCause, KilledForCause
<1> QED
  BY <1>1, ReaderInvariant, PTL


-----------------------------------------------------------------------------
(* The result line of a function that returns.                             *)

Unmarked(s, n) == \A k \in 1 .. n : s[k] # "mark"

(* A sequence that ends with the result line and holds no other mark.      *)
EndsWithResult(s) ==
  /\ Len(s) >= 2 /\ s[Len(s) - 1] = "mark" /\ s[Len(s)] = "end"
  /\ Unmarked(s, Len(s) - 2)

(* The line is still to be written, can no longer be, is written up to the *)
(* cut, or is written.                                                     *)
Marked ==
  fate = "return" =>
    \/ Unmarked(written, Len(written)) /\ "out" \in open /\ EndsWithResult(todo)
    \/ Unmarked(written, Len(written)) /\ "out" \notin open
    \/ /\ proc \in {"running", "killed"} /\ (proc = "running" => "out" \in open)
       /\ todo = <<"end">> /\ Len(written) >= 1 /\ written[Len(written)] = "mark"
       /\ Unmarked(written, Len(written) - 1)
    \/ todo = <<>> /\ EndsWithResult(written)

(* An answer other than a value is what the parser found in a buffer that  *)
(* nobody adds to any more.                                                *)
Parsed == rpc \in {"none", "raw"} => pc = "done" /\ proc = "exit0" /\ rpc = Result

VInv == RInv /\ Marked /\ Parsed

LEMMA ScriptEnds ==
  ASSUME NEW S, NEW body \in Seq(S), NEW s \in Seq(S), s = <<"mark", "end">>,
         Unmarked(body, Len(body))
  PROVE  EndsWithResult(body \o s)
<1>1. Len(s) = 2 /\ s[1] = "mark" /\ s[2] = "end"
  OBVIOUS
<1>2. /\ Len(body) \in Nat /\ Len(body \o s) = Len(body) + 2
      /\ \A k \in 1 .. Len(body) : (body \o s)[k] = body[k]
      /\ (body \o s)[Len(body) + 1] = s[1] /\ (body \o s)[Len(body) + 2] = s[2]
  BY <1>1, ConcatProperties
<1> QED
  BY <1>1, <1>2 DEF EndsWithResult, Unmarked

(* What the process still has to do, once it has done the first of it.     *)
LEMMA ResultAhead ==
  ASSUME NEW S, NEW s \in Seq(S), EndsWithResult(s)
  PROVE  /\ s # <<>>
         /\ \/ Head(s) = "mark" /\ Tail(s) = <<"end">>
            \/ Head(s) # "mark" /\ EndsWithResult(Tail(s))
<1>1. /\ Len(s) \in Nat /\ Len(s) >= 2 /\ s # <<>> /\ Head(s) = s[1]
      /\ Tail(s) \in Seq(S) /\ Len(Tail(s)) = Len(s) - 1
      /\ \A k \in 1 .. Len(s) - 1 : Tail(s)[k] = s[k + 1]
  BY DEF EndsWithResult
<1>2. CASE Len(s) = 2
  <2>1. s[1] = "mark" /\ s[2] = "end"
    BY <1>2 DEF EndsWithResult
  <2>2. Len(Tail(s)) = 1 /\ Tail(s)[1] = "end" /\ Head(s) = "mark"
    BY <1>1, <1>2, <2>1
  <2>3. <<"end">> \in Seq(S) /\ Len(<<"end">>) = 1 /\ <<"end">>[1] = "end"
    BY <1>2, <2>1
  <2>4. Tail(s) = <<"end">>
    <3>1. \A i \in 1 .. Len(Tail(s)) : Tail(s)[i] = <<"end">>[i]
      BY <2>2, <2>3
    <3>2. Len(Tail(s)) = Len(<<"end">>) /\ Tail(s) \in Seq(S) /\ <<"end">> \in Seq(S)
      BY <1>1, <2>2, <2>3
    <3> QED
      BY <3>1, <3>2, SeqEqual, Zenon
  <2> QED
    BY <1>1, <2>2, <2>4
<1>3. CASE Len(s) > 2
  BY <1>1, <1>3 DEF EndsWithResult, Unmarked
<1> QED
  BY <1>1, <1>2, <1>3

LEMMA WrittenOnce ==
  ASSUME NEW s \in Seq(Piece), NEW x \in Piece
  PROVE  /\ Len(s) \in Nat /\ Len(Append(s, x)) = Len(s) + 1
         /\ Append(s, x)[Len(s) + 1] = x
         /\ \A k \in 1 .. Len(s) : Append(s, x)[k] = s[k]
BY AppendProperties

(* Before the first step.                                                  *)
LEMMA InitMarked ==
  ASSUME NoOwnMark, Init
  PROVE  Marked /\ Parsed
<1>1. PICK body \in Bodies : todo = Script(body, fate)
  BY DEF Init
<1>2. body \in Seq(Piece \cup {"err", "close"}) /\ Unmarked(body, Len(body))
  BY BodiesAssumption DEF NoOwnMark, Unmarked
<1>3. <<"mark", "end">> \in Seq(Piece \cup {"err", "close"})
  BY DEF Piece
<1>4. fate = "return" => EndsWithResult(todo)
  BY <1>1, <1>2, <1>3, ScriptEnds DEF Script
<1>5. Unmarked(written, Len(written)) /\ "out" \in open
  BY DEF Init, Unmarked, Stream
<1> QED
  BY <1>4, <1>5 DEF Init, Marked, Parsed

(* A piece written to stdout.                                              *)
LEMMA WriteOutMarked ==
  ASSUME VInv, WriteOut
  PROVE  Marked' /\ Parsed'
<1> USE DEF VInv, RInv
<1>1. PICK piece \in Piece :
        /\ AboutTo(piece)
        /\ todo' = Tail(todo)
        /\ IF "out" \in open
             THEN /\ Len(outPipe) < PipeSize
                  /\ outPipe' = Append(outPipe, piece)
                  /\ written' = Append(written, piece)
             ELSE UNCHANGED <<outPipe, written>>
  BY DEF WriteOut
<1>2. UNCHANGED <<fate, proc, open, pc, got, rpc>> /\ proc = "running"
      /\ todo # <<>> /\ Head(todo) = piece
  BY <1>1 DEF WriteOut, reader, AboutTo
<1>3. todo \in Seq(Piece \cup {"err", "close"}) /\ written \in Seq(Piece)
  BY DEF TypeOK
<1>4. Parsed'
  BY <1>2 DEF Parsed
<1>5. CASE fate # "return" \/ "out" \notin open
  BY <1>1, <1>2, <1>4, <1>5 DEF Marked
<1>6. CASE fate = "return" /\ "out" \in open
  <2>1. written' = Append(written, piece)
    BY <1>1, <1>6
  <2>2. /\ Len(written) \in Nat /\ Len(written') = Len(written) + 1
        /\ written'[Len(written) + 1] = piece
        /\ \A k \in 1 .. Len(written) : written'[k] = written[k]
    BY <1>3, <2>1, WrittenOnce
  <2>3. CASE Unmarked(written, Len(written)) /\ EndsWithResult(todo)
    <3>1. CASE piece = "mark" /\ todo' = <<"end">>
      BY <1>2, <1>4, <1>6, <2>2, <2>3, <3>1 DEF Marked, Unmarked
    <3>2. CASE piece # "mark" /\ EndsWithResult(todo')
      <4>1. Unmarked(written', Len(written'))
        BY <2>2, <2>3, <3>2 DEF Unmarked
      <4> QED
        BY <1>2, <1>4, <1>6, <3>2, <4>1 DEF Marked
    <3> QED
      BY <1>1, <1>2, <1>3, <2>3, <3>1, <3>2, ResultAhead
  <2>4. CASE /\ todo = <<"end">> /\ Len(written) >= 1 /\ written[Len(written)] = "mark"
             /\ Unmarked(written, Len(written) - 1)
    <3>1. piece = "end" /\ todo' = <<>>
      BY <1>1, <1>2, <2>4
    <3>2. EndsWithResult(written')
      BY <2>2, <2>4, <3>1 DEF EndsWithResult, Unmarked
    <3> QED
      BY <1>4, <3>1, <3>2 DEF Marked
  <2> QED
    BY <1>2, <1>6, <2>3, <2>4 DEF Marked
<1> QED
  BY <1>4, <1>5, <1>6

(* The other steps of the process.                                         *)
LEMMA ProcessMarked ==
  ASSUME VInv, WriteErr \/ CloseStreams \/ Exit
  PROVE  Marked' /\ Parsed'
<1> USE DEF VInv, RInv
<1>1. proc = "running" /\ UNCHANGED <<fate, written, pc, got, rpc>>
  BY DEF WriteErr, CloseStreams, Exit, AboutTo, reader
<1>2. Parsed'
  BY <1>1 DEF Parsed
<1>3. todo \in Seq(Piece \cup {"err", "close"})
  BY DEF TypeOK
<1>4. CASE WriteErr \/ CloseStreams
  <2>1. todo' = Tail(todo) /\ todo # <<>> /\ Head(todo) \in {"err", "close"} /\ proc' = proc
        /\ (open' = open \/ open' = {})
    BY <1>4 DEF WriteErr, CloseStreams, AboutTo
  <2>2. EndsWithResult(todo) => EndsWithResult(todo')
    BY <1>3, <2>1, ResultAhead
  <2>3. todo # <<"end">>
    BY <2>1
  <2> QED
    BY <1>1, <1>2, <2>1, <2>2, <2>3 DEF Marked
<1>5. CASE Exit
  <2>1. todo = <<>> /\ todo' = todo
    BY <1>5 DEF Exit
  <2>2. ~EndsWithResult(todo) /\ todo # <<"end">>
    BY <2>1 DEF EndsWithResult
  <2>3. open' = {}
    BY <1>5 DEF Exit
  <2> QED
    BY <1>1, <1>2, <2>1, <2>2, <2>3 DEF Marked
<1> QED
  BY <1>4, <1>5

(* The reader adds nothing to what was written, and may kill the process.  *)
LEMMA ReaderMarked ==
  ASSUME VInv, Reader
  PROVE  Marked' /\ Parsed'
<1> USE DEF VInv, RInv
<1>1. UNCHANGED <<fate, todo, written>>
  BY DEF Reader, LoopTop, Select, Poll, ReadOut, ReadErr, WaitProc, ExecuteRpc, process
<1>2. UNCHANGED <<proc, open>> \/ KillProc
  BY DEF Reader, LoopTop, Select, Poll, ReadOut, ReadErr, WaitProc, ExecuteRpc, process
<1>3. Marked'
  BY <1>1, <1>2 DEF Marked, KillProc
<1>4. rpc' \in {"none", "raw"} => ExecuteRpc
  <2>1. CASE ~ExecuteRpc
    <3>1. pc # "done" /\ rpc' = rpc
      BY <2>1 DEF Reader, LoopTop, Select, Poll, ReadOut, ReadErr, WaitProc
    <3> QED
      BY <3>1 DEF Parsed
  <2> QED
    BY <2>1
<1>5. Parsed'
  <2>1. SUFFICES ASSUME rpc' \in {"none", "raw"}
                 PROVE  pc' = "done" /\ proc' = "exit0" /\ rpc' = Result'
    BY DEF Parsed
  <2>2. ExecuteRpc
    BY <1>4, <2>1
  <2>3. got' = got /\ proc' = proc /\ pc' = "done"
        /\ rpc' = IF proc # "exit0" THEN "raised" ELSE Result
    BY <2>2 DEF ExecuteRpc, process
  <2>4. Result' = Result
    BY <2>3 DEF Result, Marks, AtLineStart
  <2> QED
    BY <2>1, <2>3, <2>4
<1> QED
  BY <1>3, <1>5

(* What was kept whole parses as the value.                                *)
LEMMA WholeIsValue ==
  ASSUME got \in Seq(Piece), EndsWithResult(got),
         \A k \in 2 .. Len(got) : got[k] = "mark" => got[k - 1] # "word"
  PROVE  Result = "value"
<1> DEFINE n == Len(got) - 1
<1>1. n \in Nat /\ n >= 1 /\ Len(got) = n + 1 /\ got[n] = "mark" /\ got[n + 1] = "end"
  BY DEF EndsWithResult
<1>2. \A k \in 1 .. n - 1 : got[k] # "mark"
  BY <1>1 DEF EndsWithResult, Unmarked
<1>3. AtLineStart(n)
  <2>1. CASE n = 1
    BY <2>1 DEF AtLineStart
  <2>2. CASE n > 1
    <3>1. n - 1 \in 1 .. Len(got) /\ got[n - 1] \in Piece
      BY <1>1, <2>2
    <3>2. got[n - 1] # "mark" /\ got[n - 1] # "word"
      BY <1>1, <1>2, <2>2
    <3> QED
      BY <3>1, <3>2 DEF AtLineStart, Piece
  <2> QED
    BY <1>1, <2>1, <2>2
<1>4. Marks = {n}
  <2>1. n \in Marks
    BY <1>1, <1>3 DEF Marks
  <2>2. ASSUME NEW k \in Marks
        PROVE  k = n
    <3>1. k \in 1 .. n + 1 /\ got[k] = "mark"
      BY <1>1, <2>2 DEF Marks
    <3>2. k # n + 1
      BY <1>1, <3>1
    <3>3. k \notin 1 .. n - 1
      BY <1>2, <3>1
    <3> HIDE DEF n
    <3> QED
      BY <1>1, <3>1, <3>2, <3>3
  <2> QED
    BY <2>1, <2>2
<1> HIDE DEF n
<1>5. Max({n}) = n
  BY <1>1 DEF Max
<1> QED
  BY <1>1, <1>4, <1>5 DEF Result

(* The result line is the last that a returning function writes and the    *)
(* parser sees what was kept of it.                                        *)
THEOREM ResultInvariant == NoOwnMark => (Spec => []VInv)
<1> SUFFICES ASSUME NoOwnMark
             PROVE  Spec => []VInv
  OBVIOUS
<1>1. Init /\ RInv => VInv
  BY InitMarked DEF VInv
<1>2. VInv /\ [Next]_vars /\ RInv' => VInv'
  <2> SUFFICES ASSUME VInv, [Next]_vars, RInv'
               PROVE  Marked' /\ Parsed'
    BY DEF VInv
  <2>1. CASE DeadlinePasses
    <3>1. UNCHANGED <<fate, todo, proc, open, written, pc, got, rpc>>
      BY <2>1 DEF DeadlinePasses, process, reader
    <3> QED
      BY <3>1 DEF VInv, Marked, Parsed, Result, Marks, AtLineStart
  <2>2. CASE UNCHANGED vars
    <3>1. UNCHANGED <<fate, todo, proc, open, written, pc, got, rpc>>
      BY <2>2 DEF vars, process, reader
    <3> QED
      BY <3>1 DEF VInv, Marked, Parsed, Result, Marks, AtLineStart
  <2> QED
    BY <2>1, <2>2, WriteOutMarked, ProcessMarked, ReaderMarked DEF Next, Process
<1> QED
  BY <1>1, <1>2, ReaderInvariant, PTL DEF Spec

(* A function that returns, that prints no __RESULT__: line of its own and *)
(* leaves its last line terminated is reported by _execute_rpc as its      *)
(* value or as an error: None and raw text mean that its output was cut at *)
(* max_out_bytes, or was still in the pipe when _read_output gave up. It   *)
(* holds for any body, any caps and any sizes of chunk and pipe.           *)
THEOREM ValuesReported == NoOwnMark => (Spec => []ValueReported)
<1> SUFFICES ASSUME NoOwnMark
             PROVE  Spec => []ValueReported
  OBVIOUS
<1>1. VInv => ValueReported
  <2> SUFFICES ASSUME VInv, rpc \in {"none", "raw"}, fate = "return",
                      "mark" \in Range(written),
                      \A k \in 2 .. Len(written) : written[k] = "mark" => written[k - 1] # "word",
                      ~truncated, outPipe = <<>>
               PROVE  FALSE
    BY DEF ValueReported
  <2> USE DEF VInv, RInv
  <2>1. got \in Seq(Piece) /\ written = got
    <3>1. got \in Seq(Piece) /\ written = got \o <<>>
      BY DEF TypeOK, Kept
    <3> QED
      BY <3>1, ConcatEmptySeq
  <2>2. ~Unmarked(written, Len(written))
    <3>1. PICK k \in DOMAIN written : written[k] = "mark"
      BY DEF Range
    <3>2. k \in 1 .. Len(written)
      BY <2>1, <3>1
    <3> QED
      BY <3>1, <3>2 DEF Unmarked
  <2>3. proc = "exit0" /\ rpc = Result
    BY DEF Parsed
  <2>4. EndsWithResult(got)
    BY <2>1, <2>2, <2>3 DEF Marked
  <2>5. Result = "value"
    BY <2>1, <2>4, WholeIsValue
  <2> QED
    BY <2>3, <2>5
<1>2. Spec => []VInv
  BY ResultInvariant
<1> QED
  BY <1>1, <1>2, PTL
=============================================================================
