---------------------------- MODULE MCReadOutput ----------------------------
(* Bounded instances of ReadOutput for TLC.                                *)
EXTENDS ReadOutput

Sequences(S, n) == UNION {[1 .. k -> S] : k \in 0 .. n}

(* Nothing to five pieces: more than the cap of three, than a chunk and    *)
(* than a pipe; terminated and unterminated lines, both streams, and a     *)
(* function that closes them.                                              *)
ShortBodies == Sequences({"line", "word", "err", "close"}, 4)
                 \cup {[k \in 1 .. 5 |-> "line"], [k \in 1 .. 5 |-> "err"]}

OneLine == {<<>>, <<"line">>}

(* Both keep to what the theorem about ValueReported asks of a function.   *)
ASSUME MCNoOwnMark == NoOwnMark
=============================================================================
