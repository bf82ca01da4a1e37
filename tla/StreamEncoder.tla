---------------------------- MODULE StreamEncoder ----------------------------
(***************************************************************************)
(* A caller that passes a stream through Base64Encoder, ZLIBCompressor or  *)
(* ZSTDCompressor piece by piece, with as much room as it likes, and goes  *)
(* by the counts of each result: that much input is behind it, that much   *)
(* output is part of its stream.  The input a compressor's finish takes is *)
(* not counted (input_consumed is always 0, against Compressor.hpp:30): a  *)
(* caller who knows goes by its status there.  A call of Base64Encoder is  *)
(* one step; one of a compressor takes a step for every call of its        *)
(* library.                                                                *)
(*                                                                         *)
(* deflate and ZSTD_compressStream2 are what their documentation promises: *)
(* they turn input into output in order, hold over as much as they like,   *)
(* and close a frame at the end.  Input and output are counted in units,   *)
(* one for a byte's code and one for the end of a frame.  Errors a correct *)
(* caller cannot cause (memory) are left out; no view is null.             *)
(***************************************************************************)
EXTENDS Base64

CONSTANTS
    Kinds,         \* which encoders there are
    Bytes,         \* the bytes of the streams
    Rooms,         \* sizes of output views
    Discipline,    \* what callers take care of
    MaxInput       \* bound: bytes of a stream

(* "room"  : the output of encode holds every group that becomes complete; *)
(* "finish": a compressor's finish has more room than it can need; or, zlib *)
(*           none at all, or, zstd, no input;                              *)
(* "fresh" : once finish was called it is called until it is done, and a   *)
(*           zlib stream that has ended is given no more input;            *)
(* "status": a compressor's finish that reports InputBufferFinished has    *)
(*           taken all it was given, though it counts none of it.          *)
ASSUME StreamAssumption ==
    /\ Kinds \subseteq {"base64", "zlib", "zstd"} /\ Bytes \subseteq 0..255
    /\ Rooms \subseteq Nat /\ MaxInput \in Nat
    /\ Discipline \subseteq {"room", "finish", "fresh", "status"}

VARIABLES
    kind,          \* which encoder this is
    held,          \* the bytes it holds over (holdover_, or the library's)
    ended,         \* zlib: the stream is in FINISH_STATE and complete
    call,          \* the call in progress
    source,        \* the bytes of this stream the caller has behind it
    sink,          \* the output it has
    phase          \* "encoding", "finishing" or "done"

vars == <<kind, held, ended, call, source, sink, phase>>

NoCall == [op |-> "none", given |-> <<>>, in |-> <<>>, room |-> 0, written |-> <<>>]
End == 0
Code(b) == 256 + b

Init ==
    /\ kind \in Kinds /\ held = <<>> /\ ended = FALSE /\ call = NoCall
    /\ source = <<>> /\ sink = <<>> /\ phase = "encoding"

-----------------------------------------------------------------------------
(* The caller.                                                             *)

Again == phase = "done" /\ kind # "zlib"
Source == IF Again THEN <<>> ELSE source
Sink == IF Again THEN <<>> ELSE sink
Inputs == UNION {[1..n -> Bytes] : n \in 0..MaxInput - Len(Source)}

Roomy(in, room) ==
    "room" \in Discipline =>
        \/ room >= 4 * ((Len(held) + Len(in)) \div 3)
        \/ held # <<>> /\ room < 4

Base64Call ==
    /\ kind = "base64"
    /\ \E in \in Inputs, room \in Rooms, finish \in BOOLEAN :
        LET r == IF finish THEN Finish(in, room, held) ELSE Encode(in, room, held)
        IN /\ Roomy(in, room)
           /\ held' = r.held
           /\ source' = Source \o SubSeq(in, 1, r.processed)
           /\ sink' = Sink \o SubSeq(r.written, 1, Min({r.output, Len(r.written)}))
           /\ phase' = IF finish /\ r.status = "Ok" THEN "done" ELSE "encoding"
    /\ UNCHANGED <<kind, ended, call>>

Enough(in, room) ==
    "finish" \in Discipline =>
        \/ room > Len(held) + Len(in) + 1
        \/ kind = "zlib" /\ room = 0
        \/ kind = "zstd" /\ in = <<>>

Fresh(op, in) ==
    "fresh" \in Discipline =>
        /\ phase = "finishing" => op = "finish"
        /\ ended => op = "compress_partial" \/ (op = "finish" /\ in = <<>>)

Begin ==
    /\ kind # "base64" /\ call = NoCall
    /\ \E op \in {"compress_partial", "compress_buffer", "finish"},
          in \in Inputs, room \in Rooms :
        /\ Fresh(op, in)
        /\ op = "finish" => Enough(in, room)
        /\ call' = [op |-> op, given |-> in, in |-> in, room |-> room, written |-> <<>>]
        /\ phase' = CASE ended -> phase
                      [] ~ended /\ op = "finish" -> "finishing"
                      [] OTHER -> "encoding"
    /\ source' = Source /\ sink' = Sink
    /\ UNCHANGED <<kind, held, ended>>

(* The result counts the input consumed and the output written.            *)
Return(consumed, output) ==
    /\ call' = NoCall
    /\ source' = source \o consumed /\ sink' = sink \o output

(* finish counts no input; what the caller has behind it after one.        *)
FinishCount == <<>>
FinishTakes(status) ==
    IF "status" \in Discipline /\ status = "InputBufferFinished"
    THEN call.given ELSE FinishCount

-----------------------------------------------------------------------------
(* The libraries.  k bytes are taken from the input and j units come out.  *)

After(k, out) ==
    [call EXCEPT !.in = From(@, k), !.room = @ - Len(out), !.written = @ \o out]

Passed(c) == SubSeq(c.given, 1, Len(c.given) - Len(c.in))

Amounts ==
    {a \in (0..Len(call.in)) \X (0..call.room) : a[2] <= Len(held) + a[1]}

Pass(k, j) ==
    LET all == held \o SubSeq(call.in, 1, k)
    IN [out |-> [i \in 1..j |-> Code(all[i])], held |-> From(all, j)]

Remaining == held \o call.in
Frame == [i \in DOMAIN Remaining |-> Code(Remaining[i])] \o <<End>>

-----------------------------------------------------------------------------
(* zlib.                                                                   *)

(* deflate stops when its input is empty or its output is full.            *)
DeflateStops(k, j) ==
    /\ k = Len(call.in) \/ j = call.room
    /\ call.room = 0 => k = 0

ZlibStatus(c) ==
    CASE c.room = 0 -> "OutputBufferFull"
      [] c.room > 0 /\ c.in = <<>> -> "NeedsInput"
      [] OTHER -> "Ok"

(* compress_buffer ends on these.                                          *)
BufferLoopEndsWhenFull(status) == status = "OutputBufferFull"
BufferLoopEnds(status) == status \in {"OutputBufferFull", "NeedsInput"}

Deflate ==
    /\ kind = "zlib" /\ call.op \in {"compress_partial", "compress_buffer"} /\ ~ended
    /\ \E a \in Amounts :
        LET p == Pass(a[1], a[2])
            c == After(a[1], p.out)
        IN /\ DeflateStops(a[1], a[2])
           /\ held' = p.held
           /\ IF call.op = "compress_partial" \/ BufferLoopEnds(ZlibStatus(c))
              THEN Return(Passed(c), c.written)
              ELSE call' = c /\ UNCHANGED <<source, sink>>
    /\ UNCHANGED <<kind, ended, phase>>

(* Z_STREAM_ERROR once the stream has ended: compress_buffer tries again.  *)
DeflateAfterEnd ==
    /\ kind = "zlib" /\ call.op = "compress_partial" /\ ended
    /\ Return(<<>>, <<>>)
    /\ UNCHANGED <<kind, held, ended, phase>>

(* finish: the last deflate has the room it needs.                         *)
ZlibFinish ==
    /\ kind = "zlib" /\ call.op = "finish" /\ call.room > 0
    /\ IF ended THEN call.in = <<>> /\ Return(FinishCount, call.written)
       ELSE /\ call.room >= Len(Frame)
            /\ Return(FinishTakes("InputBufferFinished"), call.written \o Frame)
    /\ held' = <<>> /\ ended' = TRUE /\ phase' = "done"
    /\ UNCHANGED kind

(* It fills the room; no room at all is a result that counts no output.    *)
ZlibFinishFull ==
    /\ kind = "zlib" /\ call.op = "finish"
    /\ IF call.room = 0
       THEN Return(FinishCount, <<>>) /\ UNCHANGED held
       ELSE /\ ~ended /\ call.room < Len(Frame)
            /\ \E k \in 0..Len(call.in) :
                /\ Len(held) + k >= call.room
                /\ held' = Pass(k, call.room).held
                /\ call' = After(k, Pass(k, call.room).out)
            /\ UNCHANGED <<source, sink>>
    /\ UNCHANGED <<kind, ended, phase>>

-----------------------------------------------------------------------------
(* zstd.                                                                   *)

(* ZSTD_e_continue may stop early and say that more is to be flushed, but  *)
(* not without progress.                                                   *)
ContinueAdvances(k, j, more) ==
    /\ k + j = 0 => ~more /\ (call.in = <<>> \/ call.room = 0)
    /\ more => j < Len(held) + k

ZstdStatus(c, more) ==
    CASE c.room = 0 -> "OutputBufferFull"
      [] c.room > 0 /\ more -> "NeedsFlush"
      [] c.room > 0 /\ ~more /\ c.in = <<>> -> "InputBufferFinished"
      [] OTHER -> "NeedsInput"

(* What compress_buffer counts as consumed, over all its turns.            *)
Continue ==
    /\ kind = "zstd" /\ call.op \in {"compress_partial", "compress_buffer"}
    /\ \E a \in Amounts, more \in BOOLEAN :
        LET p == Pass(a[1], a[2])
            c == After(a[1], p.out)
        IN /\ ContinueAdvances(a[1], a[2], more)
           /\ held' = p.held
           /\ IF call.op = "compress_buffer" /\ ZstdStatus(c, more) = "NeedsFlush"
              THEN call' = c /\ UNCHANGED <<source, sink>>
              ELSE Return(Passed(c), c.written)
    /\ UNCHANGED <<kind, ended, phase>>

(* ZSTD_e_end closes the frame.  A result that says the output is full     *)
(* does not tell that it is complete.                                      *)
ZstdFinishStatus ==
    IF call.room > Len(Frame) THEN "InputBufferFinished" ELSE "OutputBufferFull"

ZstdFinish ==
    /\ kind = "zstd" /\ call.op = "finish" /\ call.room >= Len(Frame)
    /\ Return(FinishTakes(ZstdFinishStatus), call.written \o Frame)
    /\ phase' = IF ZstdFinishStatus = "InputBufferFinished" THEN "done" ELSE "finishing"
    /\ held' = <<>>
    /\ UNCHANGED <<kind, ended>>

(* ... or goes a part of the way; finish goes on as long as there is room. *)
ZstdFinishPart ==
    /\ kind = "zstd" /\ call.op = "finish"
    /\ \E a \in Amounts :
        LET p == Pass(a[1], a[2])
            c == After(a[1], p.out)
        IN /\ a[2] > 0 \/ call.room = 0
           /\ held' = p.held
           /\ IF c.room > 0 THEN call' = c /\ UNCHANGED <<source, sink>>
                            ELSE Return(FinishCount, c.written)
    /\ UNCHANGED <<kind, ended, phase>>

-----------------------------------------------------------------------------
Turn ==
    \/ Deflate \/ DeflateAfterEnd \/ ZlibFinish \/ ZlibFinishFull
    \/ Continue \/ ZstdFinish \/ ZstdFinishPart

Next == Base64Call \/ Begin \/ Turn

(* A library that is called returns.                                       *)
Spec == Init /\ [][Next]_vars /\ WF_vars(Turn)

-----------------------------------------------------------------------------
(* The codes, the ends of frames left out, are those of the bytes in order. *)
CodesUpTo(codes, i) == {k \in 1..i : codes[k] # End}

Decodes(codes, bytes) ==
    /\ Cardinality(CodesUpTo(codes, Len(codes))) = Len(bytes)
    /\ \A i \in CodesUpTo(codes, Len(codes)) :
           codes[i] = Code(bytes[Cardinality(CodesUpTo(codes, i))])

(* Between two calls the caller's output and what the encoder holds over   *)
(* are together the encoding of exactly the input it has behind it, byte   *)
(* by byte and in order, however input and room were cut: for Base64 the   *)
(* encoding bit by bit of RFC 4648, padded at the end, for a compressor    *)
(* what the frames decode to, and once finish reports that it is done      *)
(* nothing is held over and the last frame is closed.                      *)
OutputExact ==
    call = NoCall =>
        IF kind = "base64"
        THEN LET whole == 3 * (Len(source) \div 3)
             IN IF phase = "done" THEN sink = Encoding(source)
                ELSE /\ sink = Encoding(SubSeq(source, 1, whole))
                     /\ held = From(source, whole)
        ELSE /\ \E n \in 0..Len(source) :
                    held = From(source, n) /\ Decodes(sink, SubSeq(source, 1, n))
             /\ phase = "done" => held = <<>> /\ sink # <<>> /\ Last(sink) = End

(* Every call of a compressor returns: no loop around the library turns    *)
(* for ever, with any room and any input, empty ones too.                  *)
CallsReturn == call # NoCall ~> call = NoCall
=============================================================================
