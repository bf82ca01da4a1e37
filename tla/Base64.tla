------------------------------- MODULE Base64 -------------------------------
(***************************************************************************)
(* Base64Encoder as functions: bytes in, characters of the alphabet out,   *)
(* each by its index in base64_table; Pad stands for '='.  A call is given *)
(* what is held over from earlier ones and room for some characters, and   *)
(* returns counts, a status, what it wrote, and what it holds over.        *)
(***************************************************************************)
EXTENDS Naturals, FiniteSetsExt, SequencesExt

Pad == 64

FourChars(a, b, c) ==
    <<a \div 4, (a % 4) * 16 + b \div 16, (b % 16) * 4 + c \div 64, c % 64>>

(* The characters of the first n groups of three bytes.                    *)
Groups(in, n) ==
    [i \in 1..4 * n |->
        LET g == (i - 1) \div 4
        IN FourChars(in[3 * g + 1], in[3 * g + 2], in[3 * g + 3])[((i - 1) % 4) + 1]]

From(s, n) == SubSeq(s, n + 1, Len(s))

Result(status, processed, output, written, held) ==
    [status |-> status, processed |-> processed, output |-> output,
     written |-> written, held |-> held]

(* A full output reports what is left, and holds over what it did before.  *)
NoHoldover(in, room, held) ==
    LET n == Min({Len(in) \div 3, room \div 4})
    IN IF n < Len(in) \div 3
       THEN Result("OutputBufferFull", Len(in) - 3 * n, room - 4 * n, Groups(in, n), held)
       ELSE Result("Ok", Len(in), 4 * n, Groups(in, n), From(in, 3 * n))

(* The held bytes and the first of the input make a group; k of these.     *)
WithHoldover(in, room, held, k) ==
    LET first == held \o SubSeq(in, 1, k)
        rest == NoHoldover(From(in, k), room - 4, held)
    IN IF room < 4
       THEN Result("OutputBufferFull", 0, 0, <<>>, held)
       ELSE [rest EXCEPT !.processed = @ + k, !.output = @ + 4,
                         !.written = Groups(first, 1) \o @]

(* One more byte is held over.                                             *)
OneHoldover(in, room, held) ==
    IF Len(in) < 2 THEN Result("Ok", 1, 0, <<>>, held \o in)
                   ELSE WithHoldover(in, room, held, 2)

TwoHoldover(in, room, held) == WithHoldover(in, room, held, 1)

Encode(in, room, held) ==
    IF in = <<>> THEN Result("Ok", 0, 0, <<>>, held)
    ELSE CASE Len(held) = 0 -> NoHoldover(in, room, held)
           [] Len(held) = 1 -> OneHoldover(in, room, held)
           [] Len(held) = 2 -> TwoHoldover(in, room, held)

(* The last characters of one or two held bytes.                           *)
PaddedTooFar(held) ==
    IF Len(held) = 1 THEN SubSeq(FourChars(held[1], 0, 0), 1, 2) \o <<Pad, Pad>>
                     ELSE SubSeq(FourChars(held[1], held[2], 0), 1, 2) \o <<Pad, Pad>>

Padded(held) ==
    IF Len(held) = 1 THEN SubSeq(FourChars(held[1], 0, 0), 1, 2) \o <<Pad, Pad>>
                     ELSE SubSeq(FourChars(held[1], held[2], 0), 1, 3) \o <<Pad>>

Finish(in, room, held) ==
    LET r == Encode(in, room, held)
    IN IF r.status = "OutputBufferFull" THEN r
       ELSE IF r.held = <<>> THEN [r EXCEPT !.status = "Ok"]
       ELSE IF room - r.output < 4 THEN [r EXCEPT !.status = "OutputBufferFull"]
       ELSE [r EXCEPT !.status = "Ok", !.output = @ + 4, !.written = @ \o Padded(r.held),
                      !.held = <<>>]

-----------------------------------------------------------------------------
(* The reference: the bits of the bytes, six by six, and padding.          *)
Place == <<128, 64, 32, 16, 8, 4, 2, 1>>

Bit(bytes, k) ==
    IF k >= 8 * Len(bytes) THEN 0 ELSE (bytes[k \div 8 + 1] \div Place[(k % 8) + 1]) % 2

Sextet(bytes, j) ==
    LET bit(k) == Bit(bytes, 6 * j + k)
    IN 32 * bit(0) + 16 * bit(1) + 8 * bit(2) + 4 * bit(3) + 2 * bit(4) + bit(5)

Encoding(bytes) ==
    LET sextets == (8 * Len(bytes) + 5) \div 6
        chars == 4 * ((Len(bytes) + 2) \div 3)
    IN [i \in 1..chars |-> IF i <= sextets THEN Sextet(bytes, i - 1) ELSE Pad]
=============================================================================
