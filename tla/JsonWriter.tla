----------------------------- MODULE JsonWriter -----------------------------
(***************************************************************************)
(* JSONSerializer and the structural half of serialize: a document is      *)
(* written value by value into the room of a view, every value with a      *)
(* comma after it, and the end of an object or an array steps back over    *)
(* the last comma.                                                         *)
(*                                                                         *)
(* A document is [t |-> "int" | "double" | "bool" | "null", text |-> its   *)
(* characters], [t |-> "string", text], [t |-> "array", items] or          *)
(* [t |-> "struct" | "map", keys, items].  A writer in progress is the     *)
(* text so far, the room in its view and impl_->state_stack; overrun says  *)
(* that it wrote past the end of the view.                                 *)
(***************************************************************************)
EXTENDS Naturals, SequencesExt

Quote == "\""
Backslash == "\\"
Control == "ctl"      \* a control character without a short form

Writer(text, room, stack) ==
    [text |-> text, room |-> room, stack |-> stack, status |-> "Ok", overrun |-> FALSE]

(* Characters are stored whether or not there is room; the view ends empty *)
(* when it is moved past its end.                                          *)
Store(w, chars) ==
    [w EXCEPT !.text = @ \o chars,
              !.room = IF Len(chars) > @ THEN 0 ELSE @ - Len(chars),
              !.overrun = @ \/ Len(chars) > w.room]

(* What a control character without a short form is written as: the digits *)
(* of its code stand in one.                                               *)
LongForm == <<Backslash, "u", "0", "0", "hex", "hex">>

QuoteOnly(c) == IF c = Quote THEN <<Backslash, c>> ELSE IF c = Control THEN LongForm ELSE <<c>>
EscapeChar(c) ==
    CASE c \in {Backslash, Quote} -> <<Backslash, c>>
      [] c = "\n" -> <<Backslash, "n">>
      [] c = Control -> LongForm
      [] OTHER -> <<c>>

Escaped(text) == FlattenSeq([i \in DOMAIN text |-> EscapeChar(text[i])])

Full(w) == [w EXCEPT !.status = "BufferFull"]

-----------------------------------------------------------------------------
(* One value.  Only to_chars may fill the view to its end; its comma then  *)
(* goes past it.                                                           *)
Value(w, doc) ==
    CASE doc.t = "string" -> IF w.room < 2 THEN Full(w)
                             ELSE Store(w, <<Quote>> \o Escaped(doc.text) \o <<Quote, ",">>)
      [] doc.t = "double" -> IF Len(doc.text) > w.room THEN Full(w)
                             ELSE Store(w, doc.text \o <<",">>)
      [] OTHER -> IF Len(doc.text) >= w.room THEN Full(w)
                  ELSE Store(w, doc.text \o <<",">>)

(* No comma is missing before a key: end_obj and end_array write one.      *)
Key(w, key) ==
    LET comma == IF w.text # <<>> /\ Last(w.text) \in {"}", "]"} THEN <<",">> ELSE <<>>
    IN Store(w, comma \o <<Quote>> \o Escaped(key) \o <<Quote, ":">>)

Open(w, bracket) == [Store(w, <<bracket>>) EXCEPT !.stack = Append(@, bracket)]

(* One character back, over the comma after the last item.                 *)
StepBack(w, bracket) ==
    IF Last(w.text) = bracket THEN w ELSE [w EXCEPT !.text = Front(@), !.room = @ + 1]

CommaAlways(w) == Store(w, <<",">>)
CommaIfNested(w) == IF w.stack = <<>> THEN w ELSE Store(w, <<",">>)

Close(w, open, close) ==
    CommaIfNested(Store([StepBack(w, open) EXCEPT !.stack = Front(@)], <<close>>))

-----------------------------------------------------------------------------
(* apply: a field of a struct that fails is passed over, with what it has  *)
(* written; an array and a map give up at the first item that fails, and   *)
(* leave that item out.                                                    *)
RECURSIVE Apply(_, _)

Field(w, doc, i) == [Apply(Key(w, doc.keys[i]), doc.items[i]) EXCEPT !.status = "Ok"]

OrGiveUp(before, after) ==
    IF after.status = "Ok" THEN after
    ELSE [after EXCEPT !.text = before.text, !.room = before.room]

Item(w, doc, i) == IF w.status # "Ok" THEN w ELSE OrGiveUp(w, Apply(w, doc.items[i]))

Entry(w, doc, i) ==
    LET key == Key(w, doc.keys[i])
    IN IF w.status # "Ok" THEN w ELSE OrGiveUp(key, Apply(key, doc.items[i]))

CloseIfOk(w, open, close) == IF w.status = "Ok" THEN Close(w, open, close) ELSE w

Apply(w, doc) ==
    LET indices == [i \in 1..Len(doc.items) |-> i]
    IN CASE doc.t = "struct" ->
                Close(FoldLeft(LAMBDA u, i : Field(u, doc, i), Open(w, "{"), indices), "{", "}")
         [] doc.t = "map" ->
                CloseIfOk(FoldLeft(LAMBDA u, i : Entry(u, doc, i), Open(w, "{"), indices), "{", "}")
         [] doc.t = "array" ->
                CloseIfOk(FoldLeft(LAMBDA u, i : Item(u, doc, i), Open(w, "["), indices), "[", "]")
         [] OTHER -> Value(w, doc)

-----------------------------------------------------------------------------
(* The reference, RFC 8259: items between commas, strings between quotes   *)
(* with the characters that must be escaped.                               *)
Separated(parts) ==
    IF parts = <<>> THEN <<>>
    ELSE parts[1] \o FlattenSeq([i \in 1..Len(parts) - 1 |-> <<",">> \o parts[i + 1]])

StringText(chars) ==
    <<Quote>>
        \o FlattenSeq([i \in DOMAIN chars |->
                          CASE chars[i] = Control -> LongForm
                            [] chars[i] = "\n" -> <<Backslash, "n">>
                            [] chars[i] \in {Quote, Backslash} -> <<Backslash, chars[i]>>
                            [] OTHER -> <<chars[i]>>])
        \o <<Quote>>

RECURSIVE JsonText(_)
JsonText(doc) ==
    CASE doc.t = "array" ->
            <<"[">> \o Separated([i \in DOMAIN doc.items |-> JsonText(doc.items[i])]) \o <<"]">>
      [] doc.t \in {"struct", "map"} ->
            <<"{">> \o Separated([i \in DOMAIN doc.items |->
                                     StringText(doc.keys[i]) \o <<":">> \o JsonText(doc.items[i])])
                    \o <<"}">>
      [] doc.t = "string" -> StringText(doc.text)
      [] OTHER -> doc.text

(* The text of a lone value is followed by a comma.                        *)
Complete(doc) == JsonText(doc) \o IF doc.t \in {"array", "struct", "map"} THEN <<>> ELSE <<",">>
=============================================================================
