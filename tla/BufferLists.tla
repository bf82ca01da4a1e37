---------------------------- MODULE BufferLists ----------------------------
(***************************************************************************)
(* What Buffer promises: each buffer holds a list, changed as the call     *)
(* says and by no call on another buffer.  A buffer that has been moved    *)
(* from holds nothing that may be relied on, until it is assigned to.      *)
(***************************************************************************)
EXTENDS Naturals, SequencesExt

CONSTANTS
    Names,         \* the buffers
    Elements,      \* what an element can be
    NoBuffer,      \* the name has no buffer
    Unspecified    \* a buffer that has been moved from

VARIABLE lists

Holds(l) == l \notin {NoBuffer, Unspecified}

(* What may become of a list l in a call on its buffer alone: it is        *)
(* created, dropped, made longer or shorter at its end, ...                *)
Created(l, m) == l = NoBuffer /\ m \in Seq(Elements)
Dropped(l, m) == l # NoBuffer /\ m = NoBuffer
Lengthened(l, m) == m \in Seq(Elements) /\ IsPrefix(l, m)
Shortened(l, m) == IsPrefix(m, l)

(* ... loses a range, or an element whose place the last one takes.        *)
Erased(l, m) ==
    LET n == Len(l) - Len(m)
    IN n > 0 /\ \E k \in 0..Len(m) : m = SubSeq(l, 1, k) \o SubSeq(l, k + n + 1, Len(l))

SwappedAndPopped(l, m) ==
    Len(m) = Len(l) - 1 /\ \E k \in 1..Len(l) : m = Front([l EXCEPT ![k] = Last(l)])

ChangedAlone(l, m) ==
    \/ Created(l, m) \/ Dropped(l, m)
    \/ /\ Holds(l) /\ Holds(m)
       /\ Lengthened(l, m) \/ Shortened(l, m) \/ Erased(l, m) \/ SwappedAndPopped(l, m)

(* A copy leaves its source alone; a move leaves nothing that counts.      *)
Copied(source, m) == Holds(source) /\ m = source

LeftBehind(l, m) == m = Unspecified \/ (l = <<>> /\ m = l)

Init == lists = [b \in Names |-> NoBuffer]

Next ==
    \E b \in Names :
        \/ /\ \A c \in Names \ {b} : lists'[c] = lists[c]
           /\ \/ ChangedAlone(lists[b], lists'[b])
              \/ \E a \in Names : Copied(lists[a], lists'[b])
        \/ \E a \in Names \ {b} :
              /\ lists'[b] = lists[a] /\ LeftBehind(lists[a], lists'[a])
              /\ \A c \in Names \ {a, b} : lists'[c] = lists[c]

Spec == Init /\ [][Next]_lists
=============================================================================
