--------------------------- MODULE MCSerialization ---------------------------
EXTENDS Serialization

Atom(t, text) == [t |-> t, text |-> text]
List(items) == [t |-> "array", items |-> items]
Object(t, keys, items) == [t |-> t, keys |-> keys, items |-> items]

UpToTwo(S) == UNION {[1..n -> S] : n \in 0..2}
Keys == <<<<"k", Quote>>, <<"\n">>>>
Objects(S) == {Object(t, SubSeq(Keys, 1, Len(items)), items) : t \in {"struct", "map"}, items \in UpToTwo(S)}

Atoms == {Atom("int", <<"4", "2">>), Atom("double", <<"1", ".", "5">>), Atom("bool", <<"t", "r", "u", "e">>),
          Atom("null", <<"n", "u", "l", "l">>), Atom("string", <<Backslash, "a", Control>>),
          Atom("string", <<>>)}
Flat == {List(items) : items \in UpToTwo(Atoms)} \cup Objects(Atoms)
Small == {Atom("int", <<"7">>), Atom("string", <<"]">>), List(<<>>), Object("struct", <<>>, <<>>),
          List(<<Atom("double", <<"1">>)>>), Object("map", <<<<"k">>>>, <<List(<<Atom("int", <<"1">>)>>)>>)}
MCDocs == Atoms \cup Flat \cup {List(items) : items \in UpToTwo(Small)} \cup Objects(Small)

MCPdus ==
    [type : {"EntityState"}, params : {0, 2}, dr : 0..2]
        \cup [type : {"Emission"}, systems : {<<>>, <<<<0>>>>, <<<<2>>>>, <<<<1>>, <<>>>>}]

MCPeerPdus ==
    LET Radios(version, records) ==
            [type : {"Transmitter"}, version : {version}, modulation : {0, 2}, patterns : {0, 1},
             records : records]
    IN Radios(6, {<<>>}) \cup Radios(7, {<<>>, <<0>>, <<2>>, <<0, 0>>, <<2, 0>>})

MCDatagrams == {[pdu |-> pdu, room |-> room] : pdu \in MCPdus, room \in 0..300}
=============================================================================
