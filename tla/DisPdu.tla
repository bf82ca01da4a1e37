------------------------------- MODULE DisPdu -------------------------------
(***************************************************************************)
(* DIS PDUs on the wire: what serialize_wire writes for an Entity State    *)
(* and an Electromagnetic Emission PDU, field by field into the room there *)
(* is, and what deserialize_direct makes of the bytes it is given, those   *)
(* of a Transmitter PDU included.                                          *)
(*                                                                         *)
(* A field is known by its record, its name and the index of the record;   *)
(* its content is that identity, so that a field read from the bytes of    *)
(* another one shows.  A count, a length or a tag is a number.  The k-th   *)
(* byte of a field is <<id, k>>.  Records whose writer and reader list the *)
(* same fields in the same order have one definition for both.             *)
(***************************************************************************)
EXTENDS Naturals, SequencesExt

PadId == <<"pad", "", 0>>
Garbled == <<"garbled", "", 0>>

Field(record, i, name, width) == [id |-> <<record, name, i>>, width |-> width]
Number(name, n, width) == [id |-> <<"number", name, n % 256 ^ width>>, width |-> width]
PadOf(n) == [id |-> PadId, width |-> n]

Fields(record, i, names, width) ==
    [k \in DOMAIN names |-> Field(record, i, names[k], width)]

Indices(n) == [i \in 1..n |-> i]

(* The items of every element of a list.                                   *)
Each(Items(_), n) == FlattenSeq([i \in 1..n |-> Items(i)])

-----------------------------------------------------------------------------
(* DirectSerializer: what does not fit is left out, and nobody looks at    *)
(* the status; narrower items after it may still fit.                      *)

BytesOf(item) ==
    [k \in 1..item.width |-> <<item.id, IF item.id = PadId THEN 0 ELSE k>>]

Put(out, item) ==
    IF item.width > out.room THEN out
    ELSE [bytes |-> out.bytes \o BytesOf(item), room |-> out.room - item.width]

Written(items, room) ==
    LET out[n \in 0..Len(items)] ==
            IF n = 0 THEN [bytes |-> <<>>, room |-> room] ELSE Put(out[n - 1], items[n])
    IN out[Len(items)].bytes

(* DirectDeserializer: a read of more than is left fails and reads nothing. *)
(* The record it belongs to is then rejected, so that what is read after it *)
(* does not matter; only a failed skip goes unnoticed.                     *)
Reading(bytes) == [bytes |-> bytes, at |-> 0, ok |-> TRUE, got |-> {}, number |-> 0]

BytesLeft(r) == Len(r.bytes) - r.at

Member(id) == IF id[1] = "number" THEN <<"number", id[2], 0>> ELSE id

Skip(r, n) == IF n > BytesLeft(r) THEN r ELSE [r EXCEPT !.at = @ + n]

Get(r, item) ==
    LET n == item.width
        first == r.bytes[r.at + 1][1]
        value == IF SubSeq(r.bytes, r.at + 1, r.at + n) = BytesOf([id |-> first, width |-> n])
                 THEN first ELSE Garbled
    IN IF ~r.ok \/ n > BytesLeft(r) THEN [r EXCEPT !.ok = FALSE]
       ELSE [Skip(r, n) EXCEPT !.got = @ \cup {<<Member(item.id), value>>},
                               !.number = value[3]]

GetItem(r, item) == IF item.id = PadId THEN Skip(r, item.width) ELSE Get(r, item)
GetAll(r, items) ==
    LET after[n \in 0..Len(items)] ==
            IF n = 0 THEN r ELSE GetItem(after[n - 1], items[n])
    IN after[Len(items)]
GetNumber(r, name, width) == Get(r, Number(name, 0, width))

(* A list: each of its n elements by Read, until one of them fails.        *)
GetEach(r, Read(_, _), n) == FoldLeft(LAMBDA s, i : IF s.ok THEN Read(s, i) ELSE s, r, Indices(n))

-----------------------------------------------------------------------------
(* Records.                                                                *)

HeaderAfterVersion(type, size) ==
    Fields("header", 0, <<"exercise_id">>, 1) \o <<Number("pdu_type", type, 1)>>
        \o <<Field("header", 0, "protocol_family", 1), Field("header", 0, "timestamp", 4)>>
        \o <<Number("pdu_length", size, 2), Field("header", 0, "status", 1), PadOf(1)>>

PDUHeader(version, type, size) ==
    <<Number("protocol_version", version, 1)>> \o HeaderAfterVersion(type, size)

DIS6 == 6
DIS7 == 7

EntityID(record, i) == Fields(record, i, <<"site", "application", "id">>, 2)

EntityType(record) ==
    Fields(record, 0, <<"kind", "domain">>, 1) \o Fields(record, 0, <<"country">>, 2)
        \o Fields(record, 0, <<"category", "subcategory", "specific", "extra">>, 1)

Vector(record, i) == Fields(record, i, <<"x", "y", "z">>, 4)
WorldCoordinates(record) == Fields(record, 0, <<"x", "y", "z">>, 8)
EulerAngles(record, i) == Fields(record, i, <<"psi", "theta", "phi">>, 4)
DISQuat(record) == Fields(record, 0, <<"u0">>, 2) \o Fields(record, 0, <<"x", "y", "z">>, 4)

EEFundamentalParameterData(i) ==
    Fields("fundamental_parameters", i, <<"center_frequency", "frequency_range",
           "effective_radiated_power", "pulse_repetition_frequency", "pulse_width">>, 4)
BeamData(i) ==
    Fields("beam_data", i, <<"beam_azimuth_center", "beam_elevation_center",
           "beam_azimuth_sweep", "beam_elevation_sweep", "beam_sweep_sync">>, 4)
JammingTechnique(i) ==
    Fields("jamming_technique", i, <<"kind", "category", "subcategory", "specific">>, 1)
TrackJam(i) ==
    EntityID("track_jam_target", i) \o Fields("track_jam", i, <<"emitter_number", "beam_number">>, 1)

-----------------------------------------------------------------------------
(* Entity State: params_type of the dead reckoning, and how many variable  *)
(* parameters.                                                             *)

DeadReckoningOf(type) ==
    CASE type = 1 -> <<PadOf(2)>> \o EulerAngles("local_angles", 0)
      [] type = 2 -> DISQuat("quat")
      [] OTHER -> <<PadOf(14)>>

(* The reader's idea of it: eight bytes where the writer pads fourteen.    *)
DeadReckoningRead(type) ==
    CASE type = 1 -> <<PadOf(2)>> \o EulerAngles("local_angles", 0)
      [] type = 2 -> DISQuat("quat")
      [] OTHER -> <<PadOf(8)>>

Motion == Vector("linear_acceleration", 0) \o Vector("angular_velocity", 0)

VariableParameter(i) ==
    Fields("variable_parameter", i, <<"type">>, 1)
        \o [k \in 1..15 |-> Field("variable_parameter_data", 15 * i + k, "data", 1)]

BeforeDeadReckoning ==
    EntityType("entity_type") \o EntityType("alternative_entity_type")
        \o Vector("entity_linear_velocity", 0) \o WorldCoordinates("entity_location")
        \o EulerAngles("entity_orientation", 0) \o Fields("pdu", 0, <<"entity_appearance">>, 4)
        \o Fields("dr_parameters", 0, <<"algorithm">>, 1)

AfterDeadReckoning ==
    Fields("entity_marking", 0, <<"character_set">>, 1)
        \o [k \in 1..11 |-> Field("entity_marking", k, "marking", 1)]
        \o Fields("pdu", 0, <<"capabilities">>, 4)

EntityStateSize(pdu) == (1152 + 128 * pdu.params) \div 8

EntityState(pdu) ==
    PDUHeader(DIS7, 1, EntityStateSize(pdu)) \o EntityID("entity_id", 0)
        \o Fields("pdu", 0, <<"force_id">>, 1) \o <<Number("params", pdu.params, 1)>>
        \o BeforeDeadReckoning \o <<Number("params_type", pdu.dr, 1)>>
        \o DeadReckoningOf(pdu.dr) \o Motion \o AfterDeadReckoning
        \o Each(VariableParameter, pdu.params)

ReadEntityState(bytes) ==
    LET id == PDUHeader(0, 0, 0) \o EntityID("entity_id", 0) \o Fields("pdu", 0, <<"force_id">>, 1)
        count == GetNumber(GetAll(Reading(bytes), id), "params", 1)
        type == GetNumber(GetAll(count, BeforeDeadReckoning), "params_type", 1)
        rest == GetAll(type, DeadReckoningRead(type.number) \o Motion \o AfterDeadReckoning)
    IN GetEach(rest, LAMBDA r, i : GetAll(r, VariableParameter(i)), count.number)

-----------------------------------------------------------------------------
(* Electromagnetic Emission: for each emitter system and each of its beams *)
(* how many track jams it has (none at all for 0).  A beam's index says    *)
(* its system's and its own.                                               *)

BeamIndex(s, b) == 100 * s + 10 * b

(* Record lengths are in words of 32 bits.                                 *)
BeamWords(jams) == (416 + 64 * jams) \div 32
SystemWords(beams) == (160 + FoldLeft(LAMBDA n, jams : n + 416 + 64 * jams, 0, beams)) \div 32

BeamAfterIndex(i) ==
    EEFundamentalParameterData(i) \o BeamData(i)
        \o Fields("beam", i, <<"beam_function", "number_of_targets",
                               "high_density_track_jam", "beam_status">>, 1)
        \o JammingTechnique(i)
BeamBeforeData(i) ==
    Fields("beam", i, <<"beam_number">>, 1) \o Fields("beam", i, <<"beam_parameter_index">>, 2)

BeamOf(i, jams) ==
    <<Number("record_length", BeamWords(jams), 1)>> \o BeamBeforeData(i) \o BeamAfterIndex(i)
        \o Each(LAMBDA j : TrackJam(i + j), jams)

SystemAfterPad(s) ==
    Fields("emitter_system", s, <<"emitter_name">>, 2)
        \o Fields("emitter_system", s, <<"function", "emitter_number">>, 1)
        \o Vector("emitter_location", s)

SystemOf(s, beams) ==
    <<Number("record_length", SystemWords(beams), 1), Number("beams", Len(beams), 1), PadOf(2)>>
        \o SystemAfterPad(s)
        \o Each(LAMBDA b : BeamOf(BeamIndex(s, b), beams[b]), Len(beams))

EmissionIds == EntityID("emitter_id", 0) \o EntityID("event_id", 0)
    \o Fields("pdu", 0, <<"state_update_indicator">>, 1)

EmissionSize(pdu) ==
    (224 + FoldLeft(LAMBDA n, beams : n + 160 + FoldLeft(LAMBDA m, jams : m + 416 + 64 * jams, 0, beams),
                    0, pdu.systems)) \div 8

Emission(pdu) ==
    PDUHeader(DIS7, 23, EmissionSize(pdu)) \o EmissionIds
        \o <<Number("systems", Len(pdu.systems), 1), PadOf(2)>>
        \o Each(LAMBDA s : SystemOf(s, pdu.systems[s]), Len(pdu.systems))

(* How many track jams the reader expects of a beam that long.             *)
JamsAllWords(words) == (words * 32 - 416) \div 32
JamsIn(words) == (words * 32 - 416) \div 64

(* A length below the least wraps round: jams until the bytes run out.     *)
ReadBeam(r, i) ==
    LET length == GetNumber(r, "record_length", 1)
        beam == GetAll(length, BeamBeforeData(i) \o BeamAfterIndex(i))
    IN IF ~beam.ok \/ length.number < 13 THEN [beam EXCEPT !.ok = FALSE]
       ELSE GetEach(beam, LAMBDA s, j : GetAll(s, TrackJam(i + j)), JamsIn(length.number))

ReadSystem(r, s) ==
    LET length == GetNumber(r, "record_length", 1)
        count == GetNumber(length, "beams", 1)
        system == GetAll(Skip(count, 2), SystemAfterPad(s))
    IN GetEach(system, LAMBDA t, b : ReadBeam(t, BeamIndex(s, b)), count.number)

ReadEmission(bytes) ==
    LET count == GetNumber(GetAll(Reading(bytes), PDUHeader(0, 0, 0) \o EmissionIds), "systems", 1)
    IN GetEach(Skip(count, 2), ReadSystem, count.number)

-----------------------------------------------------------------------------
(* Transmitter: the version, how many bytes of modulation parameters and   *)
(* how many antenna patterns it has, and the bytes of data of each of its  *)
(* variable parameters.  The library cannot write one (its serialize_wire  *)
(* calls a function that is not there): a peer does, in that layout.       *)

RadioType(version) ==
    Fields("radio_type", 0, <<"entity_kind", "domain">>, 1)
        \o Fields("radio_type", 0, <<"country_code">>, 2)
        \o (CASE version = DIS6 -> Fields("radio_type", 0, <<"nomenclature_version">>, 1)
                                      \o Fields("radio_type", 0, <<"nomenclature">>, 2)
              [] version = DIS7 -> Fields("radio_type", 0, <<"category", "subcategory",
                                                             "specific", "extra">>, 1))

ModulationType ==
    Fields("modulation_type", 0, <<"spread_spectrum", "major_modulation", "detail_modulation",
                                   "radio_system">>, 2)

BeamAntennaPattern(i) ==
    EulerAngles("beam_direction", i)
        \o Fields("antenna_pattern", i, <<"azimuth_beamwidth", "elevation_beamwidth">>, 4)
        \o Fields("antenna_pattern", i, <<"reference_system">>, 1) \o <<PadOf(3)>>
        \o Fields("antenna_pattern", i, <<"e_z", "e_x", "phase">>, 4) \o <<PadOf(4)>>

ModulationParameter(i) == Fields("modulation_parameters", i, <<"data">>, 1)

RadioReference ==
    EntityID("radio_reference_id", 0) \o Fields("pdu", 0, <<"radio_number">>, 2)

RadioState == Fields("pdu", 0, <<"transmit_state", "input_source">>, 1)

RadioBeforePatterns ==
    WorldCoordinates("antenna_location") \o Vector("relative_antenna_location", 0)
        \o Fields("pdu", 0, <<"antenna_pattern_type">>, 2)

RadioAfterPatterns ==
    Fields("pdu", 0, <<"center_frequency">>, 8)
        \o Fields("pdu", 0, <<"transmit_frequency_bandwidth", "power">>, 4) \o ModulationType
        \o Fields("pdu", 0, <<"crypto_system", "crypto_key_id">>, 2)

Datum(i, k) == Fields("variable_data", 100 * i + k, <<"data">>, 1)

(* The data is padded to a multiple of eight bytes.                        *)
VariableRecord(i, size) ==
    LET padding == (8 - (size % 8)) % 8
    IN Fields("variable_parameters", i, <<"type">>, 4)
        \o <<Number("record_length", 6 + size + padding, 2)>>
        \o Each(LAMBDA k : Datum(i, k), size)
        \o (IF padding > 0 THEN <<PadOf(padding)>> ELSE <<>>)

RecordCount(pdu) ==
    IF pdu.version = DIS6 THEN PadOf(2) ELSE Number("variable_parameters", Len(pdu.records), 2)

Transmitter(pdu) ==
    PDUHeader(pdu.version, 25, 0) \o RadioReference \o RadioType(pdu.version) \o RadioState
        \o <<RecordCount(pdu)>> \o RadioBeforePatterns
        \o <<Number("antenna_patterns", pdu.patterns, 2)>> \o RadioAfterPatterns
        \o <<Number("modulation_parameters", pdu.modulation, 1), PadOf(3)>>
        \o Each(ModulationParameter, pdu.modulation) \o Each(BeamAntennaPattern, pdu.patterns)
        \o Each(LAMBDA i : VariableRecord(i, pdu.records[i]), Len(pdu.records))

ReadRadioType(r, version) ==
    IF r.ok /\ version \in {DIS6, DIS7} THEN GetAll(r, RadioType(version))
                                       ELSE [r EXCEPT !.ok = FALSE]

(* Two bytes that the writer has not are skipped between length and data,  *)
(* and, if they are there, as many as would fill up the length.  Of a      *)
(* length below 6 the data has no end.                                     *)
ReadVariableRecord(r, i) ==
    LET type == GetAll(r, Fields("variable_parameters", i, <<"type">>, 4))
        length == GetNumber(type, "record_length", 2)
        data == GetEach(Skip(length, 2), LAMBDA s, k : GetAll(s, Datum(i, k)), length.number - 6)
    IN IF ~length.ok \/ length.number < 6 THEN [length EXCEPT !.ok = FALSE]
       ELSE IF length.number % 8 = 0 THEN data ELSE Skip(data, 8 - (length.number % 8))

(* The count of variable parameters becomes a bool on its way into the     *)
(* number: one, whatever it was, if it could be read.                      *)
RecordsExpected(r) == IF BytesLeft(r) >= 2 THEN 1 ELSE 0

ReadTransmitter(bytes) ==
    LET version == GetNumber(Reading(bytes), "protocol_version", 1)
        reference == GetAll(version, HeaderAfterVersion(0, 0) \o RadioReference)
        state == GetAll(ReadRadioType(reference, version.number), RadioState)
        patterns == GetNumber(GetAll(Skip(state, 2), RadioBeforePatterns), "antenna_patterns", 2)
        modulation == GetNumber(GetAll(patterns, RadioAfterPatterns), "modulation_parameters", 1)
        parameters == GetEach(Skip(Skip(modulation, 2), 1),
                              LAMBDA r, i : GetAll(r, ModulationParameter(i)), modulation.number)
        antennas == GetEach(parameters, LAMBDA r, i : GetAll(r, BeamAntennaPattern(i)), patterns.number)
    IN GetEach(antennas, ReadVariableRecord, RecordsExpected(state))

-----------------------------------------------------------------------------
(* Any PDU.                                                                *)

Items(pdu) ==
    CASE pdu.type = "EntityState" -> EntityState(pdu)
      [] pdu.type = "Emission" -> Emission(pdu)
      [] pdu.type = "Transmitter" -> Transmitter(pdu)

PduSize(pdu) ==
    CASE pdu.type = "EntityState" -> EntityStateSize(pdu)
      [] pdu.type = "Emission" -> EmissionSize(pdu)
      [] pdu.type = "Transmitter" -> Len(Written(Items(pdu), 1000))

ReadAs(type, bytes) ==
    CASE type = "EntityState" -> ReadEntityState(bytes)
      [] type = "Emission" -> ReadEmission(bytes)
      [] type = "Transmitter" -> ReadTransmitter(bytes)

(* The reader got each field of the PDU from its own bytes, and no other.  *)
(* How many variable parameters a Transmitter has, the fields of each tell. *)
Told(pdu) ==
    ToSet(Items(pdu)) \ ({PadOf(n) : n \in 1..14} \cup {Number("variable_parameters", n, 2) : n \in 0..2})

IsExactly(r, pdu) == r.ok /\ r.got = {<<Member(item.id), item.id>> : item \in Told(pdu)}
=============================================================================
