-------------------------------- MODULE Ertms --------------------------------
(***************************************************************************)
(* The ERTMS messages of the subject's libraries (ERTMS/ertms.c): how they *)
(* are initialised, written into a buffer byte by byte and read from it.   *)
(*                                                                         *)
(* A structure is a function from << field, index >> to a number; the      *)
(* index is 0 but in arrays.  How a message is written, and how it is read,*)
(* is a sequence of elements: << field >> is a field, << count, fields >>  *)
(* a count and as many groups of fields.  The two are translated           *)
(* separately: a message is understood where they agree.                   *)
(***************************************************************************)
EXTENDS Integers, Sequences, SequencesExt, Functions, TLC

CONSTANTS
    Lengths,     \* how many elements arrays have
    Fills,       \* what the other fields are made of
    Engines      \* how many engines, and national systems, a train has

VARIABLES
    phase,
    nid,         \* the message, or 0 for a balise's
    message,     \* the structure that is sent
    buffer,
    stale,       \* the structure it is read into has held a packet before: its number
    decoded, status

ertms == << phase, nid, message, buffer, stale, decoded, status >>

\* The fields of 16 bits and of 32 bits; the others have 8.
Wide == { "l_message", "l_packet", "l_packet11", "nid_c", "nid_bg", "prv_nid_c", "prv_nid_bg", "d_lrbg",
          "l_doubtover", "l_doubtunder", "l_traininit", "nc_train", "l_train", "n_axle",
          "nid_ctraction", "t_ema", "l_section", "t_section", "d_section", "end_l_section",
          "end_t_section", "end_d_section", "t_end", "d_end", "d_dp", "d_startol", "t_overlap",
          "d_overlap", "d_sr", "d_leveltr", "l_ackleveltr", "l_ackleveltr_next" }
Long == { "t_train", "t_trainMessageOrigin" }

-----------------------------------------------------------------------------
(* Writing                                                                 *)

Fields(names) == [i \in 1 .. Len(names) |-> << names[i] >>]

SerializedPositionReport ==
    Fields(<< "nid_packet", "l_packet", "q_scale", "nid_c", "nid_bg", "d_lrbg", "q_dirlrbg",
              "q_dlrbg", "l_doubtover", "l_doubtunder", "q_length", "l_traininit", "v_train",
              "q_dirtrain", "m_mode", "m_level", "nid_ntc" >>)

SerializedTwoBaliseGroups ==
    Fields(<< "nid_packet", "l_packet", "q_scale", "nid_c", "nid_bg", "prv_nid_c", "prv_nid_bg",
              "d_lrbg", "q_dirlrbg", "q_dlrbg", "l_doubtover", "l_doubtunder", "q_length",
              "l_traininit", "v_train", "q_dirtrain", "m_mode", "m_level", "nid_ntc" >>)

SerializedTrainData ==
    Fields(<< "nid_packet11", "l_packet11", "nc_cdtrain", "nc_train", "l_train", "v_maxtrain",
              "m_loadinggauge", "m_axleloadcat", "m_airtight", "n_axle" >>)
    \o << << "n_iter_engine", << "m_voltage", "nid_ctraction" >> >>,
          << "n_iter_ntc", << "nid_ntc11" >> >> >>

SerializedSections ==
    << << "n_iter_section", << "l_section", "q_timer", "t_section", "d_section" >> >> >>
    \o Fields(<< "end_l_section", "end_q_timer", "end_t_section", "end_d_section", "q_end",
                 "t_end", "d_end", "q_dangerpoint", "d_dp", "v_releasedp", "q_overlap",
                 "d_startol", "t_overlap", "d_overlap", "v_releaseol" >>)

SerializedAuthority ==
    Fields(<< "nid_packet", "l_packet", "q_dir", "q_scale", "v_ema", "t_ema" >>)
    \o SerializedSections

SerializedEBTAuthority ==
    Fields(<< "nid_packet", "q_dir", "l_packet", "q_scale", "v_main", "v_ema", "t_ema" >>)
    \o SerializedSections

SerializedLevelTransition ==
    Fields(<< "nid_packet", "q_dir", "l_packet", "q_scale", "d_leveltr", "m_leveltr", "nid_ntc",
              "l_ackleveltr" >>)
    \o << << "n_iter_next", << "m_leveltr_next", "nid_ntc_next", "l_ackleveltr_next" >> >> >>

\* serializeMessage and serializeEBT: what comes before the packets, and the packets.
\* p is the number of the packet the structure holds; of a packet serializeEBT does
\* not know, as 16, nothing is written.
Serialized(n, p) ==
    LET report == CASE p = 0 -> SerializedPositionReport
                    [] p = 1 -> SerializedTwoBaliseGroups
                    [] OTHER -> << >>
        begin(names) == Fields(<< "nid_message", "l_message", "t_train" >> \o names)
    IN  CASE n = 2   -> begin(<< "m_ack", "nid_c", "nid_bg", "q_scale", "d_sr" >>)
          [] n = 3   -> begin(<< "m_ack", "nid_c", "nid_bg" >>) \o SerializedAuthority
          [] n = 8   -> begin(<< "m_ack", "nid_c", "nid_bg", "t_trainMessageOrigin" >>)
          [] n = 32  -> begin(<< "m_ack", "nid_c", "nid_bg", "m_version" >>)
          [] n = 39  -> begin(<< "m_ack", "nid_c", "nid_bg" >>)
          [] n = 129 -> begin(<< "nid_engine" >>) \o report \o SerializedTrainData
          [] n = 132 -> begin(<< "nid_engine", "q_marqstreason" >>) \o report
          [] n = 146 -> begin(<< "nid_engine", "t_trainMessageOrigin" >>)
          [] n = 150 -> begin(<< "nid_engine" >>) \o report
          [] n \in { 155, 159 } -> begin(<< "nid_engine" >>)
          [] n = 0   -> Fields(<< "q_updown", "m_version", "q_media", "n_pig", "n_total", "m_dup",
                                  "m_mcount", "nid_c", "nid_bg", "q_link" >>)
                        \o (CASE p = 12 -> SerializedEBTAuthority
                             [] p = 41 -> SerializedLevelTransition
                             [] OTHER -> << >>)

WidthOf(field) == IF field \in Long THEN 4 ELSE IF field \in Wide THEN 2 ELSE 1

\* serializeUint16 and serializeUint32: the high byte first.
BytesOf(value, width) == [i \in 1 .. width |-> (value \div 256^(width - i)) % 256]

Number(bytes) == FoldLeft(LAMBDA n, byte : 256 * n + byte, 0, bytes)

Group(fields, n) ==
    FlattenSeq([i \in 1 .. n |-> [j \in 1 .. Len(fields) |-> << fields[j], i >>]])

\* The fields of a structure in the order they are written in.
Written(layout, count) ==
    FlattenSeq([i \in 1 .. Len(layout) |->
        << << layout[i][1], 0 >> >>
        \o (IF Len(layout[i]) = 1 THEN << >> ELSE Group(layout[i][2], count[layout[i][1]]))])

-----------------------------------------------------------------------------
(* Initialising                                                            *)

\* The lengths the init functions of the packets give.
l_packet(p, count) ==
    CASE p = 0 -> 24 [] p = 1 -> 28
      [] p = 11 -> 16 + 3 * count["n_iter_engine"] + count["n_iter_ntc"]
      [] p = 12 -> 34 + 7 * count["n_iter_section"]
      [] p = 15 -> 33 + 7 * count["n_iter_section"]
      [] p = 41 -> 12 + 4 * count["n_iter_next"]

\* And those of the messages; a balise's has none.
l_message(n, p, count) ==
    CASE n = 2 -> 15 [] n = 3 -> 12 + l_packet(15, count) [] n = 8 -> 16 [] n = 32 -> 13
      [] n = 39 -> 12 [] n = 129 -> 8 + l_packet(p, count) + l_packet(11, count)
      [] n = 132 -> 9 + l_packet(p, count) [] n = 146 -> 12
      [] n = 150 -> 8 + l_packet(p, count) [] n \in { 155, 159 } -> 8
      [] n = 0 -> 0

\* The packets a message may hold: -1 is none.  A packet 3, which initEBT does not
\* copy, leaves in a balise's message what the structure held before: that of
\* another message, or nothing known.
Packets(n) == CASE n \in { 129, 132, 150 } -> { 0, 1 } [] n = 3 -> { 15 }
                [] n = 0 -> { 12, 16, 41, -1 } [] OTHER -> { -1 }

\* EBT_RepositioningInformation, for which there is no init function.
RepositioningInformation ==
    Fields(<< "nid_packet", "q_dir", "l_packet", "q_scale", "l_section" >>)

Nids == { 0, 2, 3, 8, 32, 39, 129, 132, 146, 150, 155, 159 }

Initialised(n, p, count, fill) ==
    LET fields == Written(Serialized(n, p) \o (IF p = 16 THEN RepositioningInformation
                                               ELSE << >>), count)
        any(i) == LET byte == (fill + i) % 256
                      w    == WidthOf(fields[i][1])
                  IN  Number([j \in 1 .. w |-> IF w = 4 /\ j = 1 THEN byte % 128
                                               ELSE (byte + j) % 256])
        fixed  == [nid_message |-> n, l_message |-> l_message(n, p, count), nid_packet |-> p,
                   nid_packet11 |-> 11, l_packet11 |-> l_packet(11, count)] @@ count
                  @@ (IF p \in { -1, 16 } THEN << >> ELSE "l_packet" :> l_packet(p, count))
    IN  [x \in Range(fields) |->
            IF x[1] \in DOMAIN fixed THEN fixed[x[1]]
            ELSE any(CHOOSE i \in 1 .. Len(fields) : fields[i] = x)]

-----------------------------------------------------------------------------
(* Reading                                                                 *)

DeserializedPositionReport ==
    Fields(<< "nid_packet", "l_packet", "q_scale", "nid_c", "nid_bg", "d_lrbg", "q_dirlrbg",
              "q_dlrbg", "l_doubtover", "l_doubtunder", "q_length", "l_traininit", "v_train",
              "q_dirtrain", "m_mode", "m_level", "nid_ntc" >>)

DeserializedTwoBaliseGroups ==
    Fields(<< "nid_packet", "l_packet", "q_scale", "nid_c", "nid_bg", "prv_nid_c", "prv_nid_bg",
              "d_lrbg", "q_dirlrbg", "q_dlrbg", "l_doubtover", "l_doubtunder", "q_length",
              "l_traininit", "v_train", "q_dirtrain", "m_mode", "m_level", "nid_ntc" >>)

DeserializedTrainData ==
    Fields(<< "nid_packet11", "l_packet11", "nc_cdtrain", "nc_train", "l_train", "v_maxtrain",
              "m_loadinggauge", "m_axleloadcat", "m_airtight", "n_axle" >>)
    \o << << "n_iter_engine", << "m_voltage", "nid_ctraction" >> >>,
          << "n_iter_ntc", << "nid_ntc11" >> >> >>

\* Mutant of DeserializedSections: the overlap is read in the order of its type.
DeserializedSections_ByType ==
    << << "n_iter_section", << "l_section", "q_timer", "t_section", "d_section" >> >> >>
    \o Fields(<< "end_l_section", "end_q_timer", "end_t_section", "end_d_section", "q_end",
                 "t_end", "d_end", "q_dangerpoint", "d_dp", "v_releasedp", "q_overlap",
                 "t_overlap", "d_overlap", "d_startol", "v_releaseol" >>)

DeserializedSections ==
    << << "n_iter_section", << "l_section", "q_timer", "t_section", "d_section" >> >> >>
    \o Fields(<< "end_l_section", "end_q_timer", "end_t_section", "end_d_section", "q_end",
                 "t_end", "d_end", "q_dangerpoint", "d_dp", "v_releasedp", "q_overlap",
                 "d_startol", "t_overlap", "d_overlap", "v_releaseol" >>)

DeserializedAuthority ==
    Fields(<< "nid_packet", "l_packet", "q_dir", "q_scale", "v_ema", "t_ema" >>)
    \o DeserializedSections

DeserializedEBTAuthority ==
    Fields(<< "nid_packet", "q_dir", "l_packet", "q_scale", "v_main", "v_ema", "t_ema" >>)
    \o DeserializedSections

DeserializedLevelTransition ==
    Fields(<< "nid_packet", "q_dir", "l_packet", "q_scale", "d_leveltr", "m_leveltr", "nid_ntc",
              "l_ackleveltr" >>)
    \o << << "n_iter_next", << "m_leveltr_next", "nid_ntc_next", "l_ackleveltr_next" >> >> >>

\* deserializeMessage and deSerializeEBT.  The packet is looked for in the buffer,
\* but for message 150: in the structure it is read into.
Deserialized(n, p) ==
    LET report == CASE p = 0 -> DeserializedPositionReport
                    [] p = 1 -> DeserializedTwoBaliseGroups
                    [] OTHER -> << >>
        begin(names) == Fields(<< "l_message", "t_train" >> \o names)
    IN  CASE n = 2   -> begin(<< "m_ack", "nid_c", "nid_bg", "q_scale", "d_sr" >>)
          [] n = 3   -> begin(<< "m_ack", "nid_c", "nid_bg" >>) \o DeserializedAuthority
          [] n = 8   -> begin(<< "m_ack", "nid_c", "nid_bg", "t_trainMessageOrigin" >>)
          [] n = 32  -> begin(<< "m_ack", "nid_c", "nid_bg", "m_version" >>)
          [] n = 39  -> begin(<< "m_ack", "nid_c", "nid_bg" >>)
          [] n = 129 -> begin(<< "nid_engine" >>) \o report \o DeserializedTrainData
          [] n = 132 -> begin(<< "nid_engine", "q_marqstreason" >>) \o report
          [] n = 146 -> begin(<< "nid_engine", "t_trainMessageOrigin" >>)
          [] n = 150 -> begin(<< "nid_engine" >>) \o report
          [] n \in { 155, 159 } -> begin(<< "nid_engine" >>)
          [] n = 0   -> Fields(<< "q_updown", "m_version", "q_media", "n_pig", "n_total", "m_dup",
                                  "m_mcount", "nid_c", "nid_bg", "q_link" >>)
                        \o (CASE p = 12 -> DeserializedEBTAuthority
                             [] p = 41 -> DeserializedLevelTransition
                             [] OTHER -> << >>)

At(i) == IF i < Len(buffer) THEN buffer[i + 1] ELSE 0

\* deSerializeUint16, deSerializeUint32 and the fields of 8 bits.
ReadField(x, read) ==
    LET w == WidthOf(x[1])
    IN  [struct  |-> read.struct @@ (x :> Number([i \in 1 .. w |-> At(read.counter + i - 1)])),
         counter |-> read.counter + w]

ReadElement(read, element) ==
    LET x    == << element[1], 0 >>
        once == ReadField(x, read)
    IN  IF Len(element) = 1 THEN once
        ELSE FoldLeft(LAMBDA r, y : ReadField(y, r), once, Group(element[2], once.struct[x]))

Read(layout, counter) ==
    FoldLeft(ReadElement, [struct |-> << >>, counter |-> counter], layout)

-----------------------------------------------------------------------------
ErtmsInit ==
    /\ phase = "none" /\ nid = 0 /\ message = << >> /\ buffer = << >>
    /\ stale = 0 /\ decoded = << >> /\ status = 0

initMessage(n, p, count, fill) ==
    /\ phase = "none"
    /\ phase' = "initialised"
    /\ nid' = n /\ message' = Initialised(n, p, count, fill)
    /\ UNCHANGED << buffer, stale, decoded, status >>

packet == IF << "nid_packet", 0 >> \in DOMAIN message THEN message[<< "nid_packet", 0 >>] ELSE -1

\* serializeMessage and serializeEBT look at the number in the structure.
serialize ==
    /\ phase = "initialised"
    /\ LET count  == [c \in { x[1] : x \in DOMAIN message } |->
                         IF << c, 0 >> \in DOMAIN message THEN message[<< c, 0 >>] ELSE 0]
           fields == Written(Serialized(nid, packet), count)
       IN  buffer' = FlattenSeq([i \in 1 .. Len(fields) |->
                         BytesOf(message[fields[i]], WidthOf(fields[i][1]))]) \o << 255 >>
    /\ phase' = "serialized"
    /\ UNCHANGED << nid, message, stale, decoded, status >>

\* The packet deserializeMessage and deSerializeEBT read, s being in the structure.
Peeked(n, s) == CASE n = 150 -> s
                  [] n = 132 -> At(9) [] n = 129 -> At(8) [] n = 0 -> At(12) [] OTHER -> -1

deserialize(s) ==
    /\ phase = "serialized"
    /\ LET read == Read(Deserialized(nid, Peeked(nid, s)), IF nid = 0 THEN 0 ELSE 1)
       IN  /\ decoded' = read.struct
           /\ status' = IF At(read.counter) = 255 THEN 0 ELSE -2
    /\ stale' = s
    /\ phase' = "read"
    /\ UNCHANGED << nid, message, buffer >>

ErtmsNext ==
    \/ \E n \in Nids : \E p \in Packets(n), fill \in Fills, c \in Lengths, e, s \in Engines :
           initMessage(n, p, [n_iter_section |-> c, n_iter_next |-> c, n_iter_engine |-> e,
                              n_iter_ntc |-> s], fill)
    \/ serialize
    \/ \E s \in { 0, 1 } : deserialize(s)

ErtmsSpec == ErtmsInit /\ [][ErtmsNext]_ertms

-----------------------------------------------------------------------------
(* Properties                                                              *)

\* The packet of a balise's message that serializeEBT leaves out without a word.
LeftOut == nid = 0 /\ packet \notin { 12, 41 }

\* What is read is what was written, and the end is where it is looked for; a
\* message 150 needs a structure that held the same packet before.  A message
\* announces its length, its number and end marker aside: the senders of
\* APIUniRail.c send l_message + 1 bytes of the buffer.  A packet 16, which initEBT
\* takes (ertms.h:83), is the exception: it is never written, the message is read
\* without it, and both ends report success.
RoundTrip ==
    /\ phase = "serialized" =>
         Len(buffer) - 1 = IF nid # 0 THEN message[<< "l_message", 0 >>]
                           ELSE IF LeftOut THEN 12 ELSE 12 + message[<< "l_packet", 0 >>]
    /\ phase = "read" /\ (nid = 150 => stale = packet) =>
         /\ status = 0
         /\ DOMAIN decoded = DOMAIN message \ ({ << "nid_message", 0 >> }
                  \cup (IF LeftOut THEN { << f[1], 0 >> : f \in Range(RepositioningInformation) }
                        ELSE {}))
         /\ \A x \in DOMAIN decoded : decoded[x] = message[x]
=============================================================================
