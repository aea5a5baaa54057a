------------------------------ MODULE XbeeFrames ------------------------------
(***************************************************************************)
(* The frames of the XBee radio modules (XBEE/xbee.c of the subject's      *)
(* libraries): PortXbee_envoyer makes them, PortXbee_receptionOctet reads  *)
(* them from a serial line byte by byte.  The line may lose bytes and fall *)
(* silent; frames may follow one another without a silence.                *)
(***************************************************************************)
EXTENDS Integers, Sequences, SequencesExt

CONSTANTS
    Payloads,     \* what is sent in data frames: sequences of two bytes at least
    MaxFrames,    \* bound: frames on the line
    MaxFaults     \* bound: bytes lost and silences in frames

ASSUME PayloadAssumption == \A p \in Payloads : p \in Seq(0 .. 255) /\ Len(p) > 1

VARIABLES
    line,         \* what is left of the frame on the line
    frames,       \* how many frames have come
    faults,       \* how many losses, and silences in frames
    content,      \* history: what that frame is
    whole,        \* history: it has come after a silence, without a loss or another silence
    late,         \* more than TIMEOUT_RECEPTION since the time the receiver remembers
    si_Etat, suc_cks_calcule, LenPacket,
    data,         \* bReceivePacketData, si_IndiceTabReceivePacket long
    received      \* what the last byte has returned: 0, 1, -1 or -2

receiver == << si_Etat, suc_cks_calcule, LenPacket, data, received >>
xbee == << line, frames, faults, content, whole, late, receiver >>

Add8(s) == FoldSeq(LAMBDA byte, sum : (sum + byte) % 256, 0, s)

\* The start delimiter, the length on two bytes, the content and what makes its sum 0xFF.
Framed(bytes) == << 126, Len(bytes) \div 256, Len(bytes) % 256 >> \o bytes
                 \o << 255 - Add8(bytes) >>

\* PortXbee_envoyer(dest_addr, donnees, nb, serial, TX_REQUEST_16BITS_ADR, id, 0).
PortXbee_envoyer(id, donnees) == Framed(<< 1, id, 0, 7, 0 >> \o donnees)

\* What the module of the other side gives its host: the data of a request, with
\* their source and the strength of the signal.
Radio(request) == Framed(<< 129, 0, 7, 40, 0 >> \o SubSeq(request, 9, Len(request) - 1))

\* Besides: the answer to a request; those to a command that has been obeyed, to one
\* that has not, whose status is not 0, and to one that asks for a value, with the
\* value behind the status; a change of status.
Other == [ack |-> Framed(<< 137, 1, 0 >>), answer |-> Framed(<< 136, 1, 77, 89, 0 >>),
          refusal |-> Framed(<< 136, 1, 77, 89, 1 >>),
          value |-> Framed(<< 136, 1, 77, 89, 0, 9 >>), status |-> Framed(<< 138, 2 >>)]

XbeeInit ==
    /\ line = << >> /\ frames = 0 /\ faults = 0
    /\ content = << "none" >> /\ whole = FALSE /\ late = TRUE
    /\ si_Etat = "WAIT_START_DELIMITER" /\ data = << >>
    /\ suc_cks_calcule = 0 /\ LenPacket = 0
    /\ received = 0

-----------------------------------------------------------------------------
(* The line                                                                *)

\* A frame begins, after a silence or not.
FrameComes(f, what) ==
    /\ line = << >> /\ frames < MaxFrames
    /\ line' = f /\ frames' = frames + 1
    /\ content' = what /\ whole' = late
    /\ UNCHANGED << faults, late, receiver >>

Silence ==
    /\ ~late
    /\ late' = TRUE
    /\ \/ line = << >> /\ UNCHANGED faults
       \/ line # << >> /\ faults < MaxFaults /\ faults' = faults + 1
    /\ whole' = (whole /\ line = << >>)
    /\ UNCHANGED << line, frames, content, receiver >>

Lose ==
    /\ line # << >> /\ faults < MaxFaults
    /\ line' = Tail(line) /\ faults' = faults + 1 /\ whole' = FALSE
    /\ UNCHANGED << frames, content, late, receiver >>

-----------------------------------------------------------------------------
(* PortXbee_receptionOctet                                                 *)

\* States that add a byte to the sum and go on to another one.
Adds == [RX_MSB_SOURCE_ADR    |-> "RX_LSB_SOURCE_ADR",
         RX_LSB_SOURCE_ADR    |-> "RX_RSSI",
         RX_RSSI              |-> "RX_OPTIONS",
         RX_OPTIONS           |-> "RX_DATA_TYPE_TRAME_RF",
         RX_DATA_TYPE_TRAME_RF |-> "RX_DATAS_MESSAGE",
         RX_ACKXBEE_ID_ACK    |-> "RX_ACKXBEE_STATE",
         RX_ACKXBEE_STATE     |-> "RX_CKS",
         RX_ATCOMMAND_ID      |-> "RX_ATCOMMAND_1",
         RX_ATCOMMAND_1       |-> "RX_ATCOMMAND_2",
         RX_ATCOMMAND_2       |-> "RX_ATCOMMAND_STATUS"]

\* After the type of the frame; a type it does not know ends the frame with -2.
AfterType(c) == CASE c = 129 -> "RX_MSB_SOURCE_ADR"
                  [] c = 137 -> "RX_ACKXBEE_ID_ACK"
                  [] c = 136 -> "RX_ATCOMMAND_ID"
                  [] OTHER   -> "WAIT_START_DELIMITER"

\* Mutant of StateNow: silence does not end a frame.
StateNow_Patient == si_Etat

\* A byte that comes too late begins anew.
StateNow == IF late THEN "WAIT_START_DELIMITER" ELSE si_Etat

Octet(c) ==
    LET st == StateNow
    IN  \/ /\ st = "WAIT_START_DELIMITER"
           /\ suc_cks_calcule' = 0
           /\ si_Etat' = IF c = 126 THEN "RX_MSB_LEN_MESSAGE" ELSE st
           /\ received' = 0
           /\ UNCHANGED << LenPacket, data >>
        \/ /\ st \in { "RX_MSB_LEN_MESSAGE", "RX_LSB_LEN_MESSAGE" }
           /\ LenPacket' = IF st = "RX_MSB_LEN_MESSAGE" THEN c * 256 ELSE LenPacket + c
           /\ si_Etat' = IF st = "RX_MSB_LEN_MESSAGE" THEN "RX_LSB_LEN_MESSAGE"
                         ELSE "RX_FRAME_TYPE"
           /\ received' = 0
           /\ UNCHANGED << suc_cks_calcule, data >>
        \/ /\ st = "RX_FRAME_TYPE"
           /\ suc_cks_calcule' = (suc_cks_calcule + c) % 256
           /\ si_Etat' = AfterType(c)
           /\ received' = IF si_Etat' = "WAIT_START_DELIMITER" THEN -2 ELSE 0
           /\ UNCHANGED << LenPacket, data >>
        \/ /\ st \in DOMAIN Adds
           /\ suc_cks_calcule' = (suc_cks_calcule + c) % 256
           /\ si_Etat' = Adds[st]
           /\ data' = CASE st = "RX_OPTIONS" -> << >>
                        [] st = "RX_DATA_TYPE_TRAME_RF" -> Append(data, c)
                        [] OTHER -> data
           /\ received' = 0
           /\ UNCHANGED LenPacket
        \/ \* Only RX_OPTIONS empties the data: those of an answer go behind the last message's.
           /\ st \in { "RX_DATAS_MESSAGE", "RX_ATCOMMAND_DATAS" }
           /\ suc_cks_calcule' = (suc_cks_calcule + c) % 256
           /\ data' = Append(data, c)
           /\ si_Etat' = IF Len(data') = LenPacket - (IF st = "RX_DATAS_MESSAGE" THEN 5 ELSE 4)
                         THEN "RX_CKS" ELSE st
           /\ received' = 0
           /\ UNCHANGED LenPacket
        \/ /\ st = "RX_ATCOMMAND_STATUS"     \* the status is not in the sum
           /\ si_Etat' = IF LenPacket > 5 THEN "RX_ATCOMMAND_DATAS" ELSE "RX_CKS"
           /\ received' = 0
           /\ UNCHANGED << suc_cks_calcule, data, LenPacket >>
        \/ /\ st = "RX_CKS"
           /\ suc_cks_calcule' = 255 - suc_cks_calcule
           /\ received' = IF suc_cks_calcule' = c THEN 1 ELSE -1
           /\ si_Etat' = "WAIT_START_DELIMITER"
           /\ UNCHANGED << LenPacket, data >>

\* The time is remembered when a byte is late and when a frame begins: a frame
\* may be late again before its end.
PortXbee_receptionOctet ==
    /\ line # << >>
    /\ line' = Tail(line)
    /\ Octet(Head(line))
    /\ late' = FALSE
    /\ UNCHANGED << frames, faults, content, whole >>

-----------------------------------------------------------------------------
XbeeNext ==
    \/ Silence \/ Lose \/ PortXbee_receptionOctet
    \/ \E p \in Payloads : FrameComes(Radio(PortXbee_envoyer(1, p)), << "data", p >>)
    \/ \E o \in DOMAIN Other : FrameComes(Other[o], << o >>)

XbeeSpec == XbeeInit /\ [][XbeeNext]_xbee

-----------------------------------------------------------------------------
(* Properties                                                              *)

\* Whatever came before, cut frames, bytes that look like a start: after a
\* silence, a frame that is neither cut nor interrupted is accepted at its last
\* byte, with the data the other side has sent.  Three frames are not read so: the
\* receiver does not know a change of status; it leaves the status of an answer out
\* of the sum (xbee.c:300-308), and so refuses one that is not 0; and it counts the
\* bytes of a value from those of the last message and to one too many
\* (xbee.c:310-317), and so misses its end.
AcceptedAfterSilence ==
    [][ line # << >> /\ line' = << >> /\ whole' =>
          /\ content[1] \in { "data", "ack", "answer" } => received' = 1
          /\ content[1] = "data" => data' = content[2]
          /\ content[1] = "refusal" => received' = -1 ]_xbee
=============================================================================
