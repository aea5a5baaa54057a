--------------------------- MODULE MarvelmindParser ---------------------------
(***************************************************************************)
(* How Marvelmind_Thread_ (marvelmind.c) finds the datagrams in the bytes  *)
(* of the serial port, when the line loses, alters or adds bytes.          *)
(*                                                                         *)
(* A datagram is a header of 5 bytes (0xff, 0x47 or 0x4a, the two bytes of *)
(* its id and its length), that many bytes of data and 2 of CRC.  The      *)
(* width of a byte is a parameter: nBytesInBlockReceived is one byte wide, *)
(* and a length close to its limit makes it wrap.                          *)
(***************************************************************************)
EXTENDS Integers

CONSTANTS
    Bytes,         \* 256 in the code
    DataLength     \* the length of the datagrams sent (0x10 for a position)

ASSUME BytesAssumption == Bytes \in Nat /\ DataLength \in Nat /\ DataLength + 7 < Bytes

VARIABLES
    sent,          \* the sender: how many bytes of its datagram it has sent
    recvState, nBytes, dataId, length,
                   \* the parser: input_buffer[4] is its length
    good,          \* history: the bytes received are those of one datagram so far
    quiet,         \* the line does not fail any more
    parsed         \* history: a datagram has been processed since then

parser == << sent, recvState, nBytes, dataId, length, good, quiet, parsed >>

Byte    == 0 .. Bytes - 1
Start0  == Bytes - 1                         \* 0xff
Start1  == { 5, 7 }                          \* 0x4a and 0x47
Position == 1                                \* an id with a length of its own ...
Beacons_Id == 2                              \* ... and one of those with any length
Size    == DataLength + 7

\* What the sender sends at each place: data and CRC are any byte, but not 0xff
\* once the line is quiet.
Sent(i) == CASE i = 0 -> { Start0 }
             [] i = 1 -> { 7 }
             [] i = 2 -> { Position }
             [] i = 3 -> { 0 }
             [] i = 4 -> { DataLength }
             [] OTHER -> IF quiet THEN Byte \ { Start0 } ELSE Byte

ParserInit ==
    /\ sent = 0
    /\ recvState = "RECV_HDR" /\ nBytes = 0
    /\ dataId = 0 /\ length = 0
    /\ good = TRUE
    /\ quiet = FALSE /\ parsed = FALSE

\* goodByte: whether a byte may be at that place of a header.  The id is known
\* when its second byte has come; input_buffer[2] is kept in dataId until then.
goodByte(b) == CASE nBytes = 0 -> b = Start0
                 [] nBytes = 1 -> b \in Start1
                 [] nBytes = 2 -> TRUE
                 [] nBytes = 3 -> b = 0 /\ dataId \in { Position, Beacons_Id }
                 [] nBytes = 4 -> dataId = Position => b = DataLength

\* Mutant of complete: one byte too many.
complete_OneMore(n, len) == n > 7 + len
complete(n, len) == n >= 7 + len

\* One byte comes; intact: it is the next one of the datagram being sent.
Parse(b, intact) ==
    LET good1 == intact /\ sent = nBytes /\ (nBytes = 0 \/ good) IN
    /\ length' = IF nBytes = 4 THEN b ELSE length
    /\ dataId' = IF nBytes = 2 /\ recvState = "RECV_HDR" THEN b ELSE dataId
    /\ IF recvState = "RECV_HDR"
       THEN /\ recvState' = IF nBytes = 4 /\ goodByte(b) THEN "RECV_DGRAM" ELSE "RECV_HDR"
            /\ nBytes' = IF goodByte(b) THEN nBytes + 1 ELSE 0
            /\ UNCHANGED parsed
       ELSE IF complete((nBytes + 1) % Bytes, length')
       THEN /\ recvState' = "RECV_HDR" /\ nBytes' = 0
            /\ parsed' = (parsed \/ (quiet /\ good1 /\ sent = Size - 1))
       ELSE /\ nBytes' = (nBytes + 1) % Bytes
            /\ UNCHANGED << recvState, parsed >>
    /\ good' = (nBytes' = 0 \/ good1)
    /\ UNCHANGED quiet

\* The line: a byte as it was sent, ...
Byte_Comes == /\ \E b \in Sent(sent) : Parse(b, TRUE)
              /\ sent' = (sent + 1) % Size
\* ... altered, ...
Byte_Altered == ~quiet /\ (\E b \in Byte : Parse(b, FALSE)) /\ sent' = (sent + 1) % Size
\* ... lost, ...
Byte_Lost == /\ ~quiet /\ sent' = (sent + 1) % Size
             /\ good' = (nBytes = 0)
             /\ UNCHANGED << recvState, nBytes, dataId, length, quiet, parsed >>
\* ... or added.
Byte_Added == ~quiet /\ (\E b \in Byte : Parse(b, FALSE)) /\ UNCHANGED sent

Quiet == /\ ~quiet /\ quiet' = TRUE
         /\ UNCHANGED << sent, recvState, nBytes, dataId, length, good, parsed >>

ParserNext == Byte_Comes \/ Byte_Altered \/ Byte_Lost \/ Byte_Added \/ Quiet

\* Datagrams are sent for ever.
ParserFairness == WF_parser(Byte_Comes)

ParserSpec == ParserInit /\ [][ParserNext]_parser /\ ParserFairness

-----------------------------------------------------------------------------
\* Wherever the last failure of the line left the parser, in the middle of a
\* header, of data, or with a length that makes nBytesInBlockReceived wrap, it
\* finds the datagrams again, as long as their data do not hold the byte that
\* starts a header.
Resynchronises == quiet ~> parsed
=============================================================================
