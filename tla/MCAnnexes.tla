------------------------------- MODULE MCAnnexes -------------------------------
(***************************************************************************)
(* The libraries of the subject, side by side.  They run in different      *)
(* programs and on different computers and share nothing: a behaviour is   *)
(* one of one of them, which part names.                                   *)
(***************************************************************************)
EXTENDS Marvelmind, MarvelmindParser, CanQueue, CanMessages, CanVariables, XbeeFrames,
        Ertms

VARIABLE part

\* Data that hold the byte a frame starts with, at both ends.
XbeePayloads == { << 126, 0 >>, << 1, 126, 0 >> }

\* The libraries; Marvelmind with one kind of datagrams at a time, for no action
\* relates what they write, and CanMessages one end at a time.
Hedges == [positions |-> { "position" }, beacons |-> { "beacons" }, samples |-> { "sample" }]
Parts == DOMAIN Hedges \cup { "parser", "queue", "sender", "relay", "variables", "xbee", "ertms" }

AnnexesInit ==
    /\ part \in Parts
    /\ HedgeInit /\ ParserInit /\ QueueInit /\ MessagesInit /\ VariablesInit
    /\ part # "variables" => trame = "warning" /\ octets[0] = 0
    /\ XbeeInit /\ ErtmsInit

Others(p) ==
    /\ part = p /\ UNCHANGED part
    /\ p \notin DOMAIN Hedges => UNCHANGED hedge
    /\ p # "parser" => UNCHANGED parser
    /\ p # "queue" => UNCHANGED queue
    /\ p \notin { "sender", "relay" } => UNCHANGED messages
    /\ p # "variables" => UNCHANGED variables
    /\ p # "xbee" => UNCHANGED xbee
    /\ p # "ertms" => UNCHANGED ertms

AnnexesNext ==
    \/ \E p \in DOMAIN Hedges :
           Others(p) /\ HedgeNext /\ datagram'[1] \in Hedges[p] \cup { "none", "other" }
    \/ Others("parser") /\ ParserNext
    \/ Others("queue") /\ QueueNext
    \/ Others("sender") /\ SenderNext
    \/ Others("relay") /\ RelayNext
    \/ Others("variables") /\ VariablesNext
    \/ Others("xbee") /\ XbeeNext
    \/ Others("ertms") /\ ErtmsNext

annexes == << part, hedge, parser, queue, messages, variables, xbee, ertms >>

\* HedgeFairness, ParserFairness and QueueFairness, each one for its part.
AnnexesFairness ==
    /\ WF_hedge(part \in DOMAIN Hedges /\ main # "crashed" /\ ReaderStep)
    /\ SF_hedge(part \in DOMAIN Hedges /\ main # "crashed" /\ MainStep)
    /\ WF_parser(part = "parser" /\ Byte_Comes)
    /\ SF_queue(part = "queue" /\ train # "ended" /\ TaskStep)
    /\ SF_queue(part = "queue" /\ train # "ended" /\ Write(TRUE))
    /\ SF_queue(part = "queue" /\ train # "ended"
                /\ (TrainStep \/ \E turn \in BOOLEAN : TraitementDonnee(turn)))

AnnexesSpec == AnnexesInit /\ [][AnnexesNext]_annexes /\ AnnexesFairness
=============================================================================
