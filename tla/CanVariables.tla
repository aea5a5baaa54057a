----------------------------- MODULE CanVariables -----------------------------
(***************************************************************************)
(* The variables in the CAN frames of the trains and of the track (the     *)
(* subject's MESCAN1_VarTrain.c, VarStatusTrain.c and VarInfraBalAig.c):   *)
(* where each one is, and the functions of MESCAN1_Utilitaire.c that write *)
(* and read them.                                                          *)
(*                                                                         *)
(* Variables have the names of the source without their prefixes.  A       *)
(* number is the sequence of its bytes, the lowest first.  EEPROM frames,  *)
(* whose length is still to be defined, are left out.                      *)
(***************************************************************************)
EXTENDS Integers, Sequences, TLC

CONSTANTS
    Patterns,     \* the first byte of the numbers that are set
    Mistaken,     \* frames whose variables are used with another frame
    MaxSets       \* bound: calls for one message

ASSUME PatternAssumption == Patterns \subseteq 0 .. 255 /\ MaxSets \in Nat

VARIABLES
    trame,        \* the frame the message is
    octets,       \* its data0 to data7
    last,         \* history: where the last variable set is, and its value
    calls,
    cptErreurDefinition,
    recus         \* data0 to data7 at the receiver, or NoOctets

variables == << trame, octets, last, calls, cptErreurDefinition, recus >>

-----------------------------------------------------------------------------
(* The frames                                                              *)

Bit(i, b) == [size |-> 1,  byte |-> i, bit |-> b]
Data8(i)  == [size |-> 8,  byte |-> i, bit |-> 0]
Data16(i) == [size |-> 16, byte |-> i, bit |-> 0]
Data32(i) == [size |-> 32, byte |-> i, bit |-> 0]    \* and Datafloat32

Trame(id, dlc, vars) == [id |-> id, dlc |-> dlc, vars |-> vars]

\* Names given to the bits of one byte from one on.
Bits(i, from, names) == [n \in { names[k] : k \in 1 .. Len(names) } |->
                           Bit(i, from - 1 + CHOOSE k \in 1 .. Len(names) : names[k] = n)]
\* Names given to the bytes from one on.
Octets(i, names) == [n \in { names[k] : k \in 1 .. Len(names) } |->
                       Data8(i - 1 + CHOOSE k \in 1 .. Len(names) : names[k] = n)]

\* Mutant of Speeds: the frame of the speed is one byte long.
Speeds_Short ==
    [ messageGSM_Sent |-> Trame(96, 8, Octets(0, << "len", "customCKS" >>)
            @@ [destAdress |-> Data16(2)] @@ Octets(4, << "frameId_NumMessage" >>)),
      messageGSM_Received |-> Trame(112, 8, Octets(0, << "len", "customCKS" >>)
            @@ [sourceAdress |-> Data16(2)] @@ Octets(4, << "RSSI" >>)),
      scheduleurAndMesures |-> Trame(47, 7, Octets(0, << "ordonnancementId", "vitesseMesuree" >>)
            @@ [distanceRelativeParcourue |-> Data16(2), valeurErreurRegul |-> Data16(4)]
            @@ Octets(6, << "vitesseConsigneInterne" >>)),
      consigneVitesse |-> Trame(23, 1, [consigneVitesse |-> Data8(0),
                                        sensDeplacementLoco |-> Bit(1, 0)]),
      consigneVitesseLimite |-> Trame(22, 1, Octets(0, << "consigneVitesseLimite" >>)) ]

Speeds ==
    [ messageGSM_Sent |-> Trame(96, 8, Octets(0, << "len", "customCKS" >>)
            @@ [destAdress |-> Data16(2)] @@ Octets(4, << "frameId_NumMessage" >>)),
      messageGSM_Received |-> Trame(112, 8, Octets(0, << "len", "customCKS" >>)
            @@ [sourceAdress |-> Data16(2)] @@ Octets(4, << "RSSI" >>)),
      scheduleurAndMesures |-> Trame(47, 7, Octets(0, << "ordonnancementId", "vitesseMesuree" >>)
            @@ [distanceRelativeParcourue |-> Data16(2), valeurErreurRegul |-> Data16(4)]
            @@ Octets(6, << "vitesseConsigneInterne" >>)),
      consigneVitesse |-> Trame(23, 2, [consigneVitesse |-> Data8(0),
                                        sensDeplacementLoco |-> Bit(1, 0)]),
      consigneVitesseLimite |-> Trame(22, 1, Octets(0, << "consigneVitesseLimite" >>)) ]

TrainOthers ==
    [ arretHardware |-> Trame(21, 1, Octets(0, << "causeLocoOFF" >>)),
      paramKiKp |-> Trame(130, 8, [Ki |-> Data32(0), Kp |-> Data32(4)]),
      EbtL2_received |-> Trame(48, 8, Octets(0, << "lenEbtL0", "CKS", "standardCom", "dataSup",
                              "etatProchainFeu", "sourceNumeroBalise" >>)
                              @@ Octets(7, << "CRP_comIR" >>)),
      receiveACK_RF_Xbee |-> Trame(26, 2, Octets(0, << "frame_Id", "statusTx" >>)),
      warning |-> Trame(13, 3, Octets(0, << "source", "type", "code" >>)) ]

\* What all computers of a train have in their statusRun.
StatusRun ==
    [crashSoft |-> Bit(0, 0), initEnCours |-> Bit(1, 0)]
    @@ Bits(1, 4, << "bugSoft", "RxErrorPassive", "TxErrorPassive", "busOFF" >>)
    @@ Octets(0, << "erreurs", "warnings" >>) @@ Octets(3, << "dynamique" >>)
    @@ Octets(6, << "var1Debug", "var2Debug" >>)

MOT_alarms ==
    Bits(0, 1, << "securiteErreurPI" >>) @@ Bits(0, 3, << "stopLoco_XXX_CrashSoft" >>)
    @@ Bits(1, 1, << "noPoweredByRails", "batterieFaible" >>)

MOT_state ==
    Octets(2, << "IO" >>) @@ Bits(2, 1, << "jumper2", "jumper3", "jumper4", "sw1", "sw2" >>)
    @@ Bits(3, 1, << "modeLocoOFF", "modeMoveLocoManuelOrRemote", "moveSensLocoManuelOrRemote" >>)
    @@ [tensionBatterie |-> Data16(4)]

MOT == [ MOT_statusStart |-> Trame(160, 1, Octets(0, << "versionSoft" >>)),
         MOT_statusRun |-> Trame(32, 8, StatusRun @@ MOT_alarms @@ MOT_state) ]

RP1 ==
    [ RP1_statusStart |-> Trame(161, 5, [versionSoft |-> Data8(0), adresseIP |-> Data32(1)]),
      RP1_statusRun |-> Trame(33, 8, StatusRun
            @@ Bits(2, 0, << "presenceCamera", "jumperCfg1", "jumperCfg2" >>)
            @@ Bits(3, 1, << "etatConnexion_TCP_IP", "etatConnexionWIFI", "etatConnexionCamera",
                             "modeRemoteControlMecanicien", "moveSensMecanicien" >>)
            @@ Bits(3, 7, << "panicPowerOFF_loco" >>)
            @@ Octets(2, << "IO" >>) @@ Octets(4, << "configONBOARD" >>)) ]

RP2 ==
    [ RP2_statusStart |-> Trame(162, 5, [versionSoft |-> Data8(0), adresseIP |-> Data32(1)]),
      RP2_statusRun |-> Trame(34, 8, StatusRun
            @@ Bits(3, 1, << "etatConnexion_TCP_IP", "etatConnexionWIFI" >>)
            @@ Bits(3, 7, << "panicPowerOFF_loco" >>)) ]

BAL ==
    [ BAL_statusStart |-> Trame(163, 1, Octets(0, << "versionSoft" >>)),
      BAL_statusRun |-> Trame(35, 8, StatusRun @@ Bits(1, 1, << "BadComWithInfra" >>)
            @@ Bits(2, 0, << "poids1RoueCodeuse", "poids2RoueCodeuse", "poids4RoueCodeuse",
                             "poids8RoueCodeuse", "jumper1_RC", "swRC1" >>)
            @@ Bits(3, 7, << "panicPowerOFF_loco" >>) @@ Octets(2, << "IO" >>)
            @@ Octets(4, << "statusComBalise", "lastNumberOfDetectedBali" >>)) ]

LCD ==
    [ LCD_statusRun |-> Trame(36, 8, StatusRun
            @@ Bits(2, 0, << "sw1", "sw2" >>) @@ Bits(3, 2, << "modeAccueil", "modeRun" >>)
            @@ Bits(4, 0, << "ACK_MOT", "ACK_RP1", "ACK_RP2", "ACK_BAL", "ACK_GSM" >>)
            @@ Octets(2, << "IO" >>) @@ Octets(4, << "ACK_StatusStart" >>)) ]

GSM ==
    [ GSM_statusStart |-> Trame(165, 1, Octets(0, << "versionSoft" >>)),
      GSM_statusRun |-> Trame(37, 8, StatusRun @@ Bits(1, 1, << "failureACK_Antenne" >>)
            @@ Bits(2, 0, << "switch1", "switch2", "switchOUT_J3", "Etat_Led_Rouge" >>)
            @@ Bits(3, 2, << "modeRemoteControl", "moveSensRemoteControl" >>)
            @@ Bits(3, 7, << "panicPowerOFF_loco" >>) @@ Octets(2, << "IO" >>)
            @@ Octets(4, << "consigneVitesseRemoteControl", "Nb_FailRxPacketXbee" >>)) ]

\* A card at the track: its parameters, where some names differ, and the state of
\* what it drives.
Parametres(associe, confA, confB, activation) ==
    Octets(0, << "RC", "cfgs_Dipswitch", "confSupp", "numero_A", "numero_B", "VersionSoft" >>)
    @@ Bits(1, 0, << "fail2", "fail1", confB, confA, associe, "modeProtectEEPROM",
                     "modeDebug1or2", "modeDebug" >>)
    @@ Bits(2, 0, << activation, "activationModeFailure", "switchActionEvent" >>)

Etat(id, names) == Trame(id, Len(names), Octets(0, names))

BAL_parametreCarte ==
    [ InfraBAL_parametreCarte |-> Trame(1, 6, Parametres("associeBaliseEtFeux",
            "confA_BaliseFeux", "confB_GroupeBalises", "activationBalB")) ]

BAL_CRO ==
    [ InfraBAL_CRO_EbtL2_BalA |-> Etat(2, << "numeroLoco", "CRO_transfert" >>),
      InfraBAL_CRO_EbtL2_BalB |-> Etat(10, << "numeroLoco", "CRO_transfert" >>),
      InfraBAL_capteurOnCI_BalA |-> Etat(3, << "typeData", "etat", "status" >>) ]

BAL_feux ==
    [ InfraBAL_feu_A |-> Etat(4, << "typeData", "couleur", "status" >>),
      InfraBAL_feu_B |-> Etat(5, << "typeData", "couleur", "status" >>),
      InfraBAL_DV_A |-> Etat(6, << "typeData", "etat", "status" >>),
      InfraBAL_DV_B |-> Etat(7, << "typeData", "etat", "status" >>),
      InfraBAL_capteurOnCI_BalB |-> Etat(11, << "typeData", "etat", "status" >>) ]

BAL_statusDynamique ==
    [ InfraBAL_statusDynamique |-> Trame(13, 8,
            Bits(0, 0, << "def3", "def2", "def1TrameErronee", "defEEPROM",
                          "warningFailureCommBalB", "warningFailureCommBalA",
                          "RxErrorPassive", "TxErrorPassive" >>)
            @@ Octets(0, << "etatLedsBargraph", "cptBadComIR_WithBalA", "cptBadComIR_WithBalB",
                            "cptTrameErronee", "cptTxCAN_Error", "cptRxCAN_Error" >>)
            @@ [ID_TrameErronee |-> Data16(6)]) ]

BAL_slices ==
    [ InfraBAL_sliceEbtL1_ToBalA |-> Trame(0, 8, Octets(0, << "len", "CKS", "standardCom", "dataSup" >>)),
      InfraBAL_sliceEbtL1_ToBalB |-> Trame(128, 8, Octets(0, << "len", "CKS", "standardCom", "dataSup" >>)) ]

AIG_parametreCarte ==
    [ InfraAIG_parametreCarte |-> Trame(1, 6, Parametres("associeAiguilleEtFeux",
            "confA_NombreFeuxActifs", "confB_NombreHallActifs", "activationSecu")) ]

AIG_etats ==
    [ InfraAIG_Aiguille |-> Etat(2, << "typeData", "position", "lock_or_CRO" >>),
      InfraAIG_feu_A |-> Etat(4, << "typeData", "couleur", "status" >>),
      InfraAIG_feu_B |-> Etat(5, << "typeData", "couleur", "status" >>),
      InfraAIG_capteurPositionA |-> Etat(6, << "typeData", "etat", "status" >>),
      InfraAIG_capteurPositionB |-> Etat(7, << "typeData", "etat", "status" >>) ]

AIG_statusDynamique ==
    [ InfraAIG_energieA |-> Etat(10, << "commande" >>),
      InfraAIG_energieB |-> Etat(11, << "commande" >>),
      InfraAIG_statusDynamique |-> Trame(13, 8,
            Bits(0, 0, << "panneAig", "def2", "def1TrameErronee", "defEEPROM", "secu", "Gripper",
                          "RxErrorPassive", "TxErrorPassive" >>)
            @@ Octets(0, << "etatLedsBargraph" >>)
            @@ Octets(2, << "cptBascul_Aig_complique", "cptTrameErronee", "cptTxCAN_Error",
                            "cptRxCAN_Error" >>)
            @@ [ID_TrameErronee |-> Data16(6)]) ]

InfraOthers ==
    [ Infra_crash |-> Etat(12, << "source", "type", "RC", "code" >>),
      Infra_warning |-> Etat(13, << "source", "type", "RC", "code" >>),
      alimentationRails |-> Etat(240, << "typeCommande" >>),
      ledRouge_On_Tour |-> Etat(656, << "typeData", "etat", "status" >>) ]

Trames ==
    Speeds @@ TrainOthers @@ MOT @@ RP1 @@ RP2 @@ BAL @@ LCD @@ GSM
    @@ BAL_parametreCarte @@ BAL_CRO @@ BAL_feux @@ BAL_statusDynamique @@ BAL_slices
    @@ AIG_parametreCarte @@ AIG_etats @@ AIG_statusDynamique @@ InfraOthers

-----------------------------------------------------------------------------
(* The functions                                                           *)

Places(x) == x.byte .. x.byte + (x.size \div 8) - 1

\* MESCAN_GetBit, GetData8, GetData16, GetData32 and GetDataFloat32.
MESCAN_Get(from, x) ==
    IF x.size = 1 THEN << (from[x.byte] \div 2^x.bit) % 2 >>
    ELSE [i \in 1 .. x.size \div 8 |-> from[x.byte + i - 1]]

\* Mutant of MESCAN_Put: a bit that is set clears the others of its byte.
MESCAN_Put_Clears(into, x, v) ==
    IF x.size = 1 THEN [into EXCEPT ![x.byte] = v[1] * 2^x.bit]
    ELSE [i \in DOMAIN into |-> IF i \in Places(x) THEN v[i - x.byte + 1] ELSE into[i]]

\* MESCAN_SetBit, SetBitHigh, SetBitLow, SetData8, SetData16, SetData32 and
\* SetDataFloat32.
MESCAN_Put(into, x, v) ==
    IF x.size = 1
    THEN [into EXCEPT ![x.byte] = @ + (v[1] - MESCAN_Get(into, x)[1]) * 2^x.bit]
    ELSE [i \in DOMAIN into |-> IF i \in Places(x) THEN v[i - x.byte + 1] ELSE into[i]]

NoOctets == << >>
NothingSet == << Bit(0, 0), << >> >>

\* A message is a copy of a frame, which is all 0 (MESCAN_InitAndRAZ_Alldatas), or
\* a variable of a function with its id and dlc, whose data may be anything.
VariablesInit ==
    /\ trame \in DOMAIN Trames
    /\ octets \in { [i \in 0 .. 7 |-> 0], [i \in 0 .. 7 |-> 255] }
    /\ last = NothingSet /\ calls = 0
    /\ cptErreurDefinition = 0
    /\ recus = NoOctets

\* A set function: nothing but an error is counted when the ids are not the same.
MESCAN_Set(f, name, v) ==
    /\ recus = NoOctets /\ calls < MaxSets
    /\ calls' = calls + 1
    /\ IF Trames[f].id = Trames[trame].id
       THEN /\ octets' = MESCAN_Put(octets, Trames[f].vars[name], v)
            /\ last' = << Trames[f].vars[name], v >>
            /\ UNCHANGED cptErreurDefinition
       ELSE /\ cptErreurDefinition' = cptErreurDefinition + 1
            /\ UNCHANGED << octets, last >>
    /\ UNCHANGED << trame, recus >>

MESCAN_DecrementeDataToZero(name) ==
    LET x == Trames[trame].vars[name] IN
    /\ recus = NoOctets /\ calls < MaxSets
    /\ x.size = 8 /\ octets[x.byte] > 0
    /\ calls' = calls + 1
    /\ octets' = [octets EXCEPT ![x.byte] = @ - 1]
    /\ last' = << x, << octets[x.byte] - 1 >> >>
    /\ UNCHANGED << trame, cptErreurDefinition, recus >>

\* task_send writes the first dlc bytes, over those of the frame before; the
\* receiver reads eight.
Crossing(before) ==
    /\ recus = NoOctets
    /\ recus' = [i \in 0 .. 7 |-> IF i < Trames[trame].dlc THEN octets[i] ELSE before]
    /\ UNCHANGED << trame, octets, last, calls, cptErreurDefinition >>

Numbers(size) == IF size = 1 THEN { << 0 >>, << 1 >> }
                 ELSE { [i \in 1 .. size \div 8 |-> (p + i) % 256] : p \in Patterns }

VariablesNext ==
    \/ \E f \in { trame } \cup Mistaken : \E name \in DOMAIN Trames[f].vars :
         \E v \in Numbers(Trames[f].vars[name].size) : MESCAN_Set(f, name, v)
    \/ \E name \in DOMAIN Trames[trame].vars : MESCAN_DecrementeDataToZero(name)
    \/ \E before \in { 0, 255 } : Crossing(before)

VariablesSpec == VariablesInit /\ [][VariablesNext]_variables

-----------------------------------------------------------------------------
(* Properties                                                              *)

\* A byte and its bits have names of their own.
Whole(x, y) == x.size = 8 /\ y.size = 1 /\ x.byte = y.byte

\* Setting a variable of any of the 46 frames gives it its value and leaves every
\* other one of the frame as it was, but for a byte whose bits have names.
SetsOnlyIt ==
    [][ octets' # octets =>
          \A name \in DOMAIN Trames[trame].vars :
            LET x == last'[1]
                y == Trames[trame].vars[name]
            IN  IF x = y THEN MESCAN_Get(octets', y) = last'[2]
                ELSE Whole(x, y) \/ Whole(y, x)
                     \/ MESCAN_Get(octets', y) = MESCAN_Get(octets, y) ]_variables

\* The length of every frame takes all its variables to the receiver.
VariablesCross ==
    recus # NoOctets =>
        \A name \in DOMAIN Trames[trame].vars :
            LET x == Trames[trame].vars[name] IN MESCAN_Get(recus, x) = MESCAN_Get(octets, x)
=============================================================================
