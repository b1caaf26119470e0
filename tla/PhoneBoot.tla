------------------------------ MODULE PhoneBoot ------------------------------
(***************************************************************************)
(* The phone from power-on to the preloader's command loop: the boot ROM,  *)
(* as the host expects it to be, then start_kernel, which looks for the    *)
(* UART the host is on, and the BAUD command (src/preloader).              *)
(***************************************************************************)
EXTENDS SerialSpeed

VARIABLES phone,    \* where the phone is
          uarts,    \* the UARTs that are enabled
          cable,    \* the UART the cable is on
          got       \* the bytes of an operand that have been read

phoneVars == <<phone, uarts, cable, got>>
Phases == {"off", "rom", "hex", "entry", "kernel", "loop", "divider", "astray"}

PhoneInit == phone = "off" /\ uarts = {0, 1} /\ cable \in {0, 1} /\ got = <<>>

Listening == phone \notin {"off", "astray"} /\ cable \in uarts
Get(b) == rx # <<>> /\ Head(rx).b = b /\ rx' = Tail(rx)
GetOther(S) == rx # <<>> /\ Head(rx).b \notin S /\ rx' = Tail(rx)
Quiet == UNCHANGED <<txq, back, hspeed, dspeed>>
Says(bytes) == PhoneWrites(bytes) /\ UNCHANGED <<txq, hspeed, dspeed>>
Moves(to) == phone' = to /\ UNCHANGED <<uarts, cable, got>>

(* The boot ROM: it answers SYN, takes an image and starts it.              *)
RomSyn == phone = "rom" /\ Get("SYN") /\ Says(<<"SYN">>) /\ Moves("hex")
\* A SYN too many may be answered as the first was.
RomSynAgain == /\ phone = "hex" /\ Get("SYN") /\ (Says(<<"SYN">>) \/ Quiet)
               /\ UNCHANGED phoneVars
RomHex == /\ phone = "hex" /\ Get("HEX")
          /\ \/ Says(<<"0">>) /\ Moves("entry")
             \/ Says(<<"error">>) /\ Moves("rom")
RomIgnores == /\ \/ phone = "rom" /\ GetOther({"SYN"})
                 \/ phone = "hex" /\ GetOther({"SYN", "HEX"})
              /\ Quiet /\ UNCHANGED phoneVars

\* start_kernel: both UARTs at 115200, ENQ on both.
StartKernel == /\ phone = "entry"
               /\ PhoneWrites(<<"ENQ">>) /\ dspeed' = Fast
               /\ phone' = "kernel" /\ uarts' = {0, 1}
               /\ UNCHANGED <<txq, rx, hspeed, cable, got>>

\* Mutant: the UART that has answered is the one disabled.
FindUartOther ==
  /\ phone = "kernel" /\ Get("ACK") /\ Quiet
  /\ phone' = "loop" /\ uarts' = {1 - cable} /\ UNCHANGED <<cable, got>>

\* The UART on which ACK arrives is the active one; anything else is dropped.
FindUart == /\ phone = "kernel" /\ Get("ACK") /\ Quiet
            /\ phone' = "loop" /\ uarts' = {cable} /\ UNCHANGED <<cable, got>>
KernelIgnores == phone = "kernel" /\ GetOther({"ACK"}) /\ Quiet /\ UNCHANGED phoneVars

(* preloader_start.  CMD stands for any other command, which FlashSession   *)
(* models; junk may be read as one.                                         *)
\* Mutant: the divider is not waited for, and its bytes are taken for commands.
CmdBaudNoDivider == phone = "loop" /\ Get("BAUD") /\ Says(<<"VALID">>) /\ UNCHANGED phoneVars

CmdBaud == phone = "loop" /\ Get("BAUD") /\ Says(<<"VALID">>) /\ Moves("divider")
CmdOther == phone = "loop" /\ Get("CMD") /\ Says(<<"VALID">>) /\ UNCHANGED phoneVars
CmdUnknown == /\ phone = "loop" /\ GetOther({"BAUD", "CMD"})
              /\ \/ Says(<<"INVALID">>) /\ UNCHANGED phoneVars
                 \/ Head(rx).b = "junk" /\ Quiet /\ Moves("astray")

\* uart_set_baud, once all four bytes of the divider are there.
ReadDivider ==
  /\ phone = "divider" /\ rx # <<>> /\ rx' = Tail(rx)
  /\ LET bytes == Append(got, Head(rx))
         fits(v) == \A i \in DOMAIN bytes : bytes[i].b = "DIV" /\ bytes[i].val = v
     IN IF Len(bytes) < 4 THEN got' = bytes /\ UNCHANGED <<phone, dspeed>>
        ELSE /\ dspeed' = IF \E v \in Speeds : fits(v) THEN bytes[1].val ELSE Odd
             /\ got' = <<>> /\ phone' = "loop"
  /\ UNCHANGED <<txq, back, hspeed, uarts, cable>>

PhoneStep == \/ RomSyn \/ RomSynAgain \/ RomHex \/ RomIgnores \/ StartKernel
             \/ FindUart \/ KernelIgnores \/ CmdBaud \/ CmdOther \/ CmdUnknown \/ ReadDivider

(* The user presses the end key; the battery comes off.                     *)
PowerOn == /\ phone = "off" /\ phone' = "rom" /\ uarts' = {0, 1} /\ got' = <<>>
           /\ dspeed' = Fast /\ rx' = <<>>
           /\ UNCHANGED <<txq, back, hspeed, cable>>
PowerOff == /\ phone # "off" /\ phone' = "off" /\ rx' = <<>> /\ got' = <<>>
            /\ UNCHANGED <<txq, back, hspeed, dspeed, uarts, cable>>
=============================================================================
