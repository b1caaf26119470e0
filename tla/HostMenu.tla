------------------------------ MODULE HostMenu -------------------------------
(***************************************************************************)
(* The host's menus (src/main.c, menu.c, menu_layout.h): which buttons are *)
(* enabled, the download of the preloader, and the choice of a baud rate.  *)
(* Any enabled button of the menu on the screen can be chosen.             *)
(***************************************************************************)
EXTENDS SerialSpeed

CONSTANTS MaxSyns,      \* bound of the model: unanswered SYNs on the line
          NapTicks      \* usleep(100000), in times of a byte at the speed Slow

\* The nap outlasts the four bytes of a divider: at 600 baud it is six bytes long.
ASSUME MenuAssumption == MaxSyns \in Nat \ {0} /\ NapTicks \in Nat /\ NapTicks > 4

VARIABLES hp,       \* the menu, or what the host waits for
          screen,   \* current_menu
          loaded,   \* whether the preloader has been downloaded
          flags,    \* bin_flashing, tfs_flashing, csc_flashing
          flashOn,  \* whether FLASH_START is enabled
          pick,     \* the speed chosen
          nap       \* what is left of usleep

menuVars == <<hp, screen, loaded, flags, flashOn, pick, nap>>
HostPhases == {"menu", "syn", "check", "hex", "status", "enq", "baud", "sleep", "cmd", "closed"}

MenuInit == /\ hp = "menu" /\ screen = "main" /\ loaded = FALSE
            /\ flags = {} /\ flashOn = FALSE /\ pick = Fast /\ nap = 0

Goes(to) == hp' = to /\ UNCHANGED <<screen, loaded, flags, flashOn, pick, nap>>
Silent == UNCHANGED <<txq, rx, hspeed, dspeed>>
\* The loop of main drops what it has received when it comes back to the menu.
Flushed == back' = <<>>
Read == back # <<>> /\ back' = Tail(back)

InMenu(s) == hp = "menu" /\ screen = s

(* MENU_MAIN_DOWNLOAD_PRELOADER.                                            *)
Download == /\ InMenu("main") /\ ~loaded
            /\ Goes("syn") /\ Flushed /\ hspeed' = Fast /\ UNCHANGED <<txq, rx, dspeed>>
\* A SYN every 10 ms, until one comes back.
SendSyn == /\ hp = "syn" /\ Len(txq) + Len(rx) < MaxSyns
           /\ HostWrites(<<Byte("SYN")>>) /\ Goes("check")
           /\ UNCHANGED <<rx, back, hspeed, dspeed>>
\* Mutant: one SYN is sent, and then the host waits.
CheckSynWaits == /\ hp = "check" /\ Silent
                 /\ IF back = <<>> THEN Goes("check") /\ UNCHANGED back
                    ELSE Read /\ Goes(IF Head(back).b = "SYN" THEN "hex" ELSE "syn")
CheckSyn == /\ hp = "check" /\ Silent
            /\ IF back = <<>> THEN Goes("syn") /\ UNCHANGED back
               ELSE Read /\ Goes(IF Head(back).b = "SYN" THEN "hex" ELSE "syn")
SendImage == /\ hp = "hex" /\ HostWrites(<<Byte("HEX")>>) /\ Goes("status")
             /\ UNCHANGED <<rx, back, hspeed, dspeed>>
\* "Unable to create IHEX file!"
ImageFails == hp = "hex" /\ Goes("menu") /\ Flushed /\ Silent
ReadStatus == /\ hp = "status" /\ back # <<>> /\ Silent
              /\ IF Head(back).b = "0" THEN Read /\ Goes("enq") ELSE Flushed /\ Goes("menu")

\* Only ENQ is answered; the buttons of the preloader are enabled.
ReadEnq ==
  /\ hp = "enq" /\ back # <<>>
  /\ IF Head(back).b = "ENQ"
     THEN /\ Flushed /\ HostWrites(<<Byte("ACK")>>)
          /\ hp' = "menu" /\ loaded' = TRUE /\ flashOn' = FALSE
          /\ UNCHANGED <<rx, hspeed, dspeed, screen, flags, pick, nap>>
     ELSE Read /\ Goes("enq") /\ Silent

(* The flags of the flash, and every button that sends a command.           *)
Toggle(f) == /\ InMenu("main") /\ loaded
             /\ flags' = IF f \in flags THEN flags \ {f} ELSE flags \cup {f}
             /\ flashOn' = (flags' # {})
             /\ UNCHANGED <<hp, screen, loaded, pick, nap>> /\ Flushed /\ Silent
Command == /\ InMenu("main") /\ loaded
           /\ HostWrites(<<Byte("CMD")>>) /\ Goes("cmd") /\ UNCHANGED <<rx, back, hspeed, dspeed>>
FlashStart == flashOn /\ Command
ReadReply == hp = "cmd" /\ back # <<>> /\ Goes("menu") /\ Flushed /\ Silent

(* MENU_BAUD_RATE.                                                          *)
OpenBaud == /\ InMenu("main") /\ loaded /\ screen' = "baud"
            /\ UNCHANGED <<hp, loaded, flags, flashOn, pick, nap>> /\ Flushed /\ Silent
PickBaud(v) == /\ InMenu("baud")
               /\ HostWrites(<<Byte("BAUD")>>) /\ hp' = "baud" /\ pick' = v
               /\ UNCHANGED <<screen, loaded, flags, flashOn, nap, rx, back, hspeed, dspeed>>

\* Mutant: the host sleeps for a third of the time.
ReadBaudStatusBrief ==
  /\ hp = "baud" /\ Read
  /\ IF Head(back).b # "VALID" THEN Goes("menu") /\ Silent
     ELSE /\ HostWrites([i \in 1 .. 4 |-> [b |-> "DIV", val |-> pick]])
          /\ hp' = "sleep" /\ nap' = NapTicks \div 3
          /\ UNCHANGED <<screen, loaded, flags, flashOn, pick, rx, hspeed, dspeed>>

\* Mutant: the row of the table is sent, not the divider in it.
ReadBaudStatusRow ==
  /\ hp = "baud" /\ Read
  /\ IF Head(back).b # "VALID" THEN Goes("menu") /\ Silent
     ELSE /\ HostWrites([i \in 1 .. 4 |-> [b |-> "DIV", val |-> 0]])
          /\ hp' = "sleep" /\ nap' = NapTicks
          /\ UNCHANGED <<screen, loaded, flags, flashOn, pick, rx, hspeed, dspeed>>

\* The divider is written, and then there is nothing but time.
ReadBaudStatus ==
  /\ hp = "baud" /\ Read
  /\ IF Head(back).b # "VALID" THEN Goes("menu") /\ Silent
     ELSE /\ HostWrites([i \in 1 .. 4 |-> [b |-> "DIV", val |-> pick]])
          /\ hp' = "sleep" /\ nap' = NapTicks
          /\ UNCHANGED <<screen, loaded, flags, flashOn, pick, rx, hspeed, dspeed>>
SetSpeed == /\ hp = "sleep" /\ nap = 0
            /\ hspeed' = pick /\ hp' = "menu" /\ screen' = "main"
            /\ UNCHANGED <<loaded, flags, flashOn, pick, nap, txq, rx, dspeed>> /\ Flushed

\* `q', or Ctrl-C at any time; the program is started again.
Leave == /\ InMenu("baud") /\ screen' = "main"
         /\ UNCHANGED <<hp, loaded, flags, flashOn, pick, nap>> /\ Flushed /\ Silent
Close == hp # "closed" /\ Goes("closed") /\ UNCHANGED lineVars
Reopen == /\ hp = "closed" /\ txq = <<>> /\ rx = <<>>
          /\ hp' = "menu" /\ screen' = "main" /\ loaded' = FALSE
          /\ flags' = {} /\ flashOn' = FALSE /\ pick' = Fast /\ nap' = 0
          /\ back' = <<>> /\ UNCHANGED <<txq, rx, hspeed, dspeed>>

HostStep == \/ SendSyn \/ CheckSyn \/ SendImage \/ ReadStatus \/ ReadEnq
            \/ ReadReply \/ ReadBaudStatus \/ SetSpeed
UserStep == \/ Download \/ (\E f \in {"bin", "tfs", "csc"} : Toggle(f)) \/ Command
            \/ FlashStart \/ OpenBaud \/ (\E v \in Speeds : PickBaud(v)) \/ Leave
            \/ ImageFails
=============================================================================
