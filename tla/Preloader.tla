----------------------------- MODULE Preloader -------------------------------
(***************************************************************************)
(* The program that runs on the phone (preloader/src/main.c): a loop that  *)
(* reads an opcode, answers it, reads its operands and works the flash.    *)
(* While it works the flash it does not read the line.                     *)
(***************************************************************************)
EXTENDS Wire

CONSTANTS NoCmd,
          Contents   \* what the flash may hold at first
ASSUME NoCmdAssumption == NoCmd \notin Cmd
ASSUME ContentsAssumption == Contents \subseteq MemVal

VARIABLES flash,   \* [mem, prot]: the chip's pages and its block locks
          dst,     \* where preloader_start is
          dcmd     \* the command it is serving

devVars == <<flash, dst, dcmd>>

Flash == [mem : MemVal, prot : ProtVal]
\* "wipe", "burn" and "stamp" are the phases of a flash command; in "gone" the
\* processor has left for the address a JUMP gave it.
DevStates == {"opcode", "operands", "wipe", "burn", "stamp", "gone"}

\* A phone that has just been switched on: its blocks all come up locked, or
\* all unlocked, as the chip fitted does.
PowerOn == \E locked \in BOOLEAN :
             flash' = [flash EXCEPT !.prot = [b \in Blocks |-> locked]]

PreloaderInit ==
  /\ \E mem \in Contents, locked \in BOOLEAN :
       flash = [mem |-> mem, prot |-> [b \in Blocks |-> locked]]
  /\ dst = "opcode" /\ dcmd = NoCmd

\* Commands whose handler reads no operand after it has answered PL_VALID.
NoOperand == {"GET_INFO", "OTP_READ", "CHIP_ERASE"}
\* Commands whose operands end in a checksum, answered by ACK or NAK.
Checked == {"BLK_PROGRAM", "SECT_WRITE"}
\* Commands whose handler sends EOT when it is done.
Completed == {"BLK_PROGRAM", "BLK_ERASE", "CHIP_ERASE"}
\* Commands that answer with data.
Reading == {"GET_INFO", "BLK_READ", "OTP_READ", "READ_SECT_MARKS", "SECT_READ"}

\* Mutant: the handlers go straight to programming.
ServeNoErase == /\ dst' = IF dcmd.op = "MARK_SECT" THEN "stamp" ELSE "burn"
                /\ UNCHANGED dcmd
Serve == /\ dst' = IF dcmd.op = "MARK_SECT" THEN "stamp" ELSE "wipe"
         /\ UNCHANGED dcmd
NextCommand == dst' = "opcode" /\ dcmd' = NoCmd

\* The switch on uart_read8(): PL_VALID, or PL_INVALID from the default case.
ReadOpcode ==
  /\ dst = "opcode" /\ h2d # <<>> /\ Head(h2d).kind = "opcode"
  /\ h2d' = Tail(h2d)
  /\ \/ /\ ~Head(h2d).ok
        /\ DeviceSends("INVALID")
        /\ UNCHANGED <<dst, dcmd>>
     \/ /\ Head(h2d).ok
        /\ DeviceSends("VALID")
        /\ dcmd' = Head(h2d).cmd
        /\ dst' = IF dcmd'.op \in NoOperand THEN "wipe" ELSE "operands"
  /\ UNCHANGED <<flash, link>>

\* Operands without a checksum are taken as they come.
ReadOperands ==
  /\ dst = "operands" /\ h2d # <<>> /\ Head(h2d).kind = "operands"
  /\ dcmd.op \notin Checked
  /\ h2d' = Tail(h2d)
  /\ IF dcmd.op = "JUMP" THEN dst' = "gone" /\ UNCHANGED dcmd ELSE Serve
  /\ UNCHANGED <<flash, d2h, link>>

\* Mutants: after a NAK the payload is awaited again, or used all the same.
ReadPayloadAgain ==
  /\ dst = "operands" /\ h2d # <<>> /\ Head(h2d).kind = "operands"
  /\ dcmd.op \in Checked
  /\ h2d' = Tail(h2d)
  /\ \/ Head(h2d).ok /\ DeviceSends("ACK") /\ Serve
     \/ ~Head(h2d).ok /\ DeviceSends("NAK") /\ UNCHANGED <<dst, dcmd>>
  /\ UNCHANGED <<flash, link>>
ReadPayloadAnyway ==
  /\ dst = "operands" /\ h2d # <<>> /\ Head(h2d).kind = "operands"
  /\ dcmd.op \in Checked
  /\ h2d' = Tail(h2d)
  /\ DeviceSends(IF Head(h2d).ok THEN "ACK" ELSE "NAK") /\ Serve
  /\ UNCHANGED <<flash, link>>

\* The payload commands compare checksums before they touch the flash.
ReadPayload ==
  /\ dst = "operands" /\ h2d # <<>> /\ Head(h2d).kind = "operands"
  /\ dcmd.op \in Checked
  /\ h2d' = Tail(h2d)
  /\ \/ Head(h2d).ok /\ DeviceSends("ACK") /\ Serve
     \/ ~Head(h2d).ok /\ DeviceSends("NAK") /\ NextCommand
  /\ UNCHANGED <<flash, link>>

\* The handlers that only read the flash.
AnswerData ==
  /\ dst = "wipe" /\ dcmd.op \in Reading
  /\ DeviceSends("DATA")
  /\ NextCommand
  /\ UNCHANGED <<flash, h2d, link>>

\* BLK_LOCK, BLK_UNLOCK and the two erases are over after their first phase.
OnePhase == {"BLK_LOCK", "BLK_UNLOCK", "BLK_ERASE", "CHIP_ERASE"}

WipeStep ==
  /\ dst = "wipe" /\ dcmd.op \notin Reading
  /\ flash' = Wipe(flash, dcmd)
  /\ IF dcmd.op \in OnePhase
     THEN /\ NextCommand
          /\ IF dcmd.op \in Completed THEN DeviceSends("EOT") ELSE UNCHANGED d2h
     ELSE dst' = "burn" /\ UNCHANGED <<dcmd, d2h>>
  /\ UNCHANGED <<h2d, link>>

\* Mutant: the last buffer, and the lock after it, are left out.
BurnStepNoStamp ==
  /\ dst = "burn"
  /\ flash' = Burn(flash, dcmd)
  /\ NextCommand
  /\ IF dcmd.op \in Completed THEN DeviceSends("EOT") ELSE UNCHANGED d2h
  /\ UNCHANGED <<h2d, link>>

BurnStep ==
  /\ dst = "burn"
  /\ flash' = Burn(flash, dcmd)
  /\ dst' = "stamp"
  /\ UNCHANGED <<dcmd, h2d, d2h, link>>

StampStep ==
  /\ dst = "stamp"
  /\ flash' = Stamp(flash, dcmd)
  /\ NextCommand
  /\ IF dcmd.op \in Completed THEN DeviceSends("EOT") ELSE UNCHANGED d2h
  /\ UNCHANGED <<h2d, link>>

DeviceStep == \/ ReadOpcode \/ ReadOperands \/ ReadPayload
              \/ AnswerData \/ WipeStep \/ BurnStep \/ StampStep
=============================================================================
