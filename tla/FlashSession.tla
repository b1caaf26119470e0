---------------------------- MODULE FlashSession -----------------------------
(***************************************************************************)
(* A session of the flasher: the host program, the preloader on the phone  *)
(* and the line between them, with the faults each is exposed to.          *)
(***************************************************************************)
EXTENDS Preloader, FlashHost

CONSTANTS Faults,        \* the faults that may occur
          MaxJobs, MaxFaults, MaxSessions   \* bounds of the model

ASSUME BoundsAssumption ==
  /\ MaxJobs \in Nat /\ MaxFaults \in Nat /\ MaxSessions \in Nat
  /\ Faults \subseteq {"opcode", "payload", "data", "hangup", "power"}


VARIABLES budget,   \* jobs, faults and further sessions the model still allows
          base,     \* history: the flash as the job found it
          fitting   \* history: every job so far fitted the flash it found

vars == <<wire, devVars, hostVars, budget, base, fitting>>

-----------------------------------------------------------------------------
(* The flash once the device has finished the command it is in, and once   *)
(* it has also done the one it will accept from the line.                  *)
Finish(f, phase, c) == CASE phase = "wipe"  -> Apply(f, c)
                         [] phase = "burn"  -> Stamp(Burn(f, c), c)
                         [] phase = "stamp" -> Stamp(f, c)
                         [] OTHER           -> f

\* The command whose operands are on the line and will be accepted.
Pending == IF h2d # <<>> /\ Head(h2d).kind = "operands" /\ dst = "operands"
              /\ (Head(h2d).ok \/ dcmd.op \notin Checked)
           THEN {Head(h2d).cmd} ELSE {}

Underway == Finish(flash, dst, dcmd)
Settled == IF Pending = {} THEN Underway ELSE Apply(Underway, Head(h2d).cmd)

-----------------------------------------------------------------------------
Init == /\ WireInit /\ PreloaderInit /\ HostInit
        /\ budget = [jobs |-> MaxJobs, faults |-> MaxFaults, sessions |-> MaxSessions]
        /\ base = flash.mem /\ fitting = TRUE

Spend(what) == budget[what] > 0 /\ budget' = [budget EXCEPT ![what] = @ - 1]
HostAlone == UNCHANGED <<devVars, budget, base, fitting>>
DeviceAlone == UNCHANGED <<hostVars, budget, base, fitting>>

\* What the host means a command to do: a block it erases is blank, and a page
\* it writes holds exactly what was sent if it was blank, or that burnt over
\* what was there.
Intended(mem, c) ==
  LET pages(old) == [mem EXCEPT ![c.blk] =
        [s \in Slots |-> IF s \in DOMAIN c.put THEN BurnPage(old[s], c.put[s]) ELSE old[s]]]
  IN CASE c.op = "BLK_ERASE"   -> [mem EXCEPT ![c.blk] = BlankBlock]
       [] c.op = "CHIP_ERASE"  -> [b \in Blocks |-> BlankBlock]
       [] c.op = "BLK_PROGRAM" -> IF \A s \in DOMAIN c.put : mem[c.blk][s] = c.put[s]
                                  THEN mem ELSE pages(BlankBlock)
       [] c.op = "SECT_WRITE"  -> pages(IF c.erase THEN BlankBlock ELSE mem[c.blk])
       [] c.op = "MARK_SECT"   -> [mem EXCEPT ![c.blk] =
                                     [s \in Slots |-> IF s \in DOMAIN c.put
                                        THEN [mem[c.blk][s] EXCEPT !.mark = c.put[s].mark]
                                        ELSE mem[c.blk][s]]]
       [] OTHER -> mem

\* mem after the commands cmds, each doing what the host means it to.
Replay(mem, cmds) ==
  LET after[n \in 0 .. Len(cmds)] ==
        IF n = 0 THEN mem ELSE Intended(after[n - 1], cmds[n])
  IN after[Len(cmds)]

\* mem after the first n stages of job j.
AfterStages(j, mem, n) ==
  LET after[i \in 0 .. Len(j)] ==
        IF i = 0 THEN mem ELSE Replay(after[i - 1], j[i].cmds)
  IN after[n]

\* A .csc is made of the marks on the phone, read by the stage before it.  With
\* no control sector among them there is nothing to read a file system from.
\* patch_start marks every one it has, except in a block it erases before.
FromMarks(j, mem) ==
  \A i \in DOMAIN j : j[i].name = "csc" =>
    LET was == AfterStages(j, mem, i - 1)
        cmds == j[i].cmds
        found == {p \in TfsBlocks \X Slots : was[p[1]][p[2]].mark = 240}
        marks(k, p) == cmds[k].op = "MARK_SECT" /\ cmds[k].blk = p[1] /\ p[2] \in DOMAIN cmds[k].put
        clears(k, p) == cmds[k].erase /\ cmds[k].blk = p[1]
    IN /\ found # {}
       /\ \A p \in found : \E k \in DOMAIN cmds : marks(k, p) \/ clears(k, p)
       /\ \A k \in DOMAIN cmds, p \in Blocks \X Slots : marks(k, p) =>
            /\ p \in found
            /\ Replay(was, SubSeq(cmds, 1, k - 1))[p[1]][p[2]].mark # 255

\* What a .csc writes without an erase goes to pages that are blank by then, or
\* hold it already.  create_file takes the free sectors the control lists and
\* looks at neither the page nor its mark: on a phone where a .csc was cut
\* short, or that had a program or an erase since, this need not be so.
FitsIn(mem, c) ==
  c.op = "SECT_WRITE" /\ ~c.erase =>
    \A s \in DOMAIN c.put : BurnPage(mem[c.blk][s], c.put[s]) = c.put[s]
Fits(j, mem) ==
  \A i \in DOMAIN j : j[i].name = "csc" =>
    \A k \in DOMAIN j[i].cmds :
      FitsIn(Replay(AfterStages(j, mem, i - 1), SubSeq(j[i].cmds, 1, k - 1)), j[i].cmds[k])

Start == /\ Spend("jobs")
         /\ \E j \in Jobs : /\ StartJob(j) /\ FromMarks(j, Settled.mem)
                           /\ fitting' = (fitting /\ Fits(j, Settled.mem))
         /\ base' = Settled.mem
         /\ UNCHANGED devVars

\* One byte is hit on the way to the device: an opcode becomes one the device
\* does not know, or a payload fails its checksum.
NoiseToDevice ==
  /\ \E i \in DOMAIN h2d :
       /\ h2d[i].ok
       /\ \/ "opcode" \in Faults /\ h2d[i].kind = "opcode"
          \/ "payload" \in Faults /\ h2d[i].kind = "operands" /\ h2d[i].cmd.op \in Checked
       /\ h2d' = [h2d EXCEPT ![i].ok = FALSE]
  /\ Spend("faults")
  /\ UNCHANGED <<d2h, link, devVars, hostVars, base, fitting>>

NoiseToHost ==
  /\ "data" \in Faults
  /\ \E i \in DOMAIN d2h : d2h[i] = "DATA" /\ d2h' = [d2h EXCEPT ![i] = "BADDATA"]
  /\ Spend("faults")
  /\ UNCHANGED <<h2d, link, devVars, hostVars, base, fitting>>

\* The adapter is unplugged: what is on the line is lost.
Hangup == /\ "hangup" \in Faults /\ link = "up"
          /\ h2d' = <<>> /\ d2h' = <<>> /\ link' = "down"
          /\ Spend("faults")
          /\ UNCHANGED <<devVars, hostVars, base, fitting>>

\* The phone loses power, between two flash operations.
PowerCut == /\ "power" \in Faults /\ dst # "gone"
            /\ dst' = "gone" /\ dcmd' = NoCmd
            /\ Spend("faults")
            /\ UNCHANGED <<wire, flash, hostVars, base, fitting>>

\* The program is started again and boots the phone into a fresh preloader.
Restart == /\ hst = "closed"
           /\ Spend("sessions")
           /\ hst' = "menu" /\ job' = NoJob /\ si' = 1 /\ ci' = 1
           /\ told' = {} /\ failed' = {} /\ skipped' = {}
           /\ h2d' = <<>> /\ d2h' = <<>> /\ link' = "up"
           /\ dst' = "opcode" /\ dcmd' = NoCmd /\ PowerOn
           /\ UNCHANGED <<base, fitting>>

Host == HostStep /\ HostAlone
Device == DeviceStep /\ DeviceAlone
User == (StopLocally \/ Quit) /\ HostAlone

Next == \/ Host \/ Device \/ User \/ Start
        \/ NoiseToDevice \/ NoiseToHost \/ Hangup \/ PowerCut \/ Restart

Spec == Init /\ [][Next]_vars

\* Both programs run whenever they can.  Nothing makes the user start or stop
\* anything, and no fault has to happen.
FairSpec == Spec /\ WF_vars(Host) /\ WF_vars(Device)

-----------------------------------------------------------------------------
(* What the theorems about pages and controls ask of a phone and of the    *)
(* jobs, besides that they are Planned.                                    *)

\* A page of block b as it may be, and a flash of such pages; whole says that
\* none may have the bits of two contents.
PageOK(b, page, whole) ==
  /\ whole => page.data # Mixed
  /\ b \in TfsBlocks /\ page.mark # 255 => page.data # Erased
MemOK(mem, whole) == \A b \in Blocks, s \in Slots : PageOK(b, mem[b][s], whole)

\* What a sector write holds is data.  The last page of an image that goes to
\* the area is not blank below its mark; the marks are those of a .csc.
Sectors(j) ==
  \A i \in DOMAIN j : \A k \in DOMAIN j[i].cmds :
    LET c == j[i].cmds[k]
    IN /\ c.op = "SECT_WRITE" => \A s \in DOMAIN c.put : c.put[s].data \in Data
       /\ c.op = "BLK_PROGRAM" => \A s \in DOMAIN c.put : PageOK(c.blk, c.put[s], TRUE)
       /\ c.op = "MARK_SECT" => j[i].name = "csc"

\* The commands that burn pages without an erase of their own.
Overwriting == {"SECT_WRITE", "MARK_SECT"}

\* Sectors are written and marked in stages that come behind none whose
\* failure the host ignores.
Unshielded(j) ==
  \A i \in DOMAIN j : \A k \in DOMAIN j[i].cmds :
    j[i].cmds[k].op \in Overwriting => \A n \in 1 .. i - 1 : j[n].name \notin Ignored

\* The program image goes to the flash before the .csc.
ImageFirst(j) ==
  \A i \in DOMAIN j : \A k \in DOMAIN j[i].cmds :
    j[i].cmds[k].op = "BLK_PROGRAM" => \A n \in 1 .. i : j[n].name # "csc"

-----------------------------------------------------------------------------
(* Every variable has its type.                                            *)
TypeOK ==
  /\ h2d \in Seq(Token) /\ d2h \in Seq(Replies) /\ link \in {"up", "down"}
  /\ flash \in Flash /\ dst \in DevStates /\ dcmd \in Cmd \cup {NoCmd}
  /\ hst \in HostStates /\ job \in Jobs \cup {NoJob}
  /\ si \in Nat \ {0} /\ ci \in Nat \ {0}
  /\ (hst \notin {"menu", "closed"} => job # NoJob)
  /\ told \subseteq StageNames /\ failed \subseteq StageNames
  /\ skipped \subseteq StageNames
  /\ budget \in [jobs : 0 .. MaxJobs, faults : 0 .. MaxFaults,
                 sessions : 0 .. MaxSessions]
  /\ base \in MemVal /\ fitting \in BOOLEAN

\* The two programs agree on where commands begin: the bytes the preloader
\* reads as an opcode are one, and the bytes it reads as operands are those of
\* the command it is serving.  Nothing in the protocol would tell otherwise:
\* an operand byte read as an opcode may well be CHIP_ERASE.
Framing ==
  h2d # <<>> =>
    /\ dst = "opcode" => Head(h2d).kind = "opcode"
    /\ dst = "operands" => Head(h2d).kind = "operands" /\ Head(h2d).cmd = dcmd

\* While the preloader works the flash it reads nothing, and its UART holds a
\* few bytes only: the host must not get further than the next opcode.
BusyBacklog ==
  dst \in {"wipe", "burn", "stamp"} =>
    Len(h2d) <= 1 /\ \A i \in DOMAIN h2d : h2d[i].kind = "opcode"

-----------------------------------------------------------------------------
(* Where the two programs can be with respect to each other: the inductive *)
(* form of the two properties above.                                       *)

Busy == dst \in {"wipe", "burn", "stamp"}
OpcodeAt(i, c) == h2d[i].kind = "opcode" /\ h2d[i].cmd = c
OperandsOf(c) == h2d[1].kind = "operands" /\ h2d[1].cmd = c

\* The line, whoever is at its ends.
LineOK ==
  /\ dst = "operands" /\ Len(h2d) > 0 =>
       OperandsOf(dcmd) /\ Len(h2d) <= 2 /\ (Len(h2d) = 2 => h2d[2].kind = "opcode")
  /\ (dst = "opcode" \/ Busy) /\ Len(h2d) > 0 =>
       h2d[1].kind = "opcode" /\ Len(h2d) = 1

\* The commands that end without a word to the host.
Unanswered == {"BLK_LOCK", "BLK_UNLOCK", "MARK_SECT"}
Quiet == Unanswered \cup {"SECT_WRITE"}

\* The device has nothing more to say about the commands it has had.
Settling == dst = "opcode" \/ (Busy /\ dcmd.op \in Quiet)

\* The host is past its last command; the device may still be at it.
AtRest == /\ d2h = <<>>
          /\ \/ Len(h2d) = 0 /\ Settling
             \/ Len(h2d) = 1 /\ dst = "operands" /\ OperandsOf(dcmd) /\ dcmd.op \in Unanswered

\* The opcode of c has been sent.  The device is still at the command before,
\* or has refused c, or is at c, or has done it.
StatusOf(c) ==
  \/ /\ d2h = <<>> /\ Len(h2d) = 1 /\ OpcodeAt(1, c)
     /\ Settling
  \/ /\ d2h = <<>> /\ Len(h2d) = 2 /\ OpcodeAt(2, c)
     /\ dst = "operands" /\ OperandsOf(dcmd) /\ dcmd.op \in Unanswered
  \/ Len(h2d) = 0 /\ d2h = <<"INVALID">> /\ dst = "opcode"
  \/ /\ Len(h2d) = 0 /\ d2h = <<"VALID">> /\ dcmd = c
     /\ dst = IF c.op \in NoOperand THEN "wipe" ELSE "operands"
  \/ /\ Len(h2d) = 0 /\ dst = "opcode" /\ c.op \in NoOperand
     /\ IF c.op \in Reading THEN d2h \in {<<"VALID", "DATA">>, <<"VALID", "BADDATA">>}
                             ELSE d2h = <<"VALID", "EOT">>

\* The device has its operands still to read, or is at work, or has ended.
AtWork(c) == \/ Len(h2d) = 1 /\ OperandsOf(c) /\ d2h = <<>> /\ dst = "operands" /\ dcmd = c
             \/ Len(h2d) = 0 /\ d2h = <<>> /\ Busy /\ dcmd = c

AckOf(c) ==
  /\ c.op \in Checked
  /\ \/ Len(h2d) = 1 /\ OperandsOf(c) /\ d2h = <<>> /\ dst = "operands" /\ dcmd = c
     \/ Len(h2d) = 0 /\ d2h = <<"NAK">> /\ dst = "opcode"
     \/ Len(h2d) = 0 /\ d2h = <<"ACK">> /\ Busy /\ dcmd = c
     \/ /\ Len(h2d) = 0 /\ dst = "opcode"
        /\ d2h = IF c.op \in Completed THEN <<"ACK", "EOT">> ELSE <<"ACK">>
EotOf(c) == /\ c.op \in Completed
            /\ \/ AtWork(c) /\ (dst = "operands" => c.op = "BLK_ERASE")
               \/ Len(h2d) = 0 /\ d2h = <<"EOT">> /\ dst = "opcode"
DataOfRead(c) == /\ c.op \in Reading
             /\ \/ AtWork(c) /\ dst \in {"operands", "wipe"}
                \/ Len(h2d) = 0 /\ d2h \in {<<"DATA">>, <<"BADDATA">>} /\ dst = "opcode"

Connected == link = "up" /\ hst # "closed" /\ dst # "gone"

Synced ==
  /\ hst = "status" => StatusOf(Cur)
  /\ hst = "operands" => /\ Len(h2d) = 0 /\ d2h = <<>> /\ dst = "operands"
                         /\ dcmd = Cur /\ Cur.op \notin NoOperand
  /\ hst = "ack" => AckOf(Cur)
  /\ hst = "eot" => EotOf(Cur)
  /\ hst = "data" => DataOfRead(Cur)
  /\ hst \in {"menu", "issue", "back"} => AtRest

\* Out of step only once one of the two is gone or the line is down.
InStep ==
  /\ hst \in {"status", "operands", "ack", "eot", "data"} => InStage
  /\ dst = "operands" \/ Busy => dcmd \in Cmd
  /\ link = "down" => h2d = <<>> /\ d2h = <<>>
  /\ LineOK
  /\ Connected => Synced

-----------------------------------------------------------------------------
\* The flash as it should be: every stage behind the host, and the commands of
\* the current one that it is past, done in order.
Expected ==
  IF si <= Len(job)
  THEN Replay(AfterStages(job, base, si - 1), SubSeq(job[si].cmds, 1, ci - 1))
  ELSE AfterStages(job, base, Len(job))

\* The host's picture is right: whenever it is between two commands and has
\* given nothing up, the flash holds, or will once the device is done, what
\* the commands it is past make of what the job found: where the job fits that,
\* exactly what was sent.  A command the host
\* believes done is never lost, repeated, refused, half done or ignored by a
\* locked block.
Delivered ==
  /\ hst \in {"issue", "back", "menu"} /\ job # NoJob /\ link = "up"
  /\ dst # "gone" /\ failed = {} /\ skipped = {}
  => Settled.mem = Expected

\* As long as every job fitted the flash it found, no page ends up with the bits
\* of two contents, whatever was cut short.  Left out is what the code lets
\* happen to a .csc that does not fit, above all one behind another that was cut
\* short: the old control still lists the sectors that one wrote as free, and
\* create_file has them burnt over.
NoMixedPage == fitting => \A b \in Blocks, s \in Slots : flash.mem[b][s].data # Mixed

\* When the host is back in its menu after a TFS or CSC flash that it did not
\* give up, the whole area is locked, though every sector write unlocks its
\* block and the last lock has no reply.
LockedAfterTfs ==
  /\ hst \in {"back", "menu"} /\ link = "up" /\ dst # "gone"
  /\ told \cap {"tfs", "csc"} # {} /\ failed \cap {"tfs", "csc"} = {}
  => \A b \in TfsBlocks : Settled.prot[b]

\* However a write is cut short, and whether or not the job fitted, a sector
\* whose mark says it is in use is not blank: the mark is in the last of the
\* eight buffers.
MarkedIsWritten ==
  \A b \in TfsBlocks, s \in Slots :
    flash.mem[b][s].mark # 255 => flash.mem[b][s].data # Erased

\* When a sector write asks for its block to be erased first ("erase block"),
\* the block is blank when its first buffer is burnt.
ErasedWhenAsked ==
  dst = "burn" /\ dcmd.op = "SECT_WRITE" /\ dcmd.erase
  => flash.mem[dcmd.blk] = BlankBlock

\* A CSC flash invalidates all control sectors: once it is reported as done,
\* the sectors marked as control are the ones it wrote.
ControlReplaced ==
  /\ hst \in {"back", "menu"} /\ link = "up" /\ dst # "gone" /\ "csc" \in told
  => \A b \in TfsBlocks, s \in Slots :
       Settled.mem[b][s].mark = 240 =>
         \E i \in DOMAIN job : \E k \in DOMAIN job[i].cmds :
           LET c == job[i].cmds[k]
           IN c.op = "SECT_WRITE" /\ c.blk = b /\ s \in DOMAIN c.put /\ c.put[s].mark = 240

\* "Flash chip will be fully erased": once "Chip was erased successfully." has
\* been said, it is.
ChipErased ==
  /\ "chip" \in told /\ link = "up" /\ dst # "gone"
  => \A b \in Blocks : Settled.mem[b] = BlankBlock

\* The session is a flash service: a command is submitted when its operands
\* are on the line, and in progress while the preloader works on it.
Service == INSTANCE FlashService WITH
             flash <- Underway,
             pend  <- Pending,
             open  <- IF dst \in {"wipe", "burn", "stamp"} THEN {dcmd} ELSE {},
             MayCrash <- "power" \in Faults \/ MaxSessions > 0
Serves == Service!Spec

\* A job comes to an end: the two programs never wait for each other.
JobEnds == hst \notin {"menu", "closed"} ~> hst \in {"menu", "closed"}
=============================================================================
