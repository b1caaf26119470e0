------------------------------ MODULE FlashJobs ------------------------------
(***************************************************************************)
(* What each entry of the host's main menu sends (src/main.c): a job is a  *)
(* sequence of stages, a stage a sequence of commands.                     *)
(***************************************************************************)
EXTENDS Commands, Integers

CONSTANTS TfsFirst, TfsLast   \* the blocks of the TFS area; 128 and 247

ASSUME TfsAssumption == TfsFirst \in Blocks /\ TfsLast \in Blocks /\ TfsFirst <= TfsLast

TfsBlocks == TfsFirst .. TfsLast

StageNames == {"bin", "tfs", "marks", "csc", "reboot", "complete", "dump", "otp",
               "id", "erase", "unprotect", "chip", "protect"}
Stage == [name : StageNames, cmds : Seq(Cmd)]

NoPut == [s \in {} |-> Blank]
Plain(op, b) == [op |-> op, blk |-> b, put |-> NoPut, erase |-> FALSE]

\* op for each of the blocks lo to hi
Sweep(op, lo, hi) == [i \in 1 .. hi - lo + 1 |-> Plain(op, lo + i - 1)]

\* Mutant: the range stops before its last block.
ProtectRangeShort(protect, lo, hi) ==
  Sweep(IF protect THEN "BLK_LOCK" ELSE "BLK_UNLOCK", lo, hi - 1)

\* flash_protect_range
ProtectRange(protect, lo, hi) ==
  Sweep(IF protect THEN "BLK_LOCK" ELSE "BLK_UNLOCK", lo, hi)

\* Mutant: no block is unlocked.
UnlockingNot(cs) == cs

\* UNLOCK, then c, for each command c of cs
Unlocking(cs) == [i \in 1 .. 2 * Len(cs) |->
                    LET c == cs[(i + 1) \div 2]
                    IN IF i % 2 = 1 THEN Plain("BLK_UNLOCK", c.blk) ELSE c]

(* The acts tfs4_patch hands to flash_tfs.                                  *)
WriteSect(b, s, v, erase) ==
  [op |-> "SECT_WRITE", blk |-> b, put |-> [x \in {s} |-> v], erase |-> erase]
MarkSect(b, s, m) ==
  [op |-> "MARK_SECT", blk |-> b, erase |-> FALSE,
   put |-> [x \in {s} |-> [data |-> Erased, mark |-> m]]]

(* The stages of FLASH_START.                                               *)

\* images: what goes to the blocks from first on; the last may be partial.
BinStage(first, images) ==
  [name |-> "bin",
   cmds |-> Unlocking([i \in 1 .. Len(images) |->
                         [op |-> "BLK_PROGRAM", blk |-> first + i - 1,
                          put |-> images[i], erase |-> FALSE]])]

\* Mutant: a .tfs is written over what is there.
TfsStageNoErase(acts) ==
  [name |-> "tfs",
   cmds |-> ProtectRange(FALSE, TfsFirst, TfsLast)
            \o acts \o ProtectRange(TRUE, TfsFirst, TfsLast)]

\* flash_tfs: a .tfs is written to an erased area, a .csc into the one there is.
TfsStage(acts) ==
  [name |-> "tfs",
   cmds |-> ProtectRange(FALSE, TfsFirst, TfsLast)
            \o Sweep("BLK_ERASE", TfsFirst, TfsLast)
            \o acts \o ProtectRange(TRUE, TfsFirst, TfsLast)]
CscStage(acts) ==
  [name |-> "csc",
   cmds |-> ProtectRange(FALSE, TfsFirst, TfsLast)
            \o acts \o ProtectRange(TRUE, TfsFirst, TfsLast)]

\* The marks, then each control sector they show.
MarksStage(ctrl) ==
  [name |-> "marks",
   cmds |-> <<Plain("READ_SECT_MARKS", TfsFirst)>>
            \o [i \in 1 .. Len(ctrl) |-> Plain("SECT_READ", ctrl[i])]]

JumpStage == [name |-> "reboot", cmds |-> <<Plain("JUMP", 0)>>]
\* "Flashing complete!"
CompleteStage == [name |-> "complete", cmds |-> <<>>]

(* The other entries.                                                       *)
DumpJob(lo, hi) == <<[name |-> "dump", cmds |-> Sweep("BLK_READ", lo, hi)]>>
OtpJob == <<[name |-> "otp", cmds |-> <<Plain("OTP_READ", 0)>>]>>
IdJob == <<[name |-> "id", cmds |-> <<Plain("GET_INFO", 0)>>]>>
EraseJob(lo, hi) ==
  <<[name |-> "erase", cmds |-> Unlocking(Sweep("BLK_ERASE", lo, hi))]>>
EraseChipJob ==
  <<[name |-> "unprotect", cmds |-> ProtectRange(FALSE, 0, LastBlock)],
    [name |-> "chip",      cmds |-> <<Plain("CHIP_ERASE", 0)>>],
    [name |-> "protect",   cmds |-> ProtectRange(TRUE, 0, LastBlock)]>>
RebootJob == <<JumpStage>>

(* What the stages above have in common, whatever the acts: the commands     *)
(* that need a block unlocked, or a page blank, come after the ones that     *)
(* make it so.                                                               *)

Locking == {"BLK_LOCK", "SECT_WRITE", "MARK_SECT"}

\* The commands before the k-th leave block b unlocked, or the page blank.
UnlockedBy(cmds, k, b) ==
  \E n \in 1 .. k - 1 :
    /\ cmds[n].op = "BLK_UNLOCK" /\ cmds[n].blk = b
    /\ \A m \in n + 1 .. k - 1 : ~(cmds[m].op \in Locking /\ cmds[m].blk = b)
BlankBy(cmds, k, b, s) ==
  \E n \in 1 .. k - 1 :
    /\ cmds[n].op = "BLK_ERASE" /\ cmds[n].blk = b
    /\ \A m \in n + 1 .. k - 1 : ~(cmds[m].blk = b /\ s \in DOMAIN cmds[m].put)

\* The k-th command of stage i comes after what it needs.
Prepared(j, i, k) ==
  LET cmds == j[i].cmds
      c == cmds[k]
  IN /\ c.op \in {"BLK_ERASE", "BLK_PROGRAM"} \/ (c.op = "SECT_WRITE" /\ c.erase)
       => UnlockedBy(cmds, k, c.blk)
     /\ c.op = "CHIP_ERASE" =>
          /\ k = 1 /\ i > 1
          /\ \A b \in Blocks : UnlockedBy(j[i - 1].cmds, Len(j[i - 1].cmds) + 1, b)
     /\ c.op = "SECT_WRITE" /\ ~c.erase /\ j[i].name # "csc"
          => \A s \in DOMAIN c.put : BlankBy(cmds, k, c.blk, s)
     /\ c.op = "MARK_SECT" =>
          \A s \in DOMAIN c.put : c.put[s] = [data |-> Erased, mark |-> 0]
Planned(j) == \A i \in DOMAIN j : \A k \in DOMAIN j[i].cmds : Prepared(j, i, k)

\* What tfs4_patch hands out for a .tfs: no sector is written twice.
FreshActs(acts) ==
  /\ acts \in Seq(Cmd)
  /\ \A n \in 1 .. Len(acts) :
       /\ acts[n].op \in {"SECT_WRITE", "MARK_SECT"} /\ acts[n].blk \in TfsBlocks
       /\ acts[n].op = "SECT_WRITE" =>
            /\ ~acts[n].erase
            /\ \A m \in 1 .. n - 1 :
                 acts[m].blk = acts[n].blk => DOMAIN acts[m].put \cap DOMAIN acts[n].put = {}
       /\ acts[n].op = "MARK_SECT" =>
            \A s \in DOMAIN acts[n].put : acts[n].put[s] = [data |-> Erased, mark |-> 0]

\* And for a .csc that erases a block only before it has written anything to it.
CleanActs(acts) ==
  /\ acts \in Seq(Cmd)
  /\ \A n \in 1 .. Len(acts) :
       /\ acts[n].op \in {"SECT_WRITE", "MARK_SECT"} /\ acts[n].blk \in TfsBlocks
       /\ acts[n].op = "SECT_WRITE" /\ acts[n].erase => \A m \in 1 .. n - 1 : acts[m].blk # acts[n].blk
       /\ acts[n].op = "MARK_SECT" =>
            \A s \in DOMAIN acts[n].put : acts[n].put[s] = [data |-> Erased, mark |-> 0]
=============================================================================
