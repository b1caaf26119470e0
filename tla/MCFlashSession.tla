--------------------------- MODULE MCFlashSession ----------------------------
(***************************************************************************)
(* Small instances of FlashSession for TLC: three blocks, of which 1 and 2 *)
(* are the TFS area, two pages each.                                       *)
(***************************************************************************)
EXTENDS FlashSession

CONSTANTS d1, d2

Used(d) == [data |-> d, mark |-> 0]
Ctrl(d) == [data |-> d, mark |-> 240]

\* An image of a block and a half, and one of a single block.
Image == <<[s \in Slots |-> Used(d1)], [s \in {0} |-> Used(d2)]>>

\* A .tfs: data, then a control sector, in an erased area.
TfsActs == <<WriteSect(1, 0, Used(d1), FALSE), WriteSect(1, 1, Ctrl(d2), FALSE)>>
\* A .csc: data, the old control sector marked, the new one written; over what
\* TfsActs left, and over the file system of OldPhone.
NextActs == <<WriteSect(2, 0, Used(d2), FALSE), MarkSect(1, 1, 0),
              WriteSect(2, 1, Ctrl(d1), FALSE)>>
CscActs == <<WriteSect(2, 1, Used(d2), FALSE), MarkSect(2, 0, 0),
             WriteSect(1, 1, Ctrl(d1), FALSE)>>
\* Another .csc for the file system of OldPhone: the same sectors, other data.
OtherActs == <<WriteSect(2, 1, Used(d1), FALSE), MarkSect(2, 0, 0),
               WriteSect(1, 1, Ctrl(d2), FALSE)>>
\* flash_clean's block: erased with the first write, filled with the second.
BlockActs == <<WriteSect(1, 0, Used(d2), TRUE), WriteSect(1, 1, Used(d1), FALSE),
               MarkSect(2, 0, 0), WriteSect(2, 1, Ctrl(d1), FALSE)>>
\* The last free sector of a block written, then the block cleaned, by the
\* same .csc: flash_clean takes any block with a sector marked 0.
RewriteActs == <<WriteSect(1, 1, Used(d1), FALSE), WriteSect(1, 0, Used(d2), TRUE),
                 MarkSect(2, 0, 0), WriteSect(2, 1, Ctrl(d1), FALSE)>>

\* A blank phone, and one with a program and a file system.
NewPhone == [b \in Blocks |-> BlankBlock]
OldPhone == [b \in Blocks |->
               [s \in Slots |-> CASE b = 0 -> Used(d2)
                                  [] b = 1 /\ s = 0 -> Used(d1)
                                  [] b = 2 /\ s = 0 -> Ctrl(d1)
                                  [] OTHER -> Blank]]
Phones == {NewPhone, OldPhone}

BinJob == <<BinStage(0, Image), CompleteStage>>
TfsJob == <<TfsStage(TfsActs), CompleteStage>>
\* All three flags set, and the reboot after it.
FullJob == <<BinStage(0, Image), TfsStage(TfsActs), MarksStage(<<1>>), CscStage(NextActs),
             JumpStage>>
CscJob == <<MarksStage(<<2>>), CscStage(CscActs), CompleteStage>>
OtherJob == <<MarksStage(<<2>>), CscStage(OtherActs), CompleteStage>>
\* A .csc of its own, over what TfsJob leaves.
NextJob == <<MarksStage(<<1>>), CscStage(NextActs), CompleteStage>>
CleanJob == <<MarksStage(<<2>>), CscStage(BlockActs), CompleteStage>>
PlainJobs == {CleanJob, DumpJob(0, 1), OtpJob, IdJob, EraseJob(0, 1), EraseChipJob, RebootJob}

MenuJobs == {BinJob, TfsJob, FullJob} \cup PlainJobs
NoisyJobs == {FullJob, TfsJob, EraseChipJob, EraseJob(0, 0), DumpJob(0, 1), OtpJob, IdJob}
PowerJobs == {BinJob, TfsJob, CscJob, OtherJob, NextJob}
OldPhones == {OldPhone}
RewriteJobs == {<<MarksStage(<<2>>), CscStage(RewriteActs), CompleteStage>>}

\* The jobs are what the proofs take them for: the acts of the patch those that
\* make their stages Planned, except RewriteActs.  FullJob alone goes on to
\* write sectors behind a stage whose failure it ignores.
ASSUME JobsAreAsProved ==
  /\ \A mem \in Phones : MemOK(mem, TRUE)
  /\ FreshActs(TfsActs) /\ \A acts \in {NextActs, CscActs, OtherActs, BlockActs} : CleanActs(acts)
  /\ \A j \in MenuJobs \cup NoisyJobs \cup PowerJobs : Sectors(j) /\ ImageFirst(j)
  /\ \A j \in (MenuJobs \cup PowerJobs) \ {FullJob} : Unshielded(j)
=============================================================================
