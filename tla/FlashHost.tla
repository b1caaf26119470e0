----------------------------- MODULE FlashHost -------------------------------
(***************************************************************************)
(* The host's side of a session (src/main.c).  It runs a job by issuing    *)
(* the commands of its stages one at a time, each followed by the replies  *)
(* that command has, and reports a stage it got to the end of.             *)
(***************************************************************************)
EXTENDS Wire, FlashJobs

CONSTANTS Jobs,                \* the jobs the user may start
          NoJob

ASSUME JobsAssumption == Jobs \subseteq Seq(Stage) /\ NoJob \notin Jobs

VARIABLES hst,      \* what the host is waiting for, or doing
          job,      \* the job it runs, or ran last
          si, ci,   \* the stage, and the command in it, that it has come to
          told,     \* the stages of the job it has reported as done
          failed,   \* the stages of the job it gave up
          skipped   \* the stages of the job it left a command out of

hostVars == <<hst, job, si, ci, told, failed, skipped>>

HostStates == {"menu", "issue", "status", "operands", "ack", "eot", "data",
               "back", "closed"}

HostInit == /\ hst = "menu" /\ job = NoJob /\ si = 1 /\ ci = 1
            /\ told = {} /\ failed = {} /\ skipped = {}

InStage == si <= Len(job) /\ ci <= Len(job[si].cmds)
Cur == job[si].cmds[ci]
Name == job[si].name

\* Commands the host sends no operand for.
Bare == {"GET_INFO", "OTP_READ", "CHIP_ERASE"}

\* Mutants: a sector write's ACK is not waited for; a lock's EOT is.
AwaitAfterNoAck(op) ==
  CASE op = "BLK_PROGRAM" -> "ack"
    [] op \in {"BLK_ERASE", "CHIP_ERASE"} -> "eot"
    [] op \in {"GET_INFO", "BLK_READ", "OTP_READ", "READ_SECT_MARKS", "SECT_READ"} -> "data"
    [] op = "JUMP" -> "closed"
    [] OTHER -> "issue"
AwaitAfterLock(op) ==
  CASE op \in {"BLK_PROGRAM", "SECT_WRITE"} -> "ack"
    [] op \in {"BLK_ERASE", "CHIP_ERASE", "BLK_LOCK"} -> "eot"
    [] op \in {"GET_INFO", "BLK_READ", "OTP_READ", "READ_SECT_MARKS", "SECT_READ"} -> "data"
    [] op = "JUMP" -> "closed"
    [] OTHER -> "issue"

\* What the host waits for once the command's operands are sent, if any, and
\* once a payload is acknowledged.
AwaitAfter(op) ==
  CASE op \in {"BLK_PROGRAM", "SECT_WRITE"} -> "ack"
    [] op \in {"BLK_ERASE", "CHIP_ERASE"} -> "eot"
    [] op \in {"GET_INFO", "BLK_READ", "OTP_READ", "READ_SECT_MARKS", "SECT_READ"} -> "data"
    [] op = "JUMP" -> "closed"
    [] OTHER -> "issue"
\* Mutant: the host goes on as soon as the image is acknowledged.
AwaitAfterAckNoEot(op) == "issue"
AwaitAfterAck(op) == IF op = "BLK_PROGRAM" THEN "eot" ELSE "issue"

\* The host comes to state st; "issue" means it is past the command.
Proceed(st) == /\ hst' = st
               /\ ci' = IF st = "issue" THEN ci + 1 ELSE ci
               /\ UNCHANGED <<job, si, told, failed, skipped>>

EndJob(st) == hst' = st /\ UNCHANGED <<job, si, ci, told, skipped>>
NextStage == hst' = "issue" /\ si' = si + 1 /\ ci' = 1 /\ UNCHANGED <<job, skipped>>

\* Stages whose failure main ignores: it goes on with the next one.
Ignored == {"tfs", "csc", "unprotect", "protect"}

\* The device refuses the command, or its reply is not the one awaited: a mark
\* is left out, the stages above are given up, the others end the job.
Skip == /\ hst' = "issue" /\ ci' = ci + 1 /\ skipped' = skipped \cup {Name}
        /\ UNCHANGED <<job, si, told, failed>>
GiveUp == /\ failed' = failed \cup {Name}
          /\ IF Name \in Ignored THEN NextStage /\ UNCHANGED told
             ELSE EndJob(IF Name = "reboot" THEN "closed" ELSE "back")
Fail == IF Cur.op = "MARK_SECT" THEN Skip ELSE GiveUp

-----------------------------------------------------------------------------
(* The user.                                                               *)

StartJob(j) ==
  /\ hst = "menu"
  /\ hst' = "issue" /\ job' = j /\ si' = 1 /\ ci' = 1
  /\ told' = {} /\ failed' = {} /\ skipped' = {}
  /\ UNCHANGED wire

\* `q' before a block of a range, a file that cannot be read, a .tfs that does
\* not format, a control chain tfs4_ctrl_fix_sect_order cannot order.
MayStop ==
  /\ si <= Len(job)
  /\ \/ ci = 1 /\ Name \in {"bin", "dump", "erase", "otp", "tfs", "csc"}
     \/ InStage /\ Name \in {"bin", "erase"} /\ Cur.op = "BLK_UNLOCK"
     \/ InStage /\ Name = "dump"
     \/ Name = "marks" /\ ci > Len(job[si].cmds)
StopLocally == /\ hst = "issue" /\ MayStop
               /\ GiveUp
               /\ UNCHANGED wire

\* Ctrl-C, at any point, or the menu's own exit.
Quit == /\ hst # "closed"
        /\ EndJob("closed") /\ UNCHANGED failed
        /\ UNCHANGED wire

-----------------------------------------------------------------------------
(* The job.                                                                *)

SendOpcode == /\ hst = "issue" /\ InStage
              /\ HostSends("opcode", Cur)
              /\ Proceed("status")
              /\ UNCHANGED <<d2h, link>>

ReadStatus ==
  /\ hst = "status"
  /\ \E t \in Replies :
       /\ HostReads(t)
       /\ IF t = "VALID"
          THEN Proceed(IF Cur.op \in Bare THEN AwaitAfter(Cur.op) ELSE "operands")
          ELSE Fail
  /\ UNCHANGED <<h2d, link>>

SendOperands ==
  /\ hst = "operands" /\ link = "up"
  /\ HostSends("operands", Cur)
  /\ Proceed(AwaitAfter(Cur.op))
  /\ UNCHANGED <<d2h, link>>

\* write() fails once the line is hung up.
WriteFails ==
  /\ hst = "operands" /\ link = "down"
  /\ IF Cur.op = "SECT_READ" THEN EndJob("closed") /\ UNCHANGED failed ELSE Fail
  /\ UNCHANGED wire

\* Mutant: NAK counts as an answer.
ReadAckAny ==
  /\ hst = "ack"
  /\ \E t \in Replies : HostReads(t) /\ Proceed(AwaitAfterAck(Cur.op))
  /\ UNCHANGED <<h2d, link>>

ReadAck ==
  /\ hst = "ack"
  /\ \E t \in Replies :
       HostReads(t) /\ IF t = "ACK" THEN Proceed(AwaitAfterAck(Cur.op)) ELSE Fail
  /\ UNCHANGED <<h2d, link>>

ReadEot ==
  /\ hst = "eot"
  /\ \E t \in Replies : HostReads(t) /\ IF t = "EOT" THEN Proceed("issue") ELSE Fail
  /\ UNCHANGED <<h2d, link>>

\* Block and sector data with a wrong checksum end the job; the marks carry
\* none, and a wrong one on the OTP data is only printed.
ReadData ==
  /\ hst = "data"
  /\ \E t \in Replies :
       /\ HostReads(t)
       /\ IF t = "DATA" \/ Cur.op \notin {"BLK_READ", "SECT_READ"}
          THEN Proceed("issue") ELSE Fail
  /\ UNCHANGED <<h2d, link>>

\* "... successfully reflashed", "TFS has been flashed.", ...
StageDone == /\ hst = "issue" /\ si <= Len(job) /\ ci > Len(job[si].cmds)
             /\ told' = told \cup {Name}
             /\ NextStage /\ UNCHANGED failed
             /\ UNCHANGED wire

JobDone == /\ hst = "issue" /\ si > Len(job)
           /\ EndJob("back") /\ UNCHANGED failed
           /\ UNCHANGED wire

\* back: the menu loop drops the input it has not read (TCIFLUSH).
BackToMenu == /\ hst = "back"
              /\ EndJob("menu") /\ UNCHANGED failed
              /\ d2h' = <<>>
              /\ UNCHANGED <<h2d, link>>

HostStep == \/ SendOpcode \/ ReadStatus \/ SendOperands \/ WriteFails
            \/ ReadAck \/ ReadEot \/ ReadData \/ StageDone \/ JobDone \/ BackToMenu
=============================================================================
