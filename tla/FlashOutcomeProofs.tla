-------------------------- MODULE FlashOutcomeProofs -------------------------
(***************************************************************************)
(* What is true of the flash once the host is back in its menu: the TFS    *)
(* area is locked again, and an erased chip is blank.                      *)
(***************************************************************************)
EXTENDS FlashDeliveryProofs

-----------------------------------------------------------------------------
(* The locks of the TFS area.                                              *)

Relocking == {"tfs", "csc"}

\* A job that writes a file system locks the area behind it, and does not
\* open it again except to write another one.
Relocks(j) ==
  \A i \in DOMAIN j :
    /\ j[i].name \in Relocking =>
         \E acts \in Seq(Cmd) : j[i] \in {TfsStage(acts), CscStage(acts)}
    /\ j[i].name \in Relocking =>
         \A n \in DOMAIN j : n > i /\ j[n].name \notin Relocking =>
           \A k \in DOMAIN j[n].cmds : j[n].cmds[k].op # "BLK_UNLOCK"

\* The commands before the k-th leave block b locked.
LockedBy(cmds, k, b) ==
  \E n \in 1 .. k - 1 :
    /\ cmds[n].op = "BLK_LOCK" /\ cmds[n].blk = b
    /\ \A m \in n + 1 .. k - 1 : ~(cmds[m].op = "BLK_UNLOCK" /\ cmds[m].blk = b)

\* One command later: locked by it, or before it and not unlocked by it.
LEMMA LockedNext ==
  ASSUME NEW cmds, NEW k \in Nat \ {0}, NEW b, LockedBy(cmds, k + 1, b)
  PROVE  \/ cmds[k].op = "BLK_LOCK" /\ cmds[k].blk = b
         \/ LockedBy(cmds, k, b) /\ ~(cmds[k].op = "BLK_UNLOCK" /\ cmds[k].blk = b)
<1>1. PICK n \in 1 .. (k + 1) - 1 :
        /\ cmds[n].op = "BLK_LOCK" /\ cmds[n].blk = b
        /\ \A m \in n + 1 .. (k + 1) - 1 : ~(cmds[m].op = "BLK_UNLOCK" /\ cmds[m].blk = b)
  BY DEF LockedBy
<1>2. CASE n < k
  <2>1. n \in 1 .. k - 1 /\ k \in n + 1 .. (k + 1) - 1
        /\ \A m \in n + 1 .. k - 1 : m \in n + 1 .. (k + 1) - 1
    BY <1>2
  <2> QED BY <1>1, <2>1 DEF LockedBy
<1>3. CASE n = k
  BY <1>1, <1>3
<1> QED BY <1>2, <1>3

\* A stage that writes a file system ends with every block of the area locked.
LEMMA StageLocks ==
  ASSUME NEW acts \in Seq(Cmd), NEW st \in {TfsStage(acts), CscStage(acts)}, NEW b \in TfsBlocks
  PROVE  LockedBy(st.cmds, Len(st.cmds) + 1, b)
<1> DEFINE cmds == st.cmds
<1>1. PICK start \in Nat :
        /\ Area \in Nat /\ Len(cmds) = start + Area
        /\ \A n \in 1 .. Area : cmds[start + n].op = "BLK_LOCK" /\ cmds[start + n].blk = TfsFirst + n - 1
  <2>1. CASE st = TfsStage(acts)
    <3> DEFINE start == 2 * Area + Len(acts)
    <3>1. /\ Area \in Nat /\ Len(acts) \in Nat /\ Len(cmds) = 3 * Area + Len(acts)
          /\ \A n \in 1 .. Area : /\ cmds[2 * Area + Len(acts) + n].op = "BLK_LOCK"
                                  /\ cmds[2 * Area + Len(acts) + n].blk = TfsFirst + n - 1
      BY <2>1, TfsStageIs
    <3>2. start \in Nat /\ Len(cmds) = start + Area
      BY <3>1
    <3> QED BY <3>1, <3>2
  <2>2. CASE st = CscStage(acts)
    <3> DEFINE start == Area + Len(acts)
    <3>1. /\ Area \in Nat /\ Len(acts) \in Nat /\ Len(cmds) = 2 * Area + Len(acts)
          /\ \A n \in 1 .. Area : /\ cmds[Area + Len(acts) + n].op = "BLK_LOCK"
                                  /\ cmds[Area + Len(acts) + n].blk = TfsFirst + n - 1
      BY <2>2, CscStageIs
    <3>2. start \in Nat /\ Len(cmds) = start + Area
      BY <3>1
    <3> QED BY <3>1, <3>2
  <2> QED BY <2>1, <2>2
<1> HIDE DEF cmds
<1>2. PICK a \in 1 .. Area : b = TfsFirst + a - 1
  BY AreaBlocks
<1> DEFINE n == start + a
<1>3. cmds[n].op = "BLK_LOCK" /\ cmds[n].blk = b
  BY <1>1, <1>2
<1>4. n \in 1 .. (Len(cmds) + 1) - 1
  BY <1>1
<1>5. ASSUME NEW m \in n + 1 .. (Len(cmds) + 1) - 1
      PROVE  cmds[m].op = "BLK_LOCK"
  <2> DEFINE x == m - start
  <2>1. m = start + x /\ x \in 1 .. Area
    BY <1>1
  <2> HIDE DEF x
  <2> QED BY <1>1, <2>1
<1> HIDE DEF n
<1> QED BY <1>3, <1>4, <1>5 DEF LockedBy, cmds

\* The area of flash f is locked.
Locked(f) == \A b \in TfsBlocks : f.prot[b]

\* The host is not in the middle of writing a file system.
NotWriting == si > Len(job) \/ Name \notin Relocking

\* The locks the stage has set so far are there, and between two stages the
\* ones that an earlier stage has left.
LocksKept(g) ==
  job # NoJob =>
    /\ InPlan(job, si, ci)
    /\ si <= Len(job) /\ Name \in Relocking =>
         \A b \in TfsBlocks : LockedBy(job[si].cmds, ci, b) => g.prot[b]
    /\ told \cap Relocking # {} =>
         \E i \in 1 .. si - 1 : i <= Len(job) /\ job[i].name \in Relocking
    /\ /\ told \cap Relocking # {} /\ failed \cap Relocking = {}
       /\ NotWriting \/ ci = 1
       => Locked(g)

LockInv == Connected => \E g \in Flash : Behind(g) /\ LocksKept(g)

\* The host does not come back to its menu in the middle of writing one, and
\* reports nothing before it has had a job.
BackInv == /\ hst \in {"back", "menu"} /\ job # NoJob => NotWriting
           /\ job = NoJob => told = {}

\* A block of the area is a block.
LEMMA AreaIsBlocks == TfsBlocks \subseteq Blocks
BY TfsAssumption, ChipAssumption DEF TfsBlocks, Blocks

\* However a step moves the host and the flash behind it, the locks are kept.
LEMMA MovesLocksKept ==
  ASSUME \A j \in Jobs : Relocks(j), TypeOK, NEW g \in Flash, NEW h \in Flash, LocksKept(g), Moves(g, h)
  PROVE  LocksKept(h)'
<1>1. /\ Jobs \subseteq Seq(Stage) /\ NoJob \notin Jobs
      /\ si \in Nat \ {0} /\ ci \in Nat \ {0} /\ (job # NoJob => job \in Jobs) /\ base \in MemVal
  BY JobsAssumption DEF TypeOK
<1>2. CASE h = g /\ UNCHANGED <<job, si, ci, told, failed, skipped, base>>
  BY <1>2 DEF LocksKept, NotWriting, Name
<1>3. CASE /\ InStage /\ h = Apply(g, Cur)
           /\ ci' = ci + 1 /\ UNCHANGED <<job, si, told, failed, skipped, base>>
  <2> SUFFICES ASSUME job # NoJob PROVE LocksKept(h)'
    BY <1>3 DEF LocksKept
  <2> DEFINE cmds == job[si].cmds
  <2>1. /\ job \in Seq(Stage) /\ Relocks(job) /\ si \in 1 .. Len(job) /\ Len(job) \in Nat
        /\ ci \in 1 .. Len(cmds) /\ Len(cmds) \in Nat /\ Cur = cmds[ci] /\ Cur \in Cmd
        /\ DOMAIN job = 1 .. Len(job) /\ DOMAIN cmds = 1 .. Len(cmds)
    <3>1. job \in Seq(Stage) /\ Relocks(job) /\ Len(job) \in Nat /\ si \in 1 .. Len(job)
          /\ DOMAIN job = 1 .. Len(job)
      BY <1>1, <1>3, JobType DEF InStage
    <3>2. Len(cmds) \in Nat /\ DOMAIN cmds = 1 .. Len(cmds) /\ \A k \in 1 .. Len(cmds) : cmds[k] \in Cmd
      BY <3>1, JobType
    <3> QED BY <1>1, <1>3, <3>1, <3>2 DEF InStage, Cur
  <2> HIDE DEF cmds
  <2>2. InPlan(job, si, ci + 1)
    BY <2>1 DEF InPlan, cmds
  <2>3. ASSUME NEW b \in TfsBlocks, Name \in Relocking, LockedBy(cmds, ci + 1, b)
        PROVE  h.prot[b]
    <3>1. \/ Cur.op = "BLK_LOCK" /\ Cur.blk = b
          \/ LockedBy(cmds, ci, b) /\ ~(Cur.op = "BLK_UNLOCK" /\ Cur.blk = b)
      BY <1>1, <2>1, <2>3, LockedNext
    <3>2. b \in Blocks
      BY AreaIsBlocks
    <3>3. CASE Cur.op = "BLK_LOCK" /\ Cur.blk = b
      BY <1>3, <2>1, <3>2, <3>3, LocksAfter DEF Locking
    <3>4. CASE LockedBy(cmds, ci, b) /\ ~(Cur.op = "BLK_UNLOCK" /\ Cur.blk = b)
      <4>1. g.prot[b]
        BY <2>1, <2>3, <3>4 DEF LocksKept, cmds
      <4>2. \/ Cur.blk = b /\ Cur.op \in Locking
            \/ ~(Cur.blk = b /\ Cur.op \in Locking \cup {"BLK_UNLOCK"})
        BY <3>4
      <4> QED BY <1>3, <2>1, <3>2, <4>1, <4>2, LocksAfter
    <3> QED BY <3>1, <3>3, <3>4
  <2>4. ASSUME told \cap Relocking # {}, failed \cap Relocking = {}, Name \notin Relocking
        PROVE  Locked(h)
    <3>1. Locked(g)
      BY <2>4 DEF LocksKept, NotWriting
    <3>2. Cur.op # "BLK_UNLOCK"
      <4>1. PICK i \in 1 .. si - 1 : i <= Len(job) /\ job[i].name \in Relocking
        BY <2>4 DEF LocksKept
      <4>2. i \in DOMAIN job /\ si \in DOMAIN job /\ si > i
        BY <2>1, <4>1
      <4>3. ci \in DOMAIN job[si].cmds /\ job[si].name \notin Relocking
        BY <2>1, <2>4 DEF cmds, Name
      <4> QED BY <2>1, <4>1, <4>2, <4>3 DEF Relocks, cmds
    <3>3. ASSUME NEW b \in TfsBlocks PROVE h.prot[b]
      <4>1. b \in Blocks /\ g.prot[b]
        BY <3>1, AreaIsBlocks DEF Locked
      <4>2. \/ Cur.blk = b /\ Cur.op \in Locking
            \/ ~(Cur.blk = b /\ Cur.op \in Locking \cup {"BLK_UNLOCK"})
        BY <3>2
      <4> QED BY <1>3, <2>1, <4>1, <4>2, LocksAfter
    <3> QED BY <3>3 DEF Locked
  <2>5. ci' # 1 /\ ci' = ci + 1 /\ job' = job /\ si' = si /\ Name' = Name /\ told' = told /\ failed' = failed
        /\ (NotWriting' <=> Name \notin Relocking)
    BY <1>1, <1>3, <2>1 DEF Name, NotWriting
  <2>6. told \cap Relocking # {} =>
          \E i \in 1 .. si - 1 : i <= Len(job) /\ job[i].name \in Relocking
    BY DEF LocksKept
  <2> QED BY <2>2, <2>3, <2>4, <2>5, <2>6 DEF LocksKept, cmds
<1>4. CASE h = g /\ InStage /\ Cur.op = "MARK_SECT" /\ Skip /\ UNCHANGED base
  <2> SUFFICES ASSUME job # NoJob PROVE LocksKept(h)'
    BY <1>4 DEF LocksKept, Skip
  <2>1. job' = job /\ si' = si /\ ci' = ci + 1 /\ told' = told /\ failed' = failed /\ Name' = Name
    BY <1>4 DEF Skip, Name
  <2>2. InPlan(job, si, ci + 1) /\ si <= Len(job)
    <3>1. job \in Seq(Stage) /\ si \in 1 .. Len(job)
      BY <1>1, <1>4, JobType DEF InStage
    <3>2. Len(job[si].cmds) \in Nat /\ Len(job) \in Nat
      BY <3>1, JobType
    <3> QED BY <1>1, <1>4, <3>1, <3>2 DEF InPlan, InStage
  <2>3. ASSUME NEW b \in TfsBlocks, Name \in Relocking, LockedBy(job[si].cmds, ci + 1, b)
        PROVE  g.prot[b]
    <3>1. LockedBy(job[si].cmds, ci, b)
      BY <1>1, <1>4, <2>3, LockedNext DEF Cur
    <3> QED BY <2>2, <2>3, <3>1 DEF LocksKept
  <2>4. ci' # 1 /\ (NotWriting' <=> Name \notin Relocking) /\ (Name \notin Relocking => NotWriting)
    BY <1>1, <2>1, <2>2 DEF NotWriting, InPlan
  <2>5. told \cap Relocking # {} =>
          \E i \in 1 .. si - 1 : i <= Len(job) /\ job[i].name \in Relocking
    BY DEF LocksKept
  <2>6. told \cap Relocking # {} /\ failed \cap Relocking = {} /\ Name \notin Relocking => Locked(g)
    BY <2>4 DEF LocksKept
  <2> QED BY <1>4, <2>1, <2>2, <2>3, <2>4, <2>5, <2>6 DEF LocksKept
<1>5. CASE h = g /\ job # NoJob /\ si <= Len(job) /\ GiveUp /\ UNCHANGED base
  <2>1. /\ failed' = failed \cup {Name} /\ job' = job /\ told' = told
        /\ (si' = si /\ ci' = ci) \/ (si' = si + 1 /\ ci' = 1)
    BY <1>5 DEF GiveUp, NextStage, EndJob
  <2>2. job \in Seq(Stage) /\ si \in 1 .. Len(job)
    BY <1>1, <1>5, JobType
  <2>3. InPlan(job, si + 1, 1) /\ InPlan(job, si, ci)
    BY <1>1, <1>5, <2>2, RightNextStage DEF LocksKept
  <2>4. told \cap Relocking # {} =>
          \E i \in 1 .. si - 1 : i <= Len(job) /\ job[i].name \in Relocking
    BY <1>5 DEF LocksKept
  <2>5. told' \cap Relocking # {} /\ failed' \cap Relocking = {} => Locked(g)
    BY <1>5, <2>1 DEF LocksKept, NotWriting
  <2>6. CASE si' = si /\ ci' = ci
    BY <1>5, <2>1, <2>3, <2>4, <2>5, <2>6 DEF LocksKept, Name
  <2>7. CASE si' = si + 1 /\ ci' = 1
    <3>1. told' \cap Relocking # {} =>
            \E i \in 1 .. si' - 1 : i <= Len(job) /\ job[i].name \in Relocking
      <4>1. 1 .. si - 1 \subseteq 1 .. (si + 1) - 1
        BY <1>1
      <4> QED BY <2>1, <2>4, <2>7, <4>1
    <3>2. \A b : ~LockedBy(job'[si'].cmds, ci', b)
      BY <2>7 DEF LockedBy
    <3> QED BY <1>5, <2>1, <2>3, <2>5, <2>7, <3>1, <3>2 DEF LocksKept
  <2> QED BY <2>1, <2>6, <2>7
<1>6. CASE h = g /\ job # NoJob /\ StageDone /\ UNCHANGED base
  <2>1. /\ job' = job /\ failed' = failed /\ si' = si + 1 /\ ci' = 1 /\ told' = told \cup {Name}
        /\ si <= Len(job) /\ ci > Len(job[si].cmds)
    BY <1>6 DEF StageDone, NextStage
  <2>2. job \in Seq(Stage) /\ Relocks(job) /\ si \in 1 .. Len(job) /\ si \in DOMAIN job
        /\ Len(job[si].cmds) \in Nat
    BY <1>1, <1>6, <2>1, JobType
  <2>3. ci = Len(job[si].cmds) + 1
    BY <1>1, <1>6, <2>1, <2>2 DEF LocksKept, InPlan
  <2>4. InPlan(job, si + 1, 1)
    BY <1>1, <2>2, RightNextStage
  <2>5. told' \cap Relocking # {} =>
          \E i \in 1 .. si' - 1 : i <= Len(job) /\ job[i].name \in Relocking
    <3>1. CASE Name \in Relocking
      <4>1. si \in 1 .. si' - 1
        BY <1>1, <2>1
      <4> QED BY <2>1, <3>1, <4>1 DEF Name
    <3>2. CASE Name \notin Relocking
      <4>1. 1 .. si - 1 \subseteq 1 .. si' - 1
        BY <1>1, <2>1
      <4>2. told' \cap Relocking = told \cap Relocking
        BY <2>1, <3>2
      <4> QED BY <1>6, <4>1, <4>2 DEF LocksKept
    <3> QED BY <3>1, <3>2
  <2>6. told' \cap Relocking # {} /\ failed \cap Relocking = {} => Locked(g)
    <3>1. CASE Name \in Relocking
      <4>1. PICK acts \in Seq(Cmd) : job[si] \in {TfsStage(acts), CscStage(acts)}
        BY <2>2, <3>1 DEF Relocks, Name
      <4>2. \A b \in TfsBlocks : LockedBy(job[si].cmds, ci, b)
        BY <2>3, <4>1, StageLocks
      <4> QED BY <1>6, <2>1, <3>1, <4>2 DEF LocksKept, Locked
    <3>2. CASE Name \notin Relocking
      <4>1. told' \cap Relocking = told \cap Relocking
        BY <2>1, <3>2
      <4> QED BY <1>6, <3>2, <4>1 DEF LocksKept, NotWriting
    <3> QED BY <3>1, <3>2
  <2>7. \A b : ~LockedBy(job'[si'].cmds, ci', b)
    BY <2>1 DEF LockedBy
  <2> QED BY <1>6, <2>1, <2>4, <2>5, <2>6, <2>7 DEF LocksKept
<1>7. ASSUME NEW j \in Jobs, h = g, StartJob(j)
      PROVE  LocksKept(h)'
  <2>1. job' = j /\ si' = 1 /\ ci' = 1 /\ told' = {} /\ j \in Seq(Stage)
    BY <1>1, <1>7 DEF StartJob
  <2>2. InPlan(j, 1, 1)
    BY <2>1, JobType DEF InPlan
  <2>3. \A b : ~LockedBy(job'[si'].cmds, ci', b)
    BY <2>1 DEF LockedBy
  <2> QED BY <2>1, <2>2, <2>3 DEF LocksKept
<1> QED BY <1>2, <1>3, <1>4, <1>5, <1>6, <1>7 DEF Moves

\* Where the host goes when it gives a stage up, or goes on with a command.
LEMMA GivenUpBack ==
  ASSUME GiveUp \/ Fail, hst' \in {"back", "menu"}
  PROVE  job' = job /\ si' = si /\ Name \notin Relocking
BY DEF Fail, Skip, GiveUp, EndJob, NextStage, Ignored, Relocking

\* A host that goes on with a command does not come back to its menu.
LEMMA ProceedBusy ==
  ASSUME NEW st \in {"status", "operands", "issue"} \cup {AwaitAfter(op) : op \in Ops}
                    \cup {AwaitAfterAck(op) : op \in Ops}, Proceed(st)
  PROVE  hst' \notin {"back", "menu"}
BY DEF Proceed, AwaitAfter, AwaitAfterAck

\* The host comes back to its menu between stages, or from one that writes no
\* file system.
LEMMA NextBack ==
  ASSUME IInv, BackInv, [Next]_vars
  PROVE  BackInv'
<1>1. job' = NoJob => told' = {}
  <2>1. CASE Host
    <3>1. (job' = job /\ job # NoJob) \/ (job' = job /\ told' = told)
      BY <2>1 DEF Host, HostStep, SendOpcode, ReadStatus, SendOperands, WriteFails, ReadAck, ReadEot,
         ReadData, StageDone, JobDone, BackToMenu, Proceed, EndJob, NextStage, Fail, Skip, GiveUp, IInv, TypeOK
    <3> QED BY <3>1 DEF BackInv
  <2>2. CASE ~Host
    BY <2>2, JobsAssumption DEF Next, User, StopLocally, Quit, GiveUp, EndJob, NextStage, Start, StartJob,
       Device, DeviceAlone, NoiseToDevice, NoiseToHost, Hangup, PowerCut, Restart, hostVars, vars, BackInv,
       IInv, TypeOK
  <2> QED BY <2>1, <2>2
<1> SUFFICES ASSUME hst' \in {"back", "menu"}, job' # NoJob PROVE NotWriting'
  BY <1>1 DEF BackInv
<1>2. CASE Host
  <2>1. CASE SendOpcode
    BY <2>1, ProceedBusy DEF SendOpcode
  <2>2. CASE ReadStatus \/ SendOperands \/ ReadAck \/ ReadEot \/ ReadData
    <3>1. Cur.op \in Ops
      <4>1. hst \in {"operands", "status", "ack", "eot", "data"}
        BY <2>2 DEF ReadStatus, SendOperands, ReadAck, ReadEot, ReadData
      <4>2. InStage /\ job # NoJob
        BY <4>1 DEF IInv, InStep, TypeOK
      <4> QED BY <4>2, CurType DEF IInv, Cmd
    <3>2. CASE Fail
      BY <3>2, GivenUpBack DEF NotWriting, Name
    <3>3. CASE ~Fail
      <4>1. PICK st \in {"status", "operands", "issue"} \cup {AwaitAfter(op) : op \in Ops}
                    \cup {AwaitAfterAck(op) : op \in Ops} : Proceed(st)
        BY <2>2, <3>1, <3>3 DEF ReadStatus, SendOperands, ReadAck, ReadEot, ReadData
      <4> QED BY <4>1, ProceedBusy
    <3> QED BY <3>2, <3>3
  <2>3. CASE WriteFails
    BY <2>3, GivenUpBack DEF WriteFails, EndJob, NotWriting, Name
  <2>4. CASE StageDone
    BY <2>4 DEF StageDone, NextStage
  <2>5. CASE JobDone
    BY <2>5 DEF JobDone, EndJob, NotWriting
  <2>6. CASE BackToMenu
    BY <2>6 DEF BackToMenu, EndJob, BackInv, NotWriting, Name
  <2> QED BY <1>2, <2>1, <2>2, <2>3, <2>4, <2>5, <2>6 DEF Host, HostStep
<1>3. CASE StopLocally
  BY <1>3, GivenUpBack DEF StopLocally, NotWriting, Name
<1>4. CASE Quit \/ Start \/ Restart
  BY <1>4 DEF Quit, EndJob, Start, StartJob, Restart
<1>5. CASE Device \/ NoiseToDevice \/ NoiseToHost \/ Hangup \/ PowerCut \/ UNCHANGED vars
  <2>1. UNCHANGED hostVars
    BY <1>5 DEF Device, DeviceAlone, NoiseToDevice, NoiseToHost, Hangup, PowerCut, vars
  <2> QED BY <2>1 DEF hostVars, BackInv, NotWriting, Name
<1> QED BY <1>2, <1>3, <1>4, <1>5 DEF Next, User

\* A session starts with nothing told and nothing to keep.
LEMMA InitLocks ==
  ASSUME Init
  PROVE  LockInv /\ BackInv
<1>1. hst = "menu" /\ job = NoJob /\ told = {} /\ h2d = <<>> /\ dst = "opcode"
  BY DEF Init, HostInit, WireInit, PreloaderInit
<1>2. flash \in Flash
  BY InitIInv DEF IInv, TypeOK
<1>3. Settled = flash
  BY <1>1, SettledIs DEF Underway, Finish
<1>4. Behind(flash)
  BY <1>1, <1>3, BehindAtRest
<1> QED BY <1>1, <1>2, <1>4 DEF LockInv, LocksKept, BackInv

\* Every step keeps the locks that have been set.
LEMMA NextLocks ==
  ASSUME \A j \in Jobs : Relocks(j), IInv, [Next]_vars, LockInv
  PROVE  LockInv'
<1> SUFFICES ASSUME Connected' PROVE \E g \in Flash : Behind(g)' /\ LocksKept(g)'
  BY DEF LockInv
<1>1. CASE Connected
  <2>1. PICK g \in Flash : Behind(g) /\ LocksKept(g)
    BY <1>1 DEF LockInv
  <2>2. PICK h \in Flash : Behind(h)' /\ Moves(g, h)
    BY <1>1, <2>1, Advance
  <2>3. LocksKept(h)'
    BY <2>1, <2>2, MovesLocksKept DEF IInv
  <2> QED BY <2>2, <2>3
<1>2. CASE ~Connected
  <2>1. Restart
    BY <1>2, Reconnected
  <2>2. PICK h \in Flash : Behind(h)'
    BY <2>1, RestartBehind
  <2>3. LocksKept(h)'
    BY <2>1 DEF Restart, LocksKept
  <2> QED BY <2>2, <2>3
<1> QED BY <1>1, <1>2

\* What that means once the host is in its menu.
LEMMA LocksThen ==
  ASSUME LockInv, BackInv
  PROVE  LockedAfterTfs
<1> SUFFICES ASSUME hst \in {"back", "menu"}, link = "up", dst # "gone",
                    told \cap {"tfs", "csc"} # {}, failed \cap {"tfs", "csc"} = {}
             PROVE  \A b \in TfsBlocks : Settled.prot[b]
  BY DEF LockedAfterTfs
<1>1. PICK g \in Flash : Behind(g) /\ LocksKept(g)
  BY DEF LockInv, Connected
<1>2. g = Settled
  BY <1>1, BehindAtRest
<1>3. job # NoJob
  BY DEF BackInv
<1> QED BY <1>1, <1>2, <1>3 DEF LocksKept, BackInv, Relocking, Locked

\* Once the host is back in its menu after a TFS or CSC flash it has not given
\* up, every block of the area is locked, or will be once the device is done,
\* whatever else of the job failed or was left out.
THEOREM AreaRelocked ==
  ASSUME \A j \in Jobs : Relocks(j)
  PROVE  Spec => []LockedAfterTfs
<1>1. Init => LockInv /\ BackInv
  BY InitLocks
<1>2. IInv /\ LockInv /\ BackInv /\ [Next]_vars => LockInv' /\ BackInv'
  BY NextLocks, NextBack
<1>3. LockInv /\ BackInv => LockedAfterTfs
  BY LocksThen
<1> QED BY <1>1, <1>2, <1>3, SessionInvariant, PTL DEF Spec

-----------------------------------------------------------------------------
(* Erase chip.                                                             *)

\* The job of that entry of the menu.
LEMMA ChipJobIs ==
  LET j == EraseChipJob
  IN /\ Len(j) = 3 /\ LastBlock \in Nat
     /\ j[1].name = "unprotect" /\ j[2].name = "chip" /\ j[3].name = "protect"
     /\ Len(j[1].cmds) = LastBlock + 1 /\ Len(j[2].cmds) = 1 /\ Len(j[3].cmds) = LastBlock + 1
     /\ \A n \in 1 .. LastBlock + 1 : /\ j[1].cmds[n].op = "BLK_UNLOCK" /\ j[1].cmds[n].blk = n - 1
                                      /\ j[3].cmds[n].op = "BLK_LOCK"
     /\ j[2].cmds[1].op = "CHIP_ERASE"
<1> DEFINE open == Sweep("BLK_UNLOCK", 0, LastBlock)
           shut == Sweep("BLK_LOCK", 0, LastBlock)
           erase == Plain("CHIP_ERASE", 0)
<1>1. /\ EraseChipJob = <<EraseChipJob[1], EraseChipJob[2], EraseChipJob[3]>>
      /\ EraseChipJob[1] = [name |-> "unprotect", cmds |-> open]
      /\ EraseChipJob[2] = [name |-> "chip", cmds |-> <<erase>>]
      /\ EraseChipJob[3] = [name |-> "protect", cmds |-> shut]
  BY DEF EraseChipJob, ProtectRange
<1>2. 0 \in Blocks /\ LastBlock \in Blocks /\ 0 <= LastBlock /\ LastBlock \in Nat
  BY ChipAssumption DEF Blocks
<1>3. /\ Len(open) = LastBlock + 1
      /\ \A n \in 1 .. LastBlock + 1 : open[n].op = "BLK_UNLOCK" /\ open[n].blk = n - 1
  <2>1. "BLK_UNLOCK" \in Ops
    BY DEF Ops
  <2>2. /\ Len(open) = LastBlock - 0 + 1
        /\ \A n \in 1 .. LastBlock - 0 + 1 : open[n].op = "BLK_UNLOCK" /\ open[n].blk = 0 + n - 1
    BY <1>2, <2>1, SweepIs
  <2> QED BY <1>2, <2>2
<1>4. Len(shut) = LastBlock + 1 /\ \A n \in 1 .. LastBlock + 1 : shut[n].op = "BLK_LOCK"
  <2>1. "BLK_LOCK" \in Ops
    BY DEF Ops
  <2>2. /\ Len(shut) = LastBlock - 0 + 1
        /\ \A n \in 1 .. LastBlock - 0 + 1 : shut[n].op = "BLK_LOCK"
    BY <1>2, <2>1, SweepIs
  <2> QED BY <1>2, <2>2
<1>5. erase.op = "CHIP_ERASE"
  BY DEF Plain
<1> HIDE DEF open, shut, erase
<1>6. Len(EraseChipJob) = 3
  BY <1>1
<1> QED BY <1>1, <1>2, <1>3, <1>4, <1>5, <1>6

\* No opcode is damaged and none is refused.
Clear == /\ \A i \in 1 .. Len(h2d) : h2d[i].kind = "opcode" => h2d[i].ok
         /\ \A i \in 1 .. Len(d2h) : d2h[i] # "INVALID"

\* What holds of everything on the line does after a token is read,
LEMMA TailKeeps ==
  ASSUME NEW T, NEW s \in Seq(T), s # <<>>, NEW P, \A i \in 1 .. Len(s) : s[i] \in P
  PROVE  \A i \in 1 .. Len(Tail(s)) : Tail(s)[i] \in P
<1>1. ASSUME NEW i \in 1 .. Len(Tail(s)) PROVE Tail(s)[i] \in P
  <2>1. i \in 1 .. Len(s) - 1 /\ i + 1 \in 1 .. Len(s) /\ Tail(s)[i] = s[i + 1]
    BY TailFacts, EmptyFacts
  <2> QED BY <2>1
<1> QED BY <1>1

\* and after one is sent of which it holds.
LEMMA AppendKeeps ==
  ASSUME NEW T, NEW s \in Seq(T), NEW e \in T, NEW P, \A i \in 1 .. Len(s) : s[i] \in P, e \in P
  PROVE  \A i \in 1 .. Len(Append(s, e)) : Append(s, e)[i] \in P
<1>1. ASSUME NEW i \in 1 .. Len(Append(s, e)) PROVE Append(s, e)[i] \in P
  <2>1. Len(s) \in Nat /\ Len(Append(s, e)) = Len(s) + 1
    BY AppendFacts, EmptyFacts
  <2>2. i \in 1 .. Len(s) \/ i = Len(s) + 1
    BY <2>1
  <2> QED BY <2>2, AppendFacts
<1> QED BY <1>1

\* No step but noise damages an opcode, and the device refuses no other.
LEMMA NextClear ==
  ASSUME "opcode" \notin Faults, IInv, [Next]_vars, Clear
  PROVE  Clear'
<1> DEFINE Good == {t \in Token : t.kind = "opcode" => t.ok}
           Fine == Replies \ {"INVALID"}
<1>1. /\ h2d \in Seq(Token) /\ d2h \in Seq(Replies)
      /\ \A i \in 1 .. Len(h2d) : h2d[i] \in Good
      /\ \A i \in 1 .. Len(d2h) : d2h[i] \in Fine
  <2>1. h2d \in Seq(Token) /\ d2h \in Seq(Replies)
    BY DEF IInv, TypeOK
  <2>2. (\A i \in 1 .. Len(h2d) : h2d[i] \in Token) /\ (\A i \in 1 .. Len(d2h) : d2h[i] \in Replies)
    BY <2>1
  <2> QED BY <2>1, <2>2 DEF Clear
<1> SUFFICES /\ \A i \in 1 .. Len(h2d') : h2d'[i] \in Good
             /\ \A i \in 1 .. Len(d2h') : d2h'[i] \in Fine
  BY DEF Clear
<1>2. ASSUME NEW kind \in {"opcode", "operands"}, NEW c \in Cmd, HostSends(kind, c)
      PROVE  \A i \in 1 .. Len(h2d') : h2d'[i] \in Good
  <2> DEFINE e == [kind |-> kind, cmd |-> c, ok |-> TRUE]
  <2>1. e \in Token /\ e \in Good
    BY DEF Token
  <2>2. h2d' = Append(h2d, e) \/ h2d' = h2d
    BY <1>2 DEF HostSends
  <2> HIDE DEF e, Good
  <2> QED BY <1>1, <2>1, <2>2, AppendKeeps
<1>3. ASSUME NEW t \in Fine, DeviceSends(t)
      PROVE  \A i \in 1 .. Len(d2h') : d2h'[i] \in Fine
  <2>1. t \in Replies
    OBVIOUS
  <2>2. d2h' = Append(d2h, t) \/ d2h' = d2h
    BY <1>3 DEF DeviceSends
  <2> HIDE DEF Fine
  <2> QED BY <1>1, <1>3, <2>1, <2>2, AppendKeeps
<1>4. ASSUME NEW t \in Replies, HostReads(t)
      PROVE  \A i \in 1 .. Len(d2h') : d2h'[i] \in Fine
  <2>1. (d2h # <<>> /\ d2h' = Tail(d2h)) \/ d2h' = d2h
    BY <1>4 DEF HostReads
  <2> HIDE DEF Fine
  <2> QED BY <1>1, <2>1, TailKeeps
<1>5. ASSUME h2d # <<>>, h2d' = Tail(h2d)
      PROVE  \A i \in 1 .. Len(h2d') : h2d'[i] \in Good
  <2> HIDE DEF Good
  <2> QED BY <1>1, <1>5, TailKeeps
<1>6. ASSUME h2d # <<>>
      PROVE  Head(h2d) \in Good
  BY <1>1, <1>6, TailFacts
<1> HIDE DEF Good
<1>7. CASE Host
  <2>1. CASE SendOpcode \/ SendOperands
    <3>1. PICK kind \in {"opcode", "operands"} : HostSends(kind, Cur) /\ d2h' = d2h
      BY <2>1 DEF SendOpcode, SendOperands
    <3>2. InStage /\ job # NoJob
      BY <2>1 DEF SendOpcode, SendOperands, IInv, InStep, TypeOK
    <3>3. Cur \in Cmd
      BY <3>2, CurType DEF IInv
    <3> QED BY <1>1, <1>2, <3>1, <3>3
  <2>2. CASE ReadStatus \/ ReadAck \/ ReadEot \/ ReadData
    <3>1. PICK t \in Replies : HostReads(t) /\ h2d' = h2d
      BY <2>2 DEF ReadStatus, ReadAck, ReadEot, ReadData
    <3> QED BY <1>1, <1>4, <3>1
  <2>3. CASE WriteFails \/ StageDone \/ JobDone
    BY <1>1, <2>3 DEF WriteFails, StageDone, JobDone, wire
  <2>4. CASE BackToMenu
    BY <1>1, <2>4 DEF BackToMenu
  <2> QED BY <1>7, <2>1, <2>2, <2>3, <2>4 DEF Host, HostStep
<1>8. CASE Device
  <2>1. CASE ReadOpcode
    <3>1. h2d # <<>> /\ h2d' = Tail(h2d) /\ Head(h2d).kind = "opcode"
      BY <2>1 DEF ReadOpcode
    <3>2. DeviceSends("VALID")
      BY <1>6, <2>1, <3>1 DEF ReadOpcode, Good
    <3> QED BY <1>3, <1>5, <3>1, <3>2 DEF Replies
  <2>2. CASE ReadOperands
    BY <1>1, <1>5, <2>2 DEF ReadOperands
  <2>3. CASE ReadPayload
    <3>1. h2d # <<>> /\ h2d' = Tail(h2d) /\ (DeviceSends("ACK") \/ DeviceSends("NAK"))
      BY <2>3 DEF ReadPayload
    <3> QED BY <1>3, <1>5, <3>1 DEF Replies
  <2>4. CASE AnswerData \/ WipeStep \/ BurnStep \/ StampStep
    <3>1. h2d' = h2d /\ (DeviceSends("DATA") \/ DeviceSends("EOT") \/ d2h' = d2h)
      BY <2>4 DEF AnswerData, WipeStep, BurnStep, StampStep
    <3> QED BY <1>1, <1>3, <3>1 DEF Replies
  <2> QED BY <1>8, <2>1, <2>2, <2>3, <2>4 DEF Device, DeviceStep
<1>9. CASE NoiseToDevice
  <2>1. PICK i \in DOMAIN h2d : h2d[i].kind = "operands" /\ h2d' = [h2d EXCEPT ![i].ok = FALSE]
    BY <1>9 DEF NoiseToDevice
  <2> DEFINE u == [h2d[i] EXCEPT !.ok = FALSE]
  <2>2. u \in Good /\ h2d' = [h2d EXCEPT ![i] = u]
    <3>1. i \in 1 .. Len(h2d) /\ h2d[i] \in Token
      BY <1>1, <2>1
    <3> QED BY <2>1, <3>1 DEF Good, Token
  <2> HIDE DEF u
  <2>3. Len(h2d') = Len(h2d) /\ \A n \in 1 .. Len(h2d) : h2d'[n] \in {u, h2d[n]}
    BY <1>1, <2>2
  <2>4. d2h' = d2h
    BY <1>9 DEF NoiseToDevice
  <2> QED BY <1>1, <2>2, <2>3, <2>4
<1>10. CASE NoiseToHost
  <2>1. PICK i \in DOMAIN d2h : d2h' = [d2h EXCEPT ![i] = "BADDATA"]
    BY <1>10 DEF NoiseToHost
  <2>2. Len(d2h') = Len(d2h) /\ \A n \in 1 .. Len(d2h) : d2h'[n] \in {d2h[n], "BADDATA"}
    BY <1>1, <2>1
  <2>3. h2d' = h2d
    BY <1>10 DEF NoiseToHost
  <2> QED BY <1>1, <2>2, <2>3 DEF Replies
<1>11. CASE Hangup \/ Restart
  BY <1>11 DEF Hangup, Restart
<1>12. CASE User \/ Start \/ PowerCut \/ UNCHANGED vars
  BY <1>1, <1>12 DEF User, StopLocally, Quit, Start, StartJob, PowerCut, wire, vars
<1> QED BY <1>7, <1>8, <1>9, <1>10, <1>11, <1>12 DEF Next

-----------------------------------------------------------------------------
(* How far the job has come, and what the flash behind the host is by then. *)

\* The blocks the host is past are unlocked; behind the erase all are blank.
ChipJob == job # NoJob /\ job = EraseChipJob
ChipCourse(g) ==
  ChipJob =>
    /\ InPlan(job, si, ci)
    /\ si = 1 => \A b \in Blocks : b < ci - 1 => ~g.prot[b]
    /\ si = 2 /\ ci = 1 => \A b \in Blocks : ~g.prot[b]
    /\ si = 2 /\ ci = 2 => \A b \in Blocks : g.mem[b] = BlankBlock

\* The host has had the EOT of the erase: the device is back at its loop.
AfterErase == ChipJob /\ si = 2 /\ ci = 2 /\ hst = "issue"
EraseEnded == Connected /\ AfterErase => h2d = <<>> /\ dst = "opcode"

ChipInv == /\ Connected => \E g \in Flash : Behind(g) /\ ChipCourse(g)
           /\ Clear /\ EraseEnded

\* Where the job is, by the command it has come to.
LEMMA ChipPlace ==
  ASSUME job = EraseChipJob, si \in Nat \ {0}, ci \in Nat \ {0}, InPlan(job, si, ci)
  PROVE  /\ si \in 1 .. 4 /\ Len(job) = 3 /\ LastBlock \in Nat
         /\ si = 1 => Name = "unprotect" /\ ci \in 1 .. LastBlock + 2
         /\ si = 2 => Name = "chip" /\ ci \in 1 .. 2
         /\ si = 3 => Name = "protect"
         /\ InStage <=> (si \in {1, 3} /\ ci \in 1 .. LastBlock + 1) \/ (si = 2 /\ ci = 1)
         /\ InStage => /\ si = 1 => Cur.op = "BLK_UNLOCK" /\ Cur.blk = ci - 1
                       /\ si = 2 => Cur.op = "CHIP_ERASE"
                       /\ si = 3 => Cur.op = "BLK_LOCK"
<1>1. Len(job) = 3 /\ LastBlock \in Nat /\ si \in 1 .. 4
  BY ChipJobIs DEF InPlan
<1>2. /\ job[1].name = "unprotect" /\ job[2].name = "chip" /\ job[3].name = "protect"
      /\ Len(job[1].cmds) = LastBlock + 1 /\ Len(job[2].cmds) = 1 /\ Len(job[3].cmds) = LastBlock + 1
  BY ChipJobIs
<1>3. /\ si = 1 => Name = "unprotect" /\ ci \in 1 .. LastBlock + 2
      /\ si = 2 => Name = "chip" /\ ci \in 1 .. 2
      /\ si = 3 => Name = "protect"
  <2>1. si <= 3 => ci \in 1 .. Len(job[si].cmds) + 1
    BY <1>1 DEF InPlan
  <2>2. CASE si = 1
    BY <1>1, <1>2, <2>1, <2>2 DEF Name
  <2>3. CASE si = 2
    <3>1. Len(job[si].cmds) = 1 /\ Name = "chip"
      BY <1>2, <2>3 DEF Name
    <3>2. ci \in 1 .. 1 + 1
      BY <2>1, <2>3, <3>1
    <3> QED BY <2>3, <3>1, <3>2
  <2>4. CASE si \in {3, 4}
    BY <1>2, <2>4 DEF Name
  <2> QED BY <1>1, <2>2, <2>3, <2>4
<1>4. InStage <=> (si \in {1, 3} /\ ci \in 1 .. LastBlock + 1) \/ (si = 2 /\ ci = 1)
  BY <1>1, <1>2 DEF InStage
<1>5. ASSUME InStage
      PROVE  /\ si = 1 => Cur.op = "BLK_UNLOCK" /\ Cur.blk = ci - 1
             /\ si = 2 => Cur.op = "CHIP_ERASE"
             /\ si = 3 => Cur.op = "BLK_LOCK"
  BY <1>1, <1>4, <1>5, ChipJobIs DEF Cur
<1> QED BY <1>1, <1>3, <1>4, <1>5

\* The unprotecting stage is not given up: nothing in it can fail while no
\* opcode is damaged.
LEMMA NoneGivenUp ==
  ASSUME IInv, Clear, Connected, [Next]_vars, job = EraseChipJob, si = 1, InPlan(job, si, ci),
         si' = 2
  PROVE  StageDone
<1>1. /\ si \in Nat \ {0} /\ ci \in Nat \ {0} /\ d2h \in Seq(Replies) /\ link = "up"
  BY DEF IInv, TypeOK, Connected
<1>2. Name = "unprotect" /\ (InStage => Cur.op = "BLK_UNLOCK")
  BY <1>1, ChipPlace
<1>3. ~(Start \/ Restart)
  BY DEF Start, StartJob, Restart
<1>4. ASSUME StopLocally PROVE FALSE
  BY <1>2, <1>4 DEF StopLocally, MayStop
<1>5. ASSUME NEW st PROVE ~Proceed(st)
  BY DEF Proceed
<1>6. ASSUME ReadStatus PROVE FALSE
  <2>1. InStage /\ StatusOf(Cur) /\ Cur.op \notin NoOperand
    BY <1>2, <1>6 DEF ReadStatus, IInv, InStep, Synced, NoOperand
  <2>2. PICK t \in Replies : HostReads(t) /\ t # "VALID"
    BY <1>5, <1>6 DEF ReadStatus
  <2>3. d2h # <<>> /\ t = Head(d2h)
    BY <1>1, <2>2 DEF HostReads
  <2>4. d2h = <<"INVALID">> \/ d2h = <<"VALID">>
    BY <2>1, <2>3 DEF StatusOf
  <2>5. d2h = <<"INVALID">>
    BY <2>2, <2>3, <2>4
  <2> QED BY <2>5 DEF Clear
<1>7. ASSUME ReadAck \/ ReadEot \/ ReadData PROVE FALSE
  <2>1. InStage /\ (AckOf(Cur) \/ EotOf(Cur) \/ DataOfRead(Cur))
    BY <1>7 DEF ReadAck, ReadEot, ReadData, IInv, InStep, Synced
  <2> QED BY <1>2, <2>1 DEF AckOf, EotOf, DataOfRead, Checked, Completed, Reading
<1>8. ASSUME SendOpcode \/ SendOperands \/ WriteFails \/ JobDone \/ BackToMenu PROVE FALSE
  BY <1>1, <1>5, <1>8 DEF SendOpcode, SendOperands, WriteFails, JobDone, BackToMenu, EndJob
<1>9. ASSUME Host PROVE StageDone
  BY <1>6, <1>7, <1>8, <1>9 DEF Host, HostStep
<1>10. ~(Quit \/ Device \/ NoiseToDevice \/ NoiseToHost \/ Hangup \/ PowerCut \/ UNCHANGED vars)
  BY DEF Quit, EndJob, Device, DeviceAlone, NoiseToDevice, NoiseToHost, Hangup, PowerCut, hostVars, vars
<1> QED BY <1>3, <1>4, <1>9, <1>10 DEF Next, User

\* However a step moves the host and the flash behind it, they keep to the
\* course.
LEMMA MovesChip ==
  ASSUME IInv, Clear, Connected, [Next]_vars, NEW g \in Flash, NEW h \in Flash,
         ChipCourse(g), Moves(g, h)
  PROVE  ChipCourse(h)'
<1> SUFFICES ASSUME ChipJob' PROVE ChipCourse(h)'
  BY DEF ChipCourse
<1>1. si \in Nat \ {0} /\ ci \in Nat \ {0}
  BY DEF IInv, TypeOK
<1>2. CASE \E j \in Jobs : h = g /\ StartJob(j) /\ base' = g.mem /\ FromMarks(j, g.mem)
  <2>1. si' = 1 /\ ci' = 1
    BY <1>2 DEF StartJob
  <2>2. InPlan(EraseChipJob, 1, 1)
    BY ChipJobIs DEF InPlan
  <2>3. \A b \in Blocks : ~(b < 1 - 1)
    BY DEF Blocks
  <2> QED BY <2>1, <2>2, <2>3 DEF ChipCourse, ChipJob
<1>3. CASE h = g /\ UNCHANGED <<job, si, ci, told, failed, skipped, base>>
  BY <1>3 DEF ChipCourse, ChipJob
<1>4. ASSUME job' = job
      PROVE  /\ ChipJob /\ job = EraseChipJob /\ InPlan(job, si, ci)
             /\ si \in 1 .. 4 /\ Len(job) = 3 /\ LastBlock \in Nat
             /\ si = 1 => Name = "unprotect" /\ ci \in 1 .. LastBlock + 2
             /\ si = 2 => Name = "chip" /\ ci \in 1 .. 2
             /\ si = 3 => Name = "protect"
             /\ InStage <=> (si \in {1, 3} /\ ci \in 1 .. LastBlock + 1) \/ (si = 2 /\ ci = 1)
             /\ InStage => /\ si = 1 => Cur.op = "BLK_UNLOCK" /\ Cur.blk = ci - 1
                           /\ si = 2 => Cur.op = "CHIP_ERASE"
                           /\ si = 3 => Cur.op = "BLK_LOCK"
  <2>1. ChipJob /\ job = EraseChipJob /\ InPlan(job, si, ci)
    BY <1>4 DEF ChipCourse, ChipJob
  <2> QED BY <1>1, <2>1, ChipPlace
<1>5. CASE h = g /\ InStage /\ Cur.op = "MARK_SECT" /\ Skip /\ UNCHANGED base
  BY <1>4, <1>5 DEF Skip
<1>6. CASE /\ InStage /\ h = Apply(g, Cur)
           /\ ci' = ci + 1 /\ UNCHANGED <<job, si, told, failed, skipped, base>>
  <2>1. InPlan(job, si, ci + 1)
    BY <1>1, <1>4, <1>6 DEF InPlan, InStage
  <2>2. CASE si = 1
    <3>1. Cur \in Cmd
      BY <1>4, <1>6, CurType DEF IInv, ChipJob
    <3>2. ASSUME NEW b \in Blocks, b < ci PROVE ~h.prot[b]
      <4>1. CASE b = ci - 1
        BY <1>4, <1>6, <2>2, <3>1, <4>1, LocksAfter
      <4>2. CASE b # ci - 1
        <5>1. b < ci - 1
          BY <1>1, <3>2, <4>2 DEF Blocks
        <5>2. ~g.prot[b]
          BY <1>4, <1>6, <2>2, <5>1 DEF ChipCourse
        <5>3. Cur.op = "BLK_UNLOCK" /\ Cur.op \notin Locking /\ Cur.blk # b
          BY <1>4, <1>6, <2>2, <4>2 DEF Locking
        <5>4. ~(Cur.blk = b /\ Cur.op \in Locking \cup {"BLK_UNLOCK"})
          BY <5>3
        <5> QED BY <1>6, <3>1, <5>2, <5>4, LocksAfter
      <4> QED BY <4>1, <4>2
    <3>3. ci' - 1 = ci /\ si' = 1
      BY <1>1, <1>6, <2>2
    <3> QED BY <1>6, <2>1, <3>2, <3>3 DEF ChipCourse
  <2>3. CASE si = 2
    <3>1. ci = 1 /\ ci' = 2 /\ si' = 2 /\ Cur.op = "CHIP_ERASE"
      BY <1>4, <1>6, <2>3
    <3>2. \A b \in Blocks : ~g.prot[b]
      BY <1>4, <1>6, <2>3, <3>1 DEF ChipCourse
    <3>3. h.mem = EraseAll(g.mem, g.prot)
      BY <1>6, <3>1 DEF Apply, Stamp, Burn, Wipe, Flash
    <3>4. \A b \in Blocks : h.mem[b] = BlankBlock
      BY <3>2, <3>3 DEF EraseAll
    <3> QED BY <1>6, <2>1, <3>1, <3>4 DEF ChipCourse
  <2>4. CASE si = 3
    BY <1>6, <2>1, <2>4 DEF ChipCourse
  <2> QED BY <1>4, <1>6, <2>2, <2>3, <2>4
<1>7. ASSUME h = g, job' = job, si' = si + 1, ci' = 1, si <= Len(job), si = 1 => ci = LastBlock + 2
      PROVE  ChipCourse(h)'
  <2>1. InPlan(job, si + 1, 1)
    <3>1. \A i \in 1 .. 3 : 1 \in 1 .. Len(EraseChipJob[i].cmds) + 1
      <4>1. /\ Len(EraseChipJob[1].cmds) \in Nat /\ Len(EraseChipJob[2].cmds) \in Nat
            /\ Len(EraseChipJob[3].cmds) \in Nat
        BY ChipJobIs
      <4>2. \A n \in Nat : 1 \in 1 .. n + 1
        OBVIOUS
      <4>3. \A i \in 1 .. 3 : i = 1 \/ i = 2 \/ i = 3
        OBVIOUS
      <4> QED BY <4>1, <4>2, <4>3
    <3>2. si + 1 \in 1 .. Len(job) + 1 /\ (si + 1 <= Len(job) => si + 1 \in 1 .. 3)
      <4>1. Len(job) = 3 /\ si \in 1 .. 4 /\ si <= 3
        BY <1>4, <1>7
      <4> QED BY <4>1
    <3> QED BY <1>4, <1>7, <3>1, <3>2 DEF InPlan
  <2>2. CASE si = 1
    <3>1. \A b \in Blocks : b < ci - 1
      BY <1>4, <1>7, <2>2 DEF Blocks
    <3>2. \A b \in Blocks : ~g.prot[b]
      BY <1>4, <1>7, <2>2, <3>1 DEF ChipCourse
    <3> QED BY <1>7, <2>1, <2>2, <3>2 DEF ChipCourse
  <2>3. CASE si # 1
    BY <1>4, <1>7, <2>1, <2>3 DEF ChipCourse
  <2> QED BY <2>2, <2>3
<1>8. ASSUME job' = job, si' = si + 1, si <= Len(job), si = 1
      PROVE  ci = LastBlock + 2
  <2>1. StageDone
    BY <1>1, <1>4, <1>8, NoneGivenUp
  <2>2. ci > Len(job[1].cmds)
    BY <1>8, <2>1 DEF StageDone
  <2> QED BY <1>4, <1>8, <2>2, ChipJobIs
<1>9. CASE h = g /\ job # NoJob /\ si <= Len(job) /\ GiveUp /\ UNCHANGED base
  <2>1. CASE UNCHANGED <<job, si, ci>>
    BY <1>9, <2>1 DEF ChipCourse, ChipJob
  <2>2. CASE job' = job /\ si' = si + 1 /\ ci' = 1
    BY <1>7, <1>8, <1>9, <2>2
  <2> QED BY <1>9, <2>1, <2>2 DEF GiveUp, NextStage, EndJob
<1>10. CASE h = g /\ job # NoJob /\ StageDone /\ UNCHANGED base
  BY <1>7, <1>8, <1>10 DEF StageDone, NextStage
<1> QED BY <1>2, <1>3, <1>5, <1>6, <1>9, <1>10 DEF Moves

\* The host goes past the erase when it reads its EOT, and the device has then
\* nothing left to do.
LEMMA NextEraseEnded ==
  ASSUME IInv, [Next]_vars, EraseEnded, Connected, ChipJob => InPlan(job, si, ci)
  PROVE  EraseEnded'
<1> SUFFICES ASSUME AfterErase', Connected' PROVE h2d' = <<>> /\ dst' = "opcode"
  BY DEF EraseEnded
<1>1. /\ si \in Nat \ {0} /\ ci \in Nat \ {0} /\ d2h \in Seq(Replies) /\ h2d \in Seq(Token) /\ link = "up"
      /\ h2d' \in Seq(Token)
  BY NextIInv DEF IInv, TypeOK, Connected
<1>2. job' = EraseChipJob /\ job' # NoJob /\ si' = 2 /\ ci' = 2 /\ hst' = "issue"
  BY DEF AfterErase, ChipJob
<1>3. ~(Start \/ Restart \/ Quit)
  BY <1>2 DEF Start, StartJob, Restart, Quit, EndJob
<1>4. ~NextStage
  BY <1>2 DEF NextStage
<1>5. job' = job /\ si = 2 /\ ci \in {1, 2}
      => Name = "chip" /\ (InStage <=> ci = 1) /\ (InStage => Cur.op = "CHIP_ERASE")
  <2> SUFFICES ASSUME job' = job, si = 2, ci \in {1, 2}
               PROVE  Name = "chip" /\ (InStage <=> ci = 1) /\ (InStage => Cur.op = "CHIP_ERASE")
    OBVIOUS
  <2>1. job = EraseChipJob /\ InPlan(job, si, ci)
    BY <1>2 DEF ChipJob
  <2> QED BY <1>1, <2>1, ChipPlace
<1>6. CASE Host
  <2>1. CASE ReadStatus \/ SendOperands \/ ReadAck \/ ReadEot \/ ReadData \/ SendOpcode \/ WriteFails
    <3>1. InStage
      BY <2>1 DEF ReadStatus, SendOperands, ReadAck, ReadEot, ReadData, SendOpcode, WriteFails, IInv, InStep
    <3>2. Skip \/ Proceed("issue") \/ GiveUp
      BY <1>2, <2>1 DEF ReadStatus, SendOperands, ReadAck, ReadEot, ReadData, SendOpcode, WriteFails,
                        Fail, Proceed, EndJob
    <3>3. ~GiveUp
      BY <1>2, <1>4 DEF GiveUp, EndJob
    <3>4. job' = job /\ si = 2 /\ ci = 1
      BY <1>1, <1>2, <3>2, <3>3 DEF Skip, Proceed
    <3>5. Cur.op = "CHIP_ERASE"
      BY <1>5, <3>1, <3>4
    <3>6. ReadEot
      <4>1. ~(ReadStatus \/ SendOpcode)
        BY <1>2, <3>3, <3>5 DEF ReadStatus, SendOpcode, Fail, Proceed, AwaitAfter, Bare
      <4>2. ~(SendOperands \/ WriteFails)
        BY <1>1, <3>5 DEF SendOperands, WriteFails, IInv, InStep, Synced, Connected, NoOperand
      <4>3. ~ReadAck
        BY <3>5 DEF ReadAck, IInv, InStep, Synced, AckOf, Checked
      <4>4. ~ReadData
        BY <3>5 DEF ReadData, IInv, InStep, Synced, DataOfRead, Reading
      <4> QED BY <2>1, <4>1, <4>2, <4>3, <4>4
    <3>7. d2h # <<>> /\ h2d' = h2d /\ dst' = dst
      BY <1>1, <1>6, <3>6 DEF ReadEot, HostReads, Host, HostAlone, devVars
    <3>8. EotOf(Cur)
      BY <3>6 DEF ReadEot, IInv, InStep, Synced
    <3>9. Len(h2d) = 0 /\ dst = "opcode"
      BY <3>7, <3>8 DEF EotOf, AtWork
    <3> QED BY <1>1, <3>7, <3>9, EmptyFacts
  <2>2. CASE StageDone \/ JobDone \/ BackToMenu
    BY <1>2, <1>4, <2>2 DEF StageDone, JobDone, BackToMenu, EndJob
  <2> QED BY <1>6, <2>1, <2>2 DEF Host, HostStep
<1>7. CASE StopLocally
  <2>1. GiveUp
    BY <1>7 DEF StopLocally
  <2> QED BY <1>2, <1>4, <2>1 DEF GiveUp, EndJob
<1>8. ASSUME AfterErase, Device \/ NoiseToDevice \/ NoiseToHost \/ Hangup \/ PowerCut \/ UNCHANGED vars
      PROVE  h2d' = <<>> /\ dst' = "opcode"
  <2>1. h2d = <<>> /\ dst = "opcode"
    BY <1>8 DEF EraseEnded
  <2>2. ~Device
    BY <2>1 DEF Device, DeviceStep, ReadOpcode, ReadOperands, ReadPayload, AnswerData, WipeStep, BurnStep, StampStep
  <2>3. ~NoiseToDevice
    BY <2>1 DEF NoiseToDevice
  <2> QED BY <1>8, <2>1, <2>2, <2>3 DEF NoiseToHost, Hangup, PowerCut, Connected, devVars, vars, wire
<1>9. Device \/ NoiseToDevice \/ NoiseToHost \/ Hangup \/ PowerCut \/ UNCHANGED vars => AfterErase
  BY <1>2 DEF Device, DeviceAlone, NoiseToDevice, NoiseToHost, Hangup, PowerCut, hostVars, vars, AfterErase, ChipJob
<1> QED BY <1>3, <1>6, <1>7, <1>8, <1>9 DEF Next, User

\* A session starts on course, and stays so.
LEMMA InitChip ==
  ASSUME Init
  PROVE  ChipInv
<1>1. hst = "menu" /\ job = NoJob /\ h2d = <<>> /\ d2h = <<>> /\ dst = "opcode"
  BY DEF Init, HostInit, WireInit, PreloaderInit
<1>2. flash \in Flash
  BY InitIInv DEF IInv, TypeOK
<1>3. Settled = flash
  BY <1>1, SettledIs DEF Underway, Finish
<1>4. Behind(flash)
  BY <1>1, <1>3, BehindAtRest
<1>5. Clear
  BY <1>1 DEF Clear
<1> QED BY <1>1, <1>2, <1>4, <1>5 DEF ChipInv, ChipCourse, ChipJob, EraseEnded, AfterErase

\* Every step stays on course, through disconnections and new sessions.
LEMMA NextChip ==
  ASSUME "opcode" \notin Faults, IInv, [Next]_vars, ChipInv
  PROVE  ChipInv'
<1>1. Clear'
  BY NextClear DEF ChipInv
<1>2. CASE Connected
  <2>1. PICK g \in Flash : Behind(g) /\ ChipCourse(g)
    BY <1>2 DEF ChipInv
  <2>2. EraseEnded'
    BY <1>2, <2>1, NextEraseEnded DEF ChipInv, ChipCourse
  <2>3. ASSUME Connected' PROVE \E h \in Flash : Behind(h)' /\ ChipCourse(h)'
    <3>1. PICK h \in Flash : Behind(h)' /\ Moves(g, h)
      BY <1>2, <2>1, <2>3, Advance
    <3>2. ChipCourse(h)'
      BY <1>2, <2>1, <3>1, MovesChip DEF ChipInv
    <3> QED BY <3>1, <3>2
  <2> QED BY <1>1, <2>2, <2>3 DEF ChipInv
<1>3. CASE ~Connected /\ Connected'
  <2>1. Restart
    BY <1>3, Reconnected
  <2>2. PICK h \in Flash : Behind(h)'
    BY <2>1, RestartBehind
  <2>3. ~ChipJob'
    BY <2>1 DEF Restart, ChipJob
  <2> QED BY <1>1, <2>2, <2>3 DEF ChipInv, ChipCourse, EraseEnded, AfterErase
<1>4. CASE ~Connected'
  BY <1>1, <1>4 DEF ChipInv, EraseEnded
<1> QED BY <1>2, <1>3, <1>4

-----------------------------------------------------------------------------
\* Once the erase has been reported the chip is blank, and all that is still
\* sent to it are locks.
Reported == "chip" \in told /\ link = "up" /\ dst # "gone"
LocksOnly == /\ \A i \in 1 .. Len(h2d) : h2d[i].cmd.op = "BLK_LOCK"
             /\ dst # "opcode" => dcmd.op = "BLK_LOCK"
ChipBlank == Reported => /\ ChipJob /\ si \in {3, 4}
                         /\ \A b \in Blocks : flash.mem[b] = BlankBlock
                         /\ LocksOnly

\* A lock leaves the memory as it is, in each of its phases.
LEMMA LockKeeps ==
  ASSUME NEW f \in Flash, NEW c, c.op = "BLK_LOCK"
  PROVE  /\ Wipe(f, c).mem = f.mem /\ Burn(f, c).mem = f.mem /\ Stamp(f, c).mem = f.mem
         /\ Apply(f, c).mem = f.mem
         /\ \A phase : Finish(f, phase, c).mem = f.mem
<1>1. f = [mem |-> f.mem, prot |-> f.prot]
  BY DEF Flash
<1>2. \A g : Burn(g, c) = g /\ Stamp(g, c) = g
  BY DEF Burn, Stamp
<1>3. Wipe(f, c) = [f EXCEPT !.prot[c.blk] = TRUE]
  BY DEF Wipe
<1>4. Wipe(f, c).mem = f.mem
  BY <1>1, <1>3
<1>5. Apply(f, c) = Wipe(f, c)
  BY <1>2 DEF Apply
<1> HIDE DEF Wipe
<1> QED BY <1>2, <1>4, <1>5 DEF Finish

\* The erase is reported only once the device has ended it.
LEMMA ChipReported ==
  ASSUME \A j \in Jobs : (\E i \in DOMAIN j : j[i].name = "chip") => j = EraseChipJob,
         IInv, ChipInv, StageDone, HostAlone, Name = "chip", Reported'
  PROVE  ChipBlank'
<1>1. /\ hst = "issue" /\ si <= Len(job) /\ ci > Len(job[si].cmds) /\ job # NoJob /\ job \in Jobs
      /\ si \in Nat \ {0} /\ ci \in Nat \ {0} /\ flash \in Flash
      /\ si' = si + 1 /\ job' = job /\ h2d' = h2d /\ flash' = flash /\ dst' = dst /\ dcmd' = dcmd
      /\ link' = link
  BY DEF StageDone, NextStage, HostAlone, devVars, wire, IInv, TypeOK
<1>2. Connected
  BY <1>1 DEF Reported, Connected
<1>3. job = EraseChipJob /\ ChipJob
  <2>1. job \in Seq(Stage)
    BY <1>1, JobsAssumption
  <2>2. si \in DOMAIN job
    BY <1>1, <2>1, JobType
  <2> QED BY <1>1, <2>2 DEF Name, ChipJob
<1>4. PICK g \in Flash : Behind(g) /\ ChipCourse(g)
  BY <1>2 DEF ChipInv
<1>5. si = 2 /\ ci = 2
  <2>1. InPlan(job, si, ci)
    BY <1>3, <1>4 DEF ChipCourse
  <2>2. /\ si \in 1 .. 4 /\ Len(job) = 3 /\ (si = 1 => Name = "unprotect") /\ (si = 3 => Name = "protect")
        /\ (si = 2 => ci \in 1 .. 2)
    BY <1>1, <1>3, <2>1, ChipPlace
  <2>3. si = 2
    BY <1>1, <2>2
  <2>4. ci > 1
    BY <1>1, <1>3, <2>3, ChipJobIs
  <2> QED BY <2>2, <2>3, <2>4
<1>6. h2d = <<>> /\ dst = "opcode"
  BY <1>1, <1>2, <1>3, <1>5 DEF ChipInv, EraseEnded, AfterErase
<1>7. flash = g
  <2>1. Settled = g
    BY <1>1, <1>4, BehindAtRest
  <2> QED BY <1>6, <2>1, SettledIs DEF Underway, Finish
<1>8. \A b \in Blocks : flash.mem[b] = BlankBlock
  BY <1>3, <1>4, <1>5, <1>7 DEF ChipCourse
<1> QED BY <1>1, <1>3, <1>5, <1>6, <1>8 DEF ChipBlank, LocksOnly, ChipJob

\* What is sent after the report is a lock, and a lock leaves the chip blank.
LEMMA NextBlank ==
  ASSUME \A j \in Jobs : (\E i \in DOMAIN j : j[i].name = "chip") => j = EraseChipJob,
         IInv, ChipInv, ChipBlank, [Next]_vars
  PROVE  ChipBlank'
<1> SUFFICES ASSUME Reported' PROVE ChipBlank'
  BY DEF ChipBlank
<1>1. /\ si \in Nat \ {0} /\ ci \in Nat \ {0} /\ h2d \in Seq(Token) /\ flash \in Flash
      /\ "chip" \in told' /\ link' = "up" /\ dst' # "gone"
  BY DEF IInv, TypeOK, Reported
<1>2. ASSUME Reported
      PROVE  /\ ChipJob /\ job = EraseChipJob /\ si \in {3, 4} /\ LocksOnly
             /\ \A b \in Blocks : flash.mem[b] = BlankBlock
  BY <1>2 DEF ChipBlank, ChipJob
<1>3. ASSUME Reported, hst # "closed"
      PROVE  Len(job) = 3 /\ (InStage => Cur.op = "BLK_LOCK" /\ Cur \in Cmd)
  <2>1. PICK g \in Flash : ChipCourse(g)
    BY <1>3 DEF Reported, Connected, ChipInv
  <2>2. InPlan(job, si, ci)
    BY <1>2, <1>3, <2>1 DEF ChipCourse
  <2>3. /\ Len(job) = 3 /\ (InStage => si \in {1, 2, 3}) /\ (InStage /\ si = 3 => Cur.op = "BLK_LOCK")
    BY <1>1, <1>2, <1>3, <2>2, ChipPlace
  <2>4. InStage => Cur \in Cmd
    BY <1>2, <1>3, CurType DEF IInv, ChipJob
  <2> QED BY <1>2, <1>3, <2>3, <2>4
<1>4. ASSUME Reported, hst # "closed", si <= Len(job)
       PROVE  si = 3
  <2>1. Len(job) = 3 /\ si \in {3, 4}
    BY <1>2, <1>3, <1>4
  <2> QED BY <1>4, <2>1
<1>5. ASSUME Reported, UNCHANGED <<flash, h2d, dst, dcmd>>
      PROVE  LocksOnly' /\ \A b \in Blocks : flash'.mem[b] = BlankBlock
  BY <1>2, <1>5 DEF LocksOnly
<1>6. CASE Host
  <2>1. UNCHANGED <<flash, dst, dcmd, link>> /\ (Reported <=> "chip" \in told) /\ hst # "closed"
    BY <1>1, <1>6 DEF Host, HostStep, HostAlone, devVars, wire, SendOpcode, ReadStatus, SendOperands, WriteFails,
       ReadAck, ReadEot, ReadData, StageDone, JobDone, BackToMenu, Reported
  <2>2. CASE StageDone
    <3>1. CASE Name = "chip"
      BY <1>6, <2>2, <3>1, ChipReported DEF Host
    <3>2. CASE Name # "chip"
      <4>1. Reported /\ job' = job /\ si' = si + 1 /\ si <= Len(job) /\ h2d' = h2d
        BY <1>1, <2>1, <2>2, <3>2 DEF StageDone, NextStage, wire
      <4>2. si = 3
        BY <1>4, <2>1, <4>1
      <4> QED BY <1>2, <1>5, <2>1, <4>1, <4>2 DEF ChipBlank, ChipJob
    <3> QED BY <3>1, <3>2
  <2>3. CASE SendOpcode \/ SendOperands
    <3>1. Reported /\ job' = job /\ si' = si
      BY <1>1, <2>1, <2>3 DEF SendOpcode, SendOperands, Proceed
    <3>2. InStage /\ Cur.op = "BLK_LOCK" /\ Cur \in Cmd
      BY <1>3, <2>1, <2>3, <3>1 DEF SendOpcode, SendOperands, IInv, InStep
    <3>3. PICK kind \in {"opcode", "operands"} : HostSends(kind, Cur)
      BY <2>3 DEF SendOpcode, SendOperands
    <3> DEFINE e == [kind |-> kind, cmd |-> Cur, ok |-> TRUE]
    <3>4. h2d' = Append(h2d, e) \/ h2d' = h2d
      BY <3>3 DEF HostSends
    <3>5. e \in Token /\ e.cmd.op = "BLK_LOCK"
      BY <3>2 DEF Token
    <3> HIDE DEF e
    <3>6. \A i \in 1 .. Len(h2d') : h2d'[i].cmd.op = "BLK_LOCK"
      <4> DEFINE L == {t \in Token : t.cmd.op = "BLK_LOCK"}
      <4>1. \A i \in 1 .. Len(h2d) : h2d[i] \in L
        <5>1. \A i \in 1 .. Len(h2d) : h2d[i] \in Token
          BY <1>1
        <5> QED BY <1>2, <3>1, <5>1 DEF LocksOnly
      <4>2. e \in L
        BY <3>5
      <4> HIDE DEF L
      <4>3. \A i \in 1 .. Len(h2d') : h2d'[i] \in L
        BY <1>1, <3>4, <3>5, <4>1, <4>2, AppendKeeps
      <4> QED BY <4>3 DEF L
    <3> QED BY <1>2, <2>1, <3>1, <3>6 DEF ChipBlank, ChipJob, LocksOnly
  <2>4. CASE ReadStatus \/ WriteFails \/ ReadAck \/ ReadEot \/ ReadData
    <3>1. h2d' = h2d /\ told' = told /\ Reported /\ job' = job
      BY <1>1, <2>1, <2>4 DEF ReadStatus, WriteFails, ReadAck, ReadEot, ReadData, wire, Proceed, Fail, Skip,
                              GiveUp, NextStage, EndJob
    <3>2. InStage
      BY <2>4 DEF ReadStatus, WriteFails, ReadAck, ReadEot, ReadData, IInv, InStep
    <3>3. si' = si \/ si' = si + 1
      BY <2>4 DEF ReadStatus, WriteFails, ReadAck, ReadEot, ReadData, Proceed, Fail, Skip, GiveUp, NextStage, EndJob
    <3>4. si = 3
      BY <1>4, <2>1, <3>1, <3>2 DEF InStage
    <3> QED BY <1>2, <1>5, <2>1, <3>1, <3>3, <3>4 DEF ChipBlank, ChipJob
  <2>5. CASE JobDone \/ BackToMenu
    <3>1. Reported /\ job' = job /\ si' = si /\ h2d' = h2d
      BY <1>1, <2>1, <2>5 DEF JobDone, BackToMenu, EndJob, wire
    <3> QED BY <1>2, <1>5, <2>1, <3>1 DEF ChipBlank, ChipJob
  <2> QED BY <1>6, <2>2, <2>3, <2>4, <2>5 DEF Host, HostStep
<1>7. CASE Device
  <2>1. Reported /\ job' = job /\ si' = si
    <3>1. link' = link /\ dst # "gone"
      BY <1>7 DEF Device, DeviceStep, ReadOpcode, ReadOperands, ReadPayload, AnswerData, WipeStep, BurnStep, StampStep
    <3> QED BY <1>1, <1>7, <3>1 DEF Device, DeviceAlone, hostVars, Reported
  <2>2. LocksOnly /\ (\A b \in Blocks : flash.mem[b] = BlankBlock) /\ ChipJob /\ si \in {3, 4}
    BY <1>2, <2>1
  <2>3. h2d' = h2d \/ (h2d # <<>> /\ h2d' = Tail(h2d))
    BY <1>7 DEF Device, DeviceStep, ReadOpcode, ReadOperands, ReadPayload, AnswerData, WipeStep, BurnStep, StampStep
  <2>4. \A i \in 1 .. Len(h2d') : h2d'[i].cmd.op = "BLK_LOCK"
    <3> DEFINE L == {t \in Token : t.cmd.op = "BLK_LOCK"}
    <3>1. \A i \in 1 .. Len(h2d) : h2d[i] \in L
      <4>1. \A i \in 1 .. Len(h2d) : h2d[i] \in Token
        BY <1>1
      <4> QED BY <2>2, <4>1 DEF LocksOnly
    <3> HIDE DEF L
    <3>2. \A i \in 1 .. Len(h2d') : h2d'[i] \in L
      BY <1>1, <2>3, <3>1, TailKeeps
    <3> QED BY <3>2 DEF L
  <2>5. (dst' # "opcode" => dcmd'.op = "BLK_LOCK") /\ flash'.mem = flash.mem
    <3>1. CASE ReadOpcode
      <4>1. h2d # <<>> => Head(h2d) = h2d[1] /\ 1 \in 1 .. Len(h2d)
        BY <1>1, TailFacts, EmptyFacts
      <4>2. h2d # <<>> => Head(h2d).cmd.op = "BLK_LOCK"
        BY <2>2, <4>1 DEF LocksOnly
      <4> QED BY <2>2, <3>1, <4>2 DEF ReadOpcode, LocksOnly
    <3>2. CASE ReadOperands \/ ReadPayload
      BY <2>2, <3>2 DEF ReadOperands, ReadPayload, Serve, NextCommand, LocksOnly
    <3>3. CASE AnswerData \/ WipeStep \/ BurnStep \/ StampStep
      <4>1. dcmd.op = "BLK_LOCK"
        BY <2>2, <3>3 DEF AnswerData, WipeStep, BurnStep, StampStep, LocksOnly
      <4>2. /\ flash' \in {flash, Wipe(flash, dcmd), Burn(flash, dcmd), Stamp(flash, dcmd)}
            /\ dst' = "opcode" \/ dcmd' = dcmd
        BY <3>3 DEF AnswerData, WipeStep, BurnStep, StampStep, NextCommand
      <4> QED BY <1>1, <4>1, <4>2, LockKeeps
    <3> QED BY <1>7, <3>1, <3>2, <3>3 DEF Device, DeviceStep
  <2> QED BY <2>1, <2>2, <2>4, <2>5 DEF ChipBlank, ChipJob, LocksOnly
<1>8. CASE NoiseToDevice
  <2>1. Reported /\ job' = job /\ si' = si /\ UNCHANGED <<flash, dst, dcmd>>
    BY <1>1, <1>8 DEF NoiseToDevice, devVars, hostVars, Reported
  <2>2. PICK i \in DOMAIN h2d : h2d' = [h2d EXCEPT ![i].ok = FALSE]
    BY <1>8 DEF NoiseToDevice
  <2> DEFINE u == [h2d[i] EXCEPT !.ok = FALSE]
  <2>3. i \in 1 .. Len(h2d) /\ h2d[i] \in Token
    BY <1>1, <2>2
  <2>4. u.cmd = h2d[i].cmd /\ h2d' = [h2d EXCEPT ![i] = u]
    BY <2>2, <2>3 DEF Token
  <2> HIDE DEF u
  <2>5. Len(h2d') = Len(h2d) /\ \A n \in 1 .. Len(h2d) : h2d'[n].cmd = h2d[n].cmd
    BY <1>1, <2>3, <2>4
  <2> QED BY <1>2, <2>1, <2>5 DEF ChipBlank, ChipJob, LocksOnly
<1>9. CASE NoiseToHost \/ User \/ UNCHANGED vars
  <2>1. UNCHANGED <<flash, h2d, dst, dcmd>> /\ Reported
    BY <1>1, <1>9 DEF NoiseToHost, User, HostAlone, StopLocally, Quit, GiveUp, NextStage, EndJob, devVars, hostVars,
                      wire, vars, Reported
  <2>2. CASE ~StopLocally
    <3>1. job' = job /\ si' = si
      BY <1>9, <2>2 DEF NoiseToHost, User, Quit, EndJob, hostVars, vars
    <3> QED BY <1>2, <1>5, <2>1, <3>1 DEF ChipBlank, ChipJob
  <2>3. CASE StopLocally
    <3>1. job' = job /\ si' \in {si, si + 1} /\ si <= Len(job) /\ hst # "closed"
      BY <2>3 DEF StopLocally, MayStop, GiveUp, NextStage, EndJob
    <3>2. si = 3
      BY <1>4, <2>1, <3>1
    <3> QED BY <1>2, <1>5, <2>1, <3>1, <3>2 DEF ChipBlank, ChipJob
  <2> QED BY <2>2, <2>3
<1>10. ~(Start \/ Hangup \/ PowerCut \/ Restart)
  BY <1>1 DEF Start, StartJob, Hangup, PowerCut, Restart
<1> QED BY <1>6, <1>7, <1>8, <1>9, <1>10 DEF Next

\* A chip with nothing but locks to come is blank when they are done.
LEMMA BlankThen ==
  ASSUME IInv, ChipBlank
  PROVE  ChipErased
<1> SUFFICES ASSUME Reported, NEW b \in Blocks PROVE Settled.mem[b] = BlankBlock
  BY DEF ChipErased, Reported
<1>1. /\ h2d \in Seq(Token) /\ flash \in Flash /\ LocksOnly /\ flash.mem[b] = BlankBlock
      /\ dst # "opcode" => dcmd.op = "BLK_LOCK"
  BY DEF IInv, TypeOK, ChipBlank, LocksOnly
<1>2. Underway \in Flash /\ Underway.mem = flash.mem
  <2>1. CASE dst = "opcode"
    BY <1>1, <2>1 DEF Underway, Finish
  <2>2. CASE dst # "opcode"
    <3>1. Underway.mem = flash.mem
      BY <1>1, <2>2, LockKeeps DEF Underway
    <3>2. Underway \in Flash
      <4>1. dcmd \in Cmd
        BY <2>2 DEF IInv, TypeOK, InStep, Busy, DevStates, Reported
      <4> QED BY <1>1, <4>1, PhaseTypes DEF Underway, Finish, Apply
    <3> QED BY <3>1, <3>2
  <2> QED BY <2>1, <2>2
<1>3. CASE Pending = {}
  BY <1>1, <1>2, <1>3, SettledIs
<1>4. CASE Pending # {}
  <2>1. Pending = {Head(h2d).cmd} /\ h2d # <<>>
    BY <1>4 DEF Pending
  <2>2. Head(h2d).cmd.op = "BLK_LOCK"
    <3>1. Head(h2d) = h2d[1] /\ 1 \in 1 .. Len(h2d)
      BY <1>1, <2>1, TailFacts, EmptyFacts
    <3> QED BY <1>1, <3>1 DEF LocksOnly
  <2>3. Settled = Apply(Underway, Head(h2d).cmd)
    BY <2>1, SettledIs
  <2> QED BY <1>1, <1>2, <2>2, <2>3, LockKeeps
<1> QED BY <1>3, <1>4

\* Once "Chip was erased successfully." has been said the whole chip is blank,
\* or will be once the device is done, and stays so until another job starts:
\* as long as no opcode is damaged on the line.  (The host does not look at
\* the outcome of the unprotecting stage; a damaged unlock leaves its block.)
THEOREM ChipErasedWhole ==
  ASSUME "opcode" \notin Faults,
         \A j \in Jobs : (\E i \in DOMAIN j : j[i].name = "chip") => j = EraseChipJob
  PROVE  Spec => []ChipErased
<1>1. Init => ChipInv /\ ChipBlank
  BY InitChip DEF Init, HostInit, ChipBlank, Reported
<1>2. IInv /\ ChipInv /\ ChipBlank /\ [Next]_vars => ChipInv' /\ ChipBlank'
  BY NextChip, NextBlank
<1>3. IInv /\ ChipBlank => ChipErased
  BY BlankThen
<1> QED BY <1>1, <1>2, <1>3, SessionInvariant, PTL DEF Spec

-----------------------------------------------------------------------------
(***************************************************************************)
(* What the pages of the flash hold at every moment, in the middle of a    *)
(* command and after a power cut too: a sector of the TFS area that is     *)
(* marked has been written, and as long as every job fitted the flash it   *)
(* found, no page mixes two contents.                                      *)
(***************************************************************************)

-----------------------------------------------------------------------------
(* The three phases of a command and the pages they burn.                  *)

\* The page takes the data that command c has for slot s of it; whole says that
\* it has to come out as that data.
TakesData(page, c, s, whole) ==
  c.put[s].data \in Data /\ (whole => AndData(page.data, c.put[s].data) = c.put[s].data)

\* Command c can begin on flash f,
SafeToWipe(f, c, whole) ==
  /\ c.op = "BLK_PROGRAM" => \A s \in DOMAIN c.put : PageOK(c.blk, c.put[s], TRUE)
  /\ c.op = "SECT_WRITE" =>
       IF c.erase /\ ~f.prot[c.blk] THEN \A s \in DOMAIN c.put : c.put[s].data \in Data
       ELSE \A s \in DOMAIN c.put : TakesData(f.mem[c.blk][s], c, s, whole)
  /\ c.op = "MARK_SECT" =>
       \A s \in DOMAIN c.put : /\ c.put[s].data = Erased
                               /\ c.blk \in TfsBlocks => f.mem[c.blk][s].data # Erased
\* go on behind its erase,
SafeToBurn(f, c, whole) ==
  /\ c.op # "MARK_SECT"
  /\ c.op = "BLK_PROGRAM" =>
       /\ f.prot[c.blk] \/ SameAs(f, c) \/ f.mem[c.blk] = BlankBlock
       /\ \A s \in DOMAIN c.put : PageOK(c.blk, c.put[s], TRUE)
  /\ c.op = "SECT_WRITE" => \A s \in DOMAIN c.put : TakesData(f.mem[c.blk][s], c, s, whole)
\* and burn its last buffer.
SafeToStamp(f, c, whole) ==
  /\ c.op = "SECT_WRITE" =>
       \A s \in DOMAIN c.put : /\ c.put[s].data \in Data /\ f.mem[c.blk][s].data # Erased
                               /\ whole => f.mem[c.blk][s].data = c.put[s].data
  /\ c.op = "MARK_SECT" =>
       \A s \in DOMAIN c.put : /\ c.put[s].data = Erased
                               /\ c.blk \in TfsBlocks => f.mem[c.blk][s].data # Erased

\* The pages of a block that a command programs.
LEMMA ProgramsIs ==
  ASSUME NEW mem \in MemVal, NEW prot, NEW b \in Blocks, NEW put \in Puts
  PROVE  /\ prot[b] => ProgramPages(mem, prot, b, put) = mem
         /\ \A a \in Blocks, s \in Slots :
              a # b \/ s \notin DOMAIN put => ProgramPages(mem, prot, b, put)[a][s] = mem[a][s]
         /\ ~prot[b] => \A s \in DOMAIN put :
              ProgramPages(mem, prot, b, put)[b][s] = BurnPage(mem[b][s], put[s])
<1>1. DOMAIN mem = Blocks /\ DOMAIN put \subseteq Slots
  BY DEF MemVal, Puts
<1> QED BY <1>1 DEF ProgramPages

\* The parts of a flash and of a command.
LEMMA PartsAre ==
  ASSUME NEW f \in Flash, NEW c \in Cmd
  PROVE  /\ f = [mem |-> f.mem, prot |-> f.prot] /\ f.mem \in MemVal /\ f.prot \in ProtVal
         /\ c.blk \in Blocks /\ c.put \in Puts /\ DOMAIN c.put \subseteq Slots
         /\ \A s \in DOMAIN c.put : c.put[s] \in PageVal
         /\ \A b \in Blocks, s \in Slots : f.mem[b][s] \in PageVal
         /\ \A s \in Slots : BlankBlock[s] = Blank
         /\ Erased \notin Data /\ Mixed \notin Data /\ Erased # Mixed
<1>1. f = [mem |-> f.mem, prot |-> f.prot] /\ f.mem \in MemVal /\ f.prot \in ProtVal
  BY DEF Flash
<1>2. c.blk \in Blocks /\ c.put \in Puts
  BY DEF Cmd
<1> QED BY <1>1, <1>2, ChipAssumption DEF MemVal, Puts, BlankBlock

\* A blank page is one that may be.
LEMMA BlankOK ==
  ASSUME NEW b
  PROVE  PageOK(b, Blank, TRUE) /\ PageOK(b, Blank, FALSE)
BY ChipAssumption DEF PageOK, Blank

\* The first phase of a command leaves each block as it is, or blank.
LEMMA WipePages ==
  ASSUME NEW f \in Flash, NEW c \in Cmd, NEW a \in Blocks
  PROVE  Wipe(f, c).mem[a] \in {f.mem[a], BlankBlock}
<1>1. /\ f = [mem |-> f.mem, prot |-> f.prot] /\ f.mem \in MemVal /\ f.prot \in ProtVal
      /\ DOMAIN f.mem = Blocks
  BY PartsAre DEF MemVal
<1>2. Wipe(f, c).mem \in {f.mem, EraseBlk(f.mem, f.prot, c.blk), EraseAll(f.mem, f.prot)}
  BY <1>1 DEF Wipe, FlashErase
<1> QED BY <1>1, <1>2 DEF EraseBlk, EraseAll

\* The erase leaves pages that take what comes.
LEMMA WipeSafe ==
  ASSUME NEW f \in Flash, NEW c \in Cmd, NEW whole \in BOOLEAN,
         c.op # "MARK_SECT", MemOK(f.mem, whole), SafeToWipe(f, c, whole)
  PROVE  MemOK(Wipe(f, c).mem, whole) /\ SafeToBurn(Wipe(f, c), c, whole)
<1> DEFINE w == Wipe(f, c)
           b == c.blk
<1>1. /\ f = [mem |-> f.mem, prot |-> f.prot] /\ f.mem \in MemVal /\ f.prot \in ProtVal /\ b \in Blocks
      /\ DOMAIN c.put \subseteq Slots /\ DOMAIN f.mem = Blocks /\ DOMAIN f.prot = Blocks
      /\ \A s \in Slots : BlankBlock[s] = Blank
  BY PartsAre DEF MemVal, ProtVal
<1>3. \A a \in Blocks : w.mem[a] \in {f.mem[a], BlankBlock}
  BY WipePages
<1>4. MemOK(w.mem, whole)
  <2> SUFFICES ASSUME NEW a \in Blocks, NEW s \in Slots PROVE PageOK(a, w.mem[a][s], whole)
    BY DEF MemOK
  <2>1. w.mem[a][s] \in {f.mem[a][s], Blank}
    BY <1>1, <1>3
  <2> HIDE DEF w
  <2> QED BY <2>1, BlankOK DEF MemOK
<1>5. ASSUME c.op = "BLK_PROGRAM"
      PROVE  w.prot[b] \/ SameAs(w, c) \/ w.mem[b] = BlankBlock
  <2>1. CASE SameAs(f, c) \/ BlankCheck(f, b)
    <3>1. w = f
      BY <1>5, <2>1 DEF Wipe
    <3> QED BY <2>1, <3>1 DEF BlankCheck
  <2>2. CASE ~(SameAs(f, c) \/ BlankCheck(f, b))
    <3>1. w = FlashErase(f, b)
      BY <1>5, <2>2 DEF Wipe
    <3> QED BY <1>1, <3>1 DEF FlashErase, EraseBlk
  <2> QED BY <2>1, <2>2
<1>6. ASSUME c.op = "SECT_WRITE", NEW s \in DOMAIN c.put
      PROVE  TakesData(w.mem[b][s], c, s, whole)
  <2>1. CASE c.erase /\ ~f.prot[b]
    <3>1. w.mem[b][s] = Blank
      BY <1>1, <1>6, <2>1 DEF Wipe, FlashErase, EraseBlk
    <3>2. c.put[s].data \in Data
      BY <1>6, <2>1 DEF SafeToWipe
    <3> HIDE DEF w, b
    <3>3. AndData(w.mem[b][s].data, c.put[s].data) = c.put[s].data
      BY <3>1 DEF Blank, AndData
    <3> QED BY <3>2, <3>3 DEF TakesData
  <2>2. CASE ~(c.erase /\ ~f.prot[b])
    <3>1. w.mem = f.mem
      BY <1>1, <1>6, <2>2 DEF Wipe, FlashErase, EraseBlk
    <3> QED BY <1>6, <2>2, <3>1 DEF SafeToWipe
  <2> QED BY <2>1, <2>2
<1> HIDE DEF w
<1>7. SafeToBurn(w, c, whole)
  BY <1>5, <1>6 DEF SafeToBurn, SafeToWipe
<1> QED BY <1>4, <1>7 DEF w

\* All but the last buffer leaves them with the data they are to have.
LEMMA BurnSafe ==
  ASSUME NEW f \in Flash, NEW c \in Cmd, NEW whole \in BOOLEAN,
         MemOK(f.mem, whole), SafeToBurn(f, c, whole)
  PROVE  MemOK(Burn(f, c).mem, whole) /\ SafeToStamp(Burn(f, c), c, whole)
<1> DEFINE u == Burn(f, c)
           b == c.blk
           put == c.put
<1>1. /\ f = [mem |-> f.mem, prot |-> f.prot] /\ f.mem \in MemVal /\ f.prot \in ProtVal /\ b \in Blocks
      /\ put \in Puts /\ DOMAIN put \subseteq Slots /\ (\A s \in DOMAIN put : put[s] \in PageVal)
      /\ (\A a \in Blocks, s \in Slots : f.mem[a][s] \in PageVal)
      /\ (\A s \in Slots : BlankBlock[s] = Blank)
      /\ Erased \notin Data /\ Mixed \notin Data /\ Erased # Mixed /\ c.op # "MARK_SECT"
  BY PartsAre DEF SafeToBurn
<1>2. CASE c.op = "BLK_PROGRAM"
  <2>1. SafeToStamp(u, c, whole)
    BY <1>2 DEF SafeToStamp
  <2>2. CASE f.prot[b] \/ SameAs(f, c)
    <3>1. u.mem = f.mem
      BY <1>1, <1>2, <2>2, ProgramsIs DEF Burn
    <3> QED BY <2>1, <3>1
  <2>3. CASE ~f.prot[b] /\ ~SameAs(f, c) /\ f.mem[b] = BlankBlock
    <3>1. u.mem = ProgramPages(f.mem, f.prot, b, put)
      BY <1>1, <1>2, <2>3 DEF Burn
    <3>2. ASSUME NEW a \in Blocks, NEW s \in Slots PROVE PageOK(a, u.mem[a][s], whole)
      <4>1. CASE a # b \/ s \notin DOMAIN put
        <5> HIDE DEF u, b, put
        <5>1. f.mem \in MemVal /\ b \in Blocks /\ put \in Puts
          BY <1>1
        <5>2. ProgramPages(f.mem, f.prot, b, put)[a][s] = f.mem[a][s]
          BY <4>1, <5>1, ProgramsIs
        <5> QED BY <3>1, <5>2 DEF MemOK
      <4>2. CASE a = b /\ s \in DOMAIN put
        <5>1. u.mem[a][s] = BurnPage(Blank, put[s])
          BY <1>1, <2>3, <3>1, <4>2, ProgramsIs
        <5>2. u.mem[a][s] = put[s]
          BY <1>1, <4>2, <5>1, BurnBlank
        <5>3. PageOK(a, put[s], TRUE)
          BY <1>2, <4>2 DEF SafeToBurn
        <5> HIDE DEF u, b, put
        <5> QED BY <5>2, <5>3 DEF PageOK
      <4> QED BY <4>1, <4>2
    <3> HIDE DEF u
    <3>3. MemOK(u.mem, whole)
      BY <3>2 DEF MemOK
    <3> QED BY <2>1, <3>3 DEF u
  <2> QED BY <1>2, <2>2, <2>3 DEF SafeToBurn
<1>3. CASE c.op = "SECT_WRITE"
  <2> DEFINE open == [f.prot EXCEPT ![b] = FALSE]
             data == DataOf(put)
  <2>1. u.mem = ProgramPages(f.mem, open, b, data) /\ open \in ProtVal /\ ~open[b]
    BY <1>1, <1>3 DEF Burn, ProtVal
  <2>2. DOMAIN data = DOMAIN put /\ \A s \in DOMAIN put : data[s] = [data |-> put[s].data, mark |-> 255]
    BY <1>1 DEF DataOf, PageVal
  <2>3. data \in Puts
    <3>1. \A s \in DOMAIN put : data[s] \in PageVal
      <4> HIDE DEF data, put, u, b
      <4> QED BY <1>1, <2>2 DEF PageVal, Marks
    <3>2. data \in [DOMAIN put -> PageVal]
      BY <2>2, <3>1 DEF DataOf
    <3> QED BY <1>1, <3>2 DEF Puts
  <2> HIDE DEF open, data
  <2>4. ASSUME NEW s \in DOMAIN put
        PROVE  /\ put[s].data \in Data /\ u.mem[b][s].data # Erased
               /\ whole => u.mem[b][s].data = put[s].data
    <3>1. TakesData(f.mem[b][s], c, s, whole)
      BY <1>3 DEF SafeToBurn
    <3>2. u.mem[b][s] = BurnPage(f.mem[b][s], data[s])
      BY <1>1, <2>1, <2>2, <2>3, ProgramsIs
    <3>3. u.mem[b][s].data = AndData(f.mem[b][s].data, put[s].data)
      <4> HIDE DEF u, put, b
      <4> QED BY <2>2, <3>2 DEF BurnPage
    <3>4. put[s].data \in Data /\ put[s].data # Erased
      BY <1>1, <3>1 DEF TakesData
    <3>5. u.mem[b][s].data # Erased
      <4> HIDE DEF u, put, b
      <4> QED BY <1>1, <3>3, <3>4 DEF AndData
    <3> QED BY <3>1, <3>3, <3>5 DEF TakesData
  <2>5. ASSUME NEW a \in Blocks, NEW s \in Slots PROVE PageOK(a, u.mem[a][s], whole)
    <3>1. CASE a # b \/ s \notin DOMAIN put
      <4>1. u.mem[a][s] = f.mem[a][s]
        BY <1>1, <2>1, <2>2, <2>3, <3>1, ProgramsIs
      <4> QED BY <4>1 DEF MemOK
    <3>2. CASE a = b /\ s \in DOMAIN put
      <4>1. u.mem[a][s].data # Erased /\ (whole => u.mem[a][s].data # Mixed)
        BY <1>1, <2>4, <3>2
      <4> QED BY <4>1 DEF PageOK
    <3> QED BY <3>1, <3>2
  <2> HIDE DEF u
  <2>6. MemOK(u.mem, whole) /\ SafeToStamp(u, c, whole)
    BY <1>3, <2>4, <2>5 DEF MemOK, SafeToStamp
  <2> QED BY <2>6 DEF u
<1>4. CASE c.op \notin {"BLK_PROGRAM", "SECT_WRITE"}
  <2>1. u = f
    BY <1>4 DEF Burn
  <2> QED BY <1>1, <1>4, <2>1 DEF SafeToStamp
<1> QED BY <1>2, <1>3, <1>4

\* The last buffer puts a mark where there is data.
LEMMA StampSafe ==
  ASSUME NEW f \in Flash, NEW c \in Cmd, NEW whole \in BOOLEAN,
         MemOK(f.mem, whole), SafeToStamp(f, c, whole)
  PROVE  MemOK(Stamp(f, c).mem, whole)
<1> DEFINE u == Stamp(f, c)
           b == c.blk
           put == c.put
           open == [f.prot EXCEPT ![b] = FALSE]
<1>1. /\ f.mem \in MemVal /\ f.prot \in ProtVal /\ b \in Blocks
      /\ put \in Puts /\ DOMAIN put \subseteq Slots
      /\ Erased \notin Data /\ Mixed \notin Data /\ Erased # Mixed
  BY PartsAre
<1>2. CASE c.op \in {"SECT_WRITE", "MARK_SECT"}
  <2>1. u.mem = ProgramPages(f.mem, open, b, put) /\ ~open[b]
    BY <1>1, <1>2 DEF Stamp, ProtVal
  <2> HIDE DEF open
  <2> SUFFICES ASSUME NEW a \in Blocks, NEW s \in Slots PROVE PageOK(a, u.mem[a][s], whole)
    BY DEF MemOK
  <2>2. CASE a # b \/ s \notin DOMAIN put
    <3>1. u.mem[a][s] = f.mem[a][s]
      BY <1>1, <2>1, <2>2, ProgramsIs
    <3> QED BY <3>1 DEF MemOK
  <2>3. CASE a = b /\ s \in DOMAIN put
    <3>1. u.mem[a][s] = BurnPage(f.mem[b][s], put[s])
      BY <1>1, <2>1, <2>3, ProgramsIs
    <3>2. u.mem[a][s].data = AndData(f.mem[b][s].data, put[s].data)
      <4> HIDE DEF u
      <4> QED BY <3>1 DEF BurnPage
    <3>3. CASE c.op = "SECT_WRITE"
      <4>1. /\ put[s].data \in Data /\ f.mem[b][s].data # Erased /\ put[s].data # Erased
            /\ put[s].data # Mixed /\ (whole => f.mem[b][s].data = put[s].data)
        BY <1>1, <2>3, <3>3 DEF SafeToStamp
      <4>2. u.mem[a][s].data # Erased /\ (whole => u.mem[a][s].data = put[s].data)
        <5> HIDE DEF u, put, b
        <5> QED BY <1>1, <3>2, <4>1 DEF AndData
      <4>3. u.mem[a][s].data # Erased /\ (whole => u.mem[a][s].data # Mixed)
        BY <4>1, <4>2
      <4> QED BY <4>3 DEF PageOK
    <3>4. CASE c.op = "MARK_SECT"
      <4>1. put[s].data = Erased /\ (b \in TfsBlocks => f.mem[b][s].data # Erased)
        BY <2>3, <3>4 DEF SafeToStamp
      <4>2. u.mem[a][s].data = f.mem[b][s].data
        <5> HIDE DEF u, put, b
        <5> QED BY <3>2, <4>1 DEF AndData
      <4>3. whole => f.mem[b][s].data # Mixed
        BY <1>1, <2>3 DEF MemOK, PageOK
      <4> HIDE DEF u, put, b
      <4> QED BY <2>3, <4>1, <4>2, <4>3 DEF PageOK
    <3> QED BY <1>2, <3>3, <3>4
  <2> QED BY <2>2, <2>3
<1>3. CASE c.op \notin {"SECT_WRITE", "MARK_SECT"}
  <2>1. u = f
    BY <1>3 DEF Stamp
  <2> QED BY <2>1
<1> QED BY <1>2, <1>3

-----------------------------------------------------------------------------
(* The commands that reach the flash are safe to begin.                    *)

\* Such a command goes out only while the host has given nothing up.
Undisturbed == Connected /\ hst = "operands" /\ Cur.op \in Overwriting => failed = {} /\ skipped = {}

\* A job that the host has given up nothing of finds data in the sectors that it
\* marks and, if it fits, pages that take what it writes.
LEMMA PlanIsSafe ==
  ASSUME NEW j \in Seq(Stage), Planned(j), Sectors(j), NEW mem \in MemVal, FromMarks(j, mem),
         NEW whole \in BOOLEAN, whole => Fits(j, mem),
         NEW f \in Flash, MemOK(f.mem, whole), NEW i \in 1 .. Len(j), NEW k \in 1 .. Len(j[i].cmds),
         j[i].cmds[k].op \in Overwriting => Right(f, j, mem, i, k)
  PROVE  SafeToWipe(f, j[i].cmds[k], whole)
<1> DEFINE c == j[i].cmds[k]
<1>1. /\ c \in Cmd /\ c.blk \in Blocks /\ DOMAIN c.put \subseteq Slots
      /\ i \in DOMAIN j /\ k \in DOMAIN j[i].cmds
      /\ \A s \in DOMAIN c.put : c.put[s] \in PageVal
      /\ \A s \in Slots : f.mem[c.blk][s] \in PageVal
  <2>1. c \in Cmd /\ i \in DOMAIN j /\ k \in DOMAIN j[i].cmds
    BY JobType
  <2> HIDE DEF c
  <2> QED BY <2>1, PartsAre
<1>2. /\ c.op = "SECT_WRITE" => \A s \in DOMAIN c.put : c.put[s].data \in Data
      /\ c.op = "BLK_PROGRAM" => \A s \in DOMAIN c.put : PageOK(c.blk, c.put[s], TRUE)
      /\ c.op = "MARK_SECT" => j[i].name = "csc"
  BY <1>1 DEF Sectors
<1>3. Prepared(j, i, k)
  BY <1>1 DEF Planned
<1>4. c.op \in Overwriting => Ready(f, c)
  BY PlanMakesReady
<1>5. ASSUME c.op = "MARK_SECT", NEW s \in DOMAIN c.put
      PROVE  /\ c.put[s].data = Erased
             /\ c.blk \in TfsBlocks => f.mem[c.blk][s].data # Erased
  <2>1. c.put[s].data = Erased
    BY <1>3, <1>5 DEF Prepared
  <2>2. f.mem = Replay(AfterStages(j, mem, i - 1), SubSeq(j[i].cmds, 1, k - 1))
    BY <1>1, <1>5 DEF Right, At, Overwriting
  <2>3. f.mem[c.blk][s].mark # 255
    <3> DEFINE p == <<c.blk, s>>
    <3>1. p \in Blocks \X Slots /\ p[1] = c.blk /\ p[2] = s
      BY <1>1, <1>5
    <3>2. Replay(AfterStages(j, mem, i - 1), SubSeq(j[i].cmds, 1, k - 1))[p[1]][p[2]].mark # 255
      <4>1. \A q \in Blocks \X Slots :
              c.op = "MARK_SECT" /\ c.blk = q[1] /\ q[2] \in DOMAIN c.put =>
                Replay(AfterStages(j, mem, i - 1), SubSeq(j[i].cmds, 1, k - 1))[q[1]][q[2]].mark # 255
        BY <1>1, <1>2, <1>5 DEF FromMarks
      <4> HIDE DEF p, c
      <4> QED BY <1>5, <3>1, <4>1
    <3> QED BY <2>2, <3>1, <3>2
  <2>4. PageOK(c.blk, f.mem[c.blk][s], whole)
    BY <1>1, <1>5 DEF MemOK
  <2> QED BY <2>1, <2>3, <2>4 DEF PageOK
<1> HIDE DEF c
<1>6. ASSUME c.op = "SECT_WRITE", ~(c.erase /\ ~f.prot[c.blk]), NEW s \in DOMAIN c.put
      PROVE  TakesData(f.mem[c.blk][s], c, s, whole)
  <2>1. ~c.erase
    BY <1>4, <1>6 DEF Ready, Overwriting
  <2> SUFFICES ASSUME whole PROVE AndData(f.mem[c.blk][s].data, c.put[s].data) = c.put[s].data
    BY <1>2, <1>6 DEF TakesData
  <2>2. BurnPage(f.mem[c.blk][s], c.put[s]) = c.put[s]
    <3>1. CASE j[i].name = "csc"
      <4>1. FitsIn(Replay(AfterStages(j, mem, i - 1), SubSeq(j[i].cmds, 1, k - 1)), c)
        BY <1>1, <3>1 DEF Fits, c
      <4>2. f.mem = Replay(AfterStages(j, mem, i - 1), SubSeq(j[i].cmds, 1, k - 1))
        BY <1>1, <1>6 DEF Right, At, Overwriting, c
      <4> QED BY <1>6, <2>1, <4>1, <4>2 DEF FitsIn
    <3>2. CASE j[i].name # "csc"
      <4>1. BlankBy(j[i].cmds, k, c.blk, s)
        BY <1>3, <1>6, <2>1, <3>2 DEF Prepared, c
      <4>2. Prepares(f, j[i].cmds, k)
        BY <1>1, <1>6 DEF Right, Overwriting, c
      <4>3. f.mem[c.blk][s] = Blank /\ c.put[s] \in PageVal
        BY <1>1, <1>6, <4>1, <4>2 DEF Prepares
      <4> QED BY <4>3, BurnBlank
    <3> QED BY <3>1, <3>2
  <2>3. AndData(f.mem[c.blk][s].data, c.put[s].data) = BurnPage(f.mem[c.blk][s], c.put[s]).data
    BY DEF BurnPage
  <2> QED BY <2>2, <2>3
<1>7. SafeToWipe(f, c, whole)
  BY <1>2, <1>5, <1>6 DEF SafeToWipe
<1> QED BY <1>7 DEF c

\* The pages are as they may be, and what is on the way to the flash is safe.
PagesInv ==
  /\ MemOK(flash.mem, fitting)
  /\ dst = "operands" /\ h2d # <<>> => SafeToWipe(flash, dcmd, fitting)
  /\ dst = "wipe" => dcmd.op # "MARK_SECT" /\ SafeToWipe(flash, dcmd, fitting)
  /\ dst = "burn" => SafeToBurn(flash, dcmd, fitting)
  /\ dst = "stamp" => SafeToStamp(flash, dcmd, fitting)

\* As long as every job fitted what it found, so does the one at hand.
FitsInv == fitting /\ job # NoJob => Fits(job, base)

LEMMA NextFits ==
  ASSUME [Next]_vars, FitsInv
  PROVE  FitsInv'
<1>1. CASE Start
  <2>1. PICK j \in Jobs : job' = j /\ fitting' = (fitting /\ Fits(j, Settled.mem)) /\ base' = Settled.mem
    BY <1>1 DEF Start, StartJob
  <2> QED BY <2>1 DEF FitsInv
<1>2. CASE Restart
  BY <1>2 DEF Restart, FitsInv
<1>3. CASE ~(Start \/ Restart)
  <2>1. job' = job /\ base' = base /\ fitting' = fitting
    BY <1>3 DEF Next, Host, HostAlone, Device, DeviceAlone, User, HostStep, SendOpcode, ReadStatus,
       SendOperands, WriteFails, ReadAck, ReadEot, ReadData, StageDone, JobDone, BackToMenu, Fail, Skip,
       Proceed, EndJob, NextStage, GiveUp, StopLocally, Quit, NoiseToDevice, NoiseToHost, Hangup, PowerCut,
       hostVars, vars
  <2> QED BY <2>1 DEF FitsInv
<1> QED BY <1>1, <1>2, <1>3

\* What may be said of pages that are whole may be said of pages that need not be.
LEMMA NeedNotBeWhole ==
  ASSUME PagesInv, fitting \in BOOLEAN
  PROVE  /\ MemOK(flash.mem, FALSE)
         /\ dst = "operands" /\ h2d # <<>> => SafeToWipe(flash, dcmd, FALSE)
         /\ dst = "wipe" => dcmd.op # "MARK_SECT" /\ SafeToWipe(flash, dcmd, FALSE)
         /\ dst = "burn" => SafeToBurn(flash, dcmd, FALSE)
         /\ dst = "stamp" => SafeToStamp(flash, dcmd, FALSE)
<1>1. MemOK(flash.mem, FALSE)
  BY DEF PagesInv, MemOK, PageOK
<1>2. SafeToWipe(flash, dcmd, fitting) => SafeToWipe(flash, dcmd, FALSE)
  BY DEF SafeToWipe, TakesData
<1>3. SafeToBurn(flash, dcmd, fitting) => SafeToBurn(flash, dcmd, FALSE)
  BY DEF SafeToBurn, TakesData
<1>4. SafeToStamp(flash, dcmd, fitting) => SafeToStamp(flash, dcmd, FALSE)
  BY DEF SafeToStamp
<1> QED BY <1>1, <1>2, <1>3, <1>4 DEF PagesInv

\* The operands of a command go out when the flash is ready for it.
LEMMA SendOperandsPages ==
  ASSUME \A j \in Jobs : Planned(j) /\ Sectors(j), IInv, DeliveryInv, FitsInv, PagesInv,
         Undisturbed, SendOperands, HostAlone
  PROVE  PagesInv'
<1>1. UNCHANGED devVars /\ fitting' = fitting /\ link = "up" /\ hst = "operands"
  BY DEF SendOperands, HostAlone
<1>2. CASE dst # "operands"
  BY <1>1, <1>2 DEF PagesInv, devVars
<1>3. CASE dst = "operands"
  <2>1. /\ Connected /\ InStage /\ h2d = <<>> /\ dcmd = Cur /\ job # NoJob
    BY <1>1, <1>3, EmptyFacts DEF IInv, InStep, TypeOK, Connected, Synced
  <2>2. PICK g \in Flash : Behind(g) /\ OnCourse(g)
    BY <2>1 DEF DeliveryInv
  <2>3. g = flash
    BY <1>1, <1>3, <2>1, <2>2, BehindAtRest, SettledIs, UnderwayIs
  <2>4. /\ job \in Jobs /\ job \in Seq(Stage) /\ Planned(job) /\ Sectors(job) /\ base \in MemVal
        /\ FromMarks(job, base) /\ fitting \in BOOLEAN /\ (fitting => Fits(job, base)) /\ si \in 1 .. Len(job) /\ ci \in 1 .. Len(job[si].cmds)
    <3>1. job \in Jobs /\ job \in Seq(Stage) /\ base \in MemVal /\ si \in Nat \ {0} /\ ci \in Nat \ {0}
      BY <2>1, JobsAssumption DEF IInv, TypeOK
    <3>2. Len(job) \in Nat /\ si \in 1 .. Len(job)
      BY <2>1, <3>1, JobType DEF InStage
    <3>3. ci \in 1 .. Len(job[si].cmds)
      BY <2>1, <3>1, <3>2, JobType DEF InStage
    <3>4. fitting \in BOOLEAN /\ (fitting => Fits(job, base))
      BY <2>1 DEF FitsInv, IInv, TypeOK
    <3> QED BY <2>1, <2>2, <3>1, <3>2, <3>3, <3>4 DEF OnCourse
  <2>5. Cur.op \in Overwriting => Right(flash, job, base, si, ci)
    BY <1>1, <2>1, <2>2, <2>3 DEF Undisturbed, OnCourse
  <2>6. SafeToWipe(flash, Cur, fitting)
    <3>1. flash \in Flash /\ MemOK(flash.mem, fitting)
      BY <2>2, <2>3 DEF PagesInv
    <3> QED BY <2>4, <2>5, <3>1, PlanIsSafe DEF Cur
  <2> QED BY <1>1, <1>3, <2>1, <2>6 DEF PagesInv, devVars
<1> QED BY <1>2, <1>3

\* The device's steps keep the pages, phase by phase.
LEMMA DevicePages ==
  ASSUME IInv, PagesInv, DeviceStep, fitting' = fitting
  PROVE  PagesInv'
<1>1. CASE ReadOpcode
  <2>1. h2d \in Seq(Token) /\ Len(h2d) = 1 /\ h2d' = <<>> /\ flash' = flash /\ Head(h2d) \in Token
    <3>1. /\ h2d \in Seq(Token) /\ h2d # <<>> /\ dst = "opcode" /\ h2d' = Tail(h2d) /\ Head(h2d) \in Token
          /\ Len(h2d) > 0 /\ Len(Tail(h2d)) = Len(h2d) - 1 /\ Tail(h2d) \in Seq(Token)
      BY <1>1, TailFacts DEF ReadOpcode, IInv, TypeOK
    <3>2. Len(h2d) = 1
      BY <3>1 DEF IInv, InStep, LineOK
    <3> QED BY <1>1, <3>1, <3>2, EmptyFacts DEF ReadOpcode
  <2>2. dst' \in {"opcode", "operands"} \/ (dst' = "wipe" /\ dcmd'.op \in NoOperand)
    BY <1>1 DEF ReadOpcode
  <2>3. ASSUME NEW c, c.op \in NoOperand PROVE c.op # "MARK_SECT" /\ SafeToWipe(flash, c, fitting)
    BY <2>3 DEF SafeToWipe, NoOperand
  <2> QED BY <2>1, <2>2, <2>3 DEF PagesInv
<1>2. CASE ReadOperands \/ ReadPayload
  <2>1. /\ SafeToWipe(flash, dcmd, fitting) /\ MemOK(flash.mem, fitting) /\ flash' = flash
        /\ (Serve \/ dst' \in {"gone", "opcode"})
    BY <1>2 DEF ReadOperands, ReadPayload, PagesInv, NextCommand
  <2>2. CASE dst' \in {"gone", "opcode"}
    BY <2>1, <2>2 DEF PagesInv
  <2>3. CASE Serve /\ dcmd.op = "MARK_SECT"
    <3>1. SafeToStamp(flash, dcmd, fitting)
      BY <2>1, <2>3 DEF SafeToWipe, SafeToStamp
    <3> QED BY <2>1, <2>3, <3>1 DEF Serve, PagesInv
  <2>4. CASE Serve /\ dcmd.op # "MARK_SECT"
    BY <2>1, <2>4 DEF Serve, PagesInv
  <2> QED BY <2>1, <2>2, <2>3, <2>4
<1>3. CASE AnswerData
  BY <1>3 DEF AnswerData, NextCommand, PagesInv
<1>4. CASE WipeStep
  <2>1. /\ dcmd \in Cmd /\ flash \in Flash /\ fitting \in BOOLEAN /\ flash' = Wipe(flash, dcmd)
        /\ dst' = "opcode" \/ (dst' = "burn" /\ dcmd' = dcmd)
    BY <1>4 DEF WipeStep, NextCommand, IInv, TypeOK, InStep, Busy
  <2>2. dcmd.op # "MARK_SECT" /\ SafeToWipe(flash, dcmd, fitting) /\ MemOK(flash.mem, fitting)
    BY <1>4 DEF WipeStep, PagesInv
  <2>3. MemOK(Wipe(flash, dcmd).mem, fitting) /\ SafeToBurn(Wipe(flash, dcmd), dcmd, fitting)
    BY <2>1, <2>2, WipeSafe
  <2> QED BY <2>1, <2>3 DEF PagesInv
<1>5. CASE BurnStep
  <2>1. /\ dcmd \in Cmd /\ flash \in Flash /\ fitting \in BOOLEAN /\ flash' = Burn(flash, dcmd)
        /\ dst' = "stamp" /\ dcmd' = dcmd
    BY <1>5 DEF BurnStep, IInv, TypeOK, InStep, Busy
  <2>2. SafeToBurn(flash, dcmd, fitting) /\ MemOK(flash.mem, fitting)
    BY <1>5 DEF BurnStep, PagesInv
  <2>3. MemOK(Burn(flash, dcmd).mem, fitting) /\ SafeToStamp(Burn(flash, dcmd), dcmd, fitting)
    BY <2>1, <2>2, BurnSafe
  <2> QED BY <2>1, <2>3 DEF PagesInv
<1>6. CASE StampStep
  <2>1. /\ dcmd \in Cmd /\ flash \in Flash /\ fitting \in BOOLEAN /\ flash' = Stamp(flash, dcmd)
        /\ dst' = "opcode"
    BY <1>6 DEF StampStep, NextCommand, IInv, TypeOK, InStep, Busy
  <2>2. SafeToStamp(flash, dcmd, fitting) /\ MemOK(flash.mem, fitting)
    BY <1>6 DEF StampStep, PagesInv
  <2>3. MemOK(Stamp(flash, dcmd).mem, fitting)
    BY <2>1, <2>2, StampSafe
  <2> QED BY <2>1, <2>3 DEF PagesInv
<1> QED BY <1>1, <1>2, <1>3, <1>4, <1>5, <1>6 DEF DeviceStep

\* Every step of a session keeps the pages, in the middle of a command and
\* through power cuts, hangups and new sessions.
LEMMA NextPages ==
  ASSUME \A j \in Jobs : Planned(j) /\ Sectors(j), IInv, DeliveryInv, FitsInv, PagesInv,
         Undisturbed, [Next]_vars
  PROVE  PagesInv'
<1>1. ASSUME UNCHANGED <<devVars, fitting>>, h2d' = h2d \/ h2d' = <<>> \/ h2d # <<>> PROVE PagesInv'
  BY <1>1 DEF PagesInv, devVars
<1>2. CASE Host
  <2>1. CASE SendOperands
    BY <1>2, <2>1, SendOperandsPages DEF Host
  <2>2. CASE SendOpcode
    <3>1. hst = "issue" /\ UNCHANGED <<devVars, fitting>>
      BY <1>2, <2>2 DEF SendOpcode, Host, HostAlone
    <3>2. CASE link = "down"
      <4>1. h2d' = h2d
        BY <2>2, <3>2 DEF SendOpcode, HostSends
      <4> QED BY <1>1, <3>1, <4>1
    <3>3. CASE link = "up"
      <4>1. Connected /\ dst = "operands" => h2d # <<>>
        <5>1. Connected => AtRest
          BY <3>1 DEF IInv, InStep, Synced
        <5>2. AtRest /\ dst = "operands" => Len(h2d) = 1
          BY DEF AtRest, Settling, Busy
        <5>3. h2d = <<>> => Len(h2d) # 1
          OBVIOUS
        <5> QED BY <5>1, <5>2, <5>3
      <4>2. dst = "operands" => Connected
        BY <3>1, <3>3 DEF Connected
      <4> QED BY <1>1, <3>1, <4>1, <4>2 DEF PagesInv, devVars
    <3> QED BY <3>2, <3>3 DEF IInv, TypeOK
  <2>3. CASE ReadStatus \/ WriteFails \/ ReadAck \/ ReadEot \/ ReadData \/ StageDone \/ JobDone \/ BackToMenu
    <3>1. h2d' = h2d /\ UNCHANGED <<devVars, fitting>>
      BY <1>2, <2>3 DEF Host, HostAlone, ReadStatus, WriteFails, ReadAck, ReadEot, ReadData, StageDone,
         JobDone, BackToMenu, wire
    <3> QED BY <1>1, <3>1
  <2> QED BY <1>2, <2>1, <2>2, <2>3 DEF Host, HostStep
<1>3. CASE Device
  BY <1>3, DevicePages DEF Device, DeviceAlone
<1>4. CASE NoiseToDevice
  <2>1. UNCHANGED <<devVars, fitting>> /\ h2d # <<>>
    BY <1>4 DEF NoiseToDevice
  <2> QED BY <1>1, <2>1
<1>5. CASE User \/ NoiseToHost \/ Hangup \/ UNCHANGED vars
  <2>1. UNCHANGED <<devVars, fitting>> /\ (h2d' = h2d \/ h2d' = <<>>)
    BY <1>5 DEF User, StopLocally, Quit, HostAlone, NoiseToHost, Hangup, vars, wire
  <2> QED BY <1>1, <2>1
<1>6. CASE PowerCut \/ Restart
  <2>1. dst' \in {"gone", "opcode"} /\ flash'.mem = flash.mem /\ fitting' = fitting
    BY <1>6 DEF PowerCut, Restart, PowerOn, IInv, TypeOK, Flash
  <2> QED BY <2>1 DEF PagesInv
<1>7. CASE Start
  <2>1. UNCHANGED devVars /\ h2d' = h2d /\ fitting \in BOOLEAN
    BY <1>7 DEF Start, StartJob, wire, IInv, TypeOK
  <2>2. fitting' = fitting \/ fitting' = FALSE
    BY <1>7, <2>1 DEF Start
  <2>3. CASE fitting' = fitting
    BY <1>1, <2>1, <2>3
  <2>4. CASE fitting' = FALSE
    BY <2>1, <2>4, NeedNotBeWhole DEF PagesInv, devVars
  <2> QED BY <2>2, <2>3, <2>4
<1> QED BY <1>2, <1>3, <1>4, <1>5, <1>6, <1>7 DEF Next

\* A phone starts with pages as they may be.
LEMMA InitPages ==
  ASSUME \A mem \in Contents : MemOK(mem, TRUE), Init
  PROVE  FitsInv /\ PagesInv
<1>1. PICK mem \in Contents : flash.mem = mem
  BY DEF Init, PreloaderInit
<1>2. dst = "opcode" /\ job = NoJob /\ fitting = TRUE
  BY DEF Init, PreloaderInit, HostInit
<1> QED BY <1>1, <1>2 DEF PagesInv, FitsInv

\* What that means for the pages.
LEMMA PagesThen ==
  ASSUME IInv, PagesInv
  PROVE  NoMixedPage /\ MarkedIsWritten
<1>1. MemOK(flash.mem, fitting)
  BY DEF PagesInv
<1>2. NoMixedPage
  BY <1>1 DEF NoMixedPage, MemOK, PageOK
<1>3. MarkedIsWritten
  BY <1>1, AreaIsBlocks DEF MarkedIsWritten, MemOK, PageOK
<1> QED BY <1>2, <1>3

-----------------------------------------------------------------------------
(* When nothing disturbs the order of a .csc.                              *)

\* The host goes on only past a stage whose failure it ignores, and leaves no
\* mark out.
StageGivenUp == \E i \in 1 .. si - 1 : i <= Len(job) /\ job[i].name \in Ignored
Persists == /\ hst \notin {"back", "menu", "closed"} /\ failed # {} => StageGivenUp
            /\ Connected => skipped = {}

\* A stage further there are more stages behind.
LEMMA BehindGrows ==
  ASSUME TypeOK, job' = job
  PROVE  /\ si' = si \/ si' = si + 1 => (StageGivenUp => StageGivenUp')
         /\ si' = si + 1 /\ si <= Len(job) /\ Name \in Ignored => StageGivenUp'
<1>1. si \in Nat
  BY DEF TypeOK
<1>2. si' = si \/ si' = si + 1 => 1 .. si - 1 \subseteq 1 .. si' - 1
  BY <1>1
<1>3. si' = si + 1 => si \in 1 .. si' - 1
  BY <1>1 DEF TypeOK
<1>4. ASSUME si' = si + 1, si <= Len(job), Name \in Ignored PROVE StageGivenUp'
  BY <1>3, <1>4 DEF StageGivenUp, Name
<1>5. ASSUME si' = si \/ si' = si + 1, StageGivenUp PROVE StageGivenUp'
  BY <1>2, <1>5 DEF StageGivenUp
<1> QED BY <1>4, <1>5

\* Without damaged opcodes a mark is never refused: the host leaves none out.
LEMMA NoneSkipped ==
  ASSUME IInv, Clear, [Next]_vars, Connected, Connected', skipped = {}
  PROVE  skipped' = {}
<1> SUFFICES ASSUME skipped' # {} PROVE FALSE
  OBVIOUS
<1>1. d2h \in Seq(Replies) /\ link = "up"
  BY DEF IInv, TypeOK, Connected
<1>2. ~(User \/ Start \/ Device \/ NoiseToDevice \/ NoiseToHost \/ Hangup \/ PowerCut \/ Restart
        \/ UNCHANGED vars)
  BY DEF User, StopLocally, GiveUp, NextStage, Quit, EndJob, Start, StartJob, Device, DeviceAlone,
     NoiseToDevice, NoiseToHost, Hangup, PowerCut, Restart, hostVars, vars
<1>3. Host
  BY <1>2 DEF Next
<1>4. Skip /\ Cur.op = "MARK_SECT" /\ (ReadStatus \/ WriteFails \/ ReadAck \/ ReadEot \/ ReadData)
  BY <1>3 DEF Host, HostStep, SendOpcode, SendOperands, ReadStatus, WriteFails, ReadAck, ReadEot, ReadData,
     StageDone, JobDone, BackToMenu, Proceed, EndJob, NextStage, Fail, GiveUp
<1>5. ~WriteFails
  BY <1>1 DEF WriteFails
<1>6. ~(ReadAck \/ ReadEot \/ ReadData)
  <2>1. ReadAck \/ ReadEot \/ ReadData => AckOf(Cur) \/ EotOf(Cur) \/ DataOfRead(Cur)
    BY DEF ReadAck, ReadEot, ReadData, IInv, InStep, Synced
  <2> QED BY <1>4, <2>1 DEF AckOf, EotOf, DataOfRead, Checked, Completed, Reading
<1>7. ~ReadStatus
  <2> SUFFICES ASSUME ReadStatus PROVE FALSE
    OBVIOUS
  <2>1. StatusOf(Cur) /\ Cur.op \notin NoOperand
    BY <1>4 DEF ReadStatus, IInv, InStep, Synced, NoOperand
  <2>2. PICK t \in Replies : HostReads(t) /\ t # "VALID"
    <3>1. ~Proceed(IF Cur.op \in Bare THEN AwaitAfter(Cur.op) ELSE "operands")
      BY DEF Proceed
    <3> QED BY <3>1 DEF ReadStatus
  <2>3. d2h # <<>> /\ t = Head(d2h)
    BY <1>1, <2>2 DEF HostReads
  <2>4. d2h = <<"INVALID">> \/ d2h = <<"VALID">>
    BY <2>1, <2>3 DEF StatusOf
  <2>5. d2h = <<"INVALID">>
    BY <2>2, <2>3, <2>4
  <2> QED BY <2>5 DEF Clear
<1> QED BY <1>4, <1>5, <1>6, <1>7

\* A host that goes on after it has given a stage up is past that stage.
LEMMA NextPersists ==
  ASSUME IInv, Clear, [Next]_vars, Persists
  PROVE  Persists'
<1>1. ASSUME Connected' PROVE skipped' = {}
  <2>1. CASE Connected
    BY <1>1, <2>1, NoneSkipped DEF Persists
  <2>2. CASE ~Connected
    BY <1>1, <2>2, Reconnected DEF Restart
  <2> QED BY <2>1, <2>2
<1> SUFFICES ASSUME hst' \notin {"back", "menu", "closed"}, failed' # {} PROVE StageGivenUp'
  BY <1>1 DEF Persists
<1>2. TypeOK
  BY DEF IInv
<1>3. ASSUME job' = job, si' = si, failed' = failed, hst \notin {"back", "menu", "closed"}
      PROVE  StageGivenUp'
  BY <1>2, <1>3, BehindGrows DEF Persists
<1>4. ASSUME GiveUp, si <= Len(job) PROVE StageGivenUp'
  <2>1. Name \in Ignored /\ job' = job /\ si' = si + 1
    BY <1>4 DEF GiveUp, EndJob, NextStage
  <2> QED BY <1>2, <1>4, <2>1, BehindGrows
<1>5. ASSUME NEW st, Proceed(st), hst \notin {"back", "menu", "closed"} PROVE StageGivenUp'
  BY <1>3, <1>5 DEF Proceed
<1>6. ASSUME Fail, InStage, hst \notin {"back", "menu", "closed"} PROVE StageGivenUp'
  BY <1>3, <1>4, <1>6 DEF Fail, Skip, InStage
<1>7. CASE Host
  <2>1. CASE SendOpcode \/ ReadStatus \/ SendOperands \/ ReadAck \/ ReadEot \/ ReadData
    <3>1. hst \in {"issue", "operands", "status", "ack", "eot", "data"} /\ InStage
      BY <2>1 DEF SendOpcode, ReadStatus, SendOperands, ReadAck, ReadEot, ReadData, IInv, InStep
    <3> QED BY <1>5, <1>6, <2>1, <3>1 DEF SendOpcode, ReadStatus, SendOperands, ReadAck, ReadEot, ReadData
  <2>2. CASE WriteFails
    BY <1>6, <2>2 DEF WriteFails, EndJob, IInv, InStep
  <2>3. CASE StageDone
    <3>1. job' = job /\ si' = si + 1 /\ failed' = failed /\ hst = "issue"
      BY <2>3 DEF StageDone, NextStage
    <3>2. StageGivenUp
      BY <3>1 DEF Persists
    <3> QED BY <1>2, <3>1, <3>2, BehindGrows
  <2>4. CASE JobDone \/ BackToMenu
    BY <2>4 DEF JobDone, BackToMenu, EndJob
  <2> QED BY <1>7, <2>1, <2>2, <2>3, <2>4 DEF Host, HostStep
<1>8. CASE User
  BY <1>4, <1>8 DEF User, StopLocally, MayStop, Quit, EndJob
<1>9. CASE Start \/ Restart
  BY <1>9 DEF Start, StartJob, Restart
<1>10. CASE Device \/ NoiseToDevice \/ NoiseToHost \/ Hangup \/ PowerCut \/ UNCHANGED vars
  <2>1. UNCHANGED hostVars
    BY <1>10 DEF Device, DeviceAlone, NoiseToDevice, NoiseToHost, Hangup, PowerCut, vars
  <2> QED BY <1>3, <2>1 DEF hostVars
<1> QED BY <1>7, <1>8, <1>9, <1>10 DEF Next

\* So no sector is written out of the order it was planned in.
LEMMA PersistsThen ==
  ASSUME \A j \in Jobs : Unshielded(j), IInv, Persists
  PROVE  Undisturbed
<1> SUFFICES ASSUME Connected, hst = "operands", Cur.op \in Overwriting PROVE failed = {}
  BY DEF Undisturbed, Persists
<1>1. job \in Jobs /\ job \in Seq(Stage) /\ InStage /\ si \in Nat \ {0} /\ ci \in Nat \ {0}
  BY JobsAssumption DEF IInv, InStep, TypeOK
<1>2. si \in DOMAIN job /\ ci \in DOMAIN job[si].cmds
  <2>1. si \in 1 .. Len(job) /\ DOMAIN job = 1 .. Len(job)
    BY <1>1, JobType DEF InStage
  <2>2. ci \in 1 .. Len(job[si].cmds)
    BY <1>1, <2>1, JobType DEF InStage
  <2> QED BY <1>1, <2>1, <2>2, JobType
<1>3. \A n \in 1 .. si - 1 : job[n].name \notin Ignored
  BY <1>1, <1>2 DEF Unshielded, Cur
<1>4. ~StageGivenUp
  BY <1>3 DEF StageGivenUp
<1> QED BY <1>4 DEF Persists

\* While no opcode is damaged, every sector of such a job goes out in the order
\* it was planned in, whatever else is stopped, refused or cut off.
LEMMA NeverDisturbed ==
  ASSUME "opcode" \notin Faults, \A j \in Jobs : Unshielded(j)
  PROVE  Spec => []Undisturbed
<1>1. Init => Clear /\ Persists
  BY DEF Init, HostInit, WireInit, Clear, Persists
<1>2. IInv /\ Clear /\ Persists /\ [Next]_vars => Clear' /\ Persists'
  BY NextClear, NextPersists
<1>3. IInv /\ Persists => Undisturbed
  BY PersistsThen
<1> QED BY <1>1, <1>2, <1>3, SessionInvariant, PTL DEF Spec

-----------------------------------------------------------------------------
\* What the pages may be said to be, for as long as the host sends nothing that
\* overwrites behind a stage it gave up or a mark it left out: what is marked is
\* written, and no page mixes two contents before a job that does not fit.
THEOREM PagesWhole ==
  ASSUME \A j \in Jobs : Planned(j) /\ Sectors(j), \A mem \in Contents : MemOK(mem, TRUE)
  PROVE  Spec /\ []Undisturbed => [](NoMixedPage /\ MarkedIsWritten)
<1>1. Init => DeliveryInv /\ FitsInv /\ PagesInv
  BY InitDelivers, InitPages
<1>2. IInv /\ DeliveryInv /\ FitsInv /\ PagesInv /\ Undisturbed /\ [Next]_vars
        => DeliveryInv' /\ FitsInv' /\ PagesInv'
  BY NextDelivers, NextFits, NextPages
<1>3. IInv /\ PagesInv => NoMixedPage /\ MarkedIsWritten
  BY PagesThen
<1> QED BY <1>1, <1>2, <1>3, SessionInvariant, PTL DEF Spec

\* As long as every job fitted the flash it found, no page holds the bits of two
\* contents, in the middle of a command or after a power cut either.  Nothing
\* says that a job fits: of a .csc behind one that was cut short, or into an
\* area where an image or an erase has been, the theorem claims nothing.
THEOREM NeverMixed ==
  ASSUME "opcode" \notin Faults, \A mem \in Contents : MemOK(mem, TRUE),
         \A j \in Jobs : Planned(j) /\ Sectors(j) /\ Unshielded(j)
  PROVE  Spec => []NoMixedPage
<1>1. Spec => []Undisturbed
  BY NeverDisturbed
<1>2. Spec /\ []Undisturbed => [](NoMixedPage /\ MarkedIsWritten)
  BY PagesWhole
<1> QED BY <1>1, <1>2, PTL

\* However a write is cut short, and whether or not a job fitted, a sector of
\* the area that is marked, as in use or as control, is not blank.
THEOREM MarkedAreWritten ==
  ASSUME "opcode" \notin Faults, \A mem \in Contents : MemOK(mem, TRUE),
         \A j \in Jobs : Planned(j) /\ Sectors(j) /\ Unshielded(j)
  PROVE  Spec => []MarkedIsWritten
<1>1. Spec => []Undisturbed
  BY NeverDisturbed
<1>2. Spec /\ []Undisturbed => [](NoMixedPage /\ MarkedIsWritten)
  BY PagesWhole
<1> QED BY <1>1, <1>2, PTL

-----------------------------------------------------------------------------
(* The control sectors of a .csc.                                          *)

\* Command c writes the control sector at slot s of block b, or drops it.
WritesCtrl(c, b, s) == c.op = "SECT_WRITE" /\ c.blk = b /\ s \in DOMAIN c.put /\ c.put[s].mark = 240
DropsCtrl(c, b, s) == c.op = "MARK_SECT" /\ c.blk = b /\ s \in DOMAIN c.put /\ c.put[s].mark = 0

WrittenBy(j, b, s) == \E i \in DOMAIN j : \E k \in DOMAIN j[i].cmds : WritesCtrl(j[i].cmds[k], b, s)

\* The control sectors in mem are ones that job j writes, and ones that stage i
\* drops with its k-th command or a later one.
CtrlBy(mem, j, i, k) ==
  \A b \in TfsBlocks, s \in Slots : mem[b][s].mark = 240 =>
    \/ WrittenBy(j, b, s)
    \/ i <= Len(j) /\ \E n \in k .. Len(j[i].cmds) : DropsCtrl(j[i].cmds[n], b, s)
OwnCtrl(mem, j) == \A b \in TfsBlocks, s \in Slots : mem[b][s].mark = 240 => WrittenBy(j, b, s)

\* patch_start finds every control sector there is, and drops it unless it is
\* written anew: what the commands of the .csc were made from is still so when
\* the host comes to the first of them.
CtrlRead == Connected /\ hst = "issue" /\ si <= Len(job) /\ Name = "csc" /\ ci = 1 =>
              CtrlBy(Settled.mem, job, si, 1)

\* A page is marked as control after a command if it was and is not dropped,
\* or if the command marks it so.
LEMMA CtrlAfter ==
  ASSUME NEW f \in Flash, NEW c \in Cmd, c.op # "BLK_PROGRAM", NEW b \in Blocks, NEW s \in Slots,
         Apply(f, c).mem[b][s].mark = 240
  PROVE  \/ f.mem[b][s].mark = 240 /\ ~DropsCtrl(c, b, s)
         \/ WritesCtrl(c, b, s)
         \/ c.op = "MARK_SECT" /\ s \in DOMAIN c.put /\ c.put[s].mark = 240
<1> DEFINE w == Wipe(f, c)
           u == Burn(w, c)
           z == Stamp(u, c)
<1>1. z.mem[b][s].mark = 240
  BY DEF Apply
<1>2. w \in Flash /\ u \in Flash
  BY PhaseTypes
<1>3. w.mem[b][s].mark = 240 => f.mem[b][s].mark = 240
  <2>1. w.mem[b] \in {f.mem[b], BlankBlock} /\ BlankBlock[s].mark = 255
    BY WipePages, PartsAre DEF Blank
  <2> HIDE DEF w
  <2> QED BY <2>1
<1>4. u.mem[b][s].mark = 240 => w.mem[b][s].mark = 240
  <2> HIDE DEF w
  <2>1. CASE c.op # "SECT_WRITE"
    <3>1. u = w
      BY <2>1 DEF Burn
    <3> QED BY <3>1
  <2>2. CASE c.op = "SECT_WRITE"
    <3> DEFINE open == [w.prot EXCEPT ![c.blk] = FALSE]
               data == DataOf(c.put)
    <3>1. /\ w.mem \in MemVal /\ w.prot \in ProtVal /\ c.blk \in Blocks /\ c.put \in Puts
          /\ DOMAIN c.put \subseteq Slots /\ \A x \in DOMAIN c.put : c.put[x] \in PageVal
          /\ w.mem[b][s] \in PageVal
      BY <1>2, PartsAre
    <3>2. u.mem = ProgramPages(w.mem, open, c.blk, data) /\ ~open[c.blk]
      BY <2>2, <3>1 DEF Burn, ProtVal
    <3>3. DOMAIN data = DOMAIN c.put /\ \A x \in DOMAIN c.put : data[x].mark = 255
      BY <3>1 DEF DataOf, PageVal
    <3>4. data \in Puts
      <4>1. \A x \in DOMAIN c.put : data[x] \in PageVal
        BY <3>1 DEF DataOf, PageVal, Marks
      <4>2. data = [x \in DOMAIN c.put |-> data[x]]
        BY DEF DataOf
      <4> HIDE DEF data
      <4>3. data \in [DOMAIN c.put -> PageVal]
        BY <4>1, <4>2
      <4> QED BY <3>1, <4>3 DEF Puts
    <3> HIDE DEF open, data, u
    <3>5. CASE b # c.blk \/ s \notin DOMAIN c.put
      <4>1. u.mem[b][s] = w.mem[b][s]
        BY <3>1, <3>2, <3>3, <3>4, <3>5, ProgramsIs
      <4> QED BY <4>1
    <3>6. CASE b = c.blk /\ s \in DOMAIN c.put
      <4>1. u.mem[b][s] = BurnPage(w.mem[b][s], data[s])
        BY <3>1, <3>2, <3>3, <3>4, <3>6, ProgramsIs
      <4>2. u.mem[b][s].mark = AndMark(w.mem[b][s].mark, 255)
        BY <3>3, <3>6, <4>1 DEF BurnPage
      <4>3. w.mem[b][s].mark \in Marks
        BY <3>1 DEF PageVal
      <4> QED BY <4>2, <4>3, AndFacts
    <3> QED BY <3>5, <3>6
  <2> QED BY <2>1, <2>2
<1> HIDE DEF w, u
<1>5. CASE c.op \in Overwriting /\ b = c.blk /\ s \in DOMAIN c.put
  <2> DEFINE open == [u.prot EXCEPT ![c.blk] = FALSE]
  <2>1. /\ u.mem \in MemVal /\ u.prot \in ProtVal /\ c.blk \in Blocks /\ c.put \in Puts
    BY <1>2, PartsAre
  <2>2. z.mem = ProgramPages(u.mem, open, c.blk, c.put) /\ ~open[c.blk]
    BY <1>5, <2>1 DEF Stamp, ProtVal, Overwriting
  <2> HIDE DEF open, z
  <2>3. z.mem[b][s] = BurnPage(u.mem[b][s], c.put[s])
    BY <1>5, <2>1, <2>2, ProgramsIs
  <2>4. AndMark(u.mem[b][s].mark, c.put[s].mark) = 240
    BY <1>1, <2>3 DEF BurnPage, z
  <2>5. c.put[s].mark # 0 /\ (c.put[s].mark = 240 \/ u.mem[b][s].mark = 240)
    BY <2>4 DEF AndMark
  <2> QED BY <1>3, <1>4, <1>5, <2>5 DEF WritesCtrl, DropsCtrl, Overwriting
<1>6. CASE ~(c.op \in Overwriting /\ b = c.blk /\ s \in DOMAIN c.put)
  <2>1. z.mem[b][s] = u.mem[b][s]
    <3>1. CASE c.op \notin Overwriting
      BY <3>1 DEF Stamp, Overwriting
    <3>2. CASE c.op \in Overwriting
      <4> DEFINE open == [u.prot EXCEPT ![c.blk] = FALSE]
                 mem == u.mem
                 put == c.put
                 a == c.blk
      <4>1. mem \in MemVal /\ a \in Blocks /\ put \in Puts /\ ~open[a]
        BY <1>2, PartsAre DEF ProtVal
      <4>2. z.mem = ProgramPages(mem, open, a, put)
        BY <3>2 DEF Stamp, Overwriting
      <4>3. b # a \/ s \notin DOMAIN put
        BY <1>6, <3>2
      <4> HIDE DEF open, mem, put, a, z
      <4>4. ProgramPages(mem, open, a, put)[b][s] = mem[b][s]
        BY <4>1, <4>3, ProgramsIs
      <4> QED BY <4>2, <4>4 DEF mem
    <3> QED BY <3>1, <3>2
  <2>2. ~DropsCtrl(c, b, s)
    BY <1>6 DEF DropsCtrl, Overwriting
  <2> QED BY <1>1, <1>3, <1>4, <2>1, <2>2
<1> QED BY <1>5, <1>6

\* Once a command of the .csc is done the sectors marked as control are still
\* ones that the job writes, or that a later command drops.
LEMMA CtrlStep ==
  ASSUME NEW j \in Seq(Stage), Planned(j), ImageFirst(j), NEW f \in Flash,
         NEW i \in 1 .. Len(j), NEW k \in 1 .. Len(j[i].cmds), \E n \in 1 .. i : j[n].name = "csc"
  PROVE  /\ CtrlBy(f.mem, j, i, k) => CtrlBy(Apply(f, j[i].cmds[k]).mem, j, i, k + 1)
         /\ OwnCtrl(f.mem, j) => OwnCtrl(Apply(f, j[i].cmds[k]).mem, j)
<1> DEFINE c == j[i].cmds[k]
<1>1. /\ c \in Cmd /\ i \in DOMAIN j /\ k \in DOMAIN j[i].cmds /\ i <= Len(j)
      /\ Len(j) \in Nat /\ Len(j[i].cmds) \in Nat
  BY JobType
<1>2. c.op # "BLK_PROGRAM"
  BY <1>1 DEF ImageFirst
<1>3. Prepared(j, i, k)
  BY <1>1 DEF Planned
<1>4. ASSUME NEW b \in TfsBlocks, NEW s \in Slots, Apply(f, c).mem[b][s].mark = 240
      PROVE  (f.mem[b][s].mark = 240 /\ ~DropsCtrl(c, b, s)) \/ WrittenBy(j, b, s)
  <2>1. b \in Blocks
    BY AreaIsBlocks
  <2>2. ~(c.op = "MARK_SECT" /\ s \in DOMAIN c.put /\ c.put[s].mark = 240)
    BY <1>3 DEF Prepared
  <2>3. WritesCtrl(c, b, s) => WrittenBy(j, b, s)
    BY <1>1 DEF WrittenBy
  <2> HIDE DEF c
  <2> QED BY <1>1, <1>2, <1>4, <2>1, <2>2, <2>3, CtrlAfter
<1> DEFINE after == Apply(f, c).mem
<1>5. ASSUME OwnCtrl(f.mem, j) PROVE OwnCtrl(after, j)
  BY <1>4, <1>5 DEF OwnCtrl
<1>6. ASSUME CtrlBy(f.mem, j, i, k) PROVE CtrlBy(after, j, i, k + 1)
  <2> SUFFICES ASSUME NEW b \in TfsBlocks, NEW s \in Slots, after[b][s].mark = 240, ~WrittenBy(j, b, s)
               PROVE  \E n \in k + 1 .. Len(j[i].cmds) : DropsCtrl(j[i].cmds[n], b, s)
    BY <1>1 DEF CtrlBy
  <2>1. f.mem[b][s].mark = 240 /\ ~DropsCtrl(c, b, s)
    BY <1>4
  <2>2. PICK n \in k .. Len(j[i].cmds) : DropsCtrl(j[i].cmds[n], b, s)
    BY <1>6, <2>1 DEF CtrlBy
  <2>3. n # k
    BY <2>1, <2>2
  <2>4. n \in k + 1 .. Len(j[i].cmds)
    BY <1>1, <2>3
  <2> QED BY <2>2, <2>4
<1> QED BY <1>5, <1>6

\* While the host is at a .csc, and once it has reported one.
CtrlKept(g) ==
  job # NoJob =>
    /\ InPlan(job, si, ci)
    /\ si <= Len(job) /\ Name = "csc" /\ ~(hst = "issue" /\ ci = 1) => CtrlBy(g.mem, job, si, ci)
    /\ "csc" \in told => /\ OwnCtrl(g.mem, job)
                         /\ \E i \in 1 .. si - 1 : i <= Len(job) /\ job[i].name = "csc"

CtrlInv == Connected => \E g \in Flash : Behind(g) /\ CtrlKept(g)

\* However a step moves the host and the flash behind it.
LEMMA MovesCtrl ==
  ASSUME \A j \in Jobs : Planned(j) /\ ImageFirst(j), TypeOK, Connected, CtrlRead,
         NEW g \in Flash, NEW h \in Flash, Behind(g), CtrlKept(g), Moves(g, h), skipped' = {}
  PROVE  CtrlKept(h)'
<1>1. /\ Jobs \subseteq Seq(Stage) /\ NoJob \notin Jobs
      /\ si \in Nat \ {0} /\ ci \in Nat \ {0} /\ (job # NoJob => job \in Jobs) /\ base \in MemVal
  BY JobsAssumption DEF TypeOK
<1>2. ASSUME job # NoJob, si <= Len(job), Name = "csc" PROVE CtrlBy(g.mem, job, si, ci)
  <2>1. CASE hst = "issue" /\ ci = 1
    <3>1. Settled = g
      BY <2>1, BehindAtRest
    <3> QED BY <1>2, <2>1, <3>1 DEF CtrlRead
  <2>2. CASE ~(hst = "issue" /\ ci = 1)
    BY <1>2, <2>2 DEF CtrlKept
  <2> QED BY <2>1, <2>2
<1>3. CASE h = g /\ UNCHANGED <<job, si, ci, told, failed, skipped, base>>
  BY <1>2, <1>3 DEF CtrlKept, Name
<1>4. CASE /\ InStage /\ h = Apply(g, Cur)
           /\ ci' = ci + 1 /\ UNCHANGED <<job, si, told, failed, skipped, base>>
  <2> SUFFICES ASSUME job # NoJob PROVE CtrlKept(h)'
    BY <1>4 DEF CtrlKept
  <2>1. /\ job \in Seq(Stage) /\ Planned(job) /\ ImageFirst(job) /\ Len(job) \in Nat /\ si \in 1 .. Len(job)
    BY <1>1, <1>4, JobType DEF InStage
  <2>2. ci \in 1 .. Len(job[si].cmds) /\ Len(job[si].cmds) \in Nat
    BY <1>1, <1>4, <2>1, JobType DEF InStage
  <2>3. InPlan(job, si, ci + 1)
    BY <2>1, <2>2 DEF InPlan
  <2>4. Name = "csc" => CtrlBy(h.mem, job, si, ci + 1)
    <3> SUFFICES ASSUME Name = "csc" PROVE CtrlBy(h.mem, job, si, ci + 1)
      OBVIOUS
    <3>1. CtrlBy(g.mem, job, si, ci)
      BY <1>2, <2>1
    <3>2. \E n \in 1 .. si : job[n].name = "csc"
      BY <2>1 DEF Name
    <3>3. CtrlBy(Apply(g, job[si].cmds[ci]).mem, job, si, ci + 1)
      BY <2>1, <2>2, <3>1, <3>2, CtrlStep
    <3> QED BY <1>4, <3>3 DEF Cur
  <2>5. "csc" \in told => /\ OwnCtrl(h.mem, job)
                          /\ \E i \in 1 .. si - 1 : i <= Len(job) /\ job[i].name = "csc"
    <3> SUFFICES ASSUME "csc" \in told
                 PROVE  /\ OwnCtrl(h.mem, job)
                        /\ \E i \in 1 .. si - 1 : i <= Len(job) /\ job[i].name = "csc"
      OBVIOUS
    <3>1. PICK n \in 1 .. si - 1 : n <= Len(job) /\ job[n].name = "csc"
      BY DEF CtrlKept
    <3>2. OwnCtrl(g.mem, job)
      BY DEF CtrlKept
    <3>3. n \in 1 .. si
      BY <1>1
    <3>4. \E m \in 1 .. si : job[m].name = "csc"
      BY <3>1, <3>3
    <3>5. OwnCtrl(Apply(g, job[si].cmds[ci]).mem, job)
      BY <2>1, <2>2, <3>2, <3>4, CtrlStep
    <3> QED BY <1>4, <3>1, <3>5 DEF Cur
  <2> QED BY <1>4, <2>3, <2>4, <2>5 DEF CtrlKept, Name
<1>5. CASE h = g /\ InStage /\ Cur.op = "MARK_SECT" /\ Skip /\ UNCHANGED base
  BY <1>5 DEF Skip
<1>6. CASE h = g /\ job # NoJob /\ si <= Len(job) /\ GiveUp /\ UNCHANGED base
  <2>1. job \in Seq(Stage) /\ si \in 1 .. Len(job)
    BY <1>1, <1>6, JobType
  <2>2. InPlan(job, si + 1, 1) /\ InPlan(job, si, ci)
    BY <1>1, <1>6, <2>1, RightNextStage DEF CtrlKept
  <2>3. CASE Name \in Ignored
    <3>1. job' = job /\ told' = told /\ si' = si + 1 /\ ci' = 1 /\ hst' = "issue"
      BY <1>6, <2>3 DEF GiveUp, NextStage
    <3>2. 1 .. si - 1 \subseteq 1 .. si' - 1
      BY <1>1, <3>1
    <3> QED BY <1>6, <2>2, <3>1, <3>2 DEF CtrlKept
  <2>4. CASE Name \notin Ignored
    <3>1. job' = job /\ told' = told /\ si' = si /\ ci' = ci
      BY <1>6, <2>4 DEF GiveUp, EndJob
    <3>2. Name # "csc" /\ Name' = Name
      BY <2>4, <3>1 DEF Ignored, Name
    <3> QED BY <1>6, <2>2, <3>1, <3>2 DEF CtrlKept
  <2> QED BY <2>3, <2>4
<1>7. CASE h = g /\ job # NoJob /\ StageDone /\ UNCHANGED base
  <2>1. /\ job' = job /\ si' = si + 1 /\ ci' = 1 /\ hst' = "issue" /\ told' = told \cup {Name}
        /\ si <= Len(job) /\ ci > Len(job[si].cmds)
    BY <1>7 DEF StageDone, NextStage
  <2>2. job \in Seq(Stage) /\ si \in 1 .. Len(job) /\ Len(job[si].cmds) \in Nat
    BY <1>1, <1>7, <2>1, JobType
  <2>3. InPlan(job, si + 1, 1)
    BY <1>1, <2>2, RightNextStage
  <2>4. CASE Name = "csc"
    <3>1. CtrlBy(g.mem, job, si, ci)
      BY <1>2, <1>7, <2>1, <2>4
    <3>2. OwnCtrl(g.mem, job)
      <4>1. \A n \in ci .. Len(job[si].cmds) : FALSE
        BY <1>1, <2>1, <2>2
      <4> QED BY <3>1, <4>1 DEF CtrlBy, OwnCtrl
    <3>3. si \in 1 .. si' - 1 /\ job[si].name = "csc"
      BY <1>1, <2>1, <2>4 DEF Name
    <3> QED BY <1>7, <2>1, <2>3, <3>2, <3>3 DEF CtrlKept
  <2>5. CASE Name # "csc"
    <3>1. 1 .. si - 1 \subseteq 1 .. si' - 1
      BY <1>1, <2>1
    <3> QED BY <1>7, <2>1, <2>3, <2>5, <3>1 DEF CtrlKept
  <2> QED BY <2>4, <2>5
<1>8. ASSUME NEW j \in Jobs, h = g, StartJob(j)
      PROVE  CtrlKept(h)'
  <2>1. job' = j /\ si' = 1 /\ ci' = 1 /\ hst' = "issue" /\ told' = {} /\ j \in Seq(Stage)
    BY <1>1, <1>8 DEF StartJob
  <2>2. InPlan(j, 1, 1)
    BY <2>1, JobType DEF InPlan
  <2> QED BY <2>1, <2>2 DEF CtrlKept
<1> QED BY <1>3, <1>4, <1>5, <1>6, <1>7, <1>8 DEF Moves

\* A session starts with nothing reported.
LEMMA InitCtrl ==
  ASSUME Init
  PROVE  CtrlInv
<1>1. hst = "menu" /\ job = NoJob /\ h2d = <<>> /\ dst = "opcode"
  BY DEF Init, HostInit, WireInit, PreloaderInit
<1>2. flash \in Flash
  BY InitIInv DEF IInv, TypeOK
<1>3. Settled = flash
  BY <1>1, SettledIs DEF Underway, Finish
<1>4. Behind(flash)
  BY <1>1, <1>3, BehindAtRest
<1> QED BY <1>1, <1>2, <1>4 DEF CtrlInv, CtrlKept

\* Every step keeps account of the control sectors.
LEMMA NextCtrl ==
  ASSUME \A j \in Jobs : Planned(j) /\ ImageFirst(j),
         IInv, Clear, Persists, CtrlRead, [Next]_vars, CtrlInv
  PROVE  CtrlInv'
<1> SUFFICES ASSUME Connected' PROVE \E g \in Flash : Behind(g)' /\ CtrlKept(g)'
  BY DEF CtrlInv
<1>1. CASE Connected
  <2>1. PICK g \in Flash : Behind(g) /\ CtrlKept(g)
    BY <1>1 DEF CtrlInv
  <2>2. PICK h \in Flash : Behind(h)' /\ Moves(g, h)
    BY <1>1, <2>1, Advance
  <2>3. skipped' = {}
    BY <1>1, NoneSkipped DEF Persists
  <2>4. CtrlKept(h)'
    BY <1>1, <2>1, <2>2, <2>3, MovesCtrl DEF IInv
  <2> QED BY <2>2, <2>4
<1>2. CASE ~Connected
  <2>1. Restart
    BY <1>2, Reconnected
  <2>2. PICK h \in Flash : Behind(h)'
    BY <2>1, RestartBehind
  <2>3. CtrlKept(h)'
    BY <2>1 DEF Restart, CtrlKept
  <2> QED BY <2>2, <2>3
<1> QED BY <1>1, <1>2

\* What that means once the host is in its menu.
LEMMA CtrlThen ==
  ASSUME CtrlInv, BackInv
  PROVE  ControlReplaced
<1> SUFFICES ASSUME hst \in {"back", "menu"}, link = "up", dst # "gone", "csc" \in told,
                    NEW b \in TfsBlocks, NEW s \in Slots, Settled.mem[b][s].mark = 240
             PROVE  WrittenBy(job, b, s)
  BY DEF ControlReplaced, WrittenBy, WritesCtrl
<1>1. PICK g \in Flash : Behind(g) /\ CtrlKept(g)
  BY DEF CtrlInv, Connected
<1>2. g = Settled
  BY <1>1, BehindAtRest
<1>3. job # NoJob
  BY DEF BackInv
<1> QED BY <1>1, <1>2, <1>3 DEF CtrlKept, OwnCtrl

\* Once a .csc is reported as flashed, the sectors marked as control are the
\* ones that the job wrote: as long as no opcode is damaged (a refused mark is
\* left out without a word) and the patch was made from the marks the phone
\* has when the first of its commands goes out.
THEOREM ControlsReplaced ==
  ASSUME "opcode" \notin Faults, \A j \in Jobs : Planned(j) /\ ImageFirst(j)
  PROVE  Spec /\ []CtrlRead => []ControlReplaced
<1>1. Init => Clear /\ Persists /\ BackInv /\ CtrlInv
  BY InitLocks, InitCtrl DEF Init, HostInit, WireInit, Clear, Persists
<1>2. IInv /\ Clear /\ Persists /\ BackInv /\ CtrlInv /\ CtrlRead /\ [Next]_vars
      => Clear' /\ Persists' /\ BackInv' /\ CtrlInv'
  BY NextClear, NextPersists, NextBack, NextCtrl
<1>3. CtrlInv /\ BackInv => ControlReplaced
  BY CtrlThen
<1> QED BY <1>1, <1>2, <1>3, SessionInvariant, PTL DEF Spec
=============================================================================
