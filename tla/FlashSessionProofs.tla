------------------------- MODULE FlashSessionProofs --------------------------
(***************************************************************************)
(* The session's invariants for every size of flash, every set of jobs and *)
(* every set of faults.                                                    *)
(***************************************************************************)
EXTENDS FlashSession, TLAPS

-----------------------------------------------------------------------------
(* Sequences.                                                              *)

\* What Append adds, for the lines of any token type.
LEMMA AppendFacts ==
  ASSUME NEW T, NEW s \in Seq(T), NEW e \in T
  PROVE  /\ Append(s, e) \in Seq(T)
         /\ Len(Append(s, e)) = Len(s) + 1
         /\ \A i \in 1 .. Len(s) : Append(s, e)[i] = s[i]
         /\ Append(s, e)[Len(s) + 1] = e
  OBVIOUS

\* What reading the first token of a line leaves.
LEMMA TailFacts ==
  ASSUME NEW T, NEW s \in Seq(T), s # <<>>
  PROVE  /\ Tail(s) \in Seq(T) /\ Head(s) = s[1] /\ s[1] \in T
         /\ Len(s) > 0 /\ Len(Tail(s)) = Len(s) - 1
         /\ \A i \in 1 .. Len(s) - 1 : Tail(s)[i] = s[i + 1]
  OBVIOUS

\* A line is empty when its length is 0.
LEMMA EmptyFacts ==
  ASSUME NEW T, NEW s \in Seq(T)
  PROVE  /\ Len(s) \in Nat
         /\ (Len(s) = 0) <=> (s = <<>>)
  OBVIOUS

\* A line of two tokens is their tuple.
LEMMA PairIs ==
  ASSUME NEW T, NEW s \in Seq(T), Len(s) = 2
  PROVE  s = <<s[1], s[2]>>
  OBVIOUS

\* The lines of at most two tokens the device's replies make.
LEMMA ShortTuples ==
  ASSUME NEW a, NEW b
  PROVE  /\ Append(<<>>, a) = <<a>> /\ Append(<<a>>, b) = <<a, b>>
         /\ Head(<<a>>) = a /\ Head(<<a, b>>) = a
         /\ Tail(<<a>>) = <<>> /\ Tail(<<a, b>>) = <<b>>
         /\ <<a>> # <<>> /\ <<a, b>> # <<>>
<1>1. Append(<<a>>, b) = <<a, b>>
  <2> DEFINE s == Append(<<a>>, b)
  <2>1. s \in Seq({a, b}) /\ Len(s) = 2 /\ s[1] = a /\ s[2] = b
    OBVIOUS
  <2> QED BY <2>1, PairIs
<1>2. Append(<<>>, a) = <<a>>
  OBVIOUS
<1>3. /\ Head(<<a>>) = a /\ Head(<<a, b>>) = a
      /\ Tail(<<a>>) = <<>> /\ Tail(<<a, b>>) = <<b>>
      /\ <<a>> # <<>> /\ <<a, b>> # <<>>
  OBVIOUS
<1> QED BY <1>1, <1>2, <1>3

-----------------------------------------------------------------------------
(* The chip.                                                               *)

\* Burning a page over another gives a page.
LEMMA BurnPageType ==
  ASSUME NEW old \in PageVal, NEW new \in PageVal
  PROVE  BurnPage(old, new) \in PageVal
<1>1. AndMark(old.mark, new.mark) \in Marks
  BY DEF AndMark, Marks, PageVal
<1>2. AndData(old.data, new.data) \in Data \cup {Erased, Mixed}
  BY DEF AndData, PageVal
<1> QED BY <1>1, <1>2 DEF BurnPage, PageVal

\* Programming pages of a block gives a memory.
LEMMA ProgramPagesType ==
  ASSUME NEW mem \in MemVal, NEW prot \in ProtVal, NEW b \in Blocks, NEW put \in Puts
  PROVE  ProgramPages(mem, prot, b, put) \in MemVal
<1> DEFINE new == [s \in Slots |-> IF s \in DOMAIN put THEN BurnPage(mem[b][s], put[s])
                                   ELSE mem[b][s]]
<1>1. \A s \in DOMAIN put : put[s] \in PageVal
  BY DEF Puts
<1>2. \A s \in Slots : mem[b][s] \in PageVal
  BY DEF MemVal
<1>3. new \in [Slots -> PageVal]
  BY <1>1, <1>2, BurnPageType
<1> HIDE DEF new
<1>4. [mem EXCEPT ![b] = new] \in MemVal
  BY <1>3 DEF MemVal
<1> QED BY <1>4 DEF ProgramPages, new

\* Erasing gives a memory.
LEMMA EraseTypes ==
  ASSUME NEW mem \in MemVal, NEW prot \in ProtVal, NEW b \in Blocks
  PROVE  EraseBlk(mem, prot, b) \in MemVal /\ EraseAll(mem, prot) \in MemVal
<1>1. BlankBlock \in [Slots -> PageVal]
  BY DEF BlankBlock, Blank, PageVal, Marks
<1> QED BY <1>1 DEF EraseBlk, EraseAll, MemVal

\* Each phase of a command takes a flash to a flash.
LEMMA PhaseTypes ==
  ASSUME NEW f \in Flash, NEW c \in Cmd
  PROVE  Wipe(f, c) \in Flash /\ Burn(f, c) \in Flash /\ Stamp(f, c) \in Flash
<1>1. /\ f.mem \in MemVal /\ f.prot \in ProtVal
      /\ c.blk \in Blocks /\ c.put \in Puts
      /\ f = [mem |-> f.mem, prot |-> f.prot]
  BY DEF Flash, Cmd
<1>2. \A m \in MemVal, p \in ProtVal : [mem |-> m, prot |-> p] \in Flash
  BY DEF Flash
<1>3. \A v \in BOOLEAN : [f.prot EXCEPT ![c.blk] = v] \in ProtVal
  BY <1>1 DEF ProtVal
<1>4. DataOf(c.put) \in Puts
  <2>1. PICK S \in SUBSET Slots : c.put \in [S -> PageVal]
    BY <1>1 DEF Puts
  <2>2. DataOf(c.put) \in [S -> PageVal]
    BY <2>1 DEF DataOf, PageVal, Marks
  <2> QED BY <2>2 DEF Puts
<1>5. Wipe(f, c) \in Flash
  <2>1. FlashErase(f, c.blk) \in Flash
    BY <1>1, <1>2, EraseTypes DEF FlashErase
  <2>2. [f EXCEPT !.mem = EraseAll(f.mem, f.prot)] \in Flash
    BY <1>1, <1>2, EraseTypes
  <2>3. \A v \in BOOLEAN : [f EXCEPT !.prot[c.blk] = v] \in Flash
    BY <1>1, <1>2, <1>3
  <2> QED BY <2>1, <2>2, <2>3 DEF Wipe
<1>6. Burn(f, c) \in Flash
  <2>1. [f EXCEPT !.mem = ProgramPages(f.mem, f.prot, c.blk, c.put)] \in Flash
    BY <1>1, <1>2, ProgramPagesType
  <2>2. ASSUME NEW open \in ProtVal
        PROVE  [mem |-> ProgramPages(f.mem, open, c.blk, DataOf(c.put)), prot |-> open]
               \in Flash
    BY <1>1, <1>2, <1>4, ProgramPagesType
  <2> QED BY <2>1, <2>2, <1>3 DEF Burn
<1>7. Stamp(f, c) \in Flash
  <2>1. ASSUME NEW open \in ProtVal
        PROVE  [mem |-> ProgramPages(f.mem, open, c.blk, c.put),
                prot |-> [open EXCEPT ![c.blk] = TRUE]] \in Flash
    BY <1>1, <1>2, ProgramPagesType DEF ProtVal
  <2> QED BY <2>1, <1>3 DEF Stamp
<1> QED BY <1>5, <1>6, <1>7

-----------------------------------------------------------------------------
(* The two programs.                                                       *)

IInv == TypeOK /\ InStep

\* The command the host is at is a command.
LEMMA CurType ==
  ASSUME TypeOK, job # NoJob, InStage
  PROVE  Cur \in Cmd /\ Name \in StageNames
<1>1. job \in Seq(Stage)
  BY JobsAssumption DEF TypeOK
<1>2. job[si] \in Stage
  BY <1>1 DEF TypeOK, InStage
<1> QED BY <1>2 DEF Stage, InStage, TypeOK, Cur, Name

\* What the device's own steps leave to the host.
LEMMA DeviceAloneKeeps ==
  ASSUME DeviceAlone, TypeOK
  PROVE  /\ hst' = hst /\ job' = job /\ si' = si /\ ci' = ci /\ Cur' = Cur
         /\ InStage' = InStage
         /\ told' = told /\ failed' = failed /\ skipped' = skipped
         /\ budget' = budget /\ base' = base /\ fitting' = fitting
  BY DEF DeviceAlone, hostVars, Cur, InStage

\* A reply leaves a line of replies; on a dead line it is lost.
LEMMA SendReply ==
  ASSUME TypeOK, NEW t \in Replies, DeviceSends(t)
  PROVE  /\ d2h' \in Seq(Replies)
         /\ link = "down" => d2h' = d2h
         /\ link = "up" /\ d2h = <<>> => d2h' = <<t>>
         /\ \A x \in Replies : link = "up" /\ d2h = <<x>> => d2h' = <<x, t>>
  BY AppendFacts, ShortTuples DEF DeviceSends, TypeOK

\* The preloader takes an opcode and says VALID, or refuses it.
LEMMA ReadOpcodeStep ==
  ASSUME IInv, ReadOpcode, DeviceAlone
  PROVE  IInv'
<1> USE DEF IInv
<1> DEFINE t == Head(h2d)
<1>1. /\ h2d' \in Seq(Token) /\ t = h2d[1] /\ t \in Token
      /\ Len(h2d) > 0 /\ Len(h2d') = Len(h2d) - 1
      /\ Len(h2d) \in Nat /\ Len(h2d') \in Nat
  BY TailFacts, EmptyFacts DEF ReadOpcode, TypeOK
<1>2. Len(h2d) = 1 /\ Len(h2d') = 0 /\ h2d' = <<>> /\ t.kind = "opcode" /\ dst = "opcode"
  BY <1>1, EmptyFacts DEF InStep, LineOK, ReadOpcode
<1>3. /\ d2h' \in Seq(Replies)
      /\ t.ok => DeviceSends("VALID")
      /\ ~t.ok => DeviceSends("INVALID")
  BY SendReply DEF ReadOpcode, Replies
<1>4. /\ hst' = hst /\ job' = job /\ si' = si /\ ci' = ci /\ Cur' = Cur
      /\ InStage' = InStage
  BY DeviceAloneKeeps
<1>5. t.cmd \in Cmd
  BY <1>1 DEF Token
<1>6. TypeOK'
  BY <1>1, <1>3, <1>5, DeviceAloneKeeps DEF TypeOK, ReadOpcode, DevStates
<1>7. Connected' => Synced'
  <2> SUFFICES ASSUME Connected' PROVE Synced'
    OBVIOUS
  <2>1. Connected /\ Synced
    BY <1>4, <1>2 DEF Connected, ReadOpcode, InStep
  <2>2. hst = "status"
    BY <1>2, <2>1, EmptyFacts DEF Synced, AtRest, AckOf, EotOf, DataOfRead, AtWork, Connected, TypeOK, HostStates, Busy
  <2>3. d2h = <<>> /\ t.cmd = Cur
    BY <1>1, <1>2, <2>1, <2>2 DEF Synced, StatusOf, OpcodeAt
  <2> QED BY <1>1, <1>2, <1>3, <1>4, <2>1, <2>2, <2>3, SendReply
          DEF Synced, StatusOf, ReadOpcode, Connected, Replies
<1>8. (dst' = "operands" \/ Busy') => dcmd' \in Cmd
  BY <1>2, <1>5 DEF ReadOpcode, Busy
<1>9. LineOK'
  BY <1>2 DEF LineOK
<1>10. link' = "up"
  BY DEF ReadOpcode, InStep, TypeOK
<1> QED BY <1>4, <1>6, <1>7, <1>8, <1>9, <1>10 DEF InStep

\* Operands without a checksum: the preloader goes to work, or jumps.
LEMMA ReadOperandsStep ==
  ASSUME IInv, ReadOperands, DeviceAlone
  PROVE  IInv'
<1> USE DEF IInv
<1>1. /\ h2d' \in Seq(Token) /\ Head(h2d) = h2d[1] /\ h2d[1] \in Token
      /\ Len(h2d) > 0 /\ Len(h2d') = Len(h2d) - 1
      /\ Len(h2d) \in Nat /\ Len(h2d') \in Nat
      /\ \A i \in 1 .. Len(h2d) - 1 : h2d'[i] = h2d[i + 1]
  BY TailFacts, EmptyFacts DEF ReadOperands, TypeOK
<1>2. /\ OperandsOf(dcmd) /\ Len(h2d) <= 2 /\ (Len(h2d) = 2 => h2d[2].kind = "opcode")
      /\ dst = "operands" /\ dcmd \in Cmd /\ link = "up"
  BY <1>1 DEF InStep, LineOK, ReadOperands, TypeOK
<1>3. /\ hst' = hst /\ job' = job /\ si' = si /\ ci' = ci /\ Cur' = Cur
      /\ InStage' = InStage
  BY DeviceAloneKeeps
<1>4. /\ d2h' = d2h /\ dcmd' = dcmd /\ link' = link /\ flash' = flash
      /\ dst' = IF dcmd.op = "JUMP" THEN "gone"
                ELSE IF dcmd.op = "MARK_SECT" THEN "stamp" ELSE "wipe"
  BY DEF ReadOperands, Serve
<1>5. TypeOK'
  BY <1>1, <1>4, DeviceAloneKeeps DEF TypeOK, DevStates
<1>6. LineOK'
  BY <1>1, <1>2, <1>4 DEF LineOK, Busy
<1>7. Connected' => Synced'
  <2> SUFFICES ASSUME Connected' PROVE Synced'
    OBVIOUS
  <2>1. Connected /\ Synced /\ dst' # "gone"
    BY <1>3, <1>2 DEF Connected, ReadOperands, InStep
  <2>2. hst # "operands"
    BY <1>1, <2>1 DEF Synced
  <2>3. CASE hst = "status"
    <3>1. d2h = <<>> /\ Len(h2d) = 2 /\ OpcodeAt(2, Cur) /\ dcmd.op \in Unanswered
      BY <1>1, <1>2, <2>1, <2>3 DEF Synced, StatusOf, Settling, Busy
    <3>2. OpcodeAt(1, Cur)' /\ Len(h2d') = 1
      BY <3>1, <1>1, <1>3 DEF OpcodeAt
    <3>3. Settling'
      BY <3>1, <1>4, <2>1 DEF Settling, Busy, Quiet, Unanswered
    <3> QED BY <2>3, <3>1, <3>2, <3>3, <1>3, <1>4 DEF Synced, StatusOf
  <2>4. CASE hst \in {"menu", "issue", "back"}
    <3>1. d2h = <<>> /\ Len(h2d) = 1 /\ dcmd.op \in Unanswered
      BY <1>1, <1>2, <2>1, <2>4 DEF Synced, AtRest, Settling, Busy
    <3>2. Settling'
      BY <3>1, <1>4, <2>1 DEF Settling, Busy, Quiet
    <3> QED BY <2>4, <3>1, <3>2, <1>1, <1>3, <1>4 DEF Synced, AtRest
  <2>5. CASE hst = "ack"
    BY <2>5, <2>1, <1>1, <1>2 DEF Synced, AckOf, ReadOperands, Busy
  <2>6. CASE hst = "eot"
    <3>1. AtWork(Cur) /\ Cur.op \in Completed /\ Len(h2d) = 1 /\ dcmd = Cur /\ d2h = <<>>
      BY <2>6, <2>1, <1>1, <1>2 DEF Synced, EotOf, AtWork, Busy
    <3>2. AtWork(Cur)' /\ dst' # "operands"
      BY <3>1, <2>1, <1>1, <1>3, <1>4 DEF AtWork, Busy
    <3> QED BY <3>1, <3>2, <2>6, <1>3 DEF Synced, EotOf
  <2>7. CASE hst = "data"
    <3>1. AtWork(Cur) /\ Cur.op \in Reading /\ Len(h2d) = 1 /\ dcmd = Cur /\ d2h = <<>>
      BY <2>7, <2>1, <1>1, <1>2 DEF Synced, DataOfRead, AtWork, Busy
    <3>2. AtWork(Cur)' /\ dst' = "wipe"
      BY <3>1, <2>1, <1>1, <1>3, <1>4 DEF AtWork, Busy, Reading
    <3> QED BY <3>1, <3>2, <2>7, <1>3 DEF Synced, DataOfRead
  <2> QED BY <2>1, <2>2, <2>3, <2>4, <2>5, <2>6, <2>7, <1>3
          DEF TypeOK, HostStates, Connected
<1> QED BY <1>2, <1>3, <1>4, <1>5, <1>6, <1>7 DEF InStep

\* A payload is acknowledged and goes to the flash, or is refused.
LEMMA ReadPayloadStep ==
  ASSUME IInv, ReadPayload, DeviceAlone
  PROVE  IInv'
<1> USE DEF IInv
<1>1. /\ h2d' \in Seq(Token) /\ Head(h2d) = h2d[1] /\ h2d[1] \in Token
      /\ Len(h2d) > 0 /\ Len(h2d') = Len(h2d) - 1
      /\ Len(h2d) \in Nat /\ Len(h2d') \in Nat
      /\ \A i \in 1 .. Len(h2d) - 1 : h2d'[i] = h2d[i + 1]
  BY TailFacts, EmptyFacts DEF ReadPayload, TypeOK
<1>2. /\ OperandsOf(dcmd) /\ Len(h2d) <= 2 /\ (Len(h2d) = 2 => h2d[2].kind = "opcode")
      /\ dst = "operands" /\ dcmd \in Cmd /\ link = "up" /\ dcmd.op \in Checked
  BY <1>1 DEF InStep, LineOK, ReadPayload, TypeOK
<1>3. /\ hst' = hst /\ job' = job /\ si' = si /\ ci' = ci /\ Cur' = Cur
      /\ InStage' = InStage
  BY DeviceAloneKeeps
<1>4. /\ link' = link /\ flash' = flash
      /\ \/ DeviceSends("ACK") /\ dst' = "wipe" /\ dcmd' = dcmd
         \/ DeviceSends("NAK") /\ dst' = "opcode" /\ dcmd' = NoCmd
  BY <1>2 DEF ReadPayload, Serve, NextCommand, Checked
<1>5. d2h' \in Seq(Replies)
  BY <1>4, SendReply DEF Replies
<1>6. TypeOK'
  BY <1>1, <1>4, <1>5, DeviceAloneKeeps DEF TypeOK, DevStates
<1>7. LineOK'
  BY <1>1, <1>2, <1>4 DEF LineOK, Busy
<1>8. Connected' => Synced'
  <2> SUFFICES ASSUME Connected' PROVE Synced'
    OBVIOUS
  <2>1. Connected /\ Synced
    BY <1>2, <1>3 DEF Connected, InStep
  <2>2. hst = "ack"
    BY <1>1, <1>2, <2>1 DEF Synced, StatusOf, AtRest, EotOf, DataOfRead, AtWork, Settling,
       Busy, Checked, Unanswered, Completed, Reading, Connected, TypeOK, HostStates
  <2>3. d2h = <<>> /\ Len(h2d) = 1 /\ dcmd = Cur
    BY <1>1, <1>2, <2>1, <2>2 DEF Synced, AckOf, Busy
  <2>4. AckOf(Cur)'
    BY <1>1, <1>2, <1>3, <1>4, <2>3, SendReply DEF AckOf, Busy, Replies
  <2> QED BY <2>2, <2>4, <1>3 DEF Synced
<1> QED BY <1>2, <1>3, <1>4, <1>6, <1>7, <1>8 DEF InStep, Busy

\* A reading command ends with its data on the line.
LEMMA AnswerDataStep ==
  ASSUME IInv, AnswerData, DeviceAlone
  PROVE  IInv'
<1> USE DEF IInv
<1>1. /\ hst' = hst /\ job' = job /\ si' = si /\ ci' = ci /\ Cur' = Cur
      /\ InStage' = InStage
  BY DeviceAloneKeeps
<1>2. /\ h2d' = h2d /\ link' = link /\ flash' = flash /\ DeviceSends("DATA")
      /\ dst = "wipe" /\ dst' = "opcode" /\ dcmd' = NoCmd /\ dcmd.op \in Reading
      /\ Len(h2d) \in Nat
  BY EmptyFacts DEF AnswerData, NextCommand, TypeOK
<1>3. /\ d2h' \in Seq(Replies)
      /\ link = "down" => d2h' = d2h
  BY <1>2, SendReply DEF Replies
<1>4. TypeOK'
  BY <1>2, <1>3, DeviceAloneKeeps DEF TypeOK, DevStates
<1>5. LineOK'
  BY <1>2 DEF InStep, LineOK, Busy
<1>6. Connected' => Synced'
  <2> SUFFICES ASSUME Connected' PROVE Synced'
    OBVIOUS
  <2>1. Connected /\ Synced /\ link = "up"
    BY <1>1, <1>2 DEF Connected, InStep
  <2>2. hst \in {"status", "data"}
    BY <1>2, <2>1 DEF Synced, AtRest, AckOf, EotOf, AtWork, Settling, Quiet,
       Busy, Checked, Unanswered, Completed, Reading, Connected, TypeOK, HostStates
  <2>3. CASE hst = "status"
    <3>1. /\ Len(h2d) = 0 /\ d2h = <<"VALID">> /\ dcmd = Cur /\ Cur.op \in NoOperand
      BY <1>2, <2>1, <2>3 DEF Synced, StatusOf, Settling, Quiet, Unanswered, Reading, Busy
    <3>2. d2h' = <<"VALID", "DATA">>
      BY <3>1, <2>1, <1>2, SendReply DEF Replies
    <3> QED BY <3>1, <3>2, <2>3, <1>1, <1>2 DEF Synced, StatusOf
  <2>4. CASE hst = "data"
    <3>1. Len(h2d) = 0 /\ d2h = <<>> /\ Cur.op \in Reading
      BY <1>2, <2>1, <2>4 DEF Synced, DataOfRead, AtWork
    <3>2. d2h' = <<"DATA">>
      BY <3>1, <2>1, <1>2, SendReply DEF Replies
    <3> QED BY <3>1, <3>2, <2>4, <1>1, <1>2 DEF Synced, DataOfRead
  <2> QED BY <2>2, <2>3, <2>4
<1> QED BY <1>1, <1>2, <1>3, <1>4, <1>5, <1>6 DEF InStep, Busy

\* The first phase; the commands it ends send EOT or nothing.
LEMMA WipeStepStep ==
  ASSUME IInv, WipeStep, DeviceAlone
  PROVE  IInv'
<1> USE DEF IInv
<1>1. /\ hst' = hst /\ job' = job /\ si' = si /\ ci' = ci /\ Cur' = Cur
      /\ InStage' = InStage
  BY DeviceAloneKeeps
<1>2. /\ h2d' = h2d /\ link' = link /\ dst = "wipe" /\ dcmd.op \notin Reading
      /\ dcmd \in Cmd /\ Len(h2d) \in Nat
      /\ \/ dst' = "opcode" /\ dcmd' = NoCmd /\ dcmd.op \in Completed /\ DeviceSends("EOT")
         \/ dst' = "opcode" /\ dcmd' = NoCmd /\ dcmd.op \notin Completed /\ d2h' = d2h
         \/ dst' = "burn" /\ dcmd' = dcmd /\ d2h' = d2h /\ dcmd.op \notin OnePhase
  BY EmptyFacts DEF WipeStep, NextCommand, TypeOK, InStep, Busy
<1>3. /\ d2h' \in Seq(Replies)
      /\ link = "down" => d2h' = d2h
  BY <1>2, SendReply DEF Replies, TypeOK
<1>4. flash' \in Flash
  BY <1>2, PhaseTypes DEF WipeStep, TypeOK
<1>5. TypeOK'
  BY <1>2, <1>3, <1>4, DeviceAloneKeeps DEF TypeOK, DevStates
<1>6. LineOK'
  BY <1>2 DEF InStep, LineOK, Busy
<1>7. Connected' => Synced'
  <2> SUFFICES ASSUME Connected' PROVE Synced'
    OBVIOUS
  <2>1. Connected /\ Synced /\ link = "up"
    BY <1>1, <1>2 DEF Connected, InStep
  <2>2. CASE hst \in {"menu", "issue", "back"}
    <3>1. Len(h2d) = 0 /\ d2h = <<>> /\ dcmd.op \in Quiet
      BY <1>2, <2>1, <2>2 DEF Synced, AtRest, Settling
    <3>2. d2h' = d2h /\ Settling'
      BY <3>1, <1>2 DEF Settling, Quiet, Unanswered, Completed, Busy
    <3> QED BY <3>1, <3>2, <2>2, <1>1, <1>2 DEF Synced, AtRest
  <2>3. CASE hst = "status"
    <3>1. CASE Len(h2d) = 1 /\ d2h = <<>> /\ OpcodeAt(1, Cur) /\ dcmd.op \in Quiet
      <4>1. d2h' = d2h /\ Settling'
        BY <3>1, <1>2 DEF Settling, Quiet, Unanswered, Completed, Busy
      <4>2. OpcodeAt(1, Cur)'
        BY <3>1, <1>1, <1>2 DEF OpcodeAt
      <4> QED BY <3>1, <4>1, <4>2, <2>3, <1>1, <1>2 DEF Synced, StatusOf
    <3>2. CASE /\ Len(h2d) = 0 /\ d2h = <<"VALID">> /\ dcmd = Cur
               /\ Cur.op \in NoOperand
      <4>1. dst' = "opcode" /\ DeviceSends("EOT") /\ Cur.op \notin Reading
        BY <3>2, <1>2 DEF NoOperand, Reading, Completed, OnePhase
      <4>2. d2h' = <<"VALID", "EOT">>
        BY <3>2, <4>1, <2>1, SendReply DEF Replies
      <4> QED BY <3>2, <4>1, <4>2, <2>3, <1>1, <1>2 DEF Synced, StatusOf
    <3> QED BY <3>1, <3>2, <2>1, <2>3, <1>2 DEF Synced, StatusOf, Settling
  <2>4. CASE hst = "ack"
    <3>1. Len(h2d) = 0 /\ d2h = <<"ACK">> /\ dcmd = Cur /\ Cur.op \in Checked
      BY <1>2, <2>1, <2>4 DEF Synced, AckOf
    <3>2. d2h' = d2h /\ dst' = "burn" /\ dcmd' = dcmd
      BY <3>1, <1>2 DEF Checked, Completed, WipeStep, OnePhase
    <3> QED BY <3>1, <3>2, <2>4, <1>1, <1>2 DEF Synced, AckOf, Busy
  <2>5. CASE hst = "eot"
    <3>1. Len(h2d) = 0 /\ d2h = <<>> /\ dcmd = Cur /\ Cur.op \in Completed
      BY <1>2, <2>1, <2>5 DEF Synced, EotOf, AtWork
    <3>2. CASE dst' = "burn"
      BY <3>1, <3>2, <2>5, <1>1, <1>2 DEF Synced, EotOf, AtWork, Busy
    <3>3. CASE dst' # "burn"
      <4>1. d2h' = <<"EOT">> /\ dst' = "opcode"
        BY <3>1, <3>3, <1>2, <2>1, SendReply DEF Replies
      <4> QED BY <4>1, <3>1, <2>5, <1>1, <1>2 DEF Synced, EotOf
    <3> QED BY <3>2, <3>3
  <2>6. hst \notin {"data", "operands", "closed"}
    BY <1>2, <2>1 DEF Synced, DataOfRead, AtWork, Connected
  <2> QED BY <2>2, <2>3, <2>4, <2>5, <2>6 DEF TypeOK, HostStates
<1> QED BY <1>1, <1>2, <1>3, <1>5, <1>6, <1>7 DEF InStep, Busy

\* The second phase leaves the line alone.
LEMMA BurnStepStep ==
  ASSUME IInv, BurnStep, DeviceAlone
  PROVE  IInv'
<1> USE DEF IInv
<1>1. /\ hst' = hst /\ job' = job /\ si' = si /\ ci' = ci /\ Cur' = Cur
      /\ InStage' = InStage
  BY DeviceAloneKeeps
<1>2. /\ h2d' = h2d /\ d2h' = d2h /\ link' = link /\ dcmd' = dcmd
      /\ dst = "burn" /\ dst' = "stamp" /\ dcmd \in Cmd
  BY DEF BurnStep, InStep, Busy
<1>3. flash' \in Flash
  BY <1>2, PhaseTypes DEF BurnStep, TypeOK
<1>4. TypeOK'
  BY <1>2, <1>3, DeviceAloneKeeps DEF TypeOK, DevStates
<1>5. Connected' => Synced'
  BY <1>1, <1>2 DEF InStep, Connected, Synced, StatusOf, AckOf, EotOf, DataOfRead, AtWork,
     AtRest, Settling, Busy, OpcodeAt, OperandsOf
<1> QED BY <1>1, <1>2, <1>4, <1>5 DEF InStep, Busy, LineOK

\* The last phase; BLK_PROGRAM sends its EOT.
LEMMA StampStepStep ==
  ASSUME IInv, StampStep, DeviceAlone
  PROVE  IInv'
<1> USE DEF IInv
<1>1. /\ hst' = hst /\ job' = job /\ si' = si /\ ci' = ci /\ Cur' = Cur
      /\ InStage' = InStage
  BY DeviceAloneKeeps
<1>2. /\ h2d' = h2d /\ link' = link /\ dst = "stamp" /\ dcmd \in Cmd
      /\ dst' = "opcode" /\ dcmd' = NoCmd /\ Len(h2d) \in Nat
      /\ \/ dcmd.op \in Completed /\ DeviceSends("EOT")
         \/ dcmd.op \notin Completed /\ d2h' = d2h
  BY EmptyFacts DEF StampStep, NextCommand, TypeOK, InStep, Busy
<1>3. /\ d2h' \in Seq(Replies)
      /\ link = "down" => d2h' = d2h
  BY <1>2, SendReply DEF Replies, TypeOK
<1>4. flash' \in Flash
  BY <1>2, PhaseTypes DEF StampStep, TypeOK
<1>5. TypeOK'
  BY <1>2, <1>3, <1>4, DeviceAloneKeeps DEF TypeOK, DevStates
<1>6. LineOK'
  BY <1>2 DEF InStep, LineOK, Busy
<1>7. Connected' => Synced'
  <2> SUFFICES ASSUME Connected' PROVE Synced'
    OBVIOUS
  <2>1. Connected /\ Synced /\ link = "up"
    BY <1>1, <1>2 DEF Connected, InStep
  <2>2. CASE hst \in {"menu", "issue", "back"}
    <3>1. Len(h2d) = 0 /\ d2h = <<>> /\ dcmd.op \in Quiet
      BY <1>2, <2>1, <2>2 DEF Synced, AtRest, Settling
    <3>2. d2h' = d2h /\ Settling'
      BY <3>1, <1>2 DEF Settling, Quiet, Unanswered, Completed
    <3> QED BY <3>1, <3>2, <2>2, <1>1, <1>2 DEF Synced, AtRest
  <2>3. CASE hst = "status"
    <3>1. Len(h2d) = 1 /\ d2h = <<>> /\ OpcodeAt(1, Cur) /\ dcmd.op \in Quiet
      BY <1>2, <2>1, <2>3 DEF Synced, StatusOf, Settling
    <3>2. d2h' = d2h /\ Settling'
      BY <3>1, <1>2 DEF Settling, Quiet, Unanswered, Completed
    <3>3. OpcodeAt(1, Cur)'
      BY <3>1, <1>1, <1>2 DEF OpcodeAt
    <3> QED BY <3>1, <3>2, <3>3, <2>3, <1>1, <1>2 DEF Synced, StatusOf
  <2>4. CASE hst = "ack"
    <3>1. Len(h2d) = 0 /\ d2h = <<"ACK">> /\ dcmd = Cur /\ Cur.op \in Checked
      BY <1>2, <2>1, <2>4 DEF Synced, AckOf
    <3>2. d2h' = IF Cur.op \in Completed THEN <<"ACK", "EOT">> ELSE <<"ACK">>
      BY <3>1, <1>2, <2>1, SendReply DEF Replies
    <3> QED BY <3>1, <3>2, <2>4, <1>1, <1>2 DEF Synced, AckOf
  <2>5. CASE hst = "eot"
    <3>1. Len(h2d) = 0 /\ d2h = <<>> /\ Cur.op \in Completed /\ dcmd = Cur
      BY <1>2, <2>1, <2>5 DEF Synced, EotOf, AtWork
    <3>2. d2h' = <<"EOT">>
      BY <3>1, <1>2, <2>1, SendReply DEF Replies
    <3> QED BY <3>1, <3>2, <2>5, <1>1, <1>2 DEF Synced, EotOf
  <2>6. hst \notin {"data", "operands", "closed"}
    BY <1>2, <2>1 DEF Synced, DataOfRead, AtWork, Connected
  <2> QED BY <2>2, <2>3, <2>4, <2>5, <2>6 DEF TypeOK, HostStates
<1> QED BY <1>1, <1>2, <1>3, <1>5, <1>6, <1>7 DEF InStep, Busy

-----------------------------------------------------------------------------
(* The host's steps.                                                       *)

HostTyped == /\ hst \in HostStates /\ job \in Jobs \cup {NoJob}
             /\ si \in Nat \ {0} /\ ci \in Nat \ {0}
             /\ (hst \notin {"menu", "closed"} => job # NoJob)
             /\ told \subseteq StageNames /\ failed \subseteq StageNames
             /\ skipped \subseteq StageNames

\* The name of the stage the host is at.
LEMMA NameType ==
  ASSUME TypeOK, job # NoJob, si <= Len(job)
  PROVE  Name \in StageNames
<1>1. job[si] \in Stage
  BY JobsAssumption DEF TypeOK
<1> QED BY <1>1 DEF Stage, Name

\* Giving a stage up leaves the host between two commands, or gone.
LEMMA GiveUpFacts ==
  ASSUME TypeOK, job # NoJob, si <= Len(job), GiveUp
  PROVE  HostTyped' /\ hst' \in {"issue", "back", "closed"}
<1>1. Name \in StageNames
  BY NameType
<1>2. CASE Name \in Ignored
  BY <1>1, <1>2 DEF GiveUp, NextStage, TypeOK, HostTyped, HostStates
<1>3. CASE Name \notin Ignored
  BY <1>1, <1>3 DEF GiveUp, EndJob, TypeOK, HostTyped, HostStates
<1> QED BY <1>2, <1>3

\* And so does a command that fails.
LEMMA FailFacts ==
  ASSUME TypeOK, job # NoJob, si <= Len(job), Fail
  PROVE  HostTyped' /\ hst' \in {"issue", "back", "closed"}
<1>1. CASE Cur.op = "MARK_SECT"
  BY <1>1, NameType DEF Fail, Skip, TypeOK, HostTyped, HostStates
<1>2. CASE Cur.op # "MARK_SECT"
  BY <1>2, GiveUpFacts DEF Fail
<1> QED BY <1>1, <1>2

\* The host comes to a state of its own.
LEMMA ProceedFacts ==
  ASSUME TypeOK, job # NoJob, NEW st \in HostStates, Proceed(st)
  PROVE  /\ HostTyped' /\ hst' = st /\ job' = job /\ si' = si
         /\ st # "issue" => Cur' = Cur /\ InStage' = InStage
  BY DEF Proceed, TypeOK, HostTyped, Cur, InStage

\* A host step that leaves the host between two commands, or gone, keeps the
\* invariant if the device has nothing to say and the line holds at most the
\* operands of the last command.
LEMMA Rests ==
  ASSUME IInv, HostAlone, HostTyped', hst' \in {"menu", "issue", "back", "closed"},
         h2d' \in Seq(Token), d2h' \in Seq(Replies), link' = link,
         link = "down" => h2d' = <<>> /\ d2h' = <<>>,
         LineOK', Connected' => AtRest'
  PROVE  IInv'
<1>1. TypeOK'
  BY DEF IInv, HostTyped, TypeOK, HostAlone, devVars
<1>2. Connected' => Synced'
  BY DEF Connected, Synced
<1> QED BY <1>1, <1>2 DEF IInv, InStep, HostAlone, devVars, Busy, TypeOK

\* A host step that leaves the wire as it is.
LEMMA RestsStill ==
  ASSUME IInv, HostAlone, HostTyped', hst' \in {"menu", "issue", "back", "closed"},
         UNCHANGED wire, Connected' => AtRest
  PROVE  IInv'
<1>1. /\ h2d' = h2d /\ d2h' = d2h /\ link' = link /\ dst' = dst /\ dcmd' = dcmd
      /\ flash' = flash
  BY DEF wire, HostAlone, devVars
<1>2. LineOK' /\ (AtRest => AtRest')
  BY <1>1 DEF IInv, InStep, LineOK, Busy, OperandsOf, AtRest, Settling
<1> QED BY <1>1, <1>2, Rests DEF IInv, InStep, TypeOK

\* A job stopped before a command: the device is at rest then.
LEMMA StopLocallyStep ==
  ASSUME IInv, StopLocally, HostAlone
  PROVE  IInv'
<1>1. hst = "issue" /\ job # NoJob /\ si <= Len(job) /\ UNCHANGED wire /\ GiveUp /\ TypeOK
  BY DEF StopLocally, MayStop, IInv, TypeOK
<1>2. HostTyped' /\ hst' \in {"issue", "back", "closed"}
  BY <1>1, GiveUpFacts
<1>3. Connected' => AtRest
  BY <1>1 DEF Connected, wire, HostAlone, devVars, IInv, InStep, Synced
<1> QED BY <1>1, <1>2, <1>3, RestsStill

\* After Ctrl-C the host is closed, and the line is as it was.
LEMMA QuitStep ==
  ASSUME IInv, Quit, HostAlone
  PROVE  IInv'
<1>1. HostTyped' /\ hst' = "closed" /\ UNCHANGED wire
  BY DEF Quit, EndJob, IInv, TypeOK, HostTyped, HostStates
<1>2. ~Connected'
  BY <1>1 DEF Connected
<1> QED BY <1>1, <1>2, RestsStill

\* A stage that has come to its end is reported.
LEMMA StageDoneStep ==
  ASSUME IInv, StageDone, HostAlone
  PROVE  IInv'
<1>1. hst = "issue" /\ job # NoJob /\ si <= Len(job) /\ UNCHANGED wire /\ TypeOK
  BY DEF StageDone, IInv, TypeOK
<1>2. HostTyped' /\ hst' = "issue"
  BY <1>1, NameType DEF StageDone, NextStage, TypeOK, HostTyped, HostStates
<1>3. Connected' => AtRest
  BY <1>1 DEF Connected, wire, HostAlone, devVars, IInv, InStep, Synced
<1> QED BY <1>1, <1>2, <1>3, RestsStill

\* The last stage is behind the host.
LEMMA JobDoneStep ==
  ASSUME IInv, JobDone, HostAlone
  PROVE  IInv'
<1>1. hst = "issue" /\ UNCHANGED wire /\ TypeOK
  BY DEF JobDone, IInv
<1>2. HostTyped' /\ hst' = "back"
  BY <1>1 DEF JobDone, EndJob, TypeOK, HostTyped, HostStates
<1>3. Connected' => AtRest
  BY <1>1 DEF Connected, wire, HostAlone, devVars, IInv, InStep, Synced
<1> QED BY <1>1, <1>2, <1>3, RestsStill

\* TCIFLUSH finds nothing to drop while the two are in step.
LEMMA BackToMenuStep ==
  ASSUME IInv, BackToMenu, HostAlone
  PROVE  IInv'
<1>1. /\ hst = "back" /\ h2d' = h2d /\ d2h' = <<>> /\ link' = link /\ dst' = dst
      /\ dcmd' = dcmd
  BY DEF BackToMenu, HostAlone, devVars
<1>2. HostTyped' /\ hst' = "menu"
  BY <1>1 DEF BackToMenu, EndJob, TypeOK, HostTyped, HostStates, IInv
<1>3. LineOK' /\ (AtRest => AtRest')
  BY <1>1 DEF IInv, InStep, LineOK, Busy, OperandsOf, AtRest, Settling
<1>4. Connected' => AtRest'
  BY <1>1, <1>3 DEF Connected, IInv, InStep, Synced
<1> QED BY <1>1, <1>2, <1>3, <1>4, Rests DEF IInv, InStep, TypeOK

\* A write() to a line hung up.
LEMMA WriteFailsStep ==
  ASSUME IInv, WriteFails, HostAlone
  PROVE  IInv'
<1>1. /\ hst = "operands" /\ job # NoJob /\ InStage /\ UNCHANGED wire /\ TypeOK
      /\ ~Connected'
  BY DEF WriteFails, IInv, TypeOK, InStep, Connected, wire
<1>2. HostTyped' /\ hst' \in {"issue", "back", "closed"}
  <2>1. CASE Cur.op = "SECT_READ"
    BY <2>1 DEF WriteFails, EndJob, TypeOK, HostTyped, HostStates, IInv
  <2>2. CASE Cur.op # "SECT_READ"
    BY <2>2, <1>1, FailFacts DEF WriteFails, InStage
  <2> QED BY <2>1, <2>2
<1> QED BY <1>1, <1>2, RestsStill

\* What a byte read from the line is, and what it leaves there.
LEMMA ReadFacts ==
  ASSUME TypeOK, InStep, NEW t \in Replies, HostReads(t)
  PROVE  /\ d2h' \in Seq(Replies)
         /\ link = "down" => d2h' = <<>>
         /\ link = "up" => d2h # <<>> /\ t = Head(d2h) /\ d2h' = Tail(d2h)
<1>1. d2h \in Seq(Replies) /\ (link = "down" => d2h = <<>>)
  BY DEF TypeOK, InStep
<1>2. CASE link = "up" /\ d2h # <<>> /\ t = Head(d2h) /\ d2h' = Tail(d2h)
  <2>1. Tail(d2h) \in Seq(Replies)
    BY <1>1, <1>2, TailFacts
  <2> QED BY <1>2, <2>1
<1>3. CASE link = "down" /\ UNCHANGED d2h
  BY <1>1, <1>3
<1> QED BY <1>2, <1>3 DEF HostReads

\* An opcode goes out behind at most one quiet command.
LEMMA SendOpcodeStep ==
  ASSUME IInv, SendOpcode, HostAlone
  PROVE  IInv'
<1> DEFINE t == [kind |-> "opcode", cmd |-> Cur, ok |-> TRUE]
<1>1. /\ hst = "issue" /\ job # NoJob /\ InStage /\ TypeOK /\ InStep
      /\ d2h' = d2h /\ link' = link /\ dst' = dst /\ dcmd' = dcmd /\ flash' = flash
      /\ budget' = budget /\ base' = base /\ fitting' = fitting
  BY DEF SendOpcode, IInv, TypeOK, HostAlone, devVars
<1>2. HostTyped' /\ hst' = "status" /\ Cur' = Cur /\ InStage'
  BY <1>1, ProceedFacts DEF SendOpcode, HostStates
<1>3. t \in Token
  BY <1>1, CurType DEF Token
<1>4. /\ link = "down" => h2d' = h2d
      /\ link = "up" => /\ h2d' \in Seq(Token) /\ Len(h2d') = Len(h2d) + 1
                        /\ \A i \in 1 .. Len(h2d) : h2d'[i] = h2d[i]
                        /\ h2d'[Len(h2d) + 1] = t
      /\ Len(h2d) \in Nat
  BY <1>1, <1>3, AppendFacts, EmptyFacts DEF SendOpcode, HostSends, TypeOK
<1>5. TypeOK'
  BY <1>1, <1>2, <1>4 DEF TypeOK, HostTyped
<1>6. CASE link = "down"
  BY <1>6, <1>1, <1>2, <1>4, <1>5 DEF IInv, InStep, LineOK, Busy, OperandsOf, Connected
<1>7. CASE link = "up" /\ dst = "gone"
  BY <1>7, <1>1, <1>2, <1>5 DEF IInv, InStep, LineOK, Busy, Connected
<1>8. CASE link = "up" /\ dst # "gone"
  <2>1. AtRest
    BY <1>1, <1>8 DEF InStep, Connected, Synced
  <2>2. CASE Len(h2d) = 0 /\ Settling
    <3>1. Len(h2d') = 1 /\ h2d'[1] = t
      BY <1>4, <1>8, <2>2
    <3>2. StatusOf(Cur)'
      BY <3>1, <1>1, <1>2, <2>1, <2>2 DEF StatusOf, AtRest, Settling, Busy, OpcodeAt
    <3>3. LineOK'
      BY <3>1, <1>1, <2>2 DEF LineOK, Settling, Busy
    <3> QED BY <3>2, <3>3, <1>1, <1>2, <1>5, <1>8 DEF IInv, InStep, Busy, Synced
  <2>3. CASE Len(h2d) = 1 /\ dst = "operands" /\ OperandsOf(dcmd) /\ dcmd.op \in Unanswered
    <3>1. Len(h2d') = 2 /\ h2d'[1] = h2d[1] /\ h2d'[2] = t
      BY <1>4, <1>8, <2>3
    <3>2. StatusOf(Cur)'
      BY <3>1, <1>1, <1>2, <2>1, <2>3 DEF StatusOf, AtRest, OpcodeAt, OperandsOf
    <3>3. LineOK'
      BY <3>1, <1>1, <2>3 DEF LineOK, Busy, OperandsOf
    <3> QED BY <3>2, <3>3, <1>1, <1>2, <1>5, <1>8 DEF IInv, InStep, Busy, Synced
  <2> QED BY <2>1, <2>2, <2>3 DEF AtRest
<1> QED BY <1>1, <1>6, <1>7, <1>8 DEF TypeOK

\* The operands go to a device that waits for them.
LEMMA SendOperandsStep ==
  ASSUME IInv, SendOperands, HostAlone
  PROVE  IInv'
<1> DEFINE t == [kind |-> "operands", cmd |-> Cur, ok |-> TRUE]
           st == AwaitAfter(Cur.op)
<1>1. /\ hst = "operands" /\ job # NoJob /\ InStage /\ TypeOK /\ InStep /\ link = "up"
      /\ d2h' = d2h /\ link' = link /\ dst' = dst /\ dcmd' = dcmd /\ flash' = flash
      /\ budget' = budget /\ base' = base /\ fitting' = fitting
  BY DEF SendOperands, IInv, TypeOK, InStep, HostAlone, devVars
<1>2. Cur \in Cmd
  BY <1>1, CurType
<1>3. st \in {"ack", "eot", "data", "closed", "issue"}
  BY DEF AwaitAfter
<1>4. /\ HostTyped' /\ hst' = st
      /\ st # "issue" => Cur' = Cur /\ InStage'
  BY <1>1, <1>3, ProceedFacts DEF SendOperands, HostStates
<1>5. /\ h2d' \in Seq(Token) /\ Len(h2d') = Len(h2d) + 1 /\ h2d'[Len(h2d) + 1] = t
      /\ Len(h2d) \in Nat
  BY <1>1, <1>2, AppendFacts, EmptyFacts DEF SendOperands, HostSends, TypeOK, Token
<1>6. TypeOK'
  BY <1>1, <1>4, <1>5 DEF TypeOK, HostTyped
<1>7. CASE dst = "gone"
  BY <1>7, <1>1, <1>3, <1>4, <1>6 DEF IInv, InStep, LineOK, Busy, Connected
<1>8. CASE dst # "gone"
  <2>1. /\ Len(h2d) = 0 /\ d2h = <<>> /\ dst = "operands" /\ dcmd = Cur
        /\ Cur.op \notin NoOperand
    BY <1>1, <1>8 DEF InStep, Connected, Synced
  <2>2. Len(h2d') = 1 /\ h2d'[1] = t /\ OperandsOf(dcmd)'
    BY <1>1, <1>5, <2>1 DEF OperandsOf
  <2>3. LineOK'
    BY <1>1, <2>1, <2>2 DEF LineOK, Busy
  <2>4. CASE st = "ack"
    <3>1. Cur.op \in Checked
      BY <2>4 DEF AwaitAfter, Checked
    <3>2. AckOf(Cur)'
      BY <3>1, <1>1, <1>4, <2>1, <2>2, <2>4 DEF AckOf
    <3> QED BY <3>2, <1>1, <1>4, <1>6, <2>1, <2>3, <2>4, <1>2 DEF IInv, InStep, Synced
  <2>5. CASE st = "eot"
    <3>1. Cur.op = "BLK_ERASE"
      BY <2>1, <2>5 DEF AwaitAfter, NoOperand
    <3>2. EotOf(Cur)'
      BY <3>1, <1>1, <1>4, <2>1, <2>2, <2>5 DEF EotOf, AtWork, Completed
    <3> QED BY <3>2, <1>1, <1>4, <1>6, <2>1, <2>3, <2>5, <1>2 DEF IInv, InStep, Synced
  <2>6. CASE st = "data"
    <3>1. Cur.op \in Reading
      BY <2>6 DEF AwaitAfter, Reading
    <3>2. DataOfRead(Cur)'
      BY <3>1, <1>1, <1>4, <2>1, <2>2, <2>6 DEF DataOfRead, AtWork
    <3> QED BY <3>2, <1>1, <1>4, <1>6, <2>1, <2>3, <2>6, <1>2 DEF IInv, InStep, Synced
  <2>7. CASE st = "issue"
    <3>1. Cur.op \in Unanswered
      BY <1>2, <2>7 DEF AwaitAfter, Unanswered, Cmd, Ops
    <3>2. AtRest'
      BY <3>1, <1>1, <2>1, <2>2 DEF AtRest
    <3> QED BY <3>2, <1>1, <1>4, <1>6, <2>1, <2>3, <2>7, <1>2 DEF IInv, InStep, Synced
  <2>8. CASE st = "closed"
    BY <1>1, <1>4, <1>6, <2>1, <2>3, <2>8, <1>2 DEF IInv, InStep, Connected
  <2> QED BY <1>3, <2>4, <2>5, <2>6, <2>7, <2>8
<1> QED BY <1>7, <1>8


\* The host reads VALID and goes on, or something else and fails.
LEMMA ReadStatusStep ==
  ASSUME IInv, ReadStatus, HostAlone
  PROVE  IInv'
<1>1. /\ hst = "status" /\ job # NoJob /\ InStage /\ si <= Len(job) /\ TypeOK /\ InStep
      /\ h2d' = h2d /\ link' = link /\ dst' = dst /\ dcmd' = dcmd /\ flash' = flash
      /\ budget' = budget /\ base' = base /\ fitting' = fitting /\ Cur \in Cmd
  BY CurType DEF ReadStatus, IInv, TypeOK, InStep, HostAlone, devVars, InStage
<1>2. LineOK'
  BY <1>1 DEF InStep, LineOK, Busy, OperandsOf
<1>3. PICK t \in Replies :
        /\ HostReads(t)
        /\ IF t = "VALID"
           THEN Proceed(IF Cur.op \in Bare THEN AwaitAfter(Cur.op) ELSE "operands")
           ELSE Fail
  BY DEF ReadStatus
<1>4. /\ d2h' \in Seq(Replies)
      /\ link = "down" => d2h' = <<>>
      /\ link = "up" => d2h # <<>> /\ t = Head(d2h) /\ d2h' = Tail(d2h)
  BY <1>1, <1>3, ReadFacts
<1>5. Connected => /\ Len(h2d) = 0
                   /\ \/ d2h = <<"INVALID">> /\ dst = "opcode"
                      \/ /\ d2h = <<"VALID">> /\ dcmd = Cur
                         /\ dst = IF Cur.op \in NoOperand THEN "wipe" ELSE "operands"
                      \/ /\ dst = "opcode" /\ Cur.op \in NoOperand
                         /\ IF Cur.op \in Reading
                            THEN d2h \in {<<"VALID", "DATA">>, <<"VALID", "BADDATA">>}
                            ELSE d2h = <<"VALID", "EOT">>
  BY <1>1, <1>4 DEF Connected, InStep, Synced, StatusOf
<1>6. CASE t # "VALID"
  <2>1. HostTyped' /\ hst' \in {"issue", "back", "closed"}
    BY <1>1, <1>3, <1>6, FailFacts
  <2>2. ASSUME Connected PROVE AtRest'
    <3>1. d2h = <<"INVALID">> /\ dst = "opcode" /\ Len(h2d) = 0
      BY <2>2, <1>4, <1>5, <1>6, ShortTuples DEF Connected
    <3>2. d2h' = <<>>
      BY <3>1, <2>2, <1>4, ShortTuples DEF Connected
    <3> QED BY <3>1, <3>2, <1>1 DEF AtRest, Settling
  <2>3. Connected' => Connected
    BY <1>1 DEF Connected
  <2>4. h2d' \in Seq(Token) /\ (link = "down" => h2d' = <<>>)
    BY <1>1 DEF TypeOK, InStep
  <2> QED BY <2>1, <2>2, <2>3, <2>4, <1>1, <1>2, <1>4, Rests
<1>7. CASE t = "VALID"
  <2> DEFINE st == IF Cur.op \in Bare THEN AwaitAfter(Cur.op) ELSE "operands"
  <2>1. /\ st \in {"operands", "eot", "data"}
        /\ st = "operands" => Cur.op \notin NoOperand
        /\ st = "eot" => Cur.op \in NoOperand \cap Completed /\ Cur.op \notin Reading
        /\ st = "data" => Cur.op \in NoOperand \cap Reading
    BY DEF Bare, AwaitAfter, NoOperand, Completed, Reading
  <2>2. HostTyped' /\ hst' = st /\ Cur' = Cur /\ InStage'
    BY <1>1, <1>3, <1>7, <2>1, ProceedFacts DEF HostStates
  <2>3. TypeOK'
    BY <1>1, <1>4, <2>2 DEF TypeOK, HostTyped
  <2>4. ASSUME Connected PROVE Synced'
    <3>1. /\ Len(h2d) = 0
          /\ \/ /\ d2h' = <<>> /\ dcmd = Cur
                /\ dst = IF Cur.op \in NoOperand THEN "wipe" ELSE "operands"
             \/ /\ dst = "opcode" /\ Cur.op \in NoOperand
                /\ IF Cur.op \in Reading THEN d2h' \in {<<"DATA">>, <<"BADDATA">>}
                                         ELSE d2h' = <<"EOT">>
      <4>1. d2h' = Tail(d2h) /\ Head(d2h) = "VALID" /\ Len(h2d) = 0
        BY <2>4, <1>4, <1>5, <1>7 DEF Connected
      <4>2. d2h # <<"INVALID">>
        BY <4>1, ShortTuples
      <4>3. /\ Tail(<<"VALID">>) = <<>> /\ Tail(<<"VALID", "EOT">>) = <<"EOT">>
            /\ Tail(<<"VALID", "DATA">>) = <<"DATA">>
            /\ Tail(<<"VALID", "BADDATA">>) = <<"BADDATA">>
        BY ShortTuples
      <4> QED BY <4>1, <4>2, <4>3, <2>4, <1>5
    <3>2. CASE st = "operands"
      BY <3>1, <3>2, <2>1, <2>2, <1>1 DEF Synced
    <3>3. CASE st = "eot"
      <4>1. EotOf(Cur)'
        BY <3>1, <3>3, <2>1, <2>2, <1>1 DEF EotOf, AtWork, Busy
      <4> QED BY <4>1, <3>3, <2>2 DEF Synced
    <3>4. CASE st = "data"
      <4>1. DataOfRead(Cur)'
        BY <3>1, <3>4, <2>1, <2>2, <1>1 DEF DataOfRead, AtWork, Busy
      <4> QED BY <4>1, <3>4, <2>2 DEF Synced
    <3> QED BY <2>1, <3>2, <3>3, <3>4
  <2>5. Connected' => Connected
    BY <1>1 DEF Connected
  <2> QED BY <1>1, <1>2, <1>4, <2>2, <2>3, <2>4, <2>5 DEF IInv, InStep, Busy
<1> QED BY <1>6, <1>7

\* The host reads the answer to a payload.
LEMMA ReadAckStep ==
  ASSUME IInv, ReadAck, HostAlone
  PROVE  IInv'
<1>1. /\ hst = "ack" /\ job # NoJob /\ InStage /\ si <= Len(job) /\ TypeOK /\ InStep
      /\ h2d' = h2d /\ link' = link /\ dst' = dst /\ dcmd' = dcmd /\ flash' = flash
      /\ budget' = budget /\ base' = base /\ fitting' = fitting /\ Cur \in Cmd
      /\ h2d' \in Seq(Token) /\ (link = "down" => h2d' = <<>>)
  BY CurType DEF ReadAck, IInv, TypeOK, InStep, HostAlone, devVars, InStage
<1>2. LineOK'
  BY <1>1 DEF InStep, LineOK, Busy, OperandsOf
<1>3. PICK t \in Replies :
        HostReads(t) /\ IF t = "ACK" THEN Proceed(AwaitAfterAck(Cur.op)) ELSE Fail
  BY DEF ReadAck
<1>4. /\ d2h' \in Seq(Replies)
      /\ link = "down" => d2h' = <<>>
      /\ link = "up" => d2h # <<>> /\ t = Head(d2h) /\ d2h' = Tail(d2h)
  BY <1>1, <1>3, ReadFacts
<1>5. Connected' => Connected
  BY <1>1 DEF Connected
<1>6. Connected => /\ Len(h2d) = 0 /\ Cur.op \in Checked
                   /\ \/ d2h = <<"NAK">> /\ dst = "opcode"
                      \/ d2h = <<"ACK">> /\ Busy /\ dcmd = Cur
                      \/ /\ dst = "opcode"
                         /\ d2h = IF Cur.op \in Completed THEN <<"ACK", "EOT">> ELSE <<"ACK">>
  BY <1>1, <1>4 DEF Connected, InStep, Synced, AckOf
<1>7. CASE t # "ACK"
  <2>1. HostTyped' /\ hst' \in {"issue", "back", "closed"}
    BY <1>1, <1>3, <1>7, FailFacts
  <2>2. ASSUME Connected PROVE AtRest'
    <3>1. d2h = <<"NAK">> /\ dst = "opcode" /\ Len(h2d) = 0
      BY <2>2, <1>4, <1>6, <1>7, ShortTuples DEF Connected
    <3>2. d2h' = <<>>
      BY <3>1, <2>2, <1>4, ShortTuples DEF Connected
    <3> QED BY <3>1, <3>2, <1>1 DEF AtRest, Settling
  <2> QED BY <2>1, <2>2, <1>5, <1>1, <1>2, <1>4, Rests
<1>8. CASE t = "ACK"
  <2> DEFINE st == AwaitAfterAck(Cur.op)
  <2>1. st \in {"eot", "issue"} /\ (st = "eot" <=> Cur.op = "BLK_PROGRAM")
    BY DEF AwaitAfterAck
  <2>2. HostTyped' /\ hst' = st /\ (st = "eot" => Cur' = Cur /\ InStage')
    <3>1. Proceed(st) /\ st \in HostStates
      BY <1>3, <1>8, <2>1 DEF HostStates
    <3> HIDE DEF st
    <3>2. /\ HostTyped' /\ hst' = st
          /\ st # "issue" => Cur' = Cur /\ InStage' = InStage
      BY <3>1, <1>1, ProceedFacts
    <3> QED BY <3>2, <1>1
  <2>3. Connected => /\ Len(h2d) = 0
                     /\ \/ d2h' = <<>> /\ Busy /\ dcmd = Cur
                        \/ dst = "opcode" /\ d2h' = IF Cur.op \in Completed THEN <<"EOT">>
                                                    ELSE <<>>
    <3> SUFFICES ASSUME Connected
                 PROVE  /\ Len(h2d) = 0
                        /\ \/ d2h' = <<>> /\ Busy /\ dcmd = Cur
                           \/ dst = "opcode" /\ d2h' = IF Cur.op \in Completed THEN <<"EOT">>
                                                       ELSE <<>>
      OBVIOUS
    <3>1. d2h' = Tail(d2h) /\ Head(d2h) = "ACK"
      BY <1>4, <1>8 DEF Connected
    <3>2. d2h # <<"NAK">> /\ Tail(<<"ACK">>) = <<>> /\ Tail(<<"ACK", "EOT">>) = <<"EOT">>
      BY <3>1, ShortTuples
    <3> QED BY <3>1, <3>2, <1>6
  <2>4. CASE st = "issue"
    <3>1. Connected => Cur.op = "SECT_WRITE"
      BY <1>6, <2>1, <2>4 DEF Checked
    <3>2. Connected => AtRest'
      BY <3>1, <2>3, <1>1 DEF AtRest, Settling, Quiet, Busy, Completed
    <3> QED BY <3>2, <2>2, <2>4, <1>5, <1>1, <1>2, <1>4, Rests
  <2>5. CASE st = "eot"
    <3>1. Cur.op = "BLK_PROGRAM"
      BY <2>1, <2>5
    <3>2. TypeOK'
      BY <1>1, <1>4, <2>2 DEF TypeOK, HostTyped
    <3>3. Connected => EotOf(Cur)'
      BY <3>1, <2>2, <2>3, <2>5, <1>1 DEF EotOf, AtWork, Busy, Completed
    <3> QED BY <3>2, <3>3, <2>2, <2>5, <1>1, <1>2, <1>4, <1>5
            DEF IInv, InStep, Busy, Synced
  <2> QED BY <2>1, <2>4, <2>5
<1> QED BY <1>7, <1>8

\* The host reads the end of an operation.
LEMMA ReadEotStep ==
  ASSUME IInv, ReadEot, HostAlone
  PROVE  IInv'
<1>1. /\ hst = "eot" /\ job # NoJob /\ InStage /\ si <= Len(job) /\ TypeOK /\ InStep
      /\ h2d' = h2d /\ link' = link /\ dst' = dst /\ dcmd' = dcmd /\ flash' = flash
      /\ h2d' \in Seq(Token) /\ (link = "down" => h2d' = <<>>)
  BY DEF ReadEot, IInv, TypeOK, InStep, HostAlone, devVars, InStage
<1>2. LineOK'
  BY <1>1 DEF InStep, LineOK, Busy, OperandsOf
<1>3. PICK t \in Replies : HostReads(t) /\ IF t = "EOT" THEN Proceed("issue") ELSE Fail
  BY DEF ReadEot
<1>4. /\ d2h' \in Seq(Replies)
      /\ link = "down" => d2h' = <<>>
      /\ link = "up" => d2h # <<>> /\ t = Head(d2h) /\ d2h' = Tail(d2h)
  BY <1>1, <1>3, ReadFacts
<1>5. HostTyped' /\ hst' \in {"issue", "back", "closed"}
  BY <1>1, <1>3, FailFacts, ProceedFacts DEF HostStates
<1>6. ASSUME Connected' PROVE AtRest'
  <2>1. Connected
    BY <1>1, <1>6 DEF Connected
  <2>2. Len(h2d) = 0 /\ d2h = <<"EOT">> /\ dst = "opcode"
    BY <1>1, <1>4, <2>1 DEF Connected, InStep, Synced, EotOf, AtWork
  <2>3. d2h' = <<>>
    BY <2>1, <2>2, <1>4, ShortTuples DEF Connected
  <2> QED BY <2>2, <2>3, <1>1 DEF AtRest, Settling
<1> QED BY <1>1, <1>2, <1>4, <1>5, <1>6, Rests

\* The host reads the data, good or bad.
LEMMA ReadDataStep ==
  ASSUME IInv, ReadData, HostAlone
  PROVE  IInv'
<1>1. /\ hst = "data" /\ job # NoJob /\ InStage /\ si <= Len(job) /\ TypeOK /\ InStep
      /\ h2d' = h2d /\ link' = link /\ dst' = dst /\ dcmd' = dcmd /\ flash' = flash
      /\ h2d' \in Seq(Token) /\ (link = "down" => h2d' = <<>>)
  BY DEF ReadData, IInv, TypeOK, InStep, HostAlone, devVars, InStage
<1>2. LineOK'
  BY <1>1 DEF InStep, LineOK, Busy, OperandsOf
<1>3. PICK t \in Replies :
        /\ HostReads(t)
        /\ IF t = "DATA" \/ Cur.op \notin {"BLK_READ", "SECT_READ"}
           THEN Proceed("issue") ELSE Fail
  BY DEF ReadData
<1>4. /\ d2h' \in Seq(Replies)
      /\ link = "down" => d2h' = <<>>
      /\ link = "up" => d2h # <<>> /\ t = Head(d2h) /\ d2h' = Tail(d2h)
  BY <1>1, <1>3, ReadFacts
<1>5. HostTyped' /\ hst' \in {"issue", "back", "closed"}
  BY <1>1, <1>3, FailFacts, ProceedFacts DEF HostStates
<1>6. ASSUME Connected' PROVE AtRest'
  <2>1. Connected
    BY <1>1, <1>6 DEF Connected
  <2>2. Len(h2d) = 0 /\ d2h \in {<<"DATA">>, <<"BADDATA">>} /\ dst = "opcode"
    BY <1>1, <1>4, <2>1 DEF Connected, InStep, Synced, DataOfRead, AtWork
  <2>3. d2h' = <<>>
    BY <2>1, <2>2, <1>4, ShortTuples DEF Connected
  <2> QED BY <2>2, <2>3, <1>1 DEF AtRest, Settling
<1> QED BY <1>1, <1>2, <1>4, <1>5, <1>6, Rests

-----------------------------------------------------------------------------
(* The user's and the environment's steps.                                 *)

\* Spending from the budget leaves a budget.
LEMMA SpendFacts ==
  ASSUME TypeOK, NEW what \in {"jobs", "faults", "sessions"}, Spend(what)
  PROVE  budget' \in [jobs : 0 .. MaxJobs, faults : 0 .. MaxFaults,
                      sessions : 0 .. MaxSessions]
<1>1. budget[what] \in Nat \ {0}
  BY BoundsAssumption DEF TypeOK, Spend
<1> QED BY <1>1, BoundsAssumption DEF TypeOK, Spend

\* The flash once the device is done is a flash.
LEMMA SettledType ==
  ASSUME TypeOK, InStep
  PROVE  Settled.mem \in MemVal
<1>1. Underway \in Flash
  <2>1. \A c \in Cmd : /\ Apply(flash, c) \in Flash /\ Stamp(flash, c) \in Flash
                       /\ Stamp(Burn(flash, c), c) \in Flash
    BY PhaseTypes DEF Apply, TypeOK
  <2>2. dst \in {"wipe", "burn", "stamp"} => dcmd \in Cmd
    BY DEF InStep, Busy
  <2> QED BY <2>1, <2>2 DEF Underway, Finish, TypeOK
<1>2. ASSUME Pending # {} PROVE Head(h2d).cmd \in Cmd
  <2>1. h2d # <<>> /\ h2d \in Seq(Token)
    BY <1>2 DEF Pending, TypeOK
  <2>2. Head(h2d) \in Token
    BY <2>1, TailFacts
  <2> QED BY <2>2 DEF Token
<1>3. Settled \in Flash
  BY <1>1, <1>2, PhaseTypes DEF Settled, Apply
<1> QED BY <1>3 DEF Flash

\* Only the kinds and the commands of the tokens on the line matter to where
\* the two programs are.
LEMMA SameShape ==
  ASSUME IInv, Len(h2d') = Len(h2d),
         \A i \in 1 .. Len(h2d) : h2d'[i].kind = h2d[i].kind /\ h2d'[i].cmd = h2d[i].cmd,
         d2h' = d2h, link' = link, dst' = dst, dcmd' = dcmd, h2d' \in Seq(Token),
         UNCHANGED hostVars
  PROVE  InStep'
<1>1. /\ hst' = hst /\ Cur' = Cur /\ InStage' = InStage /\ Len(h2d) \in Nat
      /\ h2d = <<>> => h2d' = <<>>
  BY EmptyFacts DEF hostVars, Cur, InStage, IInv, TypeOK
<1>2. ASSUME NEW c
      PROVE  /\ Len(h2d) >= 1 => (OperandsOf(c) <=> h2d'[1].kind = "operands" /\ h2d'[1].cmd = c)
             /\ Len(h2d) >= 1 => (OpcodeAt(1, c) <=> h2d'[1].kind = "opcode" /\ h2d'[1].cmd = c)
             /\ Len(h2d) >= 2 => (OpcodeAt(2, c) <=> h2d'[2].kind = "opcode" /\ h2d'[2].cmd = c)
  BY <1>1 DEF OperandsOf, OpcodeAt
<1>3. LineOK'
  BY <1>1, <1>2 DEF IInv, InStep, LineOK, Busy, OperandsOf
<1>4. ASSUME Connected' PROVE Synced'
  <2>1. Synced
    BY <1>1, <1>4 DEF IInv, InStep, Connected
  <2>2. AtRest => AtRest'
    BY <1>1, <1>2 DEF AtRest, Settling, Busy, OperandsOf
  <2>3. StatusOf(Cur) => StatusOf(Cur)'
    BY <1>1, <1>2 DEF StatusOf, Settling, Busy, OperandsOf, OpcodeAt
  <2>4. AckOf(Cur) => AckOf(Cur)'
    BY <1>1, <1>2 DEF AckOf, Busy, OperandsOf
  <2>5. AtWork(Cur) => AtWork(Cur)'
    BY <1>1, <1>2 DEF AtWork, Busy, OperandsOf
  <2>6. (EotOf(Cur) => EotOf(Cur)') /\ (DataOfRead(Cur) => DataOfRead(Cur)')
    BY <2>5, <1>1 DEF EotOf, DataOfRead
  <2> QED BY <2>1, <2>2, <2>3, <2>4, <2>6, <1>1 DEF Synced
<1> QED BY <1>1, <1>3, <1>4 DEF IInv, InStep, Busy

\* A job is started.
LEMMA StartStep ==
  ASSUME IInv, Start
  PROVE  IInv'
<1>1. PICK j \in Jobs : StartJob(j)
  BY DEF Start
<1>2. /\ hst = "menu" /\ hst' = "issue" /\ job' = j /\ j # NoJob
      /\ h2d' = h2d /\ d2h' = d2h /\ link' = link /\ dst' = dst /\ dcmd' = dcmd
      /\ flash' = flash
  BY <1>1, JobsAssumption DEF StartJob, Start, wire, devVars
<1>3. base' \in MemVal
  BY SettledType DEF Start, IInv
<1>4. budget' \in [jobs : 0 .. MaxJobs, faults : 0 .. MaxFaults, sessions : 0 .. MaxSessions]
      /\ fitting' \in BOOLEAN
  BY SpendFacts DEF Start, IInv
<1>5. TypeOK'
  BY <1>1, <1>2, <1>3, <1>4 DEF IInv, TypeOK, HostStates, StartJob
<1>6. LineOK' /\ (AtRest => AtRest')
  BY <1>2 DEF IInv, InStep, LineOK, Busy, OperandsOf, AtRest, Settling
<1>7. Connected' => Synced'
  BY <1>2, <1>6 DEF IInv, InStep, Connected, Synced
<1> QED BY <1>2, <1>5, <1>6, <1>7 DEF IInv, InStep, Busy

\* Noise changes no token's kind and no command.
LEMMA NoiseToDeviceStep ==
  ASSUME IInv, NoiseToDevice
  PROVE  IInv'
<1>1. PICK i \in DOMAIN h2d : h2d' = [h2d EXCEPT ![i].ok = FALSE]
  BY DEF NoiseToDevice
<1>2. /\ h2d \in Seq(Token) /\ i \in 1 .. Len(h2d) /\ h2d[i] \in Token
  BY <1>1 DEF IInv, TypeOK
<1>3. /\ Len(h2d') = Len(h2d)
      /\ \A k \in 1 .. Len(h2d) : /\ h2d'[k].kind = h2d[k].kind
                                  /\ h2d'[k].cmd = h2d[k].cmd
      /\ h2d' \in Seq(Token)
  <2> DEFINE u == [h2d[i] EXCEPT !.ok = FALSE]
  <2>1. u \in Token /\ u.kind = h2d[i].kind /\ u.cmd = h2d[i].cmd
    BY <1>2 DEF Token
  <2>2. h2d' = [h2d EXCEPT ![i] = u]
    BY <1>1
  <2> HIDE DEF u
  <2>3. /\ h2d' \in Seq(Token) /\ Len(h2d') = Len(h2d) /\ h2d'[i] = u
        /\ \A k \in 1 .. Len(h2d) : k # i => h2d'[k] = h2d[k]
    BY <1>2, <2>1, <2>2
  <2> QED BY <2>1, <2>3
<1>4. /\ d2h' = d2h /\ link' = link /\ dst' = dst /\ dcmd' = dcmd /\ flash' = flash
      /\ UNCHANGED hostVars /\ base' = base /\ fitting' = fitting
  BY DEF NoiseToDevice, devVars
<1>5. TypeOK'
  BY <1>3, <1>4, SpendFacts DEF IInv, TypeOK, NoiseToDevice, hostVars
<1> QED BY <1>3, <1>4, <1>5, SameShape DEF IInv

\* Noise makes good data bad, and changes no other reply.
LEMMA NoiseToHostStep ==
  ASSUME IInv, NoiseToHost
  PROVE  IInv'
<1>1. PICK i \in DOMAIN d2h : d2h[i] = "DATA" /\ d2h' = [d2h EXCEPT ![i] = "BADDATA"]
  BY DEF NoiseToHost
<1>2. /\ h2d' = h2d /\ link' = link /\ dst' = dst /\ dcmd' = dcmd /\ flash' = flash
      /\ UNCHANGED hostVars /\ base' = base /\ fitting' = fitting
      /\ hst' = hst /\ Cur' = Cur /\ InStage' = InStage
  BY DEF NoiseToHost, devVars, hostVars, Cur, InStage
<1>3. /\ d2h \in Seq(Replies) /\ i \in 1 .. Len(d2h) /\ d2h' \in Seq(Replies)
      /\ Len(d2h') = Len(d2h) /\ d2h # <<>>
      /\ \A k \in 1 .. Len(d2h) : k # i => d2h'[k] = d2h[k]
      /\ d2h'[i] = "BADDATA"
  BY <1>1 DEF IInv, TypeOK, Replies
<1>4. TypeOK'
  BY <1>2, <1>3, SpendFacts DEF IInv, TypeOK, NoiseToHost, hostVars
<1>5. LineOK'
  BY <1>2 DEF IInv, InStep, LineOK, Busy, OperandsOf
<1>6. d2h = <<"DATA">> => d2h' = <<"BADDATA">>
  BY <1>1
<1>7. d2h = <<"VALID", "DATA">> => d2h' = <<"VALID", "BADDATA">>
  <2> SUFFICES ASSUME d2h = <<"VALID", "DATA">> PROVE d2h' = <<"VALID", "BADDATA">>
    OBVIOUS
  <2>1. Len(d2h) = 2 /\ d2h[1] = "VALID"
    OBVIOUS
  <2>2. i = 2
    BY <2>1, <1>1, <1>3
  <2>3. Len(d2h') = 2 /\ d2h'[1] = "VALID" /\ d2h'[2] = "BADDATA"
    BY <2>1, <2>2, <1>3
  <2> QED BY <2>3, <1>3, PairIs
<1>8. /\ d2h # <<"INVALID">> /\ d2h # <<"VALID">> /\ d2h # <<"VALID", "EOT">>
      /\ d2h # <<"VALID", "BADDATA">> /\ d2h # <<"BADDATA">> /\ d2h # <<"NAK">>
      /\ d2h # <<"ACK">> /\ d2h # <<"ACK", "EOT">> /\ d2h # <<"EOT">>
  BY <1>1
<1>9. ASSUME Connected' PROVE Synced'
  <2>1. Connected /\ Synced
    BY <1>2, <1>9 DEF IInv, InStep, Connected
  <2>2. hst \in {"status", "data"}
    BY <2>1, <1>3, <1>8 DEF Synced, AtRest, AckOf, EotOf, AtWork, Connected, IInv, TypeOK, HostStates
  <2>3. CASE hst = "status"
    <3>1. /\ Len(h2d) = 0 /\ dst = "opcode" /\ Cur.op \in NoOperand /\ Cur.op \in Reading
          /\ d2h = <<"VALID", "DATA">>
      BY <2>1, <2>3, <1>3, <1>8 DEF Synced, StatusOf
    <3>2. StatusOf(Cur)'
      BY <3>1, <1>2, <1>7 DEF StatusOf
    <3> QED BY <3>2, <2>3, <1>2 DEF Synced
  <2>4. CASE hst = "data"
    <3>1. Len(h2d) = 0 /\ dst = "opcode" /\ Cur.op \in Reading /\ d2h = <<"DATA">>
      BY <2>1, <2>4, <1>3, <1>8 DEF Synced, DataOfRead, AtWork
    <3>2. DataOfRead(Cur)'
      BY <3>1, <1>2, <1>6 DEF DataOfRead
    <3> QED BY <3>2, <2>4, <1>2 DEF Synced
  <2> QED BY <2>2, <2>3, <2>4
<1>10. link = "up"
  BY <1>3 DEF IInv, InStep, TypeOK
<1> QED BY <1>2, <1>4, <1>5, <1>9, <1>10 DEF IInv, InStep, Busy

\* The line goes, the phone goes, or both start again.
LEMMA HangupStep ==
  ASSUME IInv, Hangup
  PROVE  IInv'
<1>1. /\ h2d' = <<>> /\ d2h' = <<>> /\ link' = "down" /\ dst' = dst /\ dcmd' = dcmd
      /\ flash' = flash /\ hst' = hst /\ InStage' = InStage /\ base' = base /\ fitting' = fitting
      /\ UNCHANGED hostVars
  BY DEF Hangup, devVars, hostVars, InStage
<1>2. TypeOK'
  BY <1>1, SpendFacts DEF IInv, TypeOK, Hangup, hostVars
<1>3. LineOK' /\ ~Connected'
  BY <1>1 DEF LineOK, Connected
<1> QED BY <1>1, <1>2, <1>3 DEF IInv, InStep, Busy

\* A phone without power waits for nothing.
LEMMA PowerCutStep ==
  ASSUME IInv, PowerCut
  PROVE  IInv'
<1>1. /\ h2d' = h2d /\ d2h' = d2h /\ link' = link /\ dst' = "gone" /\ dcmd' = NoCmd
      /\ flash' = flash /\ hst' = hst /\ InStage' = InStage /\ base' = base /\ fitting' = fitting
      /\ UNCHANGED hostVars
  BY DEF PowerCut, wire, hostVars, InStage
<1>2. TypeOK'
  BY <1>1, SpendFacts DEF IInv, TypeOK, PowerCut, hostVars, DevStates
<1>3. LineOK' /\ ~Connected' /\ ~Busy'
  BY <1>1 DEF LineOK, Connected, Busy
<1> QED BY <1>1, <1>2, <1>3 DEF IInv, InStep

\* A new session begins with both at the start of a command.
LEMMA RestartStep ==
  ASSUME IInv, Restart
  PROVE  IInv'
<1>1. /\ hst' = "menu" /\ job' = NoJob /\ si' = 1 /\ ci' = 1
      /\ told' = {} /\ failed' = {} /\ skipped' = {}
      /\ h2d' = <<>> /\ d2h' = <<>> /\ link' = "up" /\ dst' = "opcode" /\ dcmd' = NoCmd
      /\ base' = base /\ fitting' = fitting
  BY DEF Restart
<1>2. flash' \in Flash
  <2>1. PICK locked \in BOOLEAN : flash' = [flash EXCEPT !.prot = [b \in Blocks |-> locked]]
    BY DEF Restart, PowerOn
  <2>2. [b \in Blocks |-> locked] \in ProtVal
    BY DEF ProtVal
  <2> QED BY <2>1, <2>2 DEF Flash, IInv, TypeOK
<1>3. budget' \in [jobs : 0 .. MaxJobs, faults : 0 .. MaxFaults, sessions : 0 .. MaxSessions]
  BY SpendFacts DEF Restart, IInv
<1>4. TypeOK'
  BY <1>1, <1>2, <1>3 DEF IInv, TypeOK, HostStates, DevStates
<1>5. LineOK' /\ AtRest' /\ ~Busy'
  BY <1>1 DEF LineOK, AtRest, Settling, Busy
<1> QED BY <1>1, <1>4, <1>5 DEF IInv, InStep, Synced

\* A step that changes nothing.
LEMMA StutterStep ==
  ASSUME IInv, UNCHANGED vars
  PROVE  IInv'
<1>1. /\ UNCHANGED wire /\ UNCHANGED devVars /\ UNCHANGED hostVars
      /\ budget' = budget /\ base' = base /\ fitting' = fitting
  BY DEF vars
<1>2. TypeOK'
  BY <1>1 DEF IInv, TypeOK, wire, devVars, hostVars
<1> QED BY <1>1, <1>2, SameShape DEF IInv, TypeOK, wire, devVars

-----------------------------------------------------------------------------
(* The invariant holds in every state of every session.                    *)

\* The invariant holds when the preloader has been booted.
LEMMA InitIInv == Init => IInv
<1> SUFFICES ASSUME Init PROVE IInv
  OBVIOUS
<1>1. PICK mem \in Contents, locked \in BOOLEAN :
        flash = [mem |-> mem, prot |-> [b \in Blocks |-> locked]]
  BY DEF Init, PreloaderInit
<1>2. flash \in Flash /\ flash.mem \in MemVal
  BY <1>1, ContentsAssumption DEF Flash, ProtVal
<1>3. /\ h2d = <<>> /\ d2h = <<>> /\ link = "up" /\ dst = "opcode" /\ dcmd = NoCmd
      /\ hst = "menu" /\ job = NoJob /\ si = 1 /\ ci = 1
      /\ told = {} /\ failed = {} /\ skipped = {} /\ base = flash.mem /\ fitting = TRUE
  BY DEF Init, WireInit, PreloaderInit, HostInit
<1>4. TypeOK
  BY <1>2, <1>3, BoundsAssumption DEF Init, TypeOK, DevStates, HostStates
<1>5. LineOK /\ AtRest /\ ~Busy
  BY <1>3 DEF LineOK, AtRest, Settling, Busy
<1> QED BY <1>3, <1>4, <1>5 DEF IInv, InStep, Synced

\* The invariant is inductive: one lemma for each action of Next.
LEMMA NextIInv == IInv /\ [Next]_vars => IInv'
<1> SUFFICES ASSUME IInv, [Next]_vars PROVE IInv'
  OBVIOUS
<1>1. CASE Host
  BY <1>1, SendOpcodeStep, ReadStatusStep, SendOperandsStep, WriteFailsStep, ReadAckStep,
     ReadEotStep, ReadDataStep, StageDoneStep, JobDoneStep, BackToMenuStep DEF Host, HostStep
<1>2. CASE Device
  BY <1>2, ReadOpcodeStep, ReadOperandsStep, ReadPayloadStep, AnswerDataStep, WipeStepStep,
     BurnStepStep, StampStepStep DEF Device, DeviceStep
<1>3. CASE User
  BY <1>3, StopLocallyStep, QuitStep DEF User
<1>4. CASE Start \/ NoiseToDevice \/ NoiseToHost \/ Hangup \/ PowerCut \/ Restart
  BY <1>4, StartStep, NoiseToDeviceStep, NoiseToHostStep, HangupStep, PowerCutStep, RestartStep
<1>5. CASE UNCHANGED vars
  BY <1>5, StutterStep
<1> QED BY <1>1, <1>2, <1>3, <1>4, <1>5 DEF Next

\* Every state of every session is typed and in step.
THEOREM SessionInvariant == Spec => []IInv
BY InitIInv, NextIInv, PTL DEF Spec

\* Type correctness: whatever the jobs, the flash and the faults.
THEOREM TypeCorrect == Spec => []TypeOK
<1>1. IInv => TypeOK
  BY DEF IInv
<1> QED BY <1>1, SessionInvariant, PTL

\* Where serial_read_byte leaves the host and where preloader_start is always
\* fit together, until one of them, or the line, has gone.
THEOREM AlwaysInStep == Spec => []InStep
<1>1. IInv => InStep
  BY DEF IInv
<1> QED BY <1>1, SessionInvariant, PTL

\* The preloader never reads an operand byte as an opcode, nor an opcode as an
\* operand, whatever the jobs, the refusals, the hangups and the Ctrl-Cs.
THEOREM AlwaysFramed == Spec => []Framing
<1>1. IInv => Framing
  BY TailFacts, EmptyFacts DEF IInv, InStep, LineOK, OperandsOf, Framing, TypeOK
<1> QED BY <1>1, SessionInvariant, PTL

\* While the preloader is at work in the flash, with no one reading its UART,
\* the host has sent it at most one opcode.
THEOREM BoundedBacklog == Spec => []BusyBacklog
<1>1. ASSUME IInv PROVE BusyBacklog
  <2>1. /\ Len(h2d) \in Nat /\ DOMAIN h2d = 1 .. Len(h2d)
    BY <1>1 DEF IInv, TypeOK
  <2>2. Busy /\ Len(h2d) > 0 => h2d[1].kind = "opcode" /\ Len(h2d) = 1
    BY <1>1 DEF IInv, InStep, LineOK
  <2> QED BY <2>1, <2>2 DEF BusyBacklog, Busy
<1> QED BY <1>1, SessionInvariant, PTL

-----------------------------------------------------------------------------
(***************************************************************************)
(* The session implements FlashService: every step of host, phone and line *)
(* is a step of the abstract service, or none, for every size of flash,    *)
(* every set of jobs and every set of faults.                              *)
(***************************************************************************)

\* The service's view of a state: the flash is Underway, what is submitted
\* Pending, and what is in progress
Open == IF dst \in {"wipe", "burn", "stamp"} THEN {dcmd} ELSE {}

\* FlashService stands on the same chip and the same commands.
LEMMA SameChip ==
  /\ Service!Blocks = Blocks /\ Service!MemVal = MemVal /\ Service!ProtVal = ProtVal
  /\ Service!Cmd = Cmd
  /\ Service!Immediate = NoOperand
  /\ \A f, c : Service!Apply(f, c) = Apply(f, c)
<1>1. /\ Service!Blocks = Blocks /\ Service!ProtVal = ProtVal
      /\ Service!PageVal = PageVal /\ Service!BlankBlock = BlankBlock
  BY DEF Service!Blocks, Blocks, Service!ProtVal, ProtVal, Service!PageVal, PageVal, Service!Marks,
     Marks, Service!BlankBlock, BlankBlock, Service!Blank, Blank
<1>2. Service!MemVal = MemVal /\ Service!Cmd = Cmd
  BY <1>1 DEF Service!MemVal, MemVal, Service!Cmd, Cmd, Service!Ops, Ops, Service!Puts, Puts
<1>3. ASSUME NEW f, NEW c
      PROVE  Service!Wipe(f, c) = Wipe(f, c)
  BY <1>1 DEF Service!Wipe, Wipe, Service!BlankCheck, BlankCheck, Service!FlashErase, FlashErase,
     Service!EraseBlk, EraseBlk, Service!EraseAll, EraseAll, Service!SameAs, SameAs
<1>4. \A m, p, b, put : Service!ProgramPages(m, p, b, put) = ProgramPages(m, p, b, put)
  BY DEF Service!ProgramPages, ProgramPages, Service!BurnPage, BurnPage, Service!AndMark, AndMark,
     Service!AndData, AndData
<1>5. ASSUME NEW f, NEW c
      PROVE  Service!Burn(f, c) = Burn(f, c) /\ Service!Stamp(f, c) = Stamp(f, c)
  BY <1>4 DEF Service!Burn, Burn, Service!Stamp, Stamp, Service!SameAs, SameAs,
     Service!DataOf, DataOf
<1>6. \A f, c : Service!Apply(f, c) = Apply(f, c)
  BY <1>3, <1>5 DEF Service!Apply, Apply
<1>7. Service!Immediate = NoOperand
  BY DEF Service!Immediate, NoOperand
<1> QED BY <1>1, <1>2, <1>6, <1>7

-----------------------------------------------------------------------------
(* What the phases of a command do to a flash.                             *)

\* Commands that have no second and third phase are over after the first; those
\* that read, and a jump, change nothing; a mark is the third phase alone.
LEMMA PhasesOf ==
  ASSUME NEW f, NEW c \in Cmd
  PROVE  /\ c.op \in OnePhase => Apply(f, c) = Wipe(f, c)
         /\ c.op \in Reading \cup {"JUMP"} => Apply(f, c) = f
         /\ c.op = "MARK_SECT" => Apply(f, c) = Stamp(f, c)
<1>1. c.op \notin {"BLK_PROGRAM", "SECT_WRITE"} => Burn(f, c) = f
  BY DEF Burn
<1>2. c.op \notin {"SECT_WRITE", "MARK_SECT"} => \A g : Stamp(g, c) = g
  BY DEF Stamp
<1>3. c.op \notin {"BLK_PROGRAM", "SECT_WRITE"} => \A g : Burn(g, c) = g
  BY DEF Burn
<1>4. c.op \in Reading \cup {"JUMP", "MARK_SECT"} => Wipe(f, c) = f
  BY DEF Wipe, Reading
<1> QED BY <1>1, <1>2, <1>3, <1>4 DEF Apply, OnePhase, Reading

\* Every phase leaves the pages of the blocks alone that the command is not about.
LEMMA PhasesTouch ==
  ASSUME NEW f \in Flash, NEW c \in Cmd, NEW b \in Blocks, b \notin Service!Touched(c)
  PROVE  /\ Wipe(f, c).mem[b] = f.mem[b]
         /\ Burn(f, c).mem[b] = f.mem[b]
         /\ Stamp(f, c).mem[b] = f.mem[b]
<1>1. /\ c.op # "CHIP_ERASE" /\ c.blk # b /\ c.blk \in Blocks
      /\ f.mem \in MemVal /\ f.prot \in ProtVal
  BY SameChip DEF Service!Touched, Flash, Cmd
<1>2. \A prot, put : ProgramPages(f.mem, prot, c.blk, put)[b] = f.mem[b]
  BY <1>1 DEF ProgramPages, MemVal
<1>3. FlashErase(f, c.blk).mem[b] = f.mem[b]
  BY <1>1 DEF FlashErase, EraseBlk, MemVal, Flash
<1>4. Wipe(f, c).mem[b] = f.mem[b]
  BY <1>1, <1>3 DEF Wipe, Flash
<1>5. Burn(f, c).mem[b] = f.mem[b]
  BY <1>2 DEF Burn, Flash
<1>6. Stamp(f, c).mem[b] = f.mem[b]
  BY <1>2 DEF Stamp, Flash
<1> QED BY <1>4, <1>5, <1>6

\* So what a power cut can spoil is in the blocks of the command in progress.
LEMMA FinishTouches ==
  ASSUME TypeOK, InStep, NEW b \in Blocks, Underway.mem[b] # flash.mem[b]
  PROVE  \E c \in Open : b \in Service!Touched(c)
<1> SUFFICES ASSUME \A c \in Open : b \notin Service!Touched(c)
             PROVE  Underway.mem[b] = flash.mem[b]
  OBVIOUS
<1>1. CASE dst \notin {"wipe", "burn", "stamp"}
  BY <1>1 DEF Underway, Finish
<1>2. CASE dst \in {"wipe", "burn", "stamp"}
  <2>1. dcmd \in Cmd /\ b \notin Service!Touched(dcmd) /\ flash \in Flash
    BY <1>2 DEF Open, InStep, Busy, TypeOK
  <2>2. \A f \in Flash : /\ Wipe(f, dcmd).mem[b] = f.mem[b] /\ Burn(f, dcmd).mem[b] = f.mem[b]
                         /\ Stamp(f, dcmd).mem[b] = f.mem[b]
                         /\ Wipe(f, dcmd) \in Flash /\ Burn(f, dcmd) \in Flash
    BY <2>1, PhasesTouch, PhaseTypes
  <2>3. /\ Apply(flash, dcmd).mem[b] = flash.mem[b]
        /\ Stamp(Burn(flash, dcmd), dcmd).mem[b] = flash.mem[b]
        /\ Stamp(flash, dcmd).mem[b] = flash.mem[b]
    BY <2>1, <2>2 DEF Apply
  <2> QED BY <2>3, <1>2 DEF Underway, Finish
<1> QED BY <1>1, <1>2

-----------------------------------------------------------------------------
(* How the steps look to the service.                                      *)

View == <<Underway, Pending, Open>>

\* Where the device is decides what is under way and what is in progress.
LEMMA UnderwayIs ==
  /\ dst = "wipe"  => Underway = Apply(flash, dcmd) /\ Open = {dcmd}
  /\ dst = "burn"  => Underway = Stamp(Burn(flash, dcmd), dcmd) /\ Open = {dcmd}
  /\ dst = "stamp" => Underway = Stamp(flash, dcmd) /\ Open = {dcmd}
  /\ dst \notin {"wipe", "burn", "stamp"} => Underway = flash /\ Open = {}
BY DEF Underway, Finish, Open

\* What is submitted is the command the device waits for the operands of.
LEMMA PendingIs ==
  ASSUME TypeOK, InStep
  PROVE  /\ Pending = {} \/ (Pending = {dcmd} /\ dcmd \in Cmd /\ dst = "operands")
         /\ dst = "operands" /\ h2d # <<>> =>
              Pending = IF h2d[1].ok \/ dcmd.op \notin Checked THEN {dcmd} ELSE {}
<1>1. h2d # <<>> => Head(h2d) = h2d[1] /\ Len(h2d) > 0
  BY TailFacts DEF TypeOK
<1>2. dst = "operands" /\ h2d # <<>> =>
        Head(h2d).cmd = dcmd /\ Head(h2d).kind = "operands" /\ dcmd \in Cmd
  BY <1>1 DEF InStep, LineOK, OperandsOf
<1> QED BY <1>1, <1>2 DEF Pending

\* The actions of the service, on what it sees of a session.
LEMMA ServiceSteps ==
  ASSUME NEW c \in Cmd
  PROVE  /\ /\ Pending = {} /\ Open = {} /\ Pending' = {c} /\ UNCHANGED <<Underway, Open>>
            => Service!Submit
         /\ /\ Pending = {c} /\ Open = {} /\ Pending' = {} /\ Underway' = Apply(Underway, c)
            /\ Open' \in {{c}, {}}
            => Service!Take
         /\ /\ Pending = {} /\ Open = {} /\ c.op \in NoOperand /\ Open' = {c} /\ Pending' = {}
            /\ Underway' = Apply(Underway, c)
            => Service!Straight
         /\ /\ Open = {c} /\ Open' = {} /\ UNCHANGED <<Underway, Pending>>
            => Service!Finish
BY SameChip DEF Service!Submit, Service!Take, Service!Straight, Service!Finish, Open

\* What a step leaves the view of the service alone with.
LEMMA SameView ==
  ASSUME UNCHANGED <<h2d, devVars>>
  PROVE  UNCHANGED View
BY DEF View, Underway, Pending, Open, devVars

\* The device reads an opcode: CHIP_ERASE and the like are taken at once.
LEMMA ReadOpcodeServes ==
  ASSUME IInv, ReadOpcode
  PROVE  Service!Straight \/ UNCHANGED View
<1>1. /\ h2d \in Seq(Token) /\ Len(h2d) = 1 /\ Head(h2d) \in Token
      /\ h2d' = <<>>
  <2>1. /\ h2d \in Seq(Token) /\ h2d # <<>> /\ Head(h2d) \in Token /\ dst = "opcode"
        /\ Len(h2d) > 0 /\ Len(Tail(h2d)) = Len(h2d) - 1 /\ Tail(h2d) \in Seq(Token)
    BY TailFacts DEF ReadOpcode, IInv, TypeOK
  <2>2. Len(h2d) = 1
    BY <2>1 DEF IInv, InStep, LineOK
  <2> QED BY <2>1, <2>2, EmptyFacts DEF ReadOpcode
<1>2. /\ Pending = {} /\ Pending' = {} /\ Underway = flash /\ Open = {} /\ flash' = flash
  BY <1>1, UnderwayIs DEF ReadOpcode, Pending
<1>3. CASE dst' = "wipe"
  <2>1. dcmd' \in Cmd /\ dcmd'.op \in NoOperand
    BY <1>1, <1>3 DEF ReadOpcode, Token
  <2>2. Underway' = Apply(flash, dcmd') /\ Open' = {dcmd'}
    BY <1>2, <1>3 DEF Underway, Open, Finish
  <2> QED BY <1>2, <2>1, <2>2, ServiceSteps
<1>4. CASE dst' # "wipe"
  <2>1. Underway' = flash /\ Open' = {}
    BY <1>2, <1>4 DEF Underway, Open, Finish, ReadOpcode
  <2> QED BY <1>2, <2>1 DEF View
<1> QED BY <1>3, <1>4

\* Operands are taken as they are read, unless their checksum is wrong.
LEMMA OperandsServe ==
  ASSUME IInv, ReadOperands \/ ReadPayload
  PROVE  Service!Take \/ UNCHANGED View
<1>1. /\ dst = "operands" /\ h2d # <<>> /\ Head(h2d) = h2d[1] /\ flash' = flash
      /\ dcmd \in Cmd /\ flash \in Flash
  BY TailFacts DEF ReadOperands, ReadPayload, IInv, TypeOK, InStep
<1>2. /\ Open = {} /\ Underway = flash
      /\ Pending = IF h2d[1].ok \/ dcmd.op \notin Checked THEN {dcmd} ELSE {}
  BY <1>1, UnderwayIs, PendingIs DEF IInv
<1>3. CASE /\ h2d[1].ok \/ dcmd.op \notin Checked
           /\ \/ dst' \in {"wipe", "stamp"} /\ dcmd' = dcmd /\ Serve
              \/ dst' = "gone" /\ dcmd.op = "JUMP"
  <2>1. Pending' = {} /\ Pending = {dcmd}
    BY <1>2, <1>3 DEF Pending
  <2>2. Underway' = Apply(flash, dcmd) /\ Open' \in {{dcmd}, {}}
    <3>1. CASE dst' = "wipe" /\ dcmd' = dcmd
      BY <3>1, <1>1 DEF Underway, Open, Finish
    <3>2. CASE dst' = "stamp" /\ dcmd' = dcmd /\ dcmd.op = "MARK_SECT"
      BY <3>2, <1>1, PhasesOf DEF Underway, Open, Finish
    <3>3. CASE dst' = "gone" /\ dcmd.op = "JUMP"
      BY <3>3, <1>1, PhasesOf DEF Underway, Open, Finish
    <3> QED BY <3>1, <3>2, <3>3, <1>3 DEF Serve
  <2> QED BY <1>1, <1>2, <2>1, <2>2, ServiceSteps
<1>4. CASE ~h2d[1].ok /\ dcmd.op \in Checked /\ NextCommand
  <2>1. Pending' = {} /\ Pending = {} /\ Underway' = flash /\ Open' = {}
    BY <1>1, <1>2, <1>4 DEF Pending, Underway, Open, Finish, NextCommand
  <2> QED BY <1>2, <2>1 DEF View
<1>5. CASE ReadOperands
  BY <1>1, <1>3, <1>5 DEF ReadOperands, Serve
<1>6. CASE ReadPayload
  BY <1>1, <1>3, <1>4, <1>6 DEF ReadPayload, Serve
<1> QED BY <1>5, <1>6

\* The phases bring the flash to what the service made it at once; the last of
\* them ends the command.
LEMMA PhasesServe ==
  ASSUME IInv, AnswerData \/ WipeStep \/ BurnStep \/ StampStep
  PROVE  Service!Finish \/ UNCHANGED View
<1>1. dcmd \in Cmd /\ Pending = {} /\ Pending' = {}
  BY DEF IInv, InStep, Busy, AnswerData, WipeStep, BurnStep, StampStep, Pending, NextCommand
<1>2. CASE dst' = "opcode" /\ Underway = flash' /\ Open = {dcmd}
  <2>1. Underway' = flash' /\ Open' = {}
    BY <1>2 DEF Underway, Open, Finish
  <2> QED BY <1>1, <1>2, <2>1, ServiceSteps
<1>3. CASE AnswerData
  BY <1>1, <1>2, <1>3, UnderwayIs, PhasesOf DEF AnswerData, NextCommand
<1>4. CASE WipeStep
  <2>1. CASE dcmd.op \in OnePhase
    BY <1>1, <1>2, <1>4, <2>1, UnderwayIs, PhasesOf DEF WipeStep, NextCommand
  <2>2. CASE dcmd.op \notin OnePhase
    <3>1. Underway = Stamp(Burn(Wipe(flash, dcmd), dcmd), dcmd) /\ Open = {dcmd}
      BY <1>4, UnderwayIs DEF WipeStep, Apply
    <3>2. Underway' = Stamp(Burn(flash', dcmd), dcmd) /\ Open' = {dcmd} /\ flash' = Wipe(flash, dcmd)
      BY <1>4, <2>2 DEF WipeStep, Underway, Open, Finish
    <3> QED BY <1>1, <3>1, <3>2 DEF View
  <2> QED BY <2>1, <2>2
<1>5. CASE BurnStep
  <2>1. Underway = Stamp(Burn(flash, dcmd), dcmd) /\ Open = {dcmd}
    BY <1>5, UnderwayIs DEF BurnStep
  <2>2. Underway' = Stamp(flash', dcmd) /\ Open' = {dcmd} /\ flash' = Burn(flash, dcmd)
    BY <1>5 DEF BurnStep, Underway, Open, Finish
  <2> QED BY <1>1, <2>1, <2>2 DEF View
<1>6. CASE StampStep
  BY <1>2, <1>6, UnderwayIs DEF StampStep, NextCommand
<1> QED BY <1>3, <1>4, <1>5, <1>6

\* An opcode submits nothing: it goes behind what is on the line.
LEMMA SendOpcodeServes ==
  ASSUME IInv, SendOpcode, HostAlone
  PROVE  UNCHANGED View
<1> DEFINE t == [kind |-> "opcode", cmd |-> Cur, ok |-> TRUE]
<1>1. UNCHANGED devVars /\ h2d' = IF link = "up" THEN Append(h2d, t) ELSE h2d
  BY DEF SendOpcode, HostAlone, HostSends
<1>2. CASE h2d = <<>> /\ link = "up"
  <2>1. h2d' # <<>> /\ Head(h2d') = t
    BY <1>1, <1>2
  <2>2. Pending = {} /\ Pending' = {}
    BY <1>2, <2>1 DEF Pending
  <2> QED BY <1>1, <2>2 DEF View, Underway, Open, devVars
<1>3. CASE h2d # <<>> /\ link = "up"
  <2>1. job # NoJob /\ InStage
    BY DEF IInv, TypeOK, SendOpcode
  <2>2. t \in Token
    BY <2>1, CurType DEF IInv, Token
  <2>3. h2d' # <<>> /\ Head(h2d') = Head(h2d)
    BY <1>1, <1>3, <2>2 DEF IInv, TypeOK
  <2>4. Pending' = Pending
    BY <1>1, <1>3, <2>3 DEF Pending, devVars
  <2> QED BY <1>1, <2>4 DEF View, Underway, Open, devVars
<1>4. CASE link # "up"
  BY <1>1, <1>4, SameView
<1> QED BY <1>2, <1>3, <1>4

\* The host submits a command with its operands; no one takes it once the
\* phone is gone.
LEMMA SendOperandsServes ==
  ASSUME IInv, SendOperands, HostAlone
  PROVE  Service!Submit \/ UNCHANGED View
<1> DEFINE t == [kind |-> "operands", cmd |-> Cur, ok |-> TRUE]
<1>1. /\ UNCHANGED devVars /\ h2d' = Append(h2d, t) /\ link = "up" /\ hst = "operands"
      /\ h2d \in Seq(Token)
  BY DEF SendOperands, HostAlone, HostSends, IInv, TypeOK
<1>2. CASE dst = "gone"
  BY <1>1, <1>2 DEF View, Pending, Underway, Open, devVars
<1>3. CASE dst # "gone"
  <2>1. h2d = <<>> /\ dst = "operands" /\ dcmd = Cur /\ Cur \in Cmd
    BY <1>1, <1>3, EmptyFacts DEF IInv, InStep, Connected, Synced
  <2>2. h2d' # <<>> /\ Head(h2d') = t
    BY <1>1, <2>1
  <2>3. Pending = {} /\ Pending' = {Cur}
    BY <1>1, <2>1, <2>2 DEF Pending, devVars
  <2>4. Open = {} /\ UNCHANGED <<Underway, Open>>
    BY <1>1, <2>1 DEF Open, Underway, devVars
  <2> QED BY <2>1, <2>3, <2>4, ServiceSteps
<1> QED BY <1>2, <1>3

\* Noise and a hangup refuse a command that has been submitted, or do nothing.
LEMMA LineFaultsServe ==
  ASSUME IInv, NoiseToDevice \/ Hangup
  PROVE  Service!Refuse \/ UNCHANGED View
<1>1. UNCHANGED <<Underway, Open>> /\ dst' = dst /\ dcmd' = dcmd
  BY DEF NoiseToDevice, Hangup, devVars, Underway, Open
<1>2. Pending' \in {Pending, {}}
  <2>1. CASE Hangup
    BY <2>1 DEF Hangup, Pending
  <2>2. CASE NoiseToDevice
    <3>1. PICK i \in DOMAIN h2d : h2d' = [h2d EXCEPT ![i].ok = FALSE]
      BY <2>2 DEF NoiseToDevice
    <3>2. /\ h2d \in Seq(Token) /\ i \in 1 .. Len(h2d) /\ h2d[i] \in Token /\ h2d[1] \in Token
          /\ h2d # <<>>
      BY <3>1 DEF IInv, TypeOK
    <3>3. /\ h2d' \in Seq(Token) /\ Len(h2d') = Len(h2d)
          /\ h2d'[1] \in {h2d[1], [h2d[1] EXCEPT !.ok = FALSE]}
      <4> DEFINE u == [h2d[i] EXCEPT !.ok = FALSE]
      <4>1. u \in Token /\ h2d' = [h2d EXCEPT ![i] = u]
        BY <3>1, <3>2 DEF Token
      <4>2. (i = 1 => u = [h2d[1] EXCEPT !.ok = FALSE])
        OBVIOUS
      <4> HIDE DEF u
      <4>3. h2d' \in Seq(Token) /\ Len(h2d') = Len(h2d) /\ h2d'[1] = IF i = 1 THEN u ELSE h2d[1]
        BY <3>2, <4>1
      <4> QED BY <4>2, <4>3
    <3>4. h2d' # <<>> /\ Head(h2d') = h2d'[1] /\ Head(h2d) = h2d[1]
      BY <3>2, <3>3, TailFacts, EmptyFacts
    <3>5. /\ Head(h2d').kind = Head(h2d).kind /\ Head(h2d').cmd = Head(h2d).cmd
          /\ Head(h2d').ok => Head(h2d).ok
      BY <3>2, <3>3, <3>4 DEF Token
    <3> QED BY <1>1, <3>2, <3>4, <3>5 DEF Pending
  <2> QED BY <2>1, <2>2
<1> QED BY <1>1, <1>2 DEF View, Service!Refuse, Open

\* Power goes, now or before the program is started again: what the command in
\* progress would have done may be missing, in the blocks it is about.
LEMMA CrashServes ==
  ASSUME IInv, PowerCut \/ Restart
  PROVE  Service!Crash
<1>1. "power" \in Faults \/ MaxSessions > 0
  <2>1. CASE PowerCut
    BY <2>1 DEF PowerCut
  <2>2. CASE Restart
    BY <2>2, BoundsAssumption DEF Restart, Spend, IInv, TypeOK
  <2> QED BY <2>1, <2>2
<1>2. flash'.mem = flash.mem /\ flash' \in Flash
  <2>1. CASE PowerCut
    BY <2>1 DEF PowerCut, IInv, TypeOK
  <2>2. CASE Restart
    <3>1. IInv'
      BY <2>2, RestartStep
    <3>2. flash'.mem = flash.mem
      BY <2>2 DEF Restart, PowerOn, IInv, TypeOK, Flash
    <3> QED BY <3>1, <3>2 DEF IInv, TypeOK
  <2> QED BY <2>1, <2>2
<1>3. Underway' = flash' /\ Open' = {} /\ Pending' = {}
  BY DEF PowerCut, Restart, Underway, Open, Pending, Finish
<1>4. \A b \in Blocks : Underway'.mem[b] # Underway.mem[b] =>
                          \E c \in Open : b \in Service!Touched(c)
  BY <1>2, <1>3, FinishTouches DEF IInv
<1> QED BY <1>1, <1>2, <1>3, <1>4, SameChip DEF Service!Crash, Flash, Open

-----------------------------------------------------------------------------
\* One lemma for each action of Next.
LEMMA StepServes ==
  ASSUME IInv, [Next]_vars
  PROVE  Service!Next \/ UNCHANGED View
<1>1. CASE Host
  <2>1. CASE SendOpcode
    BY <1>1, <2>1, SendOpcodeServes DEF Host
  <2>2. CASE SendOperands
    BY <1>1, <2>2, SendOperandsServes DEF Host, Service!Next
  <2>3. CASE ReadStatus \/ WriteFails \/ ReadAck \/ ReadEot \/ ReadData \/ StageDone
             \/ JobDone \/ BackToMenu
    <3>1. UNCHANGED <<h2d, devVars>>
      BY <1>1, <2>3 DEF Host, HostAlone, ReadStatus, WriteFails, ReadAck, ReadEot, ReadData,
         StageDone, JobDone, BackToMenu, wire
    <3> QED BY <3>1, SameView
  <2> QED BY <1>1, <2>1, <2>2, <2>3 DEF Host, HostStep
<1>2. CASE Device
  BY <1>2, ReadOpcodeServes, OperandsServe, PhasesServe DEF Device, DeviceStep, Service!Next
<1>3. CASE User \/ Start \/ NoiseToHost \/ UNCHANGED vars
  <2>1. UNCHANGED <<h2d, devVars>>
    BY <1>3 DEF User, StopLocally, Quit, HostAlone, Start, StartJob, NoiseToHost, vars, wire
  <2> QED BY <2>1, SameView
<1>4. CASE NoiseToDevice \/ Hangup
  BY <1>4, LineFaultsServe DEF Service!Next
<1>5. CASE PowerCut \/ Restart
  BY <1>5, CrashServes DEF Service!Next
<1> QED BY <1>1, <1>2, <1>3, <1>4, <1>5 DEF Next

\* The line, the preloader and its three-phase operations together are a flash
\* whose commands take effect whole, in order and one at a time, and a crash
\* spoils the blocks of the command in progress and no others.
THEOREM ServesWhole == Spec => Serves
<1>1. Init => Service!Init
  <2> SUFFICES ASSUME Init PROVE Service!Init
    OBVIOUS
  <2>1. IInv
    BY InitIInv
  <2>2. dst = "opcode" /\ h2d = <<>> /\ flash \in Flash
    BY <2>1 DEF Init, PreloaderInit, WireInit, IInv, TypeOK
  <2>3. Underway = flash /\ Open = {} /\ Pending = {}
    BY <2>2, UnderwayIs DEF Pending
  <2> QED BY <2>2, <2>3, SameChip DEF Service!Init, Flash, Open
<1>2. IInv /\ [Next]_vars => [Service!Next]_View
  BY StepServes
<1> QED BY <1>1, <1>2, SessionInvariant, PTL DEF Spec, Serves, Service!Spec, View, Open

-----------------------------------------------------------------------------
(* What the flash holds, as far as the host is concerned: each step of a   *)
(* session leaves the flash behind the host as it is, or carries out the   *)
(* command the host is at, exactly once.  The properties about what the    *)
(* flash holds when the host is done all rest on this.                     *)

(* The flash behind the host.                                              *)

\* The device has taken the command the host is at.
Taken == /\ h2d = <<>>
         /\ \/ hst = "status" /\ Cur.op \in NoOperand /\ d2h # <<"INVALID">>
            \/ hst = "ack" /\ d2h # <<"NAK">>
            \/ hst \in {"eot", "data"}

\* The flash without the payload that may still be on the line.
Standing == IF hst \in {"ack", "eot", "data"} THEN Underway ELSE Settled

\* g is the flash as the commands the host is past leave it, without the one
\* it is at.
Behind(g) == Standing = IF Taken THEN Apply(g, Cur) ELSE g

\* How the host's place in the job and the flash behind it change together.
Moves(g, h) ==
  \/ h = g /\ UNCHANGED <<job, si, ci, told, failed, skipped, base>>
  \/ /\ InStage /\ h = Apply(g, Cur)
     /\ ci' = ci + 1 /\ UNCHANGED <<job, si, told, failed, skipped, base>>
  \/ h = g /\ InStage /\ Cur.op = "MARK_SECT" /\ Skip /\ UNCHANGED base
  \/ h = g /\ job # NoJob /\ si <= Len(job) /\ GiveUp /\ UNCHANGED base
  \/ h = g /\ job # NoJob /\ StageDone /\ UNCHANGED base
  \/ \E j \in Jobs : h = g /\ StartJob(j) /\ base' = g.mem /\ FromMarks(j, g.mem)

\* The flash once everything accepted is done.
LEMMA SettledIs ==
  /\ Pending = {} => Settled = Underway
  /\ Pending' = {} => Settled' = Underway'
  /\ \A c : Pending = {c} => Settled = Apply(Underway, c)
  /\ \A c : Pending' = {c} => Settled' = Apply(Underway', c)
  /\ h2d = <<>> => Pending = {} /\ Settled = Underway
  /\ h2d' = <<>> => Pending' = {} /\ Settled' = Underway'
BY DEF Settled, Pending

\* A step the service does not see changes nothing.
LEMMA SameSettled ==
  ASSUME TypeOK, InStep, UNCHANGED <<Underway, Pending>>
  PROVE  Settled' = Settled
<1>1. CASE Pending = {}
  BY <1>1, SettledIs
<1>2. CASE Pending = {dcmd}
  <2>1. Pending' = {dcmd} /\ Underway' = Underway
    BY <1>2
  <2>2. Settled = Apply(Underway, dcmd) /\ Settled' = Apply(Underway', dcmd)
    BY <2>1, <1>2, SettledIs
  <2> QED BY <2>1, <2>2
<1> QED BY <1>1, <1>2, PendingIs

\* The device takes the opcode the host is waiting for the status of.
LEMMA ReadOpcodeBehind ==
  ASSUME IInv, ReadOpcode, DeviceAlone, Connected, NEW g \in Flash, Behind(g)
  PROVE  Behind(g)' /\ Moves(g, g)
<1>1. /\ hst' = hst /\ Cur' = Cur /\ UNCHANGED <<job, si, ci, told, failed, skipped, base>>
  BY DeviceAloneKeeps DEF IInv
<1>2. /\ Len(h2d) = 1 /\ h2d # <<>> /\ Head(h2d) = h2d[1] /\ h2d' = <<>> /\ dst = "opcode"
  <2>1. /\ h2d \in Seq(Token) /\ h2d # <<>> /\ dst = "opcode" /\ Head(h2d) = h2d[1]
        /\ Len(h2d) > 0 /\ Len(Tail(h2d)) = Len(h2d) - 1 /\ Tail(h2d) \in Seq(Token)
    BY TailFacts DEF ReadOpcode, IInv, TypeOK
  <2>2. Len(h2d) = 1
    BY <2>1 DEF IInv, InStep, LineOK
  <2> QED BY <2>1, <2>2, EmptyFacts DEF ReadOpcode
<1>3. hst = "status" /\ d2h = <<>> /\ h2d[1].cmd = Cur /\ link = "up"
  <2>1. hst = "status"
    BY <1>2, EmptyFacts DEF IInv, InStep, Synced, AtRest, AckOf, EotOf, DataOfRead, AtWork, Connected, TypeOK, HostStates, Busy
  <2> QED BY <1>2, <2>1 DEF IInv, InStep, Synced, StatusOf, OpcodeAt, Connected
<1>4. ~Taken /\ Standing = g /\ Standing = Underway /\ Underway = flash
  <2>1. Pending = {}
    BY <1>2 DEF Pending
  <2> QED BY <1>2, <1>3, <2>1, SettledIs, UnderwayIs DEF Taken, Standing, Behind
<1>5. Standing' = Underway' /\ flash' = flash
  BY <1>1, <1>2, <1>3, SettledIs DEF Standing, ReadOpcode
<1>6. CASE h2d[1].ok /\ Cur.op \in NoOperand
  <2>1. dcmd' = Cur /\ dst' = "wipe" /\ d2h' = <<"VALID">>
    BY <1>2, <1>3, <1>6, SendReply DEF ReadOpcode, IInv, Replies
  <2>2. Underway' = Apply(flash, Cur) /\ Taken'
    BY <2>1, <1>1, <1>2, <1>3, <1>5, <1>6 DEF Underway, Finish, Taken
  <2> QED BY <2>2, <1>1, <1>4, <1>5 DEF Behind, Moves
<1>7. CASE ~(h2d[1].ok /\ Cur.op \in NoOperand)
  <2>1. dst' \in {"opcode", "operands"} /\ (Cur.op \in NoOperand => d2h' = <<"INVALID">>)
    BY <1>2, <1>3, <1>7, SendReply DEF ReadOpcode, IInv, Replies
  <2>2. Underway' = flash /\ ~Taken'
    BY <2>1, <1>1, <1>3, <1>5 DEF Underway, Finish, Taken
  <2> QED BY <2>2, <1>1, <1>4, <1>5 DEF Behind, Moves
<1> QED BY <1>6, <1>7

\* The device reads the operands of the command the host is at, or of the one
\* before it that the host waits for no reply to.
LEMMA OperandsBehind ==
  ASSUME IInv, ReadOperands \/ ReadPayload, DeviceAlone, Connected, Connected',
         NEW g \in Flash, Behind(g)
  PROVE  Behind(g)' /\ Moves(g, g)
<1>1. /\ hst' = hst /\ Cur' = Cur /\ UNCHANGED <<job, si, ci, told, failed, skipped, base>>
  BY DeviceAloneKeeps DEF IInv
<1>2. /\ h2d' \in Seq(Token) /\ Head(h2d) = h2d[1]
      /\ Len(h2d) > 0 /\ Len(h2d') = Len(h2d) - 1 /\ h2d # <<>>
      /\ Len(h2d) \in Nat /\ Len(h2d') \in Nat /\ dst = "operands" /\ flash' = flash
  <2>1. /\ h2d \in Seq(Token) /\ h2d # <<>> /\ h2d' = Tail(h2d)
        /\ dst = "operands" /\ flash' = flash
    BY DEF ReadOperands, ReadPayload, IInv, TypeOK
  <2> QED BY <2>1, TailFacts, EmptyFacts
<1>3. /\ dcmd \in Cmd /\ flash \in Flash /\ Underway = flash /\ link = "up"
      /\ Pending = IF h2d[1].ok \/ dcmd.op \notin Checked THEN {dcmd} ELSE {}
  BY <1>2, UnderwayIs, PendingIs DEF IInv, InStep, TypeOK, Connected
<1>4. Pending' = {}
  BY DEF Pending, ReadOperands, ReadPayload, Serve, NextCommand
<1>5. CASE h2d[1].ok \/ dcmd.op \notin Checked
  <2>1. Settled = Apply(flash, dcmd)
    BY <1>3, <1>5, SettledIs
  <2>2. Underway' = Apply(flash, dcmd)
    <3>1. Service!Take \/ UNCHANGED View
      BY OperandsServe
    <3>2. Pending' # Pending
      BY <1>3, <1>4, <1>5
    <3>3. Service!Take
      BY <3>1, <3>2 DEF View
    <3> QED BY <3>3, <1>3, <1>5, SameChip DEF Service!Take
  <2>3. Settled' = Settled
    BY <1>4, <2>1, <2>2, SettledIs
  <2>4. CASE hst \in {"ack", "eot", "data"}
    <3>1. Len(h2d) = 1 /\ dcmd = Cur /\ h2d' = <<>>
      BY <1>2, <2>4, EmptyFacts DEF IInv, InStep, Synced, AckOf, EotOf, DataOfRead, AtWork, Connected, Busy
    <3>2. ~Taken /\ Standing = Underway /\ Standing' = Underway'
      BY <1>1, <1>2, <2>4 DEF Taken, Standing
    <3>3. d2h' # <<"NAK">>
      <4>1. d2h = <<>> \/ hst # "ack"
        BY <1>2, <2>4, <3>1 DEF IInv, InStep, Synced, AckOf, Connected
      <4>2. hst = "ack" => Cur.op \in Checked
        BY DEF IInv, InStep, Synced, AckOf, Connected
      <4>3. CASE hst = "ack"
        <5>1. d2h' = <<"ACK">>
          BY <4>1, <4>2, <4>3, <3>1, <1>2, <1>3, <1>5, SendReply DEF ReadOperands, ReadPayload, IInv, Replies
        <5> QED BY <5>1
      <4>4. CASE hst # "ack" /\ h2d # <<>>
        <5>1. d2h = <<>>
          BY <4>4, <2>4, <1>2, <3>1 DEF IInv, InStep, Synced, EotOf, DataOfRead, AtWork, Connected
        <5>2. d2h' \in {<<>>, <<"ACK">>}
          BY <5>1, <1>2, <1>3, <1>5, <3>1, SendReply, PendingIs DEF ReadOperands, ReadPayload, IInv, Replies
        <5> QED BY <5>2
      <4> QED BY <4>3, <4>4, <1>2
    <3>4. Taken'
      BY <3>1, <3>3, <1>1, <2>4 DEF Taken
    <3> QED BY <3>1, <3>2, <3>4, <1>1, <1>3, <2>2 DEF Behind, Moves
  <2>5. CASE hst \notin {"ack", "eot", "data"}
    <3>1. ~Taken /\ ~Taken'
      <4>1. hst = "status" => Len(h2d) = 2
        BY <1>2 DEF IInv, InStep, Synced, StatusOf, Settling, Busy, Connected
      <4> QED BY <4>1, <1>1, <1>2, <2>5, EmptyFacts DEF Taken
    <3>2. Standing = Settled /\ Standing' = Settled'
      BY <2>5, <1>1 DEF Standing
    <3> QED BY <3>1, <3>2, <2>3, <1>1 DEF Behind, Moves
  <2> QED BY <2>4, <2>5
<1>6. CASE ~h2d[1].ok /\ dcmd.op \in Checked
  <2>1. /\ DeviceSends("NAK") /\ NextCommand
    BY <1>2, <1>6 DEF ReadOperands, ReadPayload
  <2>2. hst = "ack" /\ d2h = <<>> /\ Len(h2d) = 1
    BY <1>2, <1>3, <1>6 DEF IInv, InStep, Synced, StatusOf, AtRest, AckOf, EotOf, DataOfRead, AtWork,
       Settling, Busy, Checked, Unanswered, Completed, Reading, Connected, TypeOK, HostStates
  <2>3. d2h' = <<"NAK">>
    BY <2>1, <2>2, <1>3, SendReply DEF IInv, Replies
  <2>4. ~Taken /\ ~Taken'
    BY <1>1, <1>2, <2>2, <2>3 DEF Taken
  <2>5. Standing = Underway /\ Standing' = Underway' /\ Underway' = flash
    BY <1>1, <1>2, <2>1, <2>2 DEF Standing, Underway, Finish, NextCommand
  <2> QED BY <2>4, <2>5, <1>1, <1>3 DEF Behind, Moves
<1> QED BY <1>5, <1>6

\* The phases change the flash, but not what it comes to.
LEMMA PhasesBehind ==
  ASSUME IInv, AnswerData \/ WipeStep \/ BurnStep \/ StampStep, DeviceAlone, Connected,
         NEW g \in Flash, Behind(g)
  PROVE  Behind(g)' /\ Moves(g, g)
<1>1. /\ hst' = hst /\ Cur' = Cur /\ UNCHANGED <<job, si, ci, told, failed, skipped, base>>
  BY DeviceAloneKeeps DEF IInv
<1>2. /\ Busy /\ link = "up" /\ h2d' = h2d
      /\ d2h' = d2h \/ DeviceSends("EOT") \/ DeviceSends("DATA")
  BY DEF AnswerData, WipeStep, BurnStep, StampStep, Connected, Busy
<1>3. Underway' = Underway /\ Settled' = Settled
  <2>1. UNCHANGED <<Underway, Pending>>
    BY PhasesServe DEF View, Service!Finish
  <2> QED BY <2>1, SameSettled DEF IInv
<1>4. Standing' = Standing
  BY <1>1, <1>3 DEF Standing
<1>5. ASSUME h2d = <<>>, hst \in {"status", "ack"}
      PROVE  /\ d2h # <<"INVALID">> /\ d2h # <<"NAK">>
             /\ d2h' # <<"INVALID">> /\ d2h' # <<"NAK">>
  <2>1. d2h = <<"VALID">> \/ d2h = <<"ACK">>
    BY <1>2, <1>5, EmptyFacts DEF IInv, InStep, Synced, StatusOf, AckOf, Connected, Busy
  <2>2. \/ d2h' = d2h
        \/ d2h' \in {<<"VALID", "EOT">>, <<"VALID", "DATA">>, <<"ACK", "EOT">>, <<"ACK", "DATA">>}
    BY <1>2, <2>1, SendReply DEF IInv, Replies
  <2> QED BY <2>1, <2>2
<1>6. Taken' = Taken
  BY <1>1, <1>2, <1>5 DEF Taken
<1> QED BY <1>1, <1>4, <1>6 DEF Behind, Moves

\* The host's view of the line and of the device is unchanged.
LEMMA UnseenBehind ==
  ASSUME TypeOK, InStep, UNCHANGED <<h2d, d2h, flash, dst, dcmd, hst, job, si, ci>>,
         NEW g, Behind(g)
  PROVE  Behind(g)'
<1>1. UNCHANGED <<Underway, Pending, Cur>>
  BY DEF Underway, Finish, Pending, Cur
<1>2. Settled' = Settled
  BY <1>1, SameSettled
<1> QED BY <1>1, <1>2 DEF Behind, Standing, Taken

\* A host between two commands: nothing is taken, and the flash behind it is
\* the one the device will come to.
LEMMA BehindAtRest ==
  /\ hst \in {"menu", "issue", "operands", "back", "closed"} =>
       \A g : Behind(g) <=> Settled = g
  /\ hst' \in {"menu", "issue", "operands", "back", "closed"} =>
       \A g : Behind(g)' <=> Settled' = g
BY DEF Behind, Standing, Taken

\* What the host does once a command has failed leaves it between two commands.
LEMMA FailMoves ==
  ASSUME IInv, Fail, UNCHANGED base, InStage, job # NoJob, NEW g
  PROVE  Moves(g, g) /\ hst' \in {"issue", "back", "closed"}
<1>1. si <= Len(job) /\ TypeOK
  BY DEF InStage, IInv
<1>2. hst' \in {"issue", "back", "closed"}
  BY <1>1, FailFacts
<1> QED BY <1>1, <1>2 DEF Fail, Moves

\* The opcode is sent: the device has not taken it yet.
LEMMA SendOpcodeBehind ==
  ASSUME IInv, SendOpcode, HostAlone, Connected, NEW g \in Flash, Behind(g)
  PROVE  Behind(g)' /\ Moves(g, g)
<1>1. /\ hst = "issue" /\ hst' = "status" /\ job # NoJob /\ InStage /\ Cur' = Cur
      /\ UNCHANGED <<job, si, ci, told, failed, skipped, base>> /\ link = "up"
      /\ Cur \in Cmd
  BY CurType DEF SendOpcode, Proceed, IInv, TypeOK, HostAlone, Cur, Connected
<1>2. h2d' # <<>>
  <2>1. [kind |-> "opcode", cmd |-> Cur, ok |-> TRUE] \in Token /\ h2d \in Seq(Token)
    BY <1>1 DEF Token, IInv, TypeOK
  <2> QED BY <2>1, <1>1, AppendFacts, EmptyFacts DEF SendOpcode, HostSends
<1>3. Settled' = Settled
  BY SendOpcodeServes, SameSettled DEF View, IInv
<1>4. Settled = g
  BY <1>1, BehindAtRest
<1>5. ~Taken' /\ Standing' = Settled'
  BY <1>1, <1>2 DEF Taken, Standing
<1> QED BY <1>1, <1>3, <1>4, <1>5 DEF Behind, Moves

\* The operands are sent: a command without a reply is behind the host then.
LEMMA SendOperandsBehind ==
  ASSUME IInv, SendOperands, HostAlone, Connected, Connected', NEW g \in Flash, Behind(g)
  PROVE  \E h \in Flash : Behind(h)' /\ Moves(g, h)
<1> DEFINE t == [kind |-> "operands", cmd |-> Cur, ok |-> TRUE]
<1>1. /\ UNCHANGED devVars /\ h2d' = Append(h2d, t) /\ link = "up" /\ hst = "operands"
      /\ h2d = <<>> /\ d2h = <<>> /\ dst = "operands" /\ dcmd = Cur /\ Cur \in Cmd
      /\ d2h' = d2h /\ InStage /\ base' = base
      /\ Proceed(AwaitAfter(Cur.op))
  BY EmptyFacts DEF SendOperands, HostAlone, HostSends, IInv, InStep, TypeOK, Connected, Synced
<1>2. Underway' = Underway /\ Settled = g /\ Underway = g
  BY <1>1, BehindAtRest, SettledIs DEF Underway, devVars
<1>3. Settled' = Apply(g, Cur) /\ h2d' # <<>>
  <2>1. h2d' # <<>> /\ Head(h2d') = t
    BY <1>1
  <2>2. Pending' = {Cur}
    BY <1>1, <2>1 DEF Pending, devVars
  <2> QED BY <1>2, <2>1, <2>2, SettledIs
<1>4. Apply(g, Cur) \in Flash
  BY <1>1, PhaseTypes DEF Apply
<1>5. CASE AwaitAfter(Cur.op) \in {"ack", "eot", "data"}
  <2>1. hst' \in {"ack", "eot", "data"} /\ UNCHANGED <<job, si, ci, told, failed, skipped, base>>
    BY <1>1, <1>5 DEF Proceed
  <2>2. Behind(g)'
    BY <1>2, <1>3, <2>1 DEF Behind, Standing, Taken
  <2> QED BY <2>1, <2>2 DEF Moves
<1>6. CASE AwaitAfter(Cur.op) = "issue"
  <2>1. hst' = "issue" /\ ci' = ci + 1 /\ UNCHANGED <<job, si, told, failed, skipped, base>>
    BY <1>1, <1>6 DEF Proceed
  <2>2. \A h : h = Apply(g, Cur) => Behind(h)'
    BY <1>3, <2>1, BehindAtRest
  <2>3. \A h : h = Apply(g, Cur) => Moves(g, h)
    BY <1>1, <2>1 DEF Moves
  <2> QED BY <1>4, <2>2, <2>3
<1>7. CASE AwaitAfter(Cur.op) = "closed"
  BY <1>1, <1>7 DEF Connected, Proceed
<1>8. AwaitAfter(Cur.op) \in {"ack", "eot", "data", "issue", "closed"}
  BY DEF AwaitAfter
<1> QED BY <1>5, <1>6, <1>7, <1>8

\* Facts the four reading steps share.
LEMMA ReadingHost ==
  ASSUME IInv, HostAlone, UNCHANGED <<h2d, link>>, hst \in {"status", "ack", "eot", "data"},
         Connected
  PROVE  /\ UNCHANGED <<h2d, flash, dst, dcmd, base, Underway, Pending>> /\ Settled' = Settled
         /\ InStage /\ job # NoJob /\ Cur \in Cmd /\ link = "up"
         /\ \A t \in Replies : HostReads(t) => d2h # <<>> /\ t = Head(d2h) /\ d2h' = Tail(d2h)
<1>1. UNCHANGED <<h2d, flash, dst, dcmd, base, Underway, Pending>>
  BY DEF HostAlone, devVars, Underway, Finish, Pending
<1>2. Settled' = Settled
  BY <1>1, SameSettled DEF IInv
<1>3. InStage /\ job # NoJob /\ link = "up"
  BY DEF IInv, InStep, TypeOK, Connected
<1> QED BY <1>1, <1>2, <1>3, CurType DEF HostReads, IInv

\* The commands that have no operand are those the host sends none for.
LEMMA BareIs == Bare = NoOperand
BY DEF Bare, NoOperand

\* The host comes to wait for the next reply of the command it is at.
LEMMA WaitsOn ==
  ASSUME NEW st \in {"operands", "eot", "data"}, Proceed(st), base' = base, NEW g
  PROVE  hst' = st /\ Cur' = Cur /\ Moves(g, g)
BY DEF Proceed, Moves, Cur

\* The host goes past the command it is at, which the device has done.
LEMMA PassesBehind ==
  ASSUME Proceed("issue"), base' = base, InStage, Cur \in Cmd, NEW g \in Flash,
         Settled' = Apply(g, Cur)
  PROVE  \E h \in Flash : Behind(h)' /\ Moves(g, h)
<1>1. Apply(g, Cur) \in Flash
  BY PhaseTypes DEF Apply
<1>2. hst' = "issue" /\ ci' = ci + 1 /\ UNCHANGED <<job, si, told, failed, skipped, base>>
  BY DEF Proceed
<1>3. \A h : h = Apply(g, Cur) => Behind(h)'
  BY <1>2, BehindAtRest
<1>4. \A h : h = Apply(g, Cur) => Moves(g, h)
  BY <1>2 DEF Moves
<1> QED BY <1>1, <1>3, <1>4

\* The status of the command the host is at.
LEMMA ReadStatusBehind ==
  ASSUME IInv, ReadStatus, HostAlone, Connected, Connected', NEW g \in Flash, Behind(g)
  PROVE  \E h \in Flash : Behind(h)' /\ Moves(g, h)
<1>1. /\ hst = "status" /\ UNCHANGED <<h2d, link, flash, dst, dcmd, base, Underway>>
      /\ Settled' = Settled /\ InStage /\ job # NoJob /\ Cur \in Cmd
      /\ StatusOf(Cur)
  BY ReadingHost DEF ReadStatus, IInv, InStep, Connected, Synced
<1>2. PICK t \in Replies :
        /\ d2h # <<>> /\ t = Head(d2h) /\ d2h' = Tail(d2h)
        /\ IF t = "VALID"
           THEN Proceed(IF Cur.op \in Bare THEN AwaitAfter(Cur.op) ELSE "operands")
           ELSE Fail
  BY ReadingHost DEF ReadStatus
<1>3. h2d = <<>>
  BY <1>1, <1>2, EmptyFacts DEF StatusOf, IInv, TypeOK
<1>4. Standing = Settled /\ Settled = Underway
  BY <1>1, <1>3, SettledIs DEF Standing
<1>5. CASE t = "VALID" /\ Cur.op \notin NoOperand
  <2>1. Proceed("operands") /\ ~Taken
    BY <1>1, <1>2, <1>5, BareIs DEF Taken
  <2>2. hst' = "operands" /\ Moves(g, g)
    BY <1>1, <2>1, WaitsOn
  <2>3. Behind(g)'
    BY <2>1, <2>2, <1>1, <1>4, BehindAtRest DEF Behind
  <2> QED BY <2>2, <2>3
<1>6. CASE t = "VALID" /\ Cur.op \in NoOperand
  <2>1. AwaitAfter(Cur.op) \in {"eot", "data"}
    BY <1>6 DEF AwaitAfter, NoOperand
  <2>2. hst' = AwaitAfter(Cur.op) /\ Cur' = Cur /\ Moves(g, g)
    BY <1>1, <1>2, <1>6, <2>1, WaitsOn, BareIs
  <2>3. d2h # <<"INVALID">>
    BY <1>2, <1>6, ShortTuples
  <2>4. Taken /\ Taken'
    BY <1>1, <1>3, <1>6, <2>1, <2>2, <2>3 DEF Taken
  <2>5. Standing' = Standing
    BY <1>1, <1>4, <2>1, <2>2 DEF Standing
  <2> QED BY <2>2, <2>4, <2>5 DEF Behind
<1>7. CASE t # "VALID"
  <2>1. d2h = <<"INVALID">>
    BY <1>1, <1>2, <1>3, <1>7, ShortTuples DEF StatusOf
  <2>2. ~Taken
    BY <1>1, <2>1 DEF Taken
  <2>3. Moves(g, g) /\ hst' \in {"issue", "back", "closed"}
    BY <1>1, <1>2, <1>7, FailMoves
  <2>4. Behind(g)'
    BY <2>2, <2>3, <1>1, <1>4, BehindAtRest DEF Behind
  <2> QED BY <2>3, <2>4
<1> QED BY <1>5, <1>6, <1>7

\* ACK: the device is at the command; NAK: it has not touched the flash.
LEMMA ReadAckBehind ==
  ASSUME IInv, ReadAck, HostAlone, Connected, Connected', NEW g \in Flash, Behind(g)
  PROVE  \E h \in Flash : Behind(h)' /\ Moves(g, h)
<1>1. /\ hst = "ack" /\ UNCHANGED <<h2d, link, flash, dst, dcmd, base, Underway>>
      /\ Settled' = Settled /\ InStage /\ job # NoJob /\ Cur \in Cmd
      /\ AckOf(Cur)
  BY ReadingHost DEF ReadAck, IInv, InStep, Connected, Synced
<1>2. PICK t \in Replies :
        /\ d2h # <<>> /\ t = Head(d2h) /\ d2h' = Tail(d2h)
        /\ IF t = "ACK" THEN Proceed(AwaitAfterAck(Cur.op)) ELSE Fail
  BY ReadingHost DEF ReadAck
<1>3. h2d = <<>>
  BY <1>1, <1>2, EmptyFacts DEF AckOf, IInv, TypeOK
<1>4. Standing = Underway /\ Settled = Underway
  BY <1>1, <1>3, SettledIs DEF Standing
<1>5. CASE t = "ACK"
  <2>1. d2h # <<"NAK">>
    BY <1>2, <1>5, ShortTuples
  <2>2. Taken
    BY <1>1, <1>3, <2>1 DEF Taken
  <2>3. CASE AwaitAfterAck(Cur.op) = "issue"
    BY <1>1, <1>2, <1>4, <1>5, <2>2, <2>3, PassesBehind DEF Behind
  <2>4. CASE AwaitAfterAck(Cur.op) = "eot"
    <3>1. hst' = "eot" /\ Cur' = Cur /\ Moves(g, g)
      BY <1>1, <1>2, <1>5, <2>4, WaitsOn
    <3>2. Taken' /\ Standing' = Standing
      BY <3>1, <1>1, <1>3, <1>4 DEF Taken, Standing
    <3> QED BY <3>1, <3>2, <2>2 DEF Behind
  <2> QED BY <2>3, <2>4 DEF AwaitAfterAck
<1>6. CASE t # "ACK"
  <2>1. d2h = <<"NAK">>
    BY <1>1, <1>2, <1>3, <1>6, ShortTuples DEF AckOf
  <2>2. ~Taken
    BY <1>1, <2>1 DEF Taken
  <2>3. Moves(g, g) /\ hst' \in {"issue", "back", "closed"}
    BY <1>1, <1>2, <1>6, FailMoves
  <2>4. Behind(g)'
    BY <2>2, <2>3, <1>1, <1>4, BehindAtRest DEF Behind
  <2> QED BY <2>3, <2>4
<1> QED BY <1>5, <1>6

\* EOT: the command is behind the host.
LEMMA ReadEotBehind ==
  ASSUME IInv, ReadEot, HostAlone, Connected, Connected', NEW g \in Flash, Behind(g)
  PROVE  \E h \in Flash : Behind(h)' /\ Moves(g, h)
<1>1. /\ hst = "eot" /\ UNCHANGED <<h2d, link, flash, dst, dcmd, base, Underway>>
      /\ Settled' = Settled /\ InStage /\ job # NoJob /\ Cur \in Cmd
      /\ EotOf(Cur)
  BY ReadingHost DEF ReadEot, IInv, InStep, Connected, Synced
<1>2. PICK t \in Replies :
        /\ d2h # <<>> /\ t = Head(d2h) /\ d2h' = Tail(d2h)
        /\ IF t = "EOT" THEN Proceed("issue") ELSE Fail
  BY ReadingHost DEF ReadEot
<1>3. h2d = <<>> /\ d2h = <<"EOT">>
  BY <1>1, <1>2, EmptyFacts DEF EotOf, AtWork, IInv, TypeOK
<1>4. Proceed("issue")
  BY <1>2, <1>3, ShortTuples
<1>5. Settled = Underway /\ Standing = Underway /\ Taken
  BY <1>1, <1>3, SettledIs DEF Standing, Taken
<1> QED BY <1>1, <1>4, <1>5, PassesBehind DEF Behind

\* Data: the command is behind the host, or it has failed without an effect.
LEMMA ReadDataBehind ==
  ASSUME IInv, ReadData, HostAlone, Connected, Connected', NEW g \in Flash, Behind(g)
  PROVE  \E h \in Flash : Behind(h)' /\ Moves(g, h)
<1>1. /\ hst = "data" /\ UNCHANGED <<h2d, link, flash, dst, dcmd, base, Underway>>
      /\ Settled' = Settled /\ InStage /\ job # NoJob /\ Cur \in Cmd
      /\ DataOfRead(Cur)
  BY ReadingHost DEF ReadData, IInv, InStep, Connected, Synced
<1>2. PICK t \in Replies :
        /\ d2h # <<>>
        /\ IF t = "DATA" \/ Cur.op \notin {"BLK_READ", "SECT_READ"}
           THEN Proceed("issue") ELSE Fail
  BY ReadingHost DEF ReadData
<1>3. h2d = <<>> /\ Cur.op \in Reading
  BY <1>1, <1>2, EmptyFacts DEF DataOfRead, AtWork, IInv, TypeOK
<1>4. Settled = Underway /\ Standing = Underway /\ Taken
  BY <1>1, <1>3, SettledIs DEF Standing, Taken
<1>5. Apply(g, Cur) = g
  BY <1>1, <1>3, PhasesOf
<1>6. CASE Proceed("issue")
  BY <1>1, <1>4, <1>6, PassesBehind DEF Behind
<1>7. CASE Fail
  <2>1. Moves(g, g) /\ hst' \in {"issue", "back", "closed"}
    BY <1>1, <1>7, FailMoves
  <2> QED BY <2>1, <1>1, <1>4, <1>5, BehindAtRest DEF Behind
<1> QED BY <1>2, <1>6, <1>7

\* The host's steps between two commands.
LEMMA BetweenBehind ==
  ASSUME IInv, StageDone \/ JobDone \/ BackToMenu \/ StopLocally, HostAlone,
         Connected, Connected', NEW g \in Flash, Behind(g)
  PROVE  Behind(g)' /\ Moves(g, g)
<1>1. UNCHANGED <<h2d, flash, dst, dcmd, base, Underway, Pending>>
  BY DEF StageDone, JobDone, BackToMenu, StopLocally, HostAlone, devVars, wire, Underway, Finish, Pending
<1>2. Settled' = Settled
  BY <1>1, SameSettled DEF IInv
<1>3. hst \in {"issue", "back"}
  BY DEF StageDone, JobDone, BackToMenu, StopLocally
<1>4. job # NoJob
  BY <1>3 DEF IInv, TypeOK
<1>5. hst' \in {"issue", "back", "menu"} /\ Moves(g, g)
  <2>1. CASE StageDone
    BY <2>1, <1>1, <1>4 DEF StageDone, NextStage, Moves
  <2>2. CASE JobDone
    BY <2>2, <1>1 DEF JobDone, EndJob, Moves
  <2>3. CASE BackToMenu
    BY <2>3, <1>1 DEF BackToMenu, EndJob, Moves
  <2>4. CASE StopLocally
    <3>1. si <= Len(job) /\ GiveUp /\ TypeOK
      BY <2>4 DEF StopLocally, MayStop, IInv
    <3>2. hst' \in {"issue", "back", "closed"}
      BY <3>1, <1>4, GiveUpFacts
    <3> QED BY <3>1, <3>2, <1>1, <1>4 DEF Moves, Connected
  <2> QED BY <2>1, <2>2, <2>3, <2>4
<1> QED BY <1>2, <1>3, <1>5, BehindAtRest

\* A job starts from the flash behind the host.
LEMMA StartBehind ==
  ASSUME IInv, Start, NEW g \in Flash, Behind(g)
  PROVE  Behind(g)' /\ Moves(g, g)
<1>1. PICK j \in Jobs : StartJob(j) /\ FromMarks(j, Settled.mem)
  BY DEF Start
<1>2. hst = "menu" /\ hst' = "issue" /\ base' = Settled.mem
      /\ UNCHANGED <<h2d, flash, dst, dcmd, Underway, Pending>>
  BY <1>1 DEF Start, StartJob, wire, devVars, Underway, Finish, Pending
<1>3. Settled = g /\ Settled' = Settled
  BY <1>2, BehindAtRest, SameSettled DEF IInv
<1> QED BY <1>1, <1>2, <1>3, BehindAtRest DEF Moves

\* Noise takes nothing away that the device has taken.
LEMMA NoiseBehind ==
  ASSUME IInv, NoiseToDevice \/ NoiseToHost, Connected, NEW g \in Flash, Behind(g)
  PROVE  Behind(g)' /\ Moves(g, g)
<1>1. /\ UNCHANGED <<flash, dst, dcmd, hst, job, si, ci, told, failed, skipped, base, Cur, Underway>>
  BY DEF NoiseToDevice, NoiseToHost, devVars, hostVars, Cur, Underway, Finish
<1>2. CASE NoiseToHost
  <2>1. PICK i \in DOMAIN d2h : d2h[i] = "DATA" /\ d2h' = [d2h EXCEPT ![i] = "BADDATA"]
    BY <1>2 DEF NoiseToHost
  <2>2. h2d' = h2d /\ d2h # <<"INVALID">> /\ d2h # <<"NAK">>
    BY <2>1, <1>2 DEF NoiseToHost
  <2>3. d2h' # <<"INVALID">> /\ d2h' # <<"NAK">>
    <3>1. d2h' \in Seq(Replies) /\ d2h'[i] = "BADDATA" /\ i \in DOMAIN d2h'
      BY <2>1 DEF IInv, TypeOK, Replies
    <3> QED BY <3>1
  <2>4. Pending' = Pending
    BY <1>1, <2>2 DEF Pending
  <2>5. Settled' = Settled
    BY <1>1, <2>4, SameSettled DEF IInv
  <2> QED BY <1>1, <2>2, <2>3, <2>5 DEF Behind, Standing, Taken, Moves
<1>3. CASE NoiseToDevice
  <2>1. h2d # <<>> /\ h2d' # <<>> /\ ~Taken /\ ~Taken'
    <3>1. PICK i \in DOMAIN h2d : h2d' = [h2d EXCEPT ![i].ok = FALSE]
      BY <1>3 DEF NoiseToDevice
    <3>2. h2d \in Seq(Token) /\ i \in 1 .. Len(h2d)
      BY <3>1 DEF IInv, TypeOK
    <3>3. h2d # <<>> /\ h2d' # <<>>
      BY <3>1, <3>2
    <3> QED BY <3>3 DEF Taken
  <2>2. CASE hst \in {"ack", "eot", "data"}
    BY <2>1, <2>2, <1>1 DEF Behind, Standing, Moves
  <2>3. CASE hst \notin {"ack", "eot", "data"}
    <3>1. Len(h2d) \in Nat /\ Len(h2d) > 0
      BY <2>1, EmptyFacts DEF IInv, TypeOK
    <3>2. dst = "operands" => dcmd.op \notin Checked
      BY <2>3, <3>1 DEF IInv, InStep, Synced, StatusOf, AtRest, Settling, Busy, Checked, Unanswered,
         Connected, TypeOK, HostStates
    <3>3. Pending' = Pending
      <4>1. CASE dst = "operands"
        <5>1. IInv'
          BY <1>3, NoiseToDeviceStep
        <5>2. /\ Pending = {dcmd}
          BY <2>1, <3>2, <4>1, PendingIs DEF IInv
        <5>3. h2d' \in Seq(Token) /\ h2d'[1].kind = "operands" /\ h2d'[1].cmd = dcmd
              /\ Head(h2d') = h2d'[1]
          <6>1. h2d' \in Seq(Token) /\ Len(h2d') > 0 /\ Head(h2d') = h2d'[1]
            BY <2>1, <5>1, TailFacts DEF IInv, TypeOK
          <6>2. dst' = "operands" /\ dcmd' = dcmd
            BY <1>1, <4>1
          <6> QED BY <6>1, <6>2, <5>1 DEF IInv, InStep, LineOK, OperandsOf
        <5> QED BY <1>1, <2>1, <3>2, <4>1, <5>2, <5>3 DEF Pending
      <4>2. CASE dst # "operands"
        BY <1>1, <4>2 DEF Pending
      <4> QED BY <4>1, <4>2
    <3>4. Settled' = Settled
      BY <1>1, <3>3, SameSettled DEF IInv
    <3> QED BY <1>1, <2>1, <2>3, <3>4 DEF Behind, Standing, Moves
  <2> QED BY <2>2, <2>3
<1> QED BY <1>2, <1>3

-----------------------------------------------------------------------------
\* Whatever happens while host, line and phone are there, the flash behind the
\* host stays as it is, or takes in the command the host was at, once.
LEMMA Advance ==
  ASSUME IInv, [Next]_vars, Connected, Connected', NEW g \in Flash, Behind(g)
  PROVE  \E h \in Flash : Behind(h)' /\ Moves(g, h)
<1>1. CASE Host
  <2>1. HostAlone
    BY <1>1 DEF Host
  <2>2. ~WriteFails
    BY DEF WriteFails, Connected
  <2> QED BY <1>1, <2>1, <2>2, SendOpcodeBehind, ReadStatusBehind, SendOperandsBehind, ReadAckBehind,
          ReadEotBehind, ReadDataBehind, BetweenBehind DEF Host, HostStep
<1>2. CASE Device
  BY <1>2, ReadOpcodeBehind, OperandsBehind, PhasesBehind DEF Device, DeviceStep
<1>3. CASE User
  BY <1>3, BetweenBehind DEF User, Quit, EndJob, Connected
<1>4. CASE Start
  BY <1>4, StartBehind
<1>5. CASE NoiseToDevice \/ NoiseToHost
  BY <1>5, NoiseBehind
<1>6. ~(Hangup \/ PowerCut \/ Restart)
  BY DEF Hangup, PowerCut, Restart, Connected
<1>7. CASE UNCHANGED vars
  <2>1. Behind(g)'
    BY <1>7, UnseenBehind DEF vars, wire, devVars, hostVars, IInv
  <2>2. Moves(g, g)
    BY <1>7 DEF Moves, vars, hostVars
  <2> QED BY <2>1, <2>2
<1> QED BY <1>1, <1>2, <1>3, <1>4, <1>5, <1>6, <1>7 DEF Next

\* Only a new session brings the three together again: with no job, and the
\* flash as it is.
LEMMA Reconnected ==
  ASSUME IInv, [Next]_vars, ~Connected, Connected'
  PROVE  Restart
<1>1. CASE Host
  BY <1>1 DEF Host, HostStep, HostAlone, SendOpcode, ReadStatus, SendOperands, WriteFails, ReadAck,
     ReadEot, ReadData, StageDone, JobDone, BackToMenu, wire, devVars, Connected
<1>2. CASE Device
  <2>1. hst' = hst /\ link' = link
    BY <1>2 DEF Device, DeviceStep, DeviceAlone, hostVars, ReadOpcode, ReadOperands, ReadPayload,
       AnswerData, WipeStep, BurnStep, StampStep
  <2>2. dst # "gone"
    BY <1>2 DEF Device, DeviceStep, ReadOpcode, ReadOperands, ReadPayload, AnswerData, WipeStep,
       BurnStep, StampStep
  <2> QED BY <2>1, <2>2 DEF Connected
<1>3. CASE User \/ Start \/ NoiseToDevice \/ NoiseToHost \/ Hangup \/ PowerCut \/ UNCHANGED vars
  BY <1>3 DEF User, StopLocally, Quit, EndJob, HostAlone, Start, StartJob, NoiseToDevice, NoiseToHost,
     Hangup, PowerCut, vars, wire, devVars, hostVars, Connected
<1> QED BY <1>1, <1>2, <1>3 DEF Next

\* Some flash is always behind a host that is connected.
LEMMA RestartBehind ==
  ASSUME IInv, Restart
  PROVE  \E h \in Flash : Behind(h)' /\ h = flash'
<1>1. IInv'
  BY RestartStep
<1>2. hst' = "menu" /\ h2d' = <<>> /\ dst' = "opcode"
  BY DEF Restart
<1>3. Settled' = flash'
  BY <1>2, SettledIs DEF Underway, Finish
<1> QED BY <1>1, <1>2, <1>3, BehindAtRest DEF IInv, TypeOK
=============================================================================
