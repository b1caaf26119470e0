-------------------------- MODULE LinkSessionProofs --------------------------
(***************************************************************************)
(* Host and phone come to talk, and stay able to, for any number of SYNs,  *)
(* power cuts and runs of the program.                                     *)
(***************************************************************************)
EXTENDS LinkSession, SequenceTheorems, TLAPS

-----------------------------------------------------------------------------
(* What is on its way to the phone.                                        *)

Coming == rx \o txq

\* Whatever is left of the download, and then the host's ACK;
Acked(s) == s # <<>> /\ \A i \in DOMAIN s : s[i].b = "ACK" <=> i = Len(s)
\* and a command behind it.
AckedThen(s, c) == /\ Len(s) >= 2 /\ s[Len(s)].b = c
                   /\ \A i \in 1 .. Len(s) - 1 : s[i].b = "ACK" <=> i = Len(s) - 1
Only(s, c) == Len(s) = 1 /\ s[1].b = c
All(s, bs) == \A i \in DOMAIN s : s[i].b \in bs
Has(s, b) == \E i \in DOMAIN s : s[i].b = b
Divider(s, v) == \A i \in DOMAIN s : s[i].b = "DIV" /\ s[i].val = v

-----------------------------------------------------------------------------
(* The inductive invariant.                                                *)

Downloading == hp \in {"syn", "check", "hex", "status", "enq"}

\* Before the preloader is loaded nothing but a download is on the line, and it
\* is so at the one speed the boot ROM knows.
Loading ==
  /\ Downloading => ~loaded /\ hspeed = Fast
  /\ hp \in {"cmd", "baud", "sleep"} \/ screen = "baud" => loaded
  /\ ~loaded => All(txq, {"SYN", "HEX"}) /\ All(rx, {"SYN", "HEX", "junk"})
  /\ phone \in {"rom", "hex", "entry", "kernel"} => dspeed = Fast /\ uarts = {0, 1}
  /\ phone # "divider" => got = <<>>

\* An ENQ that the phone has sent since it was last started comes from where
\* it now waits for the ACK.
Asked == ~cut /\ ~loaded /\ Has(back, "ENQ") => phone = "kernel"

\* How far a command is whose opcode is c.
Sent(c, then) ==
  \/ back = <<>> /\ phone = "loop" /\ Only(Coming, c)
  \/ back = <<>> /\ phone = "kernel" /\ AckedThen(Coming, c)
  \/ Only(back, "VALID") /\ phone = then /\ got = <<>> /\ Coming = <<>>

\* How far a change of speed is: the divider is through before the host wakes.
Changing ==
  /\ back = <<>>
  /\ \/ /\ phone = "divider" /\ hspeed = dspeed /\ nap > Len(txq)
        /\ Len(got) < 4 /\ Len(got) + Len(Coming) = 4
        /\ Divider(got, pick) /\ Divider(Coming, pick)
     \/ phone = "loop" /\ Coming = <<>> /\ dspeed = pick

\* What the host relies on once the preloader is loaded.
Talk ==
  loaded /\ ~cut /\ hp # "closed" =>
    /\ cable \in uarts
    /\ hp # "sleep" => hspeed = dspeed
    /\ hp = "menu" => /\ back = <<>>
                      /\ \/ phone = "loop" /\ Coming = <<>>
                         \/ phone = "kernel" /\ Acked(Coming)
    /\ hp = "cmd" => Sent("CMD", "loop")
    /\ hp = "baud" => Sent("BAUD", "divider")
    /\ hp = "sleep" => Changing

LinkInv == LinkTypeOK /\ Loading /\ Asked /\ Talk

-----------------------------------------------------------------------------
(* Sequences of bytes.                                                     *)

\* The bytes that the two programs write are bytes of the line.
LEMMA BytesAre ==
  ASSUME NEW b \in {"SYN", "HEX", "ACK", "BAUD", "DIV", "CMD", "junk", "0", "error", "ENQ", "VALID", "INVALID"}
  PROVE  Byte(b) \in Bytes /\ Byte(b).b = b
BY DEF Byte, Bytes, Speeds

\* What the phone receives of a byte, and the host.
LEMMA ClearIs ==
  ASSUME NEW x \in Bytes
  PROVE  Clear(x) \in Bytes /\ (Clear(x) = x \/ Clear(x).b = "junk") /\ (hspeed = dspeed => Clear(x) = x)
BY BytesAre DEF Clear, Junk

\* A write of one byte by the host.
LEMMA WritesOne ==
  ASSUME txq \in Seq(Bytes), NEW b \in {"SYN", "HEX", "ACK", "BAUD", "CMD"}, HostWrites(<<Byte(b)>>)
  PROVE  /\ txq' = Append(txq, Byte(b)) /\ txq' \in Seq(Bytes)
<1>1. Byte(b) \in Bytes
  BY BytesAre
<1>2. txq' = txq \o <<Byte(b)>>
  BY DEF HostWrites
<1> QED BY <1>1, <1>2

\* And of one by the phone.
LEMMA SaysOne ==
  ASSUME back \in Seq(Bytes), NEW b \in {"SYN", "0", "error", "ENQ", "VALID", "INVALID"}, PhoneWrites(<<b>>)
  PROVE  /\ back' = Append(back, Clear(Byte(b))) /\ back' \in Seq(Bytes)
         /\ Clear(Byte(b)).b \in {b, "junk"} /\ (hspeed = dspeed => Clear(Byte(b)).b = b)
<1>1. Byte(b) \in Bytes /\ Byte(b).b = b
  BY BytesAre
<1>2. Clear(Byte(b)) \in Bytes /\ Clear(Byte(b)).b \in {b, "junk"} /\ (hspeed = dspeed => Clear(Byte(b)).b = b)
  BY <1>1, ClearIs
<1>3. [i \in DOMAIN <<b>> |-> Clear(Byte(<<b>>[i]))] = <<Clear(Byte(b))>>
  OBVIOUS
<1>4. back' = back \o <<Clear(Byte(b))>>
  BY <1>3 DEF PhoneWrites
<1> HIDE DEF Clear
<1> QED BY <1>2, <1>4

\* A byte that goes over the line stays behind those before it.
LEMMA OverTheLine ==
  ASSUME NEW s \in Seq(Bytes), NEW t \in Seq(Bytes), t # <<>>
  PROVE  Append(s, Head(t)) \o Tail(t) = s \o t
<1> DEFINE l == Append(s, Head(t)) \o Tail(t)
           r == s \o t
<1>1. Head(t) \in Bytes /\ Tail(t) \in Seq(Bytes) /\ Len(t) >= 1 /\ Len(Tail(t)) = Len(t) - 1
  OBVIOUS
<1>2. Append(s, Head(t)) \in Seq(Bytes) /\ Len(Append(s, Head(t))) = Len(s) + 1
  BY <1>1
<1>3. l \in Seq(Bytes) /\ Len(l) = Len(s) + Len(t) /\ r \in Seq(Bytes) /\ Len(r) = Len(s) + Len(t)
  BY <1>1, <1>2
<1>4. ASSUME NEW i \in 1 .. Len(s) + Len(t)
      PROVE  l[i] = r[i]
  <2>1. CASE i <= Len(s)
    BY <1>1, <1>2, <2>1
  <2>2. CASE i = Len(s) + 1
    BY <1>1, <1>2, <2>2
  <2>3. CASE i > Len(s) + 1
    BY <1>1, <1>2, <2>3
  <2> QED BY <2>1, <2>2, <2>3
<1> HIDE DEF l, r
<1>5. l = r
  BY <1>3, <1>4, SeqEqual
<1> QED BY <1>5 DEF l, r

\* What the phone reads is the first of what was on its way.
LEMMA FirstOfComing ==
  ASSUME NEW s \in Seq(Bytes), NEW t \in Seq(Bytes), s # <<>>
  PROVE  Tail(s) \o t = Tail(s \o t) /\ Head(s \o t) = Head(s) /\ s \o t # <<>>
<1> DEFINE l == Tail(s) \o t
           r == s \o t
<1>1. Head(s) \in Bytes /\ Tail(s) \in Seq(Bytes) /\ Len(s) >= 1 /\ Len(Tail(s)) = Len(s) - 1
  OBVIOUS
<1>2. r \in Seq(Bytes) /\ Len(r) = Len(s) + Len(t) /\ r # <<>> /\ r[1] = s[1]
  BY <1>1
<1>3. Tail(r) \in Seq(Bytes) /\ Len(Tail(r)) = Len(s) + Len(t) - 1
  BY <1>1, <1>2
<1>4. l \in Seq(Bytes) /\ Len(l) = Len(s) + Len(t) - 1
  BY <1>1
<1>5. ASSUME NEW i \in 1 .. Len(s) + Len(t) - 1
      PROVE  l[i] = Tail(r)[i]
  <2>1. Tail(r)[i] = r[i + 1]
    BY <1>1, <1>2, <1>3
  <2>2. CASE i <= Len(s) - 1
    BY <1>1, <2>1, <2>2
  <2>3. CASE i > Len(s) - 1
    BY <1>1, <2>1, <2>3
  <2> QED BY <2>2, <2>3
<1> HIDE DEF l
<1>6. l = Tail(r)
  <2> HIDE DEF r
  <2> QED BY <1>3, <1>4, <1>5, SeqEqual
<1> QED BY <1>2, <1>6 DEF l

\* A byte written comes last.
LEMMA LastOfComing ==
  ASSUME NEW s \in Seq(Bytes), NEW t \in Seq(Bytes), NEW x \in Bytes
  PROVE  s \o Append(t, x) = Append(s \o t, x)
<1> DEFINE l == s \o Append(t, x)
           r == Append(s \o t, x)
<1>1. l \in Seq(Bytes) /\ Len(l) = Len(s) + Len(t) + 1 /\ r \in Seq(Bytes) /\ Len(r) = Len(s) + Len(t) + 1
  OBVIOUS
<1>2. ASSUME NEW i \in 1 .. Len(s) + Len(t) + 1
      PROVE  l[i] = r[i]
  <2>1. CASE i <= Len(s)
    BY <2>1
  <2>2. CASE i > Len(s) /\ i <= Len(s) + Len(t)
    BY <2>2
  <2>3. CASE i = Len(s) + Len(t) + 1
    BY <2>3
  <2> QED BY <2>1, <2>2, <2>3
<1> HIDE DEF l, r
<1>3. l = r
  BY <1>1, <1>2, SeqEqual
<1> QED BY <1>3 DEF l, r

-----------------------------------------------------------------------------
(* What is on its way, step by step.                                       *)

\* A sequence without a byte is the empty one.
LEMMA NoBytes ==
  ASSUME NEW s \in Seq(Bytes)
  PROVE  s = <<>> <=> Len(s) = 0
OBVIOUS

\* The ACK, and what the preloader does not look at.
LEMMA AckAlone ==
  ASSUME NEW s \in Seq(Bytes), Acked(s)
  PROVE  IF Head(s).b = "ACK" THEN Tail(s) = <<>> ELSE Acked(Tail(s))
<1>1. Len(s) \in Nat /\ Len(s) >= 1 /\ Tail(s) \in Seq(Bytes) /\ Len(Tail(s)) = Len(s) - 1 /\ Head(s) = s[1]
      /\ \A i \in 1 .. Len(s) - 1 : Tail(s)[i] = s[i + 1]
  BY DEF Acked
<1>2. \A i \in 1 .. Len(s) : s[i].b = "ACK" <=> i = Len(s)
  BY DEF Acked
<1>3. 1 \in 1 .. Len(s)
  BY <1>1
<1>4. Head(s).b = "ACK" <=> 1 = Len(s)
  BY <1>1, <1>2, <1>3, Zenon
<1>5. CASE Head(s).b = "ACK"
  <2>1. Len(Tail(s)) = 0 /\ Tail(s) \in Seq(Bytes)
    BY <1>1, <1>4, <1>5
  <2>2. Tail(s) = <<>>
    BY <2>1, NoBytes, Zenon
  <2> QED BY <1>5, <2>2
<1>6. CASE Head(s).b # "ACK"
  <2>1. Len(s) # 1
    BY <1>4, <1>6, Zenon
  <2>2. Tail(s) # <<>>
    <3>1. Len(Tail(s)) # 0
      BY <1>1, <2>1
    <3> QED BY <1>1, <3>1, NoBytes, Zenon
  <2>3. ASSUME NEW i \in 1 .. Len(Tail(s))
        PROVE  Tail(s)[i].b = "ACK" <=> i = Len(Tail(s))
    <3>1. i + 1 \in 1 .. Len(s) /\ Tail(s)[i] = s[i + 1] /\ (i + 1 = Len(s) <=> i = Len(Tail(s)))
      BY <1>1
    <3>2. s[i + 1].b = "ACK" <=> i + 1 = Len(s)
      BY <1>2, <3>1, Zenon
    <3> QED BY <3>1, <3>2, Zenon
  <2>4. \A i \in DOMAIN Tail(s) : Tail(s)[i].b = "ACK" <=> i = Len(Tail(s))
    <3>1. DOMAIN Tail(s) = 1 .. Len(Tail(s))
      BY <1>1
    <3> QED BY <2>3, <3>1, Zenon
  <2>5. Acked(Tail(s))
    BY <2>2, <2>4, Zenon DEF Acked
  <2> QED BY <1>6, <2>5
<1> QED BY <1>5, <1>6

\* With a command behind the ACK.
LEMMA AckFirst ==
  ASSUME NEW s \in Seq(Bytes), NEW c, AckedThen(s, c)
  PROVE  IF Head(s).b = "ACK" THEN Only(Tail(s), c) ELSE AckedThen(Tail(s), c)
<1>1. Len(s) \in Nat /\ Len(s) >= 2 /\ Tail(s) \in Seq(Bytes) /\ Len(Tail(s)) = Len(s) - 1 /\ Head(s) = s[1]
      /\ \A i \in 1 .. Len(s) - 1 : Tail(s)[i] = s[i + 1]
  BY DEF AckedThen
<1>2. s[Len(s)].b = c /\ \A i \in 1 .. Len(s) - 1 : s[i].b = "ACK" <=> i = Len(s) - 1
  BY DEF AckedThen
<1>3. Tail(s)[Len(Tail(s))].b = c
  <2>1. Tail(s)[Len(s) - 1] = s[Len(s)]
    BY <1>1
  <2> QED BY <1>1, <1>2, <2>1, Zenon
<1>4. Head(s).b = "ACK" <=> 1 = Len(s) - 1
  <2>1. 1 \in 1 .. Len(s) - 1
    BY <1>1
  <2> QED BY <1>1, <1>2, <2>1, Zenon
<1>5. CASE Head(s).b = "ACK"
  <2>1. Len(Tail(s)) = 1
    BY <1>1, <1>4, <1>5, Zenon
  <2>2. Only(Tail(s), c)
    BY <1>3, <2>1, Zenon DEF Only
  <2> QED BY <1>5, <2>2
<1>6. CASE Head(s).b # "ACK"
  <2>1. 1 # Len(s) - 1
    BY <1>4, <1>6, Zenon
  <2>2. Len(Tail(s)) >= 2
    BY <1>1, <2>1
  <2>3. ASSUME NEW i \in 1 .. Len(Tail(s)) - 1
        PROVE  Tail(s)[i].b = "ACK" <=> i = Len(Tail(s)) - 1
    <3>1. /\ i + 1 \in 1 .. Len(s) - 1 /\ Tail(s)[i] = s[i + 1]
          /\ (i + 1 = Len(s) - 1 <=> i = Len(Tail(s)) - 1)
      BY <1>1
    <3>2. s[i + 1].b = "ACK" <=> i + 1 = Len(s) - 1
      BY <1>2, <3>1, Zenon
    <3> QED BY <3>1, <3>2, Zenon
  <2>4. AckedThen(Tail(s), c)
    BY <1>3, <2>2, <2>3, Zenon DEF AckedThen
  <2> QED BY <1>6, <2>4
<1> QED BY <1>5, <1>6

\* Another byte behind them.
LEMMA CommandBehind ==
  ASSUME NEW s \in Seq(Bytes), NEW x \in Bytes
  PROVE  /\ s = <<>> => Only(Append(s, x), x.b)
         /\ Acked(s) => AckedThen(Append(s, x), x.b)
         /\ x.b = "ACK" /\ (\A i \in DOMAIN s : s[i].b # "ACK") => Acked(Append(s, x))
<1>1. /\ Append(s, x) \in Seq(Bytes) /\ Len(s) \in Nat /\ Len(Append(s, x)) = Len(s) + 1
      /\ \A i \in 1 .. Len(s) : Append(s, x)[i] = s[i]
      /\ Append(s, x)[Len(s) + 1] = x
  OBVIOUS
<1>2. s = <<>> => Only(Append(s, x), x.b)
  BY <1>1 DEF Only
<1>3. Acked(s) => AckedThen(Append(s, x), x.b)
  <2> SUFFICES ASSUME Acked(s) PROVE AckedThen(Append(s, x), x.b)
    OBVIOUS
  <2>1. Len(s) >= 1 /\ \A i \in 1 .. Len(s) : s[i].b = "ACK" <=> i = Len(s)
    BY DEF Acked
  <2> QED BY <1>1, <2>1 DEF AckedThen
<1>4. ASSUME x.b = "ACK", \A i \in DOMAIN s : s[i].b # "ACK"
      PROVE  Acked(Append(s, x))
  <2>1. \A i \in 1 .. Len(s) + 1 : Append(s, x)[i].b = "ACK" <=> i = Len(s) + 1
    <3> SUFFICES ASSUME NEW i \in 1 .. Len(s) + 1 PROVE Append(s, x)[i].b = "ACK" <=> i = Len(s) + 1
      OBVIOUS
    <3>1. CASE i = Len(s) + 1
      BY <1>1, <1>4, <3>1
    <3>2. CASE i # Len(s) + 1
      <4>1. i \in 1 .. Len(s) /\ i \in DOMAIN s
        BY <1>1, <3>2
      <4> QED BY <1>1, <1>4, <3>2, <4>1
    <3> QED BY <3>1, <3>2
  <2> QED BY <1>1, <2>1 DEF Acked
<1> QED BY <1>2, <1>3, <1>4

\* The last byte is taken.
LEMMA OnlyTaken ==
  ASSUME NEW s \in Seq(Bytes), NEW c, Only(s, c)
  PROVE  s # <<>> /\ Head(s).b = c /\ Tail(s) = <<>>
<1>1. Len(s) = 1 /\ s[1].b = c
  BY DEF Only
<1>2. s # <<>> /\ Head(s) = s[1] /\ Tail(s) \in Seq(Bytes) /\ Len(Tail(s)) = 0
  BY <1>1
<1>3. Tail(s) = <<>>
  BY <1>2, NoBytes, Zenon
<1> QED BY <1>1, <1>2, <1>3, Zenon

\* A read of the host's, or none.
LEMMA ReadIs ==
  ASSUME back \in Seq(Bytes), Read
  PROVE  back # <<>> /\ back' = Tail(back) /\ back' \in Seq(Bytes) /\ Head(back) = back[1]
BY DEF Read

\* A byte the phone takes.
LEMMA GetIs ==
  ASSUME rx \in Seq(Bytes), txq \in Seq(Bytes), rx # <<>>, rx' = Tail(rx), txq' = txq
  PROVE  rx' \in Seq(Bytes) /\ Coming # <<>> /\ Coming' = Tail(Coming) /\ Head(Coming) = Head(rx) /\ Head(rx) \in Bytes
         /\ Coming \in Seq(Bytes)
<1>1. rx' \in Seq(Bytes) /\ Head(rx) \in Bytes /\ Coming \in Seq(Bytes)
  BY DEF Coming
<1> QED BY <1>1, FirstOfComing DEF Coming

\* A byte over the line.
LEMMA TransmitIs ==
  ASSUME txq \in Seq(Bytes), rx \in Seq(Bytes), NEW l \in BOOLEAN, Transmit(l)
  PROVE  /\ txq # <<>> /\ txq' = Tail(txq) /\ txq' \in Seq(Bytes) /\ rx' \in Seq(Bytes)
         /\ rx' = (IF l THEN Append(rx, Clear(Head(txq))) ELSE rx) /\ Head(txq) \in Bytes
         /\ back' = back /\ hspeed' = hspeed /\ dspeed' = dspeed
<1>1. /\ txq # <<>> /\ txq' = Tail(txq) /\ rx' = (IF l THEN Append(rx, Clear(Head(txq))) ELSE rx)
      /\ back' = back /\ hspeed' = hspeed /\ dspeed' = dspeed
  BY DEF Transmit
<1>2. Head(txq) \in Bytes /\ Tail(txq) \in Seq(Bytes)
  BY <1>1
<1>3. Clear(Head(txq)) \in Bytes
  BY <1>2, ClearIs
<1> HIDE DEF Clear
<1>4. rx' \in Seq(Bytes)
  BY <1>1, <1>3
<1> QED BY <1>1, <1>2, <1>4

\* The divider.
LEMMA DividerWritten ==
  ASSUME txq \in Seq(Bytes), pick \in Speeds, HostWrites([i \in 1 .. 4 |-> [b |-> "DIV", val |-> pick]])
  PROVE  /\ txq' \in Seq(Bytes)
         /\ txq = <<>> => Len(txq') = 4 /\ Divider(txq', pick)
<1> DEFINE d == [i \in 1 .. 4 |-> [b |-> "DIV", val |-> pick]]
<1>1. d \in Seq(Bytes) /\ Len(d) = 4 /\ Divider(d, pick)
  BY DEF Bytes, Divider
<1>2. txq' = txq \o d
  BY DEF HostWrites
<1> HIDE DEF d
<1>3. txq = <<>> => txq' = d
  BY <1>1, <1>2
<1>4. txq' \in Seq(Bytes)
  BY <1>1, <1>2
<1> QED BY <1>1, <1>3, <1>4, Zenon

-----------------------------------------------------------------------------
(* Types.                                                                  *)

\* The types, under a step of the host,
LEMMA HostTypes ==
  ASSUME LinkTypeOK, Host
  PROVE  LinkTypeOK'
<1>1. /\ txq \in Seq(Bytes) /\ rx \in Seq(Bytes) /\ back \in Seq(Bytes) /\ pick \in Speeds
      /\ phone' = phone /\ uarts' = uarts /\ cable' = cable /\ got' = got
  BY DEF LinkTypeOK, Host, phoneVars
<1>2. <<>> \in Seq(Bytes) /\ (Read => back' \in Seq(Bytes))
  BY <1>1, ReadIs
<1>3. Fast \in Speeds /\ FALSE \in BOOLEAN /\ TRUE \in BOOLEAN
  BY DEF Speeds
<1>4. CASE SendSyn
  <2>1. txq' \in Seq(Bytes)
    BY <1>1, <1>4, WritesOne DEF SendSyn
  <2> QED BY <1>1, <1>4, <2>1 DEF SendSyn, Goes, LinkTypeOK, HostPhases
<1>5. CASE CheckSyn
  BY <1>1, <1>2, <1>5 DEF CheckSyn, Goes, Silent, LinkTypeOK, HostPhases
<1>6. CASE SendImage
  <2>1. txq' \in Seq(Bytes)
    BY <1>1, <1>6, WritesOne DEF SendImage
  <2> QED BY <1>1, <1>6, <2>1 DEF SendImage, Goes, LinkTypeOK, HostPhases
<1>7. CASE ReadStatus
  BY <1>1, <1>2, <1>7 DEF ReadStatus, Goes, Silent, Flushed, LinkTypeOK, HostPhases
<1>8. CASE ReadEnq
  <2>1. CASE Head(back).b = "ENQ"
    <3>1. txq' \in Seq(Bytes)
      BY <1>1, <1>8, <2>1, WritesOne DEF ReadEnq
    <3> QED BY <1>1, <1>2, <1>3, <1>8, <2>1, <3>1 DEF ReadEnq, Flushed, LinkTypeOK, HostPhases
  <2>2. CASE Head(back).b # "ENQ"
    BY <1>1, <1>2, <1>8, <2>2 DEF ReadEnq, Goes, Silent, LinkTypeOK, HostPhases
  <2> QED BY <2>1, <2>2
<1>9. CASE ReadReply
  BY <1>1, <1>2, <1>9 DEF ReadReply, Goes, Silent, Flushed, LinkTypeOK, HostPhases
<1>10. CASE ReadBaudStatus
  <2>1. CASE Head(back).b # "VALID"
    BY <1>1, <1>2, <1>10, <2>1 DEF ReadBaudStatus, Goes, Silent, LinkTypeOK, HostPhases
  <2>2. CASE Head(back).b = "VALID"
    <3>1. txq' \in Seq(Bytes)
      BY <1>1, <1>10, <2>2, DividerWritten DEF ReadBaudStatus
    <3>2. NapTicks \in 0 .. NapTicks
      BY MenuAssumption
    <3> QED BY <1>1, <1>2, <1>10, <2>2, <3>1, <3>2 DEF ReadBaudStatus, LinkTypeOK, HostPhases
  <2> QED BY <2>1, <2>2
<1>11. CASE SetSpeed
  BY <1>1, <1>2, <1>11 DEF SetSpeed, Flushed, LinkTypeOK, HostPhases
<1> QED BY <1>4, <1>5, <1>6, <1>7, <1>8, <1>9, <1>10, <1>11 DEF Host, HostStep

\* of the user, who presses a button,
LEMMA UserTypes ==
  ASSUME LinkTypeOK, User
  PROVE  LinkTypeOK'
<1>1. /\ txq \in Seq(Bytes) /\ rx \in Seq(Bytes) /\ back \in Seq(Bytes) /\ <<>> \in Seq(Bytes)
      /\ phone' = phone /\ uarts' = uarts /\ cable' = cable /\ got' = got /\ Fast \in Speeds
  BY DEF LinkTypeOK, User, phoneVars, Speeds
<1>2. CASE Download
  BY <1>1, <1>2 DEF Download, Goes, Flushed, LinkTypeOK, HostPhases
<1>3. CASE \E f \in {"bin", "tfs", "csc"} : Toggle(f)
  BY <1>1, <1>3 DEF Toggle, Flushed, Silent, LinkTypeOK
<1>4. CASE Command
  <2>1. txq' \in Seq(Bytes)
    BY <1>1, <1>4, WritesOne DEF Command
  <2> QED BY <1>1, <1>4, <2>1 DEF Command, Goes, LinkTypeOK, HostPhases
<1>5. CASE OpenBaud
  BY <1>1, <1>5 DEF OpenBaud, Flushed, Silent, LinkTypeOK
<1>6. CASE \E v \in Speeds : PickBaud(v)
  <2>1. PICK v \in Speeds : PickBaud(v)
    BY <1>6
  <2>2. txq' \in Seq(Bytes)
    BY <1>1, <2>1, WritesOne DEF PickBaud
  <2> QED BY <1>1, <2>1, <2>2 DEF PickBaud, LinkTypeOK, HostPhases
<1>7. CASE Leave
  BY <1>1, <1>7 DEF Leave, Flushed, Silent, LinkTypeOK
<1>8. CASE ImageFails
  BY <1>1, <1>8 DEF ImageFails, Goes, Flushed, Silent, LinkTypeOK, HostPhases
<1> QED BY <1>2, <1>3, <1>4, <1>5, <1>6, <1>7, <1>8 DEF User, UserStep, FlashStart

\* of the phone,
LEMMA PhoneTypes ==
  ASSUME LinkTypeOK, Phone
  PROVE  LinkTypeOK'
<1>1. /\ txq \in Seq(Bytes) /\ rx \in Seq(Bytes) /\ back \in Seq(Bytes) /\ got \in Seq(Bytes)
      /\ hp' = hp /\ screen' = screen /\ loaded' = loaded /\ flags' = flags /\ flashOn' = flashOn
      /\ pick' = pick /\ nap' = nap /\ Fast \in Speeds /\ <<>> \in Seq(Bytes)
  BY DEF LinkTypeOK, Phone, menuVars, Speeds
<1>2. ASSUME rx # <<>>
      PROVE  Tail(rx) \in Seq(Bytes) /\ Head(rx) \in Bytes
  BY <1>1, <1>2
<1>3. ASSUME NEW b \in {"SYN", "0", "error", "ENQ", "VALID", "INVALID"}, PhoneWrites(<<b>>)
      PROVE  back' \in Seq(Bytes)
  BY <1>1, <1>3, SaysOne
<1>4. CASE RomSyn
  BY <1>1, <1>2, <1>3, <1>4 DEF RomSyn, Get, Says, Moves, LinkTypeOK, Phases
<1>5. CASE RomSynAgain
  BY <1>1, <1>2, <1>3, <1>5 DEF RomSynAgain, Get, Says, Quiet, phoneVars, LinkTypeOK
<1>6. CASE RomHex
  BY <1>1, <1>2, <1>3, <1>6 DEF RomHex, Get, Says, Moves, LinkTypeOK, Phases
<1>7. CASE RomIgnores
  BY <1>1, <1>2, <1>7 DEF RomIgnores, GetOther, Quiet, phoneVars, LinkTypeOK
<1>8. CASE StartKernel
  BY <1>1, <1>3, <1>8 DEF StartKernel, LinkTypeOK, Phases
<1>9. CASE FindUart
  BY <1>1, <1>2, <1>9 DEF FindUart, Get, Quiet, LinkTypeOK, Phases
<1>10. CASE KernelIgnores
  BY <1>1, <1>2, <1>10 DEF KernelIgnores, GetOther, Quiet, phoneVars, LinkTypeOK
<1>11. CASE CmdBaud
  BY <1>1, <1>2, <1>3, <1>11 DEF CmdBaud, Get, Says, Moves, LinkTypeOK, Phases
<1>12. CASE CmdOther
  BY <1>1, <1>2, <1>3, <1>12 DEF CmdOther, Get, Says, phoneVars, LinkTypeOK
<1>13. CASE CmdUnknown
  BY <1>1, <1>2, <1>3, <1>13 DEF CmdUnknown, GetOther, Says, Quiet, Moves, phoneVars, LinkTypeOK, Phases
<1>14. CASE ReadDivider
  <2> DEFINE bytes == Append(got, Head(rx))
             fits(v) == \A i \in DOMAIN bytes : bytes[i].b = "DIV" /\ bytes[i].val = v
  <2>1. bytes \in Seq(Bytes) /\ Tail(rx) \in Seq(Bytes) /\ rx' = Tail(rx)
    BY <1>1, <1>2, <1>14 DEF ReadDivider
  <2>2. /\ txq' = txq /\ back' = back /\ hspeed' = hspeed /\ uarts' = uarts /\ cable' = cable
        /\ IF Len(bytes) < 4 THEN got' = bytes /\ phone' = phone /\ dspeed' = dspeed
           ELSE /\ dspeed' = IF \E v \in Speeds : fits(v) THEN bytes[1].val ELSE Odd
                /\ got' = <<>> /\ phone' = "loop"
    BY <1>14 DEF ReadDivider
  <2> HIDE DEF bytes, fits
  <2>3. CASE Len(bytes) < 4
    BY <1>1, <2>1, <2>2, <2>3 DEF LinkTypeOK
  <2>4. CASE ~(Len(bytes) < 4)
    <3>1. bytes[1].val \in Speeds
      <4>1. bytes[1] \in Bytes
        BY <2>1, <2>4
      <4> QED BY <4>1 DEF Bytes
    <3>2. dspeed' \in Speeds \cup {Odd}
      BY <2>2, <2>4, <3>1
    <3> QED BY <1>1, <2>1, <2>2, <2>4, <3>2 DEF LinkTypeOK, Phases
  <2> QED BY <2>3, <2>4
<1> QED BY <1>4, <1>5, <1>6, <1>7, <1>8, <1>9, <1>10, <1>11, <1>12, <1>13, <1>14 DEF Phone, PhoneStep

\* and so under every step of the session.
LEMMA TypeKeeps == LinkTypeOK /\ [Next]_vars => LinkTypeOK'
<1> SUFFICES ASSUME LinkTypeOK, [Next]_vars PROVE LinkTypeOK'
  OBVIOUS
<1>1. txq \in Seq(Bytes) /\ rx \in Seq(Bytes) /\ <<>> \in Seq(Bytes) /\ Fast \in Speeds
  BY DEF LinkTypeOK, Speeds
<1>2. Listening \in BOOLEAN
  BY DEF Listening
<1>3. Transmit(Listening) =>
        /\ txq' \in Seq(Bytes) /\ rx' \in Seq(Bytes) /\ back' = back /\ hspeed' = hspeed /\ dspeed' = dspeed
  BY <1>1, <1>2, TransmitIs
<1>4. CASE Line
  BY <1>3, <1>4 DEF Line, phoneVars, menuVars, LinkTypeOK
<1>5. CASE Tick
  <2>1. nap - 1 \in 0 .. NapTicks
    BY <1>5, MenuAssumption DEF Tick, LinkTypeOK
  <2>2. txq' \in Seq(Bytes) /\ rx' \in Seq(Bytes) /\ back' = back /\ hspeed' = hspeed /\ dspeed' = dspeed
    BY <1>1, <1>3, <1>5 DEF Tick, lineVars
  <2> QED BY <1>5, <2>1, <2>2 DEF Tick, phoneVars, LinkTypeOK
<1>6. CASE EndKey
  BY <1>1, <1>6 DEF EndKey, PowerOn, menuVars, LinkTypeOK, Phases
<1>7. CASE Cut
  BY <1>1, <1>7 DEF Cut, PowerOff, menuVars, LinkTypeOK, Phases
<1>8. CASE Exit
  BY <1>8 DEF Exit, Close, Goes, lineVars, phoneVars, LinkTypeOK, HostPhases
<1>9. CASE Rerun
  <2>1. 0 \in 0 .. NapTicks
    BY MenuAssumption
  <2> QED BY <1>1, <1>9, <2>1 DEF Rerun, Reopen, phoneVars, LinkTypeOK, HostPhases
<1>10. CASE UNCHANGED vars
  BY <1>10 DEF vars, lineVars, phoneVars, menuVars, LinkTypeOK
<1> QED BY <1>4, <1>5, <1>6, <1>7, <1>8, <1>9, <1>10, HostTypes, UserTypes, PhoneTypes DEF Next

-----------------------------------------------------------------------------
(* The download.                                                           *)

\* What holds of all bytes holds when one is taken and when one like them comes.
LEMMA AllKept ==
  ASSUME NEW s \in Seq(Bytes), NEW bs, All(s, bs)
  PROVE  /\ s # <<>> => All(Tail(s), bs) /\ Head(s).b \in bs
         /\ \A x \in Bytes : x.b \in bs => All(Append(s, x), bs)
<1>1. s # <<>> => All(Tail(s), bs) /\ Head(s).b \in bs
  <2> SUFFICES ASSUME s # <<>> PROVE All(Tail(s), bs) /\ Head(s).b \in bs
    OBVIOUS
  <2>1. /\ Len(s) \in Nat /\ Len(s) >= 1 /\ DOMAIN Tail(s) = 1 .. Len(s) - 1 /\ Head(s) = s[1]
        /\ DOMAIN s = 1 .. Len(s) /\ \A i \in 1 .. Len(s) - 1 : Tail(s)[i] = s[i + 1]
    OBVIOUS
  <2>2. \A i \in 1 .. Len(s) - 1 : i + 1 \in DOMAIN s
    BY <2>1
  <2>3. 1 \in DOMAIN s
    BY <2>1
  <2> QED BY <2>1, <2>2, <2>3, Zenon DEF All
<1>2. ASSUME NEW x \in Bytes, x.b \in bs
      PROVE  All(Append(s, x), bs)
  <2>1. /\ DOMAIN Append(s, x) = 1 .. Len(s) + 1 /\ DOMAIN s = 1 .. Len(s) /\ Append(s, x)[Len(s) + 1] = x
        /\ \A i \in 1 .. Len(s) : Append(s, x)[i] = s[i]
    OBVIOUS
  <2>2. \A i \in 1 .. Len(s) + 1 : i \in 1 .. Len(s) \/ i = Len(s) + 1
    OBVIOUS
  <2> QED BY <1>2, <2>1, <2>2, Zenon DEF All
<1> QED BY <1>1, <1>2

\* A byte is not there if it was not there and did not come.
LEMMA HadIt ==
  ASSUME NEW s \in Seq(Bytes), NEW b
  PROVE  /\ s # <<>> /\ Has(Tail(s), b) => Has(s, b)
         /\ s # <<>> /\ Head(s).b = b => Has(s, b)
         /\ \A x \in Bytes : Has(Append(s, x), b) => Has(s, b) \/ x.b = b
         /\ ~Has(<<>>, b)
<1>1. s # <<>> /\ Has(Tail(s), b) => Has(s, b)
  <2> SUFFICES ASSUME s # <<>>, NEW i \in DOMAIN Tail(s), Tail(s)[i].b = b PROVE Has(s, b)
    BY DEF Has
  <2>1. i + 1 \in DOMAIN s /\ Tail(s)[i] = s[i + 1]
    OBVIOUS
  <2> QED BY <2>1, Zenon DEF Has
<1>2. s # <<>> /\ Head(s).b = b => Has(s, b)
  <2>1. s # <<>> => 1 \in DOMAIN s /\ Head(s) = s[1]
    OBVIOUS
  <2> QED BY <2>1, Zenon DEF Has
<1>3. ASSUME NEW x \in Bytes, Has(Append(s, x), b)
      PROVE  Has(s, b) \/ x.b = b
  <2>1. PICK i \in DOMAIN Append(s, x) : Append(s, x)[i].b = b
    BY <1>3, Zenon DEF Has
  <2>2. (i \in DOMAIN s /\ Append(s, x)[i] = s[i]) \/ Append(s, x)[i] = x
    OBVIOUS
  <2> QED BY <2>1, <2>2, Zenon DEF Has
<1>4. ~Has(<<>>, b)
  BY DEF Has
<1> QED BY <1>1, <1>2, <1>3, <1>4

\* What is on the line during the download, under a step of the host,
LEMMA HostLoads ==
  ASSUME LinkTypeOK, Loading, Host
  PROVE  Loading'
<1>1. /\ txq \in Seq(Bytes) /\ phone' = phone /\ uarts' = uarts /\ got' = got
  BY DEF LinkTypeOK, Host, phoneVars
<1> USE DEF Loading, Downloading
<1>2. ASSUME NEW b \in {"SYN", "HEX"}, HostWrites(<<Byte(b)>>), ~loaded
      PROVE  All(txq', {"SYN", "HEX"})
  <2>1. txq' = Append(txq, Byte(b)) /\ Byte(b) \in Bytes /\ Byte(b).b = b
    BY <1>1, <1>2, WritesOne, BytesAre
  <2>2. All(txq, {"SYN", "HEX"})
    BY <1>2
  <2> QED BY <1>1, <2>1, <2>2, AllKept
<1>3. CASE SendSyn
  <2>1. hp = "syn" /\ ~loaded /\ All(txq', {"SYN", "HEX"})
    BY <1>2, <1>3 DEF SendSyn
  <2> QED BY <1>1, <1>3, <2>1 DEF SendSyn, Goes
<1>4. CASE CheckSyn
  BY <1>1, <1>4 DEF CheckSyn, Goes, Silent
<1>5. CASE SendImage
  <2>1. hp = "hex" /\ ~loaded /\ All(txq', {"SYN", "HEX"})
    BY <1>2, <1>5 DEF SendImage
  <2> QED BY <1>1, <1>5, <2>1 DEF SendImage, Goes
<1>6. CASE ReadStatus
  BY <1>1, <1>6 DEF ReadStatus, Goes, Silent
<1>7. CASE ReadEnq
  BY <1>1, <1>7 DEF ReadEnq, Goes, Silent
<1>8. CASE ReadReply
  BY <1>1, <1>8 DEF ReadReply, Goes, Silent
<1>9. CASE ReadBaudStatus
  BY <1>1, <1>9 DEF ReadBaudStatus, Goes, Silent
<1>10. CASE SetSpeed
  BY <1>1, <1>10 DEF SetSpeed
<1> QED BY <1>3, <1>4, <1>5, <1>6, <1>7, <1>8, <1>9, <1>10 DEF Host, HostStep

\* of the user,
LEMMA UserLoads ==
  ASSUME LinkTypeOK, Loading, User
  PROVE  Loading'
<1>1. /\ phone' = phone /\ uarts' = uarts /\ got' = got
  BY DEF User, phoneVars
<1> USE DEF Loading, Downloading
<1>2. CASE Download
  BY <1>1, <1>2 DEF Download, Goes, InMenu
<1>3. CASE \E f \in {"bin", "tfs", "csc"} : Toggle(f)
  BY <1>1, <1>3 DEF Toggle, Silent, InMenu
<1>4. CASE Command
  BY <1>1, <1>4 DEF Command, Goes, InMenu
<1>5. CASE OpenBaud
  BY <1>1, <1>5 DEF OpenBaud, Silent, InMenu
<1>6. CASE \E v \in Speeds : PickBaud(v)
  BY <1>1, <1>6 DEF PickBaud, InMenu
<1>7. CASE Leave
  BY <1>1, <1>7 DEF Leave, Silent, InMenu
<1>8. CASE ImageFails
  BY <1>1, <1>8 DEF ImageFails, Goes, Silent
<1> QED BY <1>2, <1>3, <1>4, <1>5, <1>6, <1>7, <1>8 DEF User, UserStep, FlashStart

\* of the phone,
LEMMA PhoneLoads ==
  ASSUME LinkTypeOK, Loading, Phone
  PROVE  Loading'
<1>1. /\ rx \in Seq(Bytes) /\ hp' = hp /\ screen' = screen /\ loaded' = loaded
  BY DEF LinkTypeOK, Phone, menuVars
<1>2. ASSUME rx # <<>>, rx' = Tail(rx), ~loaded
      PROVE  All(rx', {"SYN", "HEX", "junk"})
  BY <1>1, <1>2, AllKept DEF Loading
<1> USE DEF Loading, Downloading
<1>3. CASE RomSyn
  BY <1>1, <1>2, <1>3 DEF RomSyn, Get, Says, Moves
<1>4. CASE RomSynAgain
  BY <1>1, <1>2, <1>4 DEF RomSynAgain, Get, Says, Quiet, phoneVars
<1>5. CASE RomHex
  BY <1>1, <1>2, <1>5 DEF RomHex, Get, Says, Moves
<1>6. CASE RomIgnores
  BY <1>1, <1>2, <1>6 DEF RomIgnores, GetOther, Quiet, phoneVars
<1>7. CASE StartKernel
  BY <1>1, <1>7 DEF StartKernel
<1>8. CASE FindUart
  BY <1>1, <1>2, <1>8 DEF FindUart, Get, Quiet
<1>9. CASE KernelIgnores
  BY <1>1, <1>2, <1>9 DEF KernelIgnores, GetOther, Quiet, phoneVars
<1>10. CASE CmdBaud
  BY <1>1, <1>2, <1>10 DEF CmdBaud, Get, Says, Moves
<1>11. CASE CmdOther
  BY <1>1, <1>2, <1>11 DEF CmdOther, Get, Says, phoneVars
<1>12. CASE CmdUnknown
  BY <1>1, <1>2, <1>12 DEF CmdUnknown, GetOther, Says, Quiet, Moves, phoneVars
<1>13. CASE ReadDivider
  <2>1. /\ phone = "divider" /\ rx # <<>> /\ rx' = Tail(rx) /\ txq' = txq /\ hspeed' = hspeed
        /\ phone' = "divider" \/ (phone' = "loop" /\ got' = <<>>)
    BY <1>13 DEF ReadDivider
  <2> QED BY <1>1, <1>2, <2>1
<1> QED BY <1>3, <1>4, <1>5, <1>6, <1>7, <1>8, <1>9, <1>10, <1>11, <1>12, <1>13 DEF Phone, PhoneStep

\* and so under every step.
LEMMA LoadingKeeps == LinkTypeOK /\ Loading /\ [Next]_vars => Loading'
<1> SUFFICES ASSUME LinkTypeOK, Loading, [Next]_vars PROVE Loading'
  OBVIOUS
<1>1. txq \in Seq(Bytes) /\ rx \in Seq(Bytes) /\ Listening \in BOOLEAN
  BY DEF LinkTypeOK, Listening
<1>2. ASSUME Transmit(Listening)
      PROVE  /\ hspeed' = hspeed /\ dspeed' = dspeed
             /\ ~loaded => All(txq', {"SYN", "HEX"}) /\ All(rx', {"SYN", "HEX", "junk"})
  <2> DEFINE x == Clear(Head(txq))
  <2>1. /\ txq # <<>> /\ txq' = Tail(txq) /\ Head(txq) \in Bytes
        /\ rx' = (IF Listening THEN Append(rx, x) ELSE rx) /\ hspeed' = hspeed /\ dspeed' = dspeed
    BY <1>1, <1>2, TransmitIs
  <2>2. x \in Bytes /\ (x = Head(txq) \/ x.b = "junk")
    BY <2>1, ClearIs
  <2> HIDE DEF x
  <2>3. ASSUME ~loaded
        PROVE  All(txq', {"SYN", "HEX"}) /\ All(rx', {"SYN", "HEX", "junk"})
    <3>1. All(txq, {"SYN", "HEX"}) /\ All(rx, {"SYN", "HEX", "junk"})
      BY <2>3 DEF Loading
    <3>2. All(Tail(txq), {"SYN", "HEX"}) /\ Head(txq).b \in {"SYN", "HEX"}
      BY <1>1, <2>1, <3>1, AllKept
    <3>3. x.b \in {"SYN", "HEX", "junk"}
      BY <2>2, <3>2
    <3>4. All(Append(rx, x), {"SYN", "HEX", "junk"})
      BY <1>1, <2>2, <3>1, <3>3, AllKept
    <3> QED BY <2>1, <3>1, <3>2, <3>4
  <2> QED BY <2>1, <2>3
<1>3. CASE Line
  BY <1>2, <1>3 DEF Line, phoneVars, menuVars, Loading, Downloading
<1>4. CASE Tick
  BY <1>2, <1>4 DEF Tick, lineVars, phoneVars, Loading, Downloading
<1>5. All(<<>>, {"SYN", "HEX", "junk"})
  BY DEF All
<1>6. CASE EndKey
  BY <1>5, <1>6 DEF EndKey, PowerOn, menuVars, Loading, Downloading
<1>7. CASE Cut
  BY <1>5, <1>7 DEF Cut, PowerOff, menuVars, Loading, Downloading
<1>8. CASE Exit
  BY <1>8 DEF Exit, Close, Goes, lineVars, phoneVars, Loading, Downloading
<1>9. CASE Rerun
  <2>1. All(<<>>, {"SYN", "HEX"})
    BY DEF All
  <2> QED BY <1>5, <1>9, <2>1 DEF Rerun, Reopen, phoneVars, Loading, Downloading
<1>10. CASE UNCHANGED vars
  BY <1>10 DEF vars, lineVars, phoneVars, menuVars, Loading, Downloading
<1> QED BY <1>3, <1>4, <1>6, <1>7, <1>8, <1>9, <1>10, HostLoads, UserLoads, PhoneLoads DEF Next

\* An ENQ that is on its way to the host comes from the kernel that waits.
LEMMA AskedKeeps == LinkTypeOK /\ Loading /\ Asked /\ [Next]_vars => Asked'
<1> SUFFICES ASSUME LinkTypeOK, Loading, Asked, [Next]_vars PROVE Asked'
  OBVIOUS
<1>1. back \in Seq(Bytes) /\ rx \in Seq(Bytes)
  BY DEF LinkTypeOK
<1>2. /\ Read /\ Has(back', "ENQ") => Has(back, "ENQ")
      /\ ~Has(<<>>, "ENQ")
  <2>1. Read => back # <<>> /\ back' = Tail(back)
    BY DEF Read
  <2> QED BY <1>1, <2>1, HadIt
<1>3. ASSUME NEW b \in {"SYN", "0", "error", "VALID", "INVALID"}, PhoneWrites(<<b>>), Has(back', "ENQ")
      PROVE  Has(back, "ENQ")
  <2> DEFINE x == Clear(Byte(b))
  <2>1. back' = Append(back, x) /\ x.b \in {b, "junk"}
    BY <1>1, <1>3, SaysOne
  <2>2. x \in Bytes
    BY ClearIs, BytesAre
  <2> HIDE DEF x
  <2>3. x.b # "ENQ"
    BY <2>1
  <2> QED BY <1>1, <1>3, <2>1, <2>2, <2>3, HadIt
<1>4. CASE Host
  <2>1. phone' = phone /\ cut' = cut
    BY <1>4 DEF Host, phoneVars
  <2>2. CASE SendSyn
    BY <2>1, <2>2 DEF SendSyn, Goes, Asked
  <2>3. CASE CheckSyn
    BY <1>2, <2>1, <2>3 DEF CheckSyn, Goes, Asked
  <2>4. CASE SendImage
    BY <2>1, <2>4 DEF SendImage, Goes, Asked
  <2>5. CASE ReadStatus
    BY <1>2, <2>1, <2>5 DEF ReadStatus, Goes, Flushed, Asked
  <2>6. CASE ReadEnq
    BY <1>2, <2>1, <2>6 DEF ReadEnq, Goes, Flushed, Asked
  <2>7. CASE ReadReply
    BY <1>2, <2>1, <2>7 DEF ReadReply, Goes, Flushed, Asked
  <2>8. CASE ReadBaudStatus
    BY <1>2, <2>1, <2>8 DEF ReadBaudStatus, Goes, Asked
  <2>9. CASE SetSpeed
    BY <1>2, <2>1, <2>9 DEF SetSpeed, Flushed, Asked
  <2> QED BY <1>4, <2>2, <2>3, <2>4, <2>5, <2>6, <2>7, <2>8, <2>9 DEF Host, HostStep
<1>5. CASE User
  <2>1. phone' = phone /\ cut' = cut
    BY <1>5 DEF User, phoneVars
  <2>2. loaded' = loaded /\ (back' = back \/ back' = <<>>)
    BY <1>5 DEF User, UserStep, Download, Toggle, FlashStart, Command, OpenBaud, PickBaud, Leave, ImageFails,
                Goes, Flushed, Silent
  <2> QED BY <1>2, <2>1, <2>2 DEF Asked
<1>6. CASE Phone
  <2>1. loaded' = loaded /\ cut' = (cut /\ (phone = "entry" => loaded))
    BY <1>6 DEF Phone, menuVars
  <2>2. CASE StartKernel
    BY <2>2 DEF StartKernel, Asked
  <2>3. CASE FindUart
    <3>1. rx # <<>> /\ Head(rx).b = "ACK" /\ back' = back
      BY <2>3 DEF FindUart, Get, Quiet
    <3>2. loaded
      <4>1. ~loaded => Head(rx).b \in {"SYN", "HEX", "junk"}
        BY <1>1, <3>1, AllKept DEF Loading
      <4> QED BY <3>1, <4>1
    <3> QED BY <2>1, <3>2 DEF Asked
  <2>4. CASE KernelIgnores
    BY <2>1, <2>4 DEF KernelIgnores, Quiet, phoneVars, Asked
  <2>5. CASE ReadDivider
    BY <2>1, <2>5 DEF ReadDivider, Asked
  <2>6. CASE RomSyn \/ RomSynAgain \/ RomHex \/ RomIgnores \/ CmdBaud \/ CmdOther \/ CmdUnknown
    <3>1. phone \notin {"entry", "kernel"}
      BY <2>6 DEF RomSyn, RomSynAgain, RomHex, RomIgnores, CmdBaud, CmdOther, CmdUnknown
    <3>2. Has(back', "ENQ") => Has(back, "ENQ")
      BY <1>3, <2>6 DEF RomSyn, RomSynAgain, RomHex, RomIgnores, CmdBaud, CmdOther, CmdUnknown, Says, Quiet
    <3> QED BY <2>1, <3>1, <3>2 DEF Asked
  <2> QED BY <1>6, <2>2, <2>3, <2>4, <2>5, <2>6 DEF Phone, PhoneStep
<1>7. CASE Line
  BY <1>7 DEF Line, Transmit, phoneVars, menuVars, Asked
<1>8. CASE Tick
  BY <1>8 DEF Tick, Transmit, lineVars, phoneVars, Asked
<1>9. CASE EndKey
  BY <1>9 DEF EndKey, PowerOn, menuVars, Asked
<1>10. CASE Cut
  BY <1>10 DEF Cut, Asked
<1>11. CASE Exit
  BY <1>11 DEF Exit, Close, Goes, lineVars, phoneVars, Asked
<1>12. CASE Rerun
  BY <1>2, <1>12 DEF Rerun, Reopen, phoneVars, Asked
<1>13. CASE UNCHANGED vars
  BY <1>13 DEF vars, lineVars, phoneVars, menuVars, Asked
<1> QED BY <1>4, <1>5, <1>6, <1>7, <1>8, <1>9, <1>10, <1>11, <1>12, <1>13 DEF Next

-----------------------------------------------------------------------------
(* Commands, and changes of speed.                                         *)

\* Nothing on its way is nothing on either side of the line.
LEMMA NothingComing ==
  ASSUME txq \in Seq(Bytes), rx \in Seq(Bytes)
  PROVE  /\ Coming \in Seq(Bytes) /\ Len(Coming) = Len(rx) + Len(txq)
         /\ Coming = <<>> <=> rx = <<>> /\ txq = <<>>
BY DEF Coming

\* The host writes one byte behind what is on its way.
LEMMA Behind ==
  ASSUME txq \in Seq(Bytes), rx \in Seq(Bytes), rx' = rx, NEW b \in {"SYN", "HEX", "ACK", "BAUD", "CMD"},
         HostWrites(<<Byte(b)>>)
  PROVE  Coming' = Append(Coming, Byte(b)) /\ Byte(b) \in Bytes /\ Byte(b).b = b /\ Coming \in Seq(Bytes)
<1>1. txq' = Append(txq, Byte(b))
  BY WritesOne
<1>2. Byte(b) \in Bytes /\ Byte(b).b = b
  BY BytesAre
<1>3. rx \o Append(txq, Byte(b)) = Append(rx \o txq, Byte(b))
  BY <1>2, LastOfComing
<1> QED BY <1>1, <1>2, <1>3, NothingComing DEF Coming

\* The ENQ is answered: the phone waits for just that.
LEMMA EnqAnswered ==
  ASSUME LinkInv, ReadEnq, cut' = cut, phone' = phone, uarts' = uarts, cable' = cable
  PROVE  Talk'
<1>1. CASE Head(back).b # "ENQ"
  BY <1>1 DEF ReadEnq, Goes, LinkInv, Loading, Downloading, Talk
<1>2. CASE Head(back).b = "ENQ"
  <2>1. /\ hp = "enq" /\ back # <<>> /\ back' = <<>> /\ HostWrites(<<Byte("ACK")>>) /\ hp' = "menu"
        /\ rx' = rx /\ hspeed' = hspeed /\ dspeed' = dspeed
    BY <1>2 DEF ReadEnq, Flushed
  <2>2. /\ txq \in Seq(Bytes) /\ rx \in Seq(Bytes) /\ back \in Seq(Bytes) /\ cable \in {0, 1}
    BY DEF LinkInv, LinkTypeOK
  <2>3. ~loaded /\ hspeed = Fast /\ All(txq, {"SYN", "HEX"}) /\ All(rx, {"SYN", "HEX", "junk"})
    BY <2>1 DEF LinkInv, Loading, Downloading
  <2>4. Has(back, "ENQ")
    BY <1>2, <2>1, <2>2, HadIt
  <2>5. CASE cut
    BY <2>5 DEF Talk
  <2>6. CASE ~cut
    <3>1. phone = "kernel"
      BY <2>3, <2>4, <2>6 DEF LinkInv, Asked
    <3>2. dspeed = Fast /\ uarts = {0, 1}
      BY <3>1 DEF LinkInv, Loading
    <3>3. Coming' = Append(Coming, Byte("ACK")) /\ Byte("ACK") \in Bytes /\ Byte("ACK").b = "ACK" /\ Coming \in Seq(Bytes)
      BY <2>1, <2>2, Behind
    <3>4. \A i \in DOMAIN Coming : Coming[i].b # "ACK"
      <4> SUFFICES ASSUME NEW i \in DOMAIN Coming PROVE Coming[i].b # "ACK"
        OBVIOUS
      <4>1. (i \in DOMAIN rx /\ Coming[i] = rx[i]) \/ (i - Len(rx) \in DOMAIN txq /\ Coming[i] = txq[i - Len(rx)])
        BY <2>2 DEF Coming
      <4>2. \A k \in DOMAIN rx : rx[k].b # "ACK"
        BY <2>3 DEF All
      <4>3. \A k \in DOMAIN txq : txq[k].b # "ACK"
        BY <2>3 DEF All
      <4> QED BY <4>1, <4>2, <4>3, Zenon
    <3>5. Acked(Append(Coming, Byte("ACK")))
      BY <3>3, <3>4, CommandBehind
    <3>6. Acked(Coming')
      BY <3>3, <3>5
    <3> QED BY <2>1, <2>2, <2>3, <3>1, <3>2, <3>6 DEF Talk
  <2> QED BY <2>5, <2>6
<1> QED BY <1>1, <1>2

\* The host's own steps.
LEMMA HostTalks ==
  ASSUME LinkInv, Host
  PROVE  Talk'
<1>1. /\ cut' = cut /\ phone' = phone /\ uarts' = uarts /\ cable' = cable /\ got' = got
      /\ txq \in Seq(Bytes) /\ rx \in Seq(Bytes) /\ back \in Seq(Bytes) /\ pick \in Speeds
  BY DEF Host, phoneVars, LinkInv, LinkTypeOK
<1>2. CASE SendSyn
  BY <1>1, <1>2 DEF SendSyn, Goes, LinkInv, Loading, Downloading, Talk
<1>3. CASE CheckSyn
  BY <1>1, <1>3 DEF CheckSyn, Goes, LinkInv, Loading, Downloading, Talk
<1>4. CASE SendImage
  BY <1>1, <1>4 DEF SendImage, Goes, LinkInv, Loading, Downloading, Talk
<1>5. CASE ReadStatus
  BY <1>1, <1>5 DEF ReadStatus, Goes, LinkInv, Loading, Downloading, Talk
<1>6. CASE ReadEnq
  BY <1>1, <1>6, EnqAnswered
<1>7. CASE ReadReply
  <2>1. /\ hp = "cmd" /\ back # <<>> /\ hp' = "menu" /\ loaded' = loaded /\ back' = <<>>
        /\ txq' = txq /\ rx' = rx /\ hspeed' = hspeed /\ dspeed' = dspeed
    BY <1>7 DEF ReadReply, Goes, Flushed, Silent
  <2>2. ASSUME loaded, ~cut
        PROVE  phone = "loop" /\ Coming = <<>> /\ hspeed = dspeed /\ cable \in uarts
    BY <2>1, <2>2 DEF LinkInv, Talk, Sent
  <2>3. Coming' = Coming
    BY <2>1 DEF Coming
  <2> QED BY <1>1, <2>1, <2>2, <2>3 DEF Talk
<1>8. CASE ReadBaudStatus
  <2>1. hp = "baud" /\ Read /\ loaded' = loaded
    BY <1>8 DEF ReadBaudStatus, Goes
  <2>2. CASE ~loaded \/ cut
    BY <1>1, <2>1, <2>2 DEF Talk
  <2>3. CASE loaded /\ ~cut
    <3>1. Only(back, "VALID") /\ phone = "divider" /\ got = <<>> /\ Coming = <<>> /\ hspeed = dspeed /\ cable \in uarts
      BY <2>1, <2>3 DEF LinkInv, Talk, Sent, Read
    <3>2. Head(back).b = "VALID" /\ Tail(back) = <<>>
      BY <1>1, <3>1, OnlyTaken
    <3>3. /\ HostWrites([i \in 1 .. 4 |-> [b |-> "DIV", val |-> pick]]) /\ hp' = "sleep" /\ nap' = NapTicks
          /\ pick' = pick /\ rx' = rx /\ hspeed' = hspeed /\ dspeed' = dspeed /\ back' = <<>>
      BY <1>8, <2>1, <3>2 DEF ReadBaudStatus, Read
    <3>4. rx = <<>> /\ txq = <<>>
      BY <1>1, <3>1, NothingComing
    <3>5. txq' \in Seq(Bytes) /\ Len(txq') = 4 /\ Divider(txq', pick)
      BY <1>1, <3>3, <3>4, DividerWritten
    <3>6. Coming' = txq'
      BY <3>3, <3>4, <3>5 DEF Coming
    <3>7. nap' > Len(txq') /\ Len(got') < 4 /\ Len(got') + Len(Coming') = 4
      BY <1>1, <3>1, <3>3, <3>5, <3>6, MenuAssumption
    <3>8. Divider(got', pick')
      BY <1>1, <3>1 DEF Divider
    <3>9. Divider(Coming', pick')
      BY <3>3, <3>5, <3>6
    <3>10. Changing'
      BY <1>1, <3>1, <3>3, <3>7, <3>8, <3>9 DEF Changing
    <3> QED BY <1>1, <3>1, <3>3, <3>10 DEF Talk
  <2> QED BY <2>2, <2>3
<1>9. CASE SetSpeed
  <2>1. /\ hp = "sleep" /\ nap = 0 /\ hspeed' = pick /\ hp' = "menu" /\ loaded' = loaded /\ txq' = txq /\ rx' = rx
        /\ dspeed' = dspeed /\ back' = <<>>
    BY <1>9 DEF SetSpeed, Flushed
  <2>2. ASSUME loaded, ~cut
        PROVE  phone = "loop" /\ Coming = <<>> /\ dspeed = pick /\ cable \in uarts
    <3>1. Changing /\ cable \in uarts
      BY <2>1, <2>2 DEF LinkInv, Talk
    <3>2. ~(nap > Len(txq))
      BY <1>1, <2>1
    <3> QED BY <3>1, <3>2 DEF Changing
  <2>3. Coming' = Coming
    BY <2>1 DEF Coming
  <2> QED BY <1>1, <2>1, <2>2, <2>3 DEF Talk
<1> QED BY <1>2, <1>3, <1>4, <1>5, <1>6, <1>7, <1>8, <1>9 DEF Host, HostStep

\* What the user begins.
LEMMA UserTalks ==
  ASSUME LinkInv, User
  PROVE  Talk'
<1>1. /\ cut' = cut /\ phone' = phone /\ uarts' = uarts /\ cable' = cable /\ got' = got
      /\ txq \in Seq(Bytes) /\ rx \in Seq(Bytes)
  BY DEF User, phoneVars, LinkInv, LinkTypeOK
<1>2. CASE Download
  BY <1>1, <1>2 DEF Download, Goes, Talk
<1>3. CASE (\E f \in {"bin", "tfs", "csc"} : Toggle(f)) \/ OpenBaud \/ Leave
  <2>1. /\ hp = "menu" /\ hp' = "menu" /\ loaded' = loaded /\ back' = <<>>
        /\ txq' = txq /\ rx' = rx /\ hspeed' = hspeed /\ dspeed' = dspeed
    BY <1>3 DEF Toggle, OpenBaud, Leave, InMenu, Flushed, Silent
  <2>2. Coming' = Coming
    BY <2>1 DEF Coming
  <2> QED BY <1>1, <2>1, <2>2 DEF LinkInv, Talk
<1>4. ASSUME NEW c \in {"CMD", "BAUD"}, hp = "menu", HostWrites(<<Byte(c)>>), rx' = rx, back' = back,
             loaded, ~cut
      PROVE  /\ cable \in uarts /\ hspeed = dspeed /\ back = <<>>
             /\ (phone = "loop" /\ Only(Coming', c)) \/ (phone = "kernel" /\ AckedThen(Coming', c))
  <2>1. Coming' = Append(Coming, Byte(c)) /\ Byte(c) \in Bytes /\ Byte(c).b = c /\ Coming \in Seq(Bytes)
    BY <1>1, <1>4, Behind
  <2>2. /\ Coming = <<>> => Only(Append(Coming, Byte(c)), c)
        /\ Acked(Coming) => AckedThen(Append(Coming, Byte(c)), c)
    BY <2>1, CommandBehind
  <2>3. /\ cable \in uarts /\ hspeed = dspeed /\ back = <<>>
        /\ (phone = "loop" /\ Coming = <<>>) \/ (phone = "kernel" /\ Acked(Coming))
    BY <1>4 DEF LinkInv, Talk
  <2> QED BY <2>1, <2>2, <2>3
<1>5. CASE Command
  <2>1. /\ hp = "menu" /\ HostWrites(<<Byte("CMD")>>) /\ hp' = "cmd" /\ loaded' = loaded
        /\ rx' = rx /\ back' = back /\ hspeed' = hspeed /\ dspeed' = dspeed
    BY <1>5 DEF Command, InMenu, Goes
  <2> QED BY <1>1, <1>4, <2>1 DEF Talk, Sent
<1>6. CASE \E v \in Speeds : PickBaud(v)
  <2>1. /\ hp = "menu" /\ HostWrites(<<Byte("BAUD")>>) /\ hp' = "baud" /\ loaded' = loaded
        /\ rx' = rx /\ back' = back /\ hspeed' = hspeed /\ dspeed' = dspeed
    BY <1>6 DEF PickBaud, InMenu
  <2> QED BY <1>1, <1>4, <2>1 DEF Talk, Sent
<1>7. CASE ImageFails
  BY <1>1, <1>7 DEF ImageFails, Goes, LinkInv, Loading, Downloading, Talk
<1> QED BY <1>2, <1>3, <1>5, <1>6, <1>7 DEF User, UserStep, FlashStart

\* Where the phone is once it is loaded.
LEMMA PhoneThere ==
  ASSUME LinkInv, loaded, ~cut, hp # "closed"
  PROVE  /\ hp \in {"menu", "cmd", "baud", "sleep"} /\ phone \in {"kernel", "loop", "divider"} /\ Listening
         /\ phone = "divider" /\ Coming # <<>> => hp = "sleep"
         /\ phone = "loop" /\ Coming # <<>> => hp \in {"cmd", "baud"}
<1>1. hp \in {"menu", "cmd", "baud", "sleep"}
  BY DEF LinkInv, LinkTypeOK, HostPhases, Loading, Downloading
<1>2. cable \in uarts
  BY DEF LinkInv, Talk
<1>3. CASE hp = "menu"
  BY <1>2, <1>3 DEF LinkInv, Talk, Listening
<1>4. CASE hp = "cmd"
  BY <1>2, <1>4 DEF LinkInv, Talk, Sent, Listening
<1>5. CASE hp = "baud"
  BY <1>2, <1>5 DEF LinkInv, Talk, Sent, Listening
<1>6. CASE hp = "sleep"
  BY <1>2, <1>6 DEF LinkInv, Talk, Changing, Listening
<1> QED BY <1>1, <1>3, <1>4, <1>5, <1>6

\* The ACK and what is before it, at the phone.
LEMMA KernelTalks ==
  ASSUME LinkInv, FindUart \/ KernelIgnores, UNCHANGED menuVars, ~cut
  PROVE  Talk'
<1> SUFFICES ASSUME loaded, hp # "closed" PROVE Talk'
  BY DEF menuVars, Talk
<1>1. /\ txq \in Seq(Bytes) /\ rx \in Seq(Bytes) /\ phone = "kernel" /\ rx # <<>> /\ rx' = Tail(rx) /\ txq' = txq
      /\ back' = back /\ hspeed' = hspeed /\ dspeed' = dspeed /\ hp' = hp /\ loaded' = loaded /\ cable' = cable
      /\ IF Head(rx).b = "ACK" THEN phone' = "loop" /\ uarts' = {cable} ELSE phone' = "kernel" /\ uarts' = uarts
  BY DEF FindUart, KernelIgnores, Get, GetOther, Quiet, phoneVars, menuVars, LinkInv, LinkTypeOK
<1>2. /\ Coming # <<>> /\ Coming' = Tail(Coming) /\ Head(Coming) = Head(rx) /\ Coming \in Seq(Bytes)
  BY <1>1, GetIs
<1>3. hp \in {"menu", "cmd", "baud"} /\ cable \in uarts /\ hspeed = dspeed
  <2>1. hp # "sleep"
    BY <1>1 DEF LinkInv, Talk, Changing
  <2> QED BY <2>1, PhoneThere DEF LinkInv, Talk
<1>4. cable' \in uarts'
  BY <1>1, <1>3
<1>5. CASE hp = "menu"
  <2>1. Acked(Coming) /\ back = <<>>
    BY <1>1, <1>5 DEF LinkInv, Talk
  <2>2. IF Head(Coming).b = "ACK" THEN Tail(Coming) = <<>> ELSE Acked(Tail(Coming))
    BY <1>2, <2>1, AckAlone
  <2>3. IF phone' = "loop" THEN Coming' = <<>> ELSE phone' = "kernel" /\ Acked(Coming')
    BY <1>1, <1>2, <2>2
  <2> QED BY <1>1, <1>3, <1>4, <1>5, <2>1, <2>3 DEF Talk
<1>6. ASSUME NEW c, NEW then \in {"loop", "divider"}, Sent(c, then)
      PROVE  Sent(c, then)'
  <2>1. AckedThen(Coming, c) /\ back = <<>>
    BY <1>1, <1>2, <1>6 DEF Sent
  <2>2. IF Head(Coming).b = "ACK" THEN Only(Tail(Coming), c) ELSE AckedThen(Tail(Coming), c)
    BY <1>2, <2>1, AckFirst
  <2>3. IF phone' = "loop" THEN Only(Coming', c) ELSE phone' = "kernel" /\ AckedThen(Coming', c)
    BY <1>1, <1>2, <2>2
  <2> QED BY <1>1, <2>1, <2>3 DEF Sent
<1>7. CASE hp = "cmd"
  <2>1. Sent("CMD", "loop")'
    BY <1>6, <1>7 DEF LinkInv, Talk
  <2> QED BY <1>1, <1>3, <1>4, <1>7, <2>1 DEF Talk
<1>8. CASE hp = "baud"
  <2>1. Sent("BAUD", "divider")'
    BY <1>6, <1>8 DEF LinkInv, Talk
  <2> QED BY <1>1, <1>3, <1>4, <1>8, <2>1 DEF Talk
<1> QED BY <1>3, <1>5, <1>7, <1>8

\* A command at the phone: it is the one sent, and its answer is clear.
LEMMA LoopTalks ==
  ASSUME LinkInv, CmdBaud \/ CmdOther \/ CmdUnknown, UNCHANGED menuVars, ~cut
  PROVE  Talk'
<1> SUFFICES ASSUME loaded, hp # "closed" PROVE Talk'
  BY DEF menuVars, Talk
<1>1. /\ txq \in Seq(Bytes) /\ rx \in Seq(Bytes) /\ back \in Seq(Bytes) /\ phone = "loop"
      /\ rx # <<>> /\ rx' = Tail(rx) /\ txq' = txq
      /\ hspeed' = hspeed /\ dspeed' = dspeed /\ hp' = hp /\ loaded' = loaded /\ cable' = cable /\ uarts' = uarts
      /\ got' = got
  BY DEF CmdBaud, CmdOther, CmdUnknown, Get, GetOther, Says, Moves, Quiet, phoneVars, menuVars, LinkInv, LinkTypeOK
<1>2. /\ Coming # <<>> /\ Coming' = Tail(Coming) /\ Head(Coming) = Head(rx) /\ Coming \in Seq(Bytes)
  BY <1>1, GetIs
<1>3. hp \in {"cmd", "baud"} /\ cable \in uarts /\ hspeed = dspeed
  <2>1. hp \in {"cmd", "baud"}
    BY <1>1, <1>2, PhoneThere
  <2> QED BY <2>1 DEF LinkInv, Talk
<1>4. got = <<>>
  BY <1>1 DEF LinkInv, Loading
<1>5. ASSUME NEW c, NEW then \in {"loop", "divider"}, Sent(c, then)
      PROVE  back = <<>> /\ Head(rx).b = c /\ Coming' = <<>>
  <2>1. Only(Coming, c) /\ back = <<>>
    BY <1>1, <1>2, <1>5 DEF Sent
  <2> QED BY <1>2, <2>1, OnlyTaken
<1>6. PhoneWrites(<<"VALID">>) /\ back = <<>> => Only(back', "VALID")
  <2> SUFFICES ASSUME PhoneWrites(<<"VALID">>), back = <<>> PROVE Only(back', "VALID")
    OBVIOUS
  <2> DEFINE x == Clear(Byte("VALID"))
  <2>1. back' = Append(back, x) /\ x.b = "VALID"
    BY <1>1, <1>3, SaysOne
  <2> HIDE DEF x
  <2>2. Len(back') = 1 /\ back'[1] = x
    BY <2>1
  <2> QED BY <2>1, <2>2, Zenon DEF Only
<1>7. CASE hp = "cmd"
  <2>1. back = <<>> /\ Head(rx).b = "CMD" /\ Coming' = <<>>
    BY <1>5, <1>7 DEF LinkInv, Talk
  <2>2. phone' = "loop" /\ PhoneWrites(<<"VALID">>)
    BY <1>1, <2>1 DEF CmdBaud, CmdOther, CmdUnknown, Get, GetOther, Says, phoneVars
  <2>3. Sent("CMD", "loop")'
    BY <1>1, <1>4, <1>6, <2>1, <2>2 DEF Sent
  <2> QED BY <1>1, <1>3, <1>7, <2>3 DEF Talk
<1>8. CASE hp = "baud"
  <2>1. back = <<>> /\ Head(rx).b = "BAUD" /\ Coming' = <<>>
    BY <1>5, <1>8 DEF LinkInv, Talk
  <2>2. phone' = "divider" /\ PhoneWrites(<<"VALID">>)
    BY <1>1, <2>1 DEF CmdBaud, CmdOther, CmdUnknown, Get, GetOther, Says, Moves, phoneVars
  <2>3. Sent("BAUD", "divider")'
    BY <1>1, <1>4, <1>6, <2>1, <2>2 DEF Sent
  <2> QED BY <1>1, <1>3, <1>8, <2>3 DEF Talk
<1> QED BY <1>3, <1>7, <1>8

\* The divider at the phone: all four bytes are of the speed picked.
LEMMA DividerTalks ==
  ASSUME LinkInv, ReadDivider, UNCHANGED menuVars, ~cut
  PROVE  Talk'
<1> SUFFICES ASSUME loaded, hp # "closed" PROVE Talk'
  BY DEF menuVars, Talk
<1> DEFINE bytes == Append(got, Head(rx))
           fits(v) == \A i \in DOMAIN bytes : bytes[i].b = "DIV" /\ bytes[i].val = v
<1>1. /\ txq \in Seq(Bytes) /\ rx \in Seq(Bytes) /\ got \in Seq(Bytes) /\ pick \in Speeds /\ phone = "divider"
      /\ rx # <<>> /\ rx' = Tail(rx) /\ txq' = txq /\ back' = back /\ hspeed' = hspeed /\ hp' = hp
      /\ loaded' = loaded /\ cable' = cable /\ uarts' = uarts /\ nap' = nap /\ pick' = pick
  BY DEF ReadDivider, menuVars, LinkInv, LinkTypeOK
<1>2. IF Len(bytes) < 4 THEN got' = bytes /\ phone' = phone /\ dspeed' = dspeed
      ELSE /\ dspeed' = IF \E v \in Speeds : fits(v) THEN bytes[1].val ELSE Odd
           /\ got' = <<>> /\ phone' = "loop"
  BY DEF ReadDivider
<1>3. /\ Coming # <<>> /\ Coming' = Tail(Coming) /\ Head(Coming) = Head(rx) /\ Coming \in Seq(Bytes) /\ Head(rx) \in Bytes
  BY <1>1, GetIs
<1>4. hp = "sleep" /\ cable \in uarts
  <2>1. hp = "sleep"
    BY <1>1, <1>3, PhoneThere
  <2> QED BY <2>1 DEF LinkInv, Talk
<1>5. /\ back = <<>> /\ hspeed = dspeed /\ nap > Len(txq) /\ Len(got) < 4 /\ Len(got) + Len(Coming) = 4
      /\ Divider(got, pick) /\ Divider(Coming, pick)
  BY <1>1, <1>4 DEF LinkInv, Talk, Changing
<1>6. /\ bytes \in Seq(Bytes) /\ Len(bytes) = Len(got) + 1 /\ Len(got) \in Nat
      /\ Tail(Coming) \in Seq(Bytes) /\ Len(Tail(Coming)) = Len(Coming) - 1 /\ Len(Coming) \in Nat
  BY <1>1, <1>3
<1>7. Divider(bytes, pick) /\ Divider(Tail(Coming), pick)
  <2>1. Head(rx).b = "DIV" /\ Head(rx).val = pick
    <3>1. 1 \in DOMAIN Coming /\ Head(rx) = Coming[1]
      BY <1>3
    <3> QED BY <1>5, <3>1 DEF Divider
  <2>2. \A i \in DOMAIN bytes : (i \in DOMAIN got /\ bytes[i] = got[i]) \/ bytes[i] = Head(rx)
    BY <1>1, <1>3
  <2>3. \A i \in DOMAIN Tail(Coming) : i + 1 \in DOMAIN Coming /\ Tail(Coming)[i] = Coming[i + 1]
    BY <1>3
  <2> HIDE DEF bytes
  <2>4. Divider(bytes, pick)
    BY <1>5, <2>1, <2>2, Zenon DEF Divider
  <2>5. Divider(Tail(Coming), pick)
    BY <1>5, <2>3, Zenon DEF Divider
  <2> QED BY <2>4, <2>5
<1> HIDE DEF bytes
<1>8. CASE Len(bytes) < 4
  <2>1. got' = bytes /\ phone' = "divider" /\ dspeed' = dspeed
    BY <1>1, <1>2, <1>8
  <2>2. Len(got') < 4 /\ Len(got') + Len(Coming') = 4
    BY <1>3, <1>5, <1>6, <1>8, <2>1
  <2>3. Divider(got', pick') /\ Divider(Coming', pick')
    BY <1>1, <1>3, <1>7, <2>1
  <2>4. Changing'
    BY <1>1, <1>5, <2>1, <2>2, <2>3 DEF Changing
  <2> QED BY <1>1, <1>4, <2>4 DEF Talk
<1>9. CASE ~(Len(bytes) < 4)
  <2>1. Len(bytes) = 4 /\ Len(Tail(Coming)) = 0
    BY <1>5, <1>6, <1>9
  <2>2. Coming' = <<>>
    BY <1>3, <1>6, <2>1, NoBytes, Zenon
  <2>3. fits(pick)
    BY <1>7, Zenon DEF Divider
  <2>4. bytes[1].val = pick
    <3>1. 1 \in DOMAIN bytes
      BY <1>6, <2>1
    <3> QED BY <2>3, <3>1
  <2> HIDE DEF fits
  <2>5. dspeed' = pick /\ phone' = "loop"
    BY <1>1, <1>2, <1>9, <2>3, <2>4
  <2>6. Changing'
    BY <1>1, <1>5, <2>2, <2>5 DEF Changing
  <2> QED BY <1>1, <1>4, <2>6 DEF Talk
<1> QED BY <1>8, <1>9

\* A step of the phone keeps to the talk, whatever byte it reads;
LEMMA PhoneTalks ==
  ASSUME LinkInv, Phone
  PROVE  Talk'
<1>1. UNCHANGED menuVars /\ cut' = (cut /\ (phone = "entry" => loaded))
  BY DEF Phone
<1>2. CASE loaded /\ ~cut /\ hp # "closed"
  <2>1. phone \in {"kernel", "loop", "divider"}
    BY <1>2, PhoneThere
  <2>2. ~(RomSyn \/ RomSynAgain \/ RomHex \/ RomIgnores \/ StartKernel)
    BY <2>1 DEF RomSyn, RomSynAgain, RomHex, RomIgnores, StartKernel
  <2> QED BY <1>1, <1>2, <2>2, KernelTalks, LoopTalks, DividerTalks DEF Phone, PhoneStep
<1>3. CASE ~(loaded /\ ~cut /\ hp # "closed")
  <2>1. loaded' = loaded /\ hp' = hp
    BY <1>1 DEF menuVars
  <2>2. ~loaded' \/ cut' \/ hp' = "closed"
    BY <1>1, <1>3, <2>1
  <2> QED BY <2>2 DEF Talk
<1> QED BY <1>2, <1>3

\* A byte over the line changes nothing of what is on its way.
LEMMA LineTalks ==
  ASSUME LinkInv, loaded, ~cut, hp # "closed", Transmit(Listening)
  PROVE  Coming' = Coming /\ hspeed = dspeed /\ Len(txq') = Len(txq) - 1 /\ txq # <<>>
<1>1. Listening
  BY PhoneThere
<1>2. txq \in Seq(Bytes) /\ rx \in Seq(Bytes)
  BY DEF LinkInv, LinkTypeOK
<1>3. txq # <<>> /\ txq' = Tail(txq) /\ rx' = Append(rx, Clear(Head(txq))) /\ Head(txq) \in Bytes
  BY <1>1, <1>2, TransmitIs
<1>4. hspeed = dspeed
  <2>1. CASE hp # "sleep"
    BY <2>1 DEF LinkInv, Talk
  <2>2. CASE hp = "sleep"
    <3>1. Coming # <<>>
      BY <1>2, <1>3, NothingComing
    <3> QED BY <2>2, <3>1 DEF LinkInv, Talk, Changing
  <2> QED BY <2>1, <2>2
<1>5. Clear(Head(txq)) = Head(txq)
  BY <1>3, <1>4, ClearIs
<1>6. Append(rx, Head(txq)) \o Tail(txq) = rx \o txq
  BY <1>2, <1>3, OverTheLine
<1>7. Len(Tail(txq)) = Len(txq) - 1
  BY <1>2, <1>3
<1> QED BY <1>3, <1>4, <1>5, <1>6, <1>7 DEF Coming

\* and so does every step of the session.
LEMMA TalkKeeps == LinkInv /\ [Next]_vars => Talk'
<1> SUFFICES ASSUME LinkInv, [Next]_vars PROVE Talk'
  OBVIOUS
<1>1. /\ txq \in Seq(Bytes) /\ rx \in Seq(Bytes) /\ got \in Seq(Bytes) /\ nap \in Nat
  BY DEF LinkInv, LinkTypeOK
<1>2. CASE ~(loaded /\ ~cut /\ hp # "closed") /\ (Line \/ Tick \/ EndKey \/ Exit \/ UNCHANGED vars)
  <2>1. loaded' = loaded /\ cut' = cut /\ (hp' = hp \/ hp' = "closed")
    BY <1>2 DEF Line, Tick, EndKey, Exit, Close, Goes, vars, menuVars
  <2> QED BY <1>2, <2>1 DEF Talk
<1>3. CASE loaded /\ ~cut /\ hp # "closed" /\ Line
  <2>1. /\ Coming' = Coming /\ hspeed = dspeed /\ Len(txq') = Len(txq) - 1
        /\ back' = back /\ hspeed' = hspeed /\ dspeed' = dspeed
        /\ phone' = phone /\ uarts' = uarts /\ cable' = cable /\ got' = got
        /\ hp' = hp /\ loaded' = loaded /\ cut' = cut /\ pick' = pick /\ nap' = nap
    BY <1>3, LineTalks DEF Line, Transmit, phoneVars, menuVars
  <2>2. nap > Len(txq) => nap' > Len(txq')
    BY <1>1, <2>1
  <2> QED BY <1>3, <2>1, <2>2 DEF LinkInv, Talk, Sent, Changing
<1>4. CASE loaded /\ ~cut /\ hp # "closed" /\ Tick
  <2>1. /\ hp = "sleep" /\ nap > 0 /\ rx = <<>> /\ nap' = nap - 1 /\ phone' = phone /\ uarts' = uarts
        /\ cable' = cable /\ got' = got /\ hp' = hp /\ loaded' = loaded /\ cut' = cut /\ pick' = pick
    BY <1>4 DEF Tick, phoneVars
  <2>2. Changing /\ cable \in uarts
    BY <1>4, <2>1 DEF LinkInv, Talk
  <2>3. CASE txq # <<>>
    <3>1. /\ Coming' = Coming /\ hspeed = dspeed /\ Len(txq') = Len(txq) - 1
          /\ back' = back /\ hspeed' = hspeed /\ dspeed' = dspeed
      BY <1>4, <2>3, LineTalks DEF Tick, Transmit
    <3>2. nap > Len(txq) => nap' > Len(txq')
      BY <1>1, <2>1, <3>1
    <3>3. Changing'
      BY <2>1, <2>2, <3>1, <3>2 DEF Changing
    <3> QED BY <2>1, <2>2, <3>3 DEF Talk
  <2>4. CASE txq = <<>>
    <3>1. txq' = txq /\ rx' = rx /\ back' = back /\ hspeed' = hspeed /\ dspeed' = dspeed
      BY <1>4, <2>4 DEF Tick, lineVars
    <3>2. Coming = <<>> /\ Len(Coming) = 0
      BY <1>1, <2>1, <2>4, NothingComing, NoBytes
    <3>3. phone = "loop" /\ dspeed = pick /\ back = <<>>
      <4>1. ~(Len(got) < 4 /\ Len(got) + Len(Coming) = 4)
        <5>1. Len(got) \in Nat
          BY <1>1
        <5> QED BY <3>2, <5>1
      <4> QED BY <2>2, <4>1 DEF Changing
    <3>4. Coming' = <<>>
      BY <3>1, <3>2 DEF Coming
    <3>5. Changing'
      BY <2>1, <3>1, <3>3, <3>4 DEF Changing
    <3> QED BY <2>1, <2>2, <3>5 DEF Talk
  <2> QED BY <2>3, <2>4
<1>5. CASE loaded /\ ~cut /\ hp # "closed" /\ EndKey
  <2>1. phone = "off"
    BY <1>5 DEF EndKey, PowerOn
  <2> QED BY <1>5, <2>1, PhoneThere
<1>6. CASE Exit
  BY <1>6 DEF Exit, Close, Goes, Talk
<1>7. CASE loaded /\ ~cut /\ hp # "closed" /\ UNCHANGED vars
  <2>1. Coming' = Coming
    BY <1>7 DEF vars, lineVars, Coming
  <2> QED BY <1>7, <2>1 DEF vars, lineVars, phoneVars, menuVars, LinkInv, Talk, Sent, Changing
<1>8. CASE Cut
  BY <1>8 DEF Cut, Talk
<1>9. CASE Rerun
  BY <1>9 DEF Rerun, Reopen, Talk
<1> QED BY <1>2, <1>3, <1>4, <1>5, <1>6, <1>7, <1>8, <1>9, HostTalks, UserTalks, PhoneTalks DEF Next

-----------------------------------------------------------------------------
(* The theorems.                                                           *)

\* A session begins in the invariant
LEMMA LinkInit == Init => LinkInv
<1> SUFFICES ASSUME Init PROVE LinkInv
  OBVIOUS
<1>1. /\ txq = <<>> /\ rx = <<>> /\ back = <<>> /\ got = <<>> /\ hspeed = Fast /\ dspeed = Fast
      /\ phone = "off" /\ uarts = {0, 1} /\ cable \in {0, 1} /\ hp = "menu" /\ screen = "main" /\ loaded = FALSE
      /\ flags = {} /\ flashOn = FALSE /\ pick = Fast /\ nap = 0 /\ cut = FALSE
  BY DEF Init, LineInit, PhoneInit, MenuInit
<1>2. Fast \in Speeds /\ <<>> \in Seq(Bytes) /\ 0 \in 0 .. NapTicks
  BY MenuAssumption DEF Speeds
<1>3. LinkTypeOK
  BY <1>1, <1>2 DEF LinkTypeOK, Phases, HostPhases
<1>4. All(<<>>, {"SYN", "HEX"}) /\ All(<<>>, {"SYN", "HEX", "junk"}) /\ ~Has(<<>>, "ENQ")
  BY DEF All, Has
<1> QED BY <1>1, <1>3, <1>4 DEF LinkInv, Loading, Downloading, Asked, Talk

\* and every step keeps it.
LEMMA LinkNext == LinkInv /\ [Next]_vars => LinkInv'
<1> SUFFICES ASSUME LinkInv, [Next]_vars PROVE LinkInv'
  OBVIOUS
<1>1. LinkTypeOK /\ Loading /\ Asked
  BY DEF LinkInv
<1> QED BY <1>1, TypeKeeps, LoadingKeeps, AskedKeeps, TalkKeeps DEF LinkInv

\* Every variable keeps its type.
THEOREM LinkTyped == Spec => []LinkTypeOK
<1>1. LinkInv => LinkTypeOK
  BY DEF LinkInv
<1> QED BY <1>1, LinkInit, LinkNext, PTL DEF Spec

\* Whenever a button for the preloader can be pressed, the preloader is there
\* and both ends have one speed (main, start_kernel, uart_set_baud).
THEOREM AlwaysReady == Spec => []ReadyToTalk
<1>1. LinkInv => ReadyToTalk
  <2> SUFFICES ASSUME LinkInv, hp = "menu", loaded, ~cut PROVE ReadyToTalk
    BY DEF ReadyToTalk
  <2>1. /\ cable \in uarts /\ hspeed = dspeed /\ back = <<>>
        /\ (phone = "loop" /\ Coming = <<>>) \/ (phone = "kernel" /\ Acked(Coming))
    BY DEF LinkInv, Talk
  <2> QED BY <2>1 DEF ReadyToTalk, Acked, Coming
<1> QED BY <1>1, LinkInit, LinkNext, PTL DEF Spec

\* The preloader's answer to a command is VALID, never refused and never junk.
THEOREM AlwaysAnswered == Spec => []Answered
<1>1. LinkInv => Answered
  <2> SUFFICES ASSUME LinkInv, hp \in {"cmd", "baud"}, loaded, ~cut, back # <<>> PROVE Head(back).b = "VALID"
    BY DEF Answered
  <2>1. Only(back, "VALID") /\ back \in Seq(Bytes)
    BY DEF LinkInv, LinkTypeOK, Talk, Sent
  <2> QED BY <2>1, OnlyTaken
<1> QED BY <1>1, LinkInit, LinkNext, PTL DEF Spec
=============================================================================
