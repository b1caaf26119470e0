---------------------------- MODULE LinkSession ------------------------------
(***************************************************************************)
(* Host and phone until they can talk, and when they change the speed they *)
(* talk at.  Time passes only while the host sleeps: the rest of what they *)
(* do takes little of it, or as long as it takes.                          *)
(***************************************************************************)
EXTENDS PhoneBoot, HostMenu

CONSTANTS MaxCuts, MaxRuns     \* bounds of the model

ASSUME LinkAssumption == MaxCuts \in Nat /\ MaxRuns \in Nat

VARIABLES budget,   \* power cuts and further runs of the program still allowed
          cut       \* history: the phone has lost power since it sent the host its ENQ

vars == <<lineVars, phoneVars, menuVars, budget, cut>>

Init == /\ LineInit /\ PhoneInit /\ MenuInit
        /\ budget = [cuts |-> MaxCuts, runs |-> MaxRuns] /\ cut = FALSE

Host == HostStep /\ UNCHANGED <<phoneVars, budget, cut>>
Phone == PhoneStep /\ cut' = (cut /\ (phone = "entry" => loaded)) /\ UNCHANGED <<menuVars, budget>>
User == UserStep /\ UNCHANGED <<phoneVars, budget, cut>>

\* A byte gets over the line.
Line == /\ hp = "sleep" => hspeed # Slow
        /\ Transmit(Listening) /\ UNCHANGED <<phoneVars, menuVars, budget, cut>>

\* While the host sleeps, one tick is one byte at the speed Slow; at another
\* all bytes are through, and the phone has read them, before it is over.
Tick == /\ hp = "sleep" /\ nap > 0 /\ rx = <<>>
        /\ IF txq # <<>> THEN hspeed = Slow /\ Transmit(Listening) ELSE UNCHANGED lineVars
        /\ nap' = nap - 1
        /\ UNCHANGED <<phoneVars, hp, screen, loaded, flags, flashOn, pick, budget, cut>>

EndKey == PowerOn /\ UNCHANGED <<menuVars, budget, cut>>
Cut == /\ budget.cuts > 0 /\ PowerOff
       /\ budget' = [budget EXCEPT !.cuts = @ - 1] /\ cut' = TRUE /\ UNCHANGED menuVars
Exit == Close /\ UNCHANGED <<phoneVars, budget, cut>>
Rerun == /\ budget.runs > 0 /\ Reopen
         /\ budget' = [budget EXCEPT !.runs = @ - 1] /\ UNCHANGED <<phoneVars, cut>>

Next == Host \/ Phone \/ User \/ Line \/ Tick \/ EndKey \/ Cut \/ Exit \/ Rerun

Spec == Init /\ [][Next]_vars

\* Both programs run, the line carries what is on it, time passes, and the user
\* does press the key when asked to.
FairSpec == /\ Spec /\ WF_vars(Host) /\ WF_vars(Phone) /\ WF_vars(Line) /\ WF_vars(Tick)
            /\ WF_vars(hp \in {"syn", "check"} /\ EndKey)

-----------------------------------------------------------------------------
(* Every variable has its type.                                            *)
Bytes == [b : {"SYN", "HEX", "ACK", "BAUD", "DIV", "CMD", "junk", "0", "error", "ENQ",
               "VALID", "INVALID"}, val : Speeds]
LinkTypeOK ==
  /\ txq \in Seq(Bytes) /\ rx \in Seq(Bytes) /\ back \in Seq(Bytes) /\ got \in Seq(Bytes)
  /\ hspeed \in Speeds /\ dspeed \in Speeds \cup {Odd}
  /\ phone \in Phases /\ uarts \subseteq {0, 1} /\ cable \in {0, 1}
  /\ hp \in HostPhases /\ screen \in {"main", "baud"} /\ loaded \in BOOLEAN
  /\ flags \subseteq {"bin", "tfs", "csc"} /\ flashOn \in BOOLEAN
  /\ pick \in Speeds /\ nap \in 0 .. NapTicks

\* Whenever a button for the preloader can be pressed, the preloader is there
\* (or has ENQ answered, and finds its UART), nothing is under way but that
\* answer, and both ends have one speed: whatever stale SYNs came back during
\* the download, and after every change of speed.
ReadyToTalk ==
  hp = "menu" /\ loaded /\ ~cut =>
    /\ LET coming == rx \o txq
       IN \/ phone = "loop" /\ coming = <<>>
          \/ /\ phone = "kernel" /\ coming # <<>>
             /\ \A i \in DOMAIN coming : coming[i].b = "ACK" <=> i = Len(coming)
    /\ cable \in uarts /\ back = <<>> /\ hspeed = dspeed

\* No command is refused or answered with junk.
Answered == hp \in {"cmd", "baud"} /\ loaded /\ ~cut /\ back # <<>> => Head(back).b = "VALID"

\* A download begun while the phone is off ends, once the key is pressed, unless
\* the phone loses power again.
DownloadEnds ==
  hp = "syn" /\ phone = "off" /\ back = <<>> /\ budget.cuts = 0 ~> hp \in {"menu", "closed"}

\* Every command comes to its end.
CommandEnds == hp \in {"cmd", "baud", "sleep"} ~> hp \in {"menu", "closed"} \/ cut
=============================================================================
