---------------------------- MODULE FlashService -----------------------------
(***************************************************************************)
(* What the line, the preloader and its three-phase flash operations       *)
(* promise together: a flash whose commands take effect whole, one after   *)
(* the other, each submitted only when the one before it is over.  A       *)
(* refused command has no effect; a crash can spoil the blocks of the      *)
(* command in progress and no others.                                      *)
(***************************************************************************)
EXTENDS Commands

CONSTANT MayCrash   \* whether the phone may lose power

VARIABLES flash,   \* the chip, as it will be when the command in progress ends
          pend,    \* {c}: c has been submitted and not yet taken
          open     \* {c}: c is in progress

Touched(c) == IF c.op = "CHIP_ERASE" THEN Blocks ELSE {c.blk}

Init == /\ flash \in [mem : MemVal, prot : ProtVal]
        /\ pend = {} /\ open = {}

Submit == /\ pend = {} /\ open = {}
          /\ \E c \in pend' : c \in Cmd /\ pend' = {c}
          /\ UNCHANGED <<flash, open>>

Take == /\ open = {}
        /\ \E c \in pend : /\ flash' = Apply(flash, c)
                           /\ open' \in {{c}, {}}
        /\ pend' = {}

Refuse == pend # {} /\ pend' = {} /\ UNCHANGED <<flash, open>>

\* A command without operands is taken as it is submitted.
Immediate == {"GET_INFO", "OTP_READ", "CHIP_ERASE"}
Straight == /\ pend = {} /\ open = {}
            /\ \E c \in open' : /\ c \in Cmd /\ c.op \in Immediate /\ open' = {c}
                                /\ flash' = Apply(flash, c)
            /\ UNCHANGED pend

Finish == open # {} /\ open' = {} /\ UNCHANGED <<flash, pend>>

Crash == /\ MayCrash
         /\ flash' \in [mem : MemVal, prot : ProtVal]
         /\ \A b \in Blocks : flash'.mem[b] # flash.mem[b] =>
                                \E c \in open : b \in Touched(c)
         /\ pend' = {} /\ open' = {}

Next == Submit \/ Take \/ Refuse \/ Straight \/ Finish \/ Crash

Spec == Init /\ [][Next]_<<flash, pend, open>>
=============================================================================
