---------------------------- MODULE SerialSpeed ------------------------------
(***************************************************************************)
(* The serial line of Wire before anything is agreed on: what one end      *)
(* sends at one speed and the other receives at another is junk, and the   *)
(* bytes of a write still lie in the host's tty when write() returns.      *)
(***************************************************************************)
EXTENDS Integers, Sequences

CONSTANTS Slow, Fast,     \* 600 and 115200 baud
          Odd             \* a speed that no host has

Speeds == {Slow, Fast}

VARIABLES txq,      \* bytes written, not yet on the line
          rx,       \* bytes the phone has received
          back,     \* bytes the host has received
          hspeed, dspeed   \* the speeds of the two ends

lineVars == <<txq, rx, back, hspeed, dspeed>>

\* A byte; val is for those of an operand.
Byte(b) == [b |-> b, val |-> Fast]
Junk == Byte("junk")
Clear(b) == IF hspeed = dspeed THEN b ELSE Junk

LineInit == txq = <<>> /\ rx = <<>> /\ back = <<>> /\ hspeed = Fast /\ dspeed = Fast

HostWrites(bytes) == txq' = txq \o bytes
PhoneWrites(bytes) == back' = back \o [i \in DOMAIN bytes |-> Clear(Byte(bytes[i]))]

\* One byte goes over the line; a phone that does not listen loses it.
Transmit(listening) ==
  /\ txq # <<>> /\ txq' = Tail(txq)
  /\ rx' = IF listening THEN Append(rx, Clear(Head(txq))) ELSE rx
  /\ UNCHANGED <<back, hspeed, dspeed>>
=============================================================================
