-------------------------------- MODULE Wire ---------------------------------
(***************************************************************************)
(* The serial line between host and phone, in raw mode with blocking       *)
(* reads (VMIN = 1, VTIME = 0): two FIFO byte streams that no timeout ever *)
(* interrupts.  One token stands for the bytes one side writes in a row:   *)
(* an opcode, all the operand bytes of a command, a status byte, a control *)
(* symbol, or a block of data with its checksum.                           *)
(***************************************************************************)
EXTENDS Commands

VARIABLES h2d,     \* host to device
          d2h,     \* device to host
          link     \* "up", or "down" once the tty has been hung up

wire == <<h2d, d2h, link>>

\* ok is FALSE when noise has hit the token: an opcode then reads as no
\* command at all, and operands fail their checksum.
Token == [kind : {"opcode", "operands"}, cmd : Cmd, ok : BOOLEAN]
Replies == {"VALID", "INVALID", "ACK", "NAK", "EOT", "DATA", "BADDATA"}

WireInit == h2d = <<>> /\ d2h = <<>> /\ link = "up"

HostSends(kind, cmd) ==
  h2d' = IF link = "up" THEN Append(h2d, [kind |-> kind, cmd |-> cmd, ok |-> TRUE])
         ELSE h2d

DeviceSends(t) == d2h' = IF link = "up" THEN Append(d2h, t) ELSE d2h

\* serial_read_byte waits for a byte.  After a hangup read() returns 0 and the
\* byte it returns is whatever its uninitialized variable holds.
HostReads(t) ==
  \/ link = "up" /\ d2h # <<>> /\ t = Head(d2h) /\ d2h' = Tail(d2h)
  \/ link = "down" /\ t \in Replies /\ UNCHANGED d2h
=============================================================================
