----------------------------- MODULE MCFpgaSmbus -----------------------------
(***************************************************************************)
(* One channel, two callers, one slave of two bytes.  The accesses are: a  *)
(* word write, a byte write that overlaps it, a word read that wraps at    *)
(* the end of the slave (issued by the i2c core it is served, also at an   *)
(* address of 10 bits whose upper ones are cut off; by the ioctl it is     *)
(* refused), a byte written without data, which kills its thread, and two  *)
(* channels that do not exist, of which only the second is refused.  A     *)
(* slave may refuse its address as well as any byte, so an absent slave    *)
(* needs no access of its own.                                             *)
(***************************************************************************)
EXTENDS FpgaSmbusRefinement

CONSTANTS c1, c2

MCIoctl(op, ch, off, len, data) ==
  [via |-> "ioctl", op |-> op, ch |-> ch, addr |-> 80, off |-> off, len |-> len,
   data |-> data]

MCSmbus(op, size, addr, off, data) ==
  [via |-> "smbus", op |-> op, ch |-> 0, addr |-> addr, off |-> off, size |-> size,
   data |-> data]

MCAccesses == {
  MCSmbus("write", "WORD_DATA", 80, 0, <<1, 0>>),
  MCSmbus("write", "BYTE", 80, 0, <<0>>),
  MCSmbus("read", "WORD_DATA", 336, 1, <<>>),
  MCIoctl("write", 0, 1, 1, <<1, 0>>),
  MCIoctl("read", 0, 1, 2, <<>>),
  MCIoctl("read", 1, 0, 1, <<>>),
  MCIoctl("read", 2, 0, 1, <<>>)}

MCCallers == {c1, c2}
MCSlaves == {80}

(* Liveness under the driver's fairness, on the specification with snap.    *)
MCSpec == RSpec /\ Fairness
=============================================================================
