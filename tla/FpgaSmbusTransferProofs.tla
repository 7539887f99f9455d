------------------------ MODULE FpgaSmbusTransferProofs ------------------------
(***************************************************************************)
(* What a transfer leaves behind, for any number of callers, channels and  *)
(* slaves and any requests: no command outlives its caller, a bus is handed *)
(* over clean, a success means that the bytes were moved, and a slave       *)
(* changes only as its channel's owner asked.  FpgaSmbusProofs shows that   *)
(* an owner is alone on its channel; here its position in the frame is      *)
(* related to the registers of the core, the wires and the slave.           *)
(***************************************************************************)
EXTENDS FpgaSmbusProofs

Outside == {"idle", "down", "return"}

(* Only a STOP may be pending, and without one the frame is over.           *)
Quiet(ch) == \/ cmd[ch] = "STOP"
             \/ cmd[ch] = "none" /\ bus[ch].mode = "closed"

(* The offset in the slave of byte number i of a request, counted from 0,   *)
(* and the number of bytes a caller has moved.                              *)
Cell(r, i) == (r.off + i) % ByteSize
Moved(p) == req[p].len - left[p]

(* The frame on p's channel addresses p's slave, in mode m, at byte i.      *)
Aims(p, m, i) == LET w == bus[req[p].ch]
                 IN w.mode = m /\ w.addr = req[p].addr /\ w.ptr = Cell(req[p], i)

(* The slave holds byte number i of a write; what it holds as byte i.       *)
Held(p, i) == mem[req[p].ch][req[p].addr][Cell(req[p], i)]

(* What the wires show when the command of p's phase is given ...           *)
Ready(p) ==
  LET w == bus[req[p].ch] IN
  CASE phase[p] = "addr_w" -> TRUE
    [] phase[p] = "offset" -> \/ w.mode = "closed"
                              \/ w.mode = "offset" /\ w.addr = req[p].addr
    [] phase[p] = "addr_r" -> Aims(p, "write", 0)
    [] OTHER               -> Aims(p, req[p].op, Moved(p))

(* ... and when the core has done it.  A START that was dropped leaves the  *)
(* wires closed, with the RxACK bit of an earlier frame.                    *)
Done(p) ==
  LET w == bus[req[p].ch] IN
  CASE phase[p] = "addr_w" -> \/ nak[req[p].ch]
                              \/ w.mode = "closed"
                              \/ w.mode = "offset" /\ w.addr = req[p].addr
    [] phase[p] = "offset" -> nak[req[p].ch] \/ Aims(p, "write", 0)
    [] phase[p] = "addr_r" -> nak[req[p].ch] \/ Aims(p, "read", 0)
    [] OTHER -> IF req[p].op = "read"
                  THEN Aims(p, "read", Moved(p) + 1) /\ rxr[req[p].ch] = Held(p, Moved(p))
                  ELSE \/ nak[req[p].ch]
                       \/ /\ Aims(p, "write", Moved(p) + 1)
                          /\ req[p].data[Moved(p) + 1] = Held(p, Moved(p))

Loaded(p) == StartOf(req[p], phase[p]) = "load" =>
               txr[req[p].ch] = TxrFor(req[p], phase[p], left[p])

(* The core is working on the command of p's phase.                         *)
Working(p) == cmd[req[p].ch] = CommandOf(req[p], phase[p]) /\ Loaded(p) /\ Ready(p)
Idle(p)    == cmd[req[p].ch] = "none"
Closed(p)  == Idle(p) /\ bus[req[p].ch].mode = "closed"

(* The last byte of a read is there: its STOP is still to be sent, or the   *)
(* frame is over.                                                           *)
LastByte(p) == req[p].op = "read" /\ left[p] > 0 =>
                 rxr[req[p].ch] = Held(p, Moved(p))
Ending(p) == /\ req[p].op = "read" /\ cmd[req[p].ch] = "STOP"
             /\ bus[req[p].ch].mode # "closed"
             /\ LastByte(p)
Ended(p)  == Closed(p) /\ LastByte(p)

(* The state of p's channel at every place of a transfer.                   *)
ChannelOK(p) ==
  CASE pc[p] \in {"load", "command"} ->
         /\ IF phase[p] = "addr_w" THEN Quiet(req[p].ch) ELSE Idle(p)
         /\ Ready(p)
         /\ pc[p] = "command" => Loaded(p)
    [] pc[p] = "tip" -> phase[p] # "last" /\ (Working(p) \/ (Idle(p) /\ Done(p)))
    [] pc[p] \in {"ack", "fetch"} -> phase[p] # "last" /\ Idle(p) /\ Done(p)
    [] pc[p] = "last" -> phase[p] = "last" /\ (Working(p) \/ Ending(p) \/ Ended(p))
    [] pc[p] = "disable" -> Idle(p) \/ cmd[req[p].ch] = "STOP" \/ Working(p)
    [] pc[p] \in {"enable", "restop", "nack_stop"} -> Idle(p)
    [] pc[p] = "up" -> /\ Quiet(req[p].ch)
                       /\ ret[p] # "EBUSY" => bus[req[p].ch].mode = "closed"
                       /\ ret[p] = "OK" => Idle(p)
    [] OTHER -> Quiet(req[p].ch)

Enabled(p) == en[req[p].ch] = (pc[p] # "enable")

(* The bytes moved so far are those of the slave.                           *)
BytesOK(p) ==
  /\ phase[p] \in {"byte", "last"} =>
       /\ left[p] <= req[p].len
       /\ \A i \in 0..(Moved(p) - 1) :
            IF req[p].op = "read" THEN buf[p][i + 1] = Held(p, i)
                                  ELSE req[p].data[i + 1] = Held(p, i)
  /\ Len(buf[p]) = IF phase[p] \in {"byte", "last"} /\ req[p].op = "read"
                     THEN Moved(p) ELSE 0
  /\ phase[p] = "addr_r" => req[p].op = "read"
  /\ phase[p] = "last" => left[p] <= LastByteOf(req[p].op)

InFrame == {"load", "command", "tip", "ack", "fetch", "last"}

Success(p) ==
  LET r == req[p]
      held == [i \in 1..r.len |-> mem[r.ch][r.addr][(r.off + i - 1) % ByteSize]]
  IN IF r.op = "read" THEN buf[p] = held ELSE r.data = held

CallerOK(p) ==
  /\ pc[p] \notin Outside => ChannelOK(p) /\ Enabled(p)
  /\ pc[p] \in InFrame => BytesOK(p)
  /\ pc[p] \in {"idle", "down"} => Len(buf[p]) = 0
  /\ pc[p] = "up" /\ ret[p] = "OK" => Success(p)

FreeOK(ch) == sem[ch] = 1 => en[ch] /\ Quiet(ch)

TransferInv ==
  /\ \A p \in Callers : CallerOK(p)
  /\ \A ch \in Channels : FreeOK(ch)


-----------------------------------------------------------------------------
LEMMA Offsets ==
  ASSUME NEW x \in Nat, x < 2 * ByteSize
  PROVE  /\ x % ByteSize = IF x < ByteSize THEN x ELSE x - ByteSize
         /\ x % ByteSize \in Byte
  BY FpgaAssumption DEF Byte

(* Cells of a request: the first is its offset, the next follows around the *)
(* end of the slave, and no two of one request coincide.                    *)
LEMMA CellFacts ==
  ASSUME NEW r \in Requests, NEW i \in 0..r.len
  PROVE  /\ Cell(r, i) \in Byte
         /\ Cell(r, 0) = r.off
         /\ i < r.len => Cell(r, i + 1) = (Cell(r, i) + 1) % ByteSize
         /\ i < r.len => \A j \in 0..(i - 1) : Cell(r, j) # Cell(r, i)
<1>1. /\ r.off \in Nat /\ r.off < ByteSize /\ ByteSize \in Nat \ {0}
      /\ r.len \in Nat /\ r.len <= ByteSize
  BY RequestType, FpgaAssumption DEF Byte
<1>2. ASSUME NEW j \in Nat, j < ByteSize
      PROVE  Cell(r, j) = IF r.off + j < ByteSize THEN r.off + j ELSE r.off + j - ByteSize
  <2>1. r.off + j \in Nat /\ r.off + j < 2 * ByteSize
    BY <1>1, <1>2
  <2>2. (r.off + j) % ByteSize = IF r.off + j < ByteSize THEN r.off + j
                                 ELSE r.off + j - ByteSize
    BY <1>1, <2>1, Offsets
  <2>3. QED
    BY <2>2 DEF Cell
<1>3. Cell(r, i) \in Byte
  BY <1>1, FpgaAssumption DEF Cell, Byte
<1>4. Cell(r, 0) = r.off
  BY <1>1, <1>2
<1>5. ASSUME i < r.len PROVE Cell(r, i + 1) = (Cell(r, i) + 1) % ByteSize
  <2>1. Cell(r, i) = IF r.off + i < ByteSize THEN r.off + i ELSE r.off + i - ByteSize
    BY <1>1, <1>2, <1>5
  <2>2. CASE r.off + i < ByteSize
    BY <2>1, <2>2, <1>1 DEF Cell
  <2>3. CASE r.off + i >= ByteSize
    <3>1. r.off + (i + 1) \in Nat /\ r.off + (i + 1) < 2 * ByteSize
      BY <1>1, <1>5
    <3>2. Cell(r, i + 1) = r.off + (i + 1) - ByteSize
      BY <3>1, <2>3, <1>1, Offsets DEF Cell
    <3>3. (Cell(r, i) + 1) \in Nat /\ Cell(r, i) + 1 < ByteSize
      BY <2>1, <2>3, <1>1, <1>5
    <3>4. (Cell(r, i) + 1) % ByteSize = Cell(r, i) + 1
      BY <3>3, <1>1, Offsets
    <3>5. QED
      BY <3>2, <3>4, <2>1, <2>3, <1>1
  <2>4. QED
    BY <2>2, <2>3, <1>1
<1>6. ASSUME i < r.len, NEW j \in 0..(i - 1) PROVE Cell(r, j) # Cell(r, i)
  BY <1>1, <1>2, <1>6
<1>7. QED
  BY <1>3, <1>4, <1>5, <1>6

-----------------------------------------------------------------------------
(* A step that leaves a caller, or a channel, alone.                        *)
SamePlace(q) == req'[q] = req[q] /\ phase'[q] = phase[q] /\ left'[q] = left[q]

SameCaller(q) == SamePlace(q) /\ pc'[q] = pc[q] /\ buf'[q] = buf[q] /\ ret'[q] = ret[q]

SameWires(ch) == bus'[ch] = bus[ch] /\ mem'[ch] = mem[ch] /\ nak'[ch] = nak[ch]
                 /\ rxr'[ch] = rxr[ch]

SameChannel(ch) == SameWires(ch) /\ en'[ch] = en[ch] /\ cmd'[ch] = cmd[ch]
                   /\ txr'[ch] = txr[ch]

LEMMA SameBytes ==
  ASSUME NEW q, req'[q] = req[q], SameWires(req[q].ch)
  PROVE  \A i : /\ Held(q, i)' = Held(q, i)
                /\ \A m : Aims(q, m, i)' = Aims(q, m, i)
  BY DEF SameWires, Held, Aims, Cell

(* What is said of p's place in the frame and the wires stays true while    *)
(* both stay as they are.                                                   *)
LEMMA SameView ==
  ASSUME NEW q, SamePlace(q), SameWires(req[q].ch)
  PROVE  /\ Moved(q)' = Moved(q)
         /\ \A i : Held(q, i)' = Held(q, i)
         /\ Ready(q)' = Ready(q) /\ Done(q)' = Done(q)
         /\ txr'[req[q].ch] = txr[req[q].ch] => Loaded(q)' = Loaded(q)
         /\ buf'[q] = buf[q] => BytesOK(q)' = BytesOK(q) /\ Success(q)' = Success(q)
<1> DEFINE ch == req[q].ch
<1>1. /\ req'[q] = req[q] /\ phase'[q] = phase[q] /\ left'[q] = left[q]
      /\ rxr'[ch] = rxr[ch] /\ nak'[ch] = nak[ch]
      /\ bus'[ch] = bus[ch] /\ mem'[ch] = mem[ch]
  BY DEF SamePlace, SameWires
<1>2. \A i : /\ Held(q, i)' = Held(q, i)
             /\ \A m : Aims(q, m, i)' = Aims(q, m, i)
  BY <1>1 DEF Held, Aims, Cell
<1>3. Moved(q)' = Moved(q)
  BY <1>1 DEF Moved
<1>4. Ready(q)' = Ready(q) /\ Done(q)' = Done(q)
  BY <1>1, <1>2, <1>3 DEF Ready, Done
<1>5. txr'[ch] = txr[ch] => Loaded(q)' = Loaded(q)
  BY <1>1 DEF Loaded
<1>6. ASSUME buf'[q] = buf[q] PROVE BytesOK(q)' = BytesOK(q) /\ Success(q)' = Success(q)
  BY <1>1, <1>2, <1>3, <1>6 DEF BytesOK, Success
<1>7. QED
  BY <1>2, <1>3, <1>4, <1>5, <1>6

LEMMA CallerUnmoved ==
  ASSUME NEW q \in Callers, CallerOK(q), SameCaller(q),
         pc[q] \in Outside \/ SameChannel(req[q].ch)
  PROVE  CallerOK(q)'
<1>1. CASE pc[q] \in Outside
  BY <1>1 DEF CallerOK, SameCaller, Outside, InFrame
<1>2. CASE SameChannel(req[q].ch)
  <2> DEFINE ch == req[q].ch
  <2>1. /\ SamePlace(q) /\ SameWires(ch) /\ txr'[ch] = txr[ch] /\ buf'[q] = buf[q]
        /\ req'[q] = req[q] /\ phase'[q] = phase[q] /\ left'[q] = left[q]
        /\ pc'[q] = pc[q] /\ ret'[q] = ret[q]
        /\ cmd'[ch] = cmd[ch] /\ en'[ch] = en[ch] /\ bus'[ch] = bus[ch] /\ rxr'[ch] = rxr[ch]
    BY <1>2 DEF SameCaller, SamePlace, SameChannel, SameWires
  <2>2. /\ Moved(q)' = Moved(q) /\ \A i : Held(q, i)' = Held(q, i)
        /\ Ready(q)' = Ready(q) /\ Done(q)' = Done(q) /\ Loaded(q)' = Loaded(q)
        /\ BytesOK(q)' = BytesOK(q) /\ Success(q)' = Success(q)
    BY <2>1, SameView
  <2>3. /\ Working(q)' = Working(q) /\ Idle(q)' = Idle(q) /\ Quiet(ch)' = Quiet(ch)
        /\ Ending(q)' = Ending(q) /\ Ended(q)' = Ended(q)
    BY <2>1, <2>2 DEF Working, Ending, Ended, LastByte, Closed, Idle, Quiet
  <2>4. ChannelOK(q)' = ChannelOK(q) /\ Enabled(q)' = Enabled(q)
    BY <2>1, <2>2, <2>3 DEF ChannelOK, Enabled
  <2>5. QED
    BY <2>1, <2>2, <2>4 DEF CallerOK
<1>3. QED
  BY <1>1, <1>2

(* A step of one caller, on the channel it owns.                            *)
LEMMA OneCallerMoves ==
  ASSUME IInv, TransferInv, NEW p \in Callers,
         \A q \in Callers \ {p} : SameCaller(q),
         \A ch \in Channels : Owns(p, ch) \/ SameChannel(ch),
         CallerOK(p)',
         \A ch \in Channels : IF Owns(p, ch) THEN FreeOK(ch)'
                              ELSE sem'[ch] \in {sem[ch], 0}
  PROVE  TransferInv'
<1>1. ASSUME NEW q \in Callers, q # p PROVE CallerOK(q)'
  <2>1. CallerOK(q) /\ SameCaller(q)
    BY <1>1 DEF TransferInv
  <2>2. CASE pc[q] \in Outside
    BY <2>1, <2>2, CallerUnmoved
  <2>3. CASE pc[q] \notin Outside
    <3>1. req[q].ch \in Channels
      BY RequestType DEF IInv, TypeOK
    <3>2. Owns(q, req[q].ch)
      BY <2>3 DEF Owns, Outside
    <3>3. ~Owns(p, req[q].ch)
      BY <1>1, <3>1, <3>2 DEF IInv, OneOwner
    <3>4. QED
      BY <2>1, <3>1, <3>3, CallerUnmoved
  <2>4. QED
    BY <2>2, <2>3
<1>2. ASSUME NEW ch \in Channels PROVE FreeOK(ch)'
  <2>1. CASE ~Owns(p, ch)
    BY <2>1 DEF TransferInv, FreeOK, Quiet, SameChannel, SameWires
  <2>2. QED
    BY <2>1
<1>3. QED
  BY <1>1, <1>2 DEF TransferInv

(* The same for a step that keeps the semaphore.                            *)
LEMMA OwnerMoves ==
  ASSUME IInv, TransferInv, NEW p \in Callers, pc[p] \notin Outside,
         \A q \in Callers \ {p} : SameCaller(q), sem' = sem,
         \A ch \in Channels \ {req[p].ch} : SameChannel(ch),
         CallerOK(p)'
  PROVE  TransferInv'
<1>1. ASSUME NEW ch \in Channels, Owns(p, ch) PROVE ch = req[p].ch /\ sem[ch] = 0
  BY <1>1 DEF IInv, OneOwner, Owns
<1>2. req[p].ch \in Channels /\ Owns(p, req[p].ch)
  BY RequestType DEF IInv, TypeOK, Owns, Outside
<1>3. \A ch \in Channels : Owns(p, ch) \/ SameChannel(ch)
  BY <1>2
<1>4. \A ch \in Channels : IF Owns(p, ch) THEN FreeOK(ch)' ELSE sem'[ch] \in {sem[ch], 0}
  BY <1>1 DEF FreeOK
<1>5. QED
  BY <1>3, <1>4, OneCallerMoves

(* A step of p inside a frame that touches no register: p goes from one     *)
(* place to another.                                                        *)
PollStep(p) == \/ TipDone(p) \/ TipTimeout(p) \/ NoAck(p) \/ FinishTimeout(p)
               \/ GiveUp(p) \/ NackStopped(p) \/ NackTimeout(p)

LEMMA PollKeeps ==
  ASSUME IInv, TransferInv, NEW p \in Callers, PollStep(p)
  PROVE  TransferInv'
<1> DEFINE ch == req[p].ch
<1>1. /\ pc[p] \notin Outside /\ sem' = sem
      /\ \A q \in Callers \ {p} : SameCaller(q)
      /\ \A c \in Channels : SameChannel(c)
      /\ SamePlace(p) /\ SameWires(ch) /\ txr'[ch] = txr[ch] /\ buf'[p] = buf[p]
      /\ cmd' = cmd /\ en' = en /\ bus' = bus /\ req' = req /\ phase' = phase
  BY DEF IInv, TypeOK, PollStep, TipDone, TipTimeout, NoAck, FinishTimeout, GiveUp,
         NackStopped, NackTimeout, Outside, SameCaller, SamePlace, SameChannel, SameWires,
         coreVars, wireVars
<1>2. /\ Ready(p)' = Ready(p) /\ Done(p)' = Done(p) /\ Loaded(p)' = Loaded(p)
      /\ BytesOK(p)' = BytesOK(p)
  BY <1>1, SameView
<1>3. Working(p)' = Working(p) /\ Idle(p)' = Idle(p) /\ Quiet(ch)' = Quiet(ch)
  BY <1>1, <1>2 DEF Working, Idle, Quiet
<1>4. ChannelOK(p) /\ Enabled(p) /\ (pc[p] \in InFrame => BytesOK(p))
  BY <1>1 DEF TransferInv, CallerOK
<1>5. ChannelOK(p)' /\ pc'[p] \notin Outside /\ pc'[p] # "enable" /\ pc[p] # "enable"
      /\ (pc'[p] \in InFrame => pc[p] \in InFrame)
      /\ ~(pc'[p] = "up" /\ ret'[p] = "OK")
  <2>1. CASE TipDone(p)
    BY <1>1, <1>2, <1>3, <1>4, <2>1
    DEF IInv, TypeOK, ChannelOK, TipDone, Working, Idle, Outside, InFrame, CommandOf
  <2>2. CASE TipTimeout(p)
    BY <1>1, <1>2, <1>3, <1>4, <2>2
    DEF IInv, TypeOK, ChannelOK, TipTimeout, Working, Idle, Outside, InFrame
  <2>3. CASE NoAck(p)
    BY <1>1, <1>2, <1>3, <1>4, <2>3
    DEF IInv, TypeOK, ChannelOK, NoAck, Idle, Outside, InFrame
  <2>4. CASE FinishTimeout(p)
    BY <1>1, <1>2, <1>3, <1>4, <2>4
    DEF IInv, TypeOK, ChannelOK, FinishTimeout, Ending, Ended, Closed, Busy, Outside, InFrame
  <2>5. CASE GiveUp(p)
    BY <1>1, <1>2, <1>3, <1>4, <2>5
    DEF IInv, TypeOK, ChannelOK, GiveUp, Outside, InFrame
  <2>6. CASE NackStopped(p)
    BY <1>1, <1>2, <1>3, <1>4, <2>6
    DEF IInv, TypeOK, ChannelOK, NackStopped, Busy, Outside, InFrame
  <2>7. CASE NackTimeout(p)
    BY <1>1, <1>2, <1>3, <1>4, <2>7
    DEF IInv, TypeOK, ChannelOK, NackTimeout, Busy, Quiet, Outside, InFrame
  <2>8. QED
    BY <2>1, <2>2, <2>3, <2>4, <2>5, <2>6, <2>7 DEF PollStep
<1>6. Enabled(p)'
  BY <1>1, <1>4, <1>5 DEF Enabled
<1>7. CallerOK(p)'
  BY <1>2, <1>4, <1>5, <1>6 DEF CallerOK, Outside
<1>8. QED
  BY <1>1, <1>7, OwnerMoves

(* Steps that write one register of the core.                               *)
LEMMA LoadKeeps == ASSUME IInv, TransferInv, NEW p \in Callers, Load(p) PROVE TransferInv'
<1> DEFINE ch == req[p].ch
<1>1. ch \in Channels
  BY RequestType DEF IInv, TypeOK
<1>2. /\ pc[p] = "load" /\ pc'[p] = "command" /\ sem' = sem
      /\ \A q \in Callers \ {p} : SameCaller(q)
      /\ \A c \in Channels \ {ch} : SameChannel(c)
      /\ SamePlace(p) /\ SameWires(ch) /\ buf'[p] = buf[p]
      /\ cmd' = cmd /\ en' = en /\ bus' = bus /\ req' = req /\ phase' = phase
      /\ txr'[ch] = TxrFor(req[p], phase[p], left[p]) /\ left' = left
  BY <1>1
  DEF IInv, TypeOK, Load, SameCaller, SamePlace, SameChannel, SameWires, coreVars, wireVars
<1>3. Ready(p)' = Ready(p) /\ BytesOK(p)' = BytesOK(p)
  BY <1>2, SameView
<1>4. Loaded(p)'
  BY <1>2 DEF Loaded
<1>5. ChannelOK(p) /\ Enabled(p) /\ BytesOK(p)
  BY <1>2 DEF TransferInv, CallerOK, Outside, InFrame
<1>6. ChannelOK(p)' /\ Enabled(p)'
  BY <1>2, <1>3, <1>4, <1>5 DEF ChannelOK, Enabled, Quiet, Idle
<1>7. CallerOK(p)'
  BY <1>2, <1>3, <1>5, <1>6 DEF CallerOK
<1>8. QED
  BY <1>2, <1>7, OwnerMoves DEF Outside

LEMMA ResetKeeps ==
  ASSUME IInv, TransferInv, NEW p \in Callers, Disable(p) \/ Enable(p)
  PROVE  TransferInv'
<1> DEFINE ch == req[p].ch
<1>1. ch \in Channels
  BY RequestType DEF IInv, TypeOK
<1>2. /\ pc[p] \notin Outside /\ sem' = sem /\ req' = req
      /\ \A q \in Callers \ {p} : SameCaller(q)
      /\ \A c \in Channels \ {ch} : SameChannel(c)
  BY <1>1
  DEF IInv, TypeOK, Disable, Enable, SameCaller, SamePlace, SameChannel, SameWires,
      Outside, coreVars, wireVars
<1>3. /\ \/ pc'[p] = "enable" /\ en'[ch] = FALSE /\ cmd'[ch] = "none"
         \/ pc[p] = "enable" /\ pc'[p] = "restop" /\ en'[ch] = TRUE /\ cmd' = cmd
  BY <1>1 DEF IInv, TypeOK, Disable, Enable
<1>4. pc[p] = "enable" => cmd[ch] = "none"
  BY <1>2 DEF TransferInv, CallerOK, ChannelOK, Idle
<1>5. ChannelOK(p)' /\ Enabled(p)'
  BY <1>2, <1>3, <1>4 DEF ChannelOK, Enabled, Idle
<1>6. CallerOK(p)'
  BY <1>3, <1>5 DEF CallerOK, InFrame
<1>7. QED
  BY <1>2, <1>6, OwnerMoves

(* The STOP of an error path.                                               *)
LEMMA StopKeeps ==
  ASSUME IInv, TransferInv, NEW p \in Callers, Restop(p) \/ NackStop(p)
  PROVE  TransferInv'
<1> DEFINE ch == req[p].ch
<1>1. ch \in Channels
  BY RequestType DEF IInv, TypeOK
<1>2. pc[p] \notin Outside /\ pc[p] # "enable" /\ cmd[ch] = "none" /\ en[ch]
  BY DEF TransferInv, CallerOK, ChannelOK, Enabled, Idle, Outside, Restop, NackStop
<1>3. cmd' = [cmd EXCEPT ![ch] = "STOP"] /\ bus' = bus
  BY <1>2 DEF Restop, NackStop, Issue
<1>4. /\ sem' = sem /\ req' = req /\ en' = en /\ cmd'[ch] = "STOP"
      /\ pc'[p] \in {"restop_busy", "nack_busy"}
      /\ \A q \in Callers \ {p} : SameCaller(q)
      /\ \A c \in Channels \ {ch} : SameChannel(c)
  BY <1>1, <1>3
  DEF IInv, TypeOK, Restop, NackStop, SameCaller, SamePlace, SameChannel, SameWires
<1>5. ChannelOK(p)' /\ Enabled(p)'
  BY <1>2, <1>4 DEF ChannelOK, Enabled, Quiet
<1>6. CallerOK(p)'
  BY <1>4, <1>5 DEF CallerOK, InFrame
<1>7. QED
  BY <1>2, <1>4, <1>6, OwnerMoves

(* The command of a phase: the START of the first one may be dropped when   *)
(* the STOP of an earlier caller is still pending.                          *)
LEMMA CommandKeeps ==
  ASSUME IInv, TransferInv, NEW p \in Callers, Command(p)
  PROVE  TransferInv'
<1> DEFINE ch == req[p].ch
           c  == CommandOf(req[p], phase[p])
<1>1. ch \in Channels
  BY RequestType DEF IInv, TypeOK
<1>2. /\ pc[p] = "command" /\ ChannelOK(p) /\ Enabled(p) /\ BytesOK(p)
  BY DEF TransferInv, CallerOK, Outside, InFrame, Command
<1>3. Ready(p) /\ Loaded(p) /\ en[ch]
      /\ IF phase[p] = "addr_w" THEN Quiet(ch) ELSE cmd[ch] = "none"
  BY <1>2 DEF ChannelOK, Enabled, Idle
<1>4. c \in Commands \ {"none"}
  BY DEF CommandOf, Commands
<1>5. /\ sem' = sem /\ req' = req /\ en' = en /\ phase' = phase /\ mem' = mem
      /\ rxr' = rxr /\ nak' = nak /\ txr' = txr /\ left' = left
      /\ pc'[p] = IF phase[p] = "last" THEN "last" ELSE "tip"
      /\ \A q \in Callers \ {p} : SameCaller(q)
      /\ SamePlace(p) /\ buf'[p] = buf[p]
  BY DEF IInv, TypeOK, Command, SameCaller, SamePlace
<1>6. Issue(ch, c)
  BY DEF Command
<1>7. CASE cmd' = [cmd EXCEPT ![ch] = c] /\ bus' = bus
  <2>1. \A d \in Channels \ {ch} : SameChannel(d)
    BY <1>5, <1>7 DEF IInv, TypeOK, SameChannel, SameWires
  <2>2. SameWires(ch) /\ txr'[ch] = txr[ch] /\ cmd'[ch] = c
    BY <1>1, <1>5, <1>7 DEF IInv, TypeOK, SameWires
  <2>3. Ready(p)' = Ready(p) /\ Loaded(p)' = Loaded(p) /\ BytesOK(p)' = BytesOK(p)
    BY <1>5, <2>2, SameView
  <2>4. Working(p)'
    BY <1>3, <1>5, <2>2, <2>3 DEF Working
  <2>5. ChannelOK(p)' /\ Enabled(p)'
    BY <1>3, <1>5, <2>4 DEF ChannelOK, Enabled
  <2>6. CallerOK(p)'
    BY <1>2, <1>5, <2>3, <2>5 DEF CallerOK
  <2>7. QED
    BY <1>2, <1>5, <2>1, <2>6, OwnerMoves DEF Outside
<1>8. CASE /\ cmd[ch] # "none" /\ cmd' = [cmd EXCEPT ![ch] = "none"]
           /\ bus' = [bus EXCEPT ![ch].mode = "closed"]
  <2>1. phase[p] = "addr_w"
    BY <1>3, <1>8
  <2>2. \A d \in Channels \ {ch} : SameChannel(d)
    BY <1>5, <1>8 DEF IInv, TypeOK, SameChannel, SameWires
  <2>3. cmd'[ch] = "none" /\ bus'[ch].mode = "closed"
    BY <1>1, <1>8 DEF IInv, TypeOK, BusState
  <2>4. Done(p)'
    BY <1>5, <2>1, <2>3 DEF Done
  <2>5. ChannelOK(p)' /\ Enabled(p)'
    BY <1>3, <1>5, <2>1, <2>3, <2>4 DEF ChannelOK, Enabled, Idle
  <2>6. BytesOK(p)'
    BY <1>2, <1>5, <2>1 DEF BytesOK
  <2>7. CallerOK(p)'
    BY <1>5, <2>5, <2>6, <2>1 DEF CallerOK
  <2>8. QED
    BY <1>2, <1>5, <2>2, <2>7, OwnerMoves DEF Outside
<1>9. QED
  BY <1>6, <1>7, <1>8 DEF Issue

(* An acknowledged byte: the caller goes on to the next part of the frame.  *)
LEMMA AckKeeps ==
  ASSUME IInv, TransferInv, NEW p \in Callers, AckSeen(p)
  PROVE  TransferInv'
<1> DEFINE ch == req[p].ch
           r  == req[p]
           n  == LeftAfterAck(p)
           ph == PhaseAfter(r, phase[p], n)
<1>1. ch \in Channels /\ r.op \in {"read", "write"} /\ r.len \in Nat
  BY RequestType DEF IInv, TypeOK
<1>2. /\ pc[p] = "ack" /\ ~nak[ch] /\ Idle(p) /\ Done(p) /\ Enabled(p) /\ BytesOK(p)
      /\ phase[p] \in {"addr_w", "offset", "addr_r", "byte"}
  BY DEF TransferInv, CallerOK, ChannelOK, Outside, InFrame, AckSeen, IInv, TypeOK, Phases
<1>3. /\ sem' = sem /\ req' = req /\ en' = en /\ cmd' = cmd /\ bus' = bus
      /\ \A q \in Callers \ {p} : SameCaller(q)
      /\ \A c \in Channels : SameChannel(c)
      /\ SameWires(ch) /\ buf'[p] = buf[p] /\ left'[p] = n
  BY <1>1
  DEF IInv, TypeOK, AckSeen, Enter, SameCaller, SamePlace, SameChannel, SameWires,
      coreVars, wireVars
<1>4. \A i : /\ Held(p, i)' = Held(p, i)
             /\ \A m : Aims(p, m, i)' = Aims(p, m, i)
  BY <1>3, SameBytes
<1>5. phase[p] = "byte" => left[p] \in (LastByteOf(r.op) + 1)..r.len
  BY DEF IInv, LoopInv
<1>6. CASE phase[p] = "byte" /\ r.op = "read"
  <2>1. /\ phase'[p] = phase[p] /\ pc'[p] = "fetch" /\ left'[p] = left[p]
    BY <1>3, <1>6 DEF AckSeen, LeftAfterAck, IInv, TypeOK
  <2>2. SamePlace(p) /\ SameWires(ch)
    BY <1>3, <2>1 DEF SamePlace
  <2>3. Done(p)' = Done(p) /\ BytesOK(p)' = BytesOK(p)
    BY <1>3, <2>2, SameView
  <2>4. ChannelOK(p)' /\ Enabled(p)'
    BY <1>2, <1>3, <1>6, <2>1, <2>3 DEF ChannelOK, Enabled, Idle
  <2>5. CallerOK(p)'
    BY <1>2, <2>1, <2>3, <2>4 DEF CallerOK
  <2>6. QED
    BY <1>2, <1>3, <2>5, OwnerMoves DEF Outside
<1>7. CASE ~(phase[p] = "byte" /\ r.op = "read")
  <2>1. phase'[p] = ph /\ pc'[p] = StartOf(r, ph)
    BY <1>7 DEF AckSeen, Enter, IInv, TypeOK
  <2>2. phase[p] # "byte" => n = r.len
    BY DEF LeftAfterAck
  <2> DEFINE Goal == Ready(p)' /\ BytesOK(p)' /\ ph # "addr_w"
  <2>3. ASSUME phase[p] = "addr_w" PROVE Goal
    <3>1. ph = "offset" /\ StartOf(r, ph) = "load"
      BY <2>3 DEF PhaseAfter, StartOf
    <3>2. Ready(p)'
      BY <1>2, <1>3, <2>1, <2>3, <3>1 DEF Done, Ready
    <3>3. BytesOK(p)'
      BY <1>2, <1>3, <2>1, <2>3, <3>1 DEF BytesOK
    <3>4. QED
      BY <3>1, <3>2, <3>3, <2>1
  <2>4. ASSUME phase[p] = "offset" /\ r.op = "read" PROVE Goal
    <3>1. ph = "addr_r" /\ StartOf(r, ph) = "load"
      BY <2>4 DEF PhaseAfter, StartOf
    <3>2. Ready(p)'
      BY <1>2, <1>4, <2>1, <2>4, <3>1 DEF Done, Ready
    <3>3. BytesOK(p)'
      BY <1>2, <1>3, <2>1, <2>4, <3>1 DEF BytesOK
    <3>4. QED
      BY <3>1, <3>2, <3>3, <2>1
  <2>5. ASSUME (phase[p] = "offset" /\ r.op = "write") \/ phase[p] = "addr_r" PROVE Goal
    <3>1. ph = DataPhase(r, r.len) /\ n = r.len
      BY <2>2, <2>5 DEF PhaseAfter
    <3>2. ph \in {"byte", "last"} /\ (ph = "last" => n <= LastByteOf(r.op))
      BY <1>1, <3>1 DEF DataPhase, LastByteOf
    <3>3. Aims(p, r.op, 0)
      BY <1>1, <1>2, <2>5 DEF Done, BytesOK
    <3>4. Moved(p)' = 0
      BY <1>1, <1>3, <3>1 DEF Moved
    <3>5. Ready(p)'
      BY <1>3, <1>4, <2>1, <3>2, <3>3, <3>4 DEF Ready
    <3>6. BytesOK(p)'
      BY <1>1, <1>2, <1>3, <2>1, <2>5, <3>1, <3>2, <3>4 DEF BytesOK
    <3>7. QED
      BY <3>2, <3>5, <3>6, <2>1
  <2>6. ASSUME phase[p] = "byte" /\ r.op = "write" PROVE Goal
    <3>1. ph = DataPhase(r, n) /\ n = left[p] - 1 /\ left[p] \in 1..r.len
      BY <1>1, <1>5, <2>6 DEF PhaseAfter, LeftAfterAck, LastByteOf
    <3>2. ph \in {"byte", "last"} /\ (ph = "last" => n <= LastByteOf(r.op))
      BY <1>1, <3>1 DEF DataPhase, LastByteOf
    <3>3. /\ Aims(p, "write", Moved(p) + 1)
          /\ r.data[Moved(p) + 1] = Held(p, Moved(p))
      BY <1>2, <2>6 DEF Done
    <3>4. Moved(p)' = Moved(p) + 1 /\ Moved(p) \in Nat
      BY <1>1, <1>3, <3>1 DEF Moved
    <3>5. Ready(p)'
      BY <1>3, <1>4, <2>1, <2>6, <3>2, <3>3, <3>4 DEF Ready
    <3>6. \A i \in 0..(Moved(p) - 1) : r.data[i + 1] = Held(p, i)
      BY <1>2, <2>6 DEF BytesOK
    <3>7. \A i \in 0..Moved(p) : r.data[i + 1] = Held(p, i)
      BY <3>3, <3>4, <3>6
    <3>8. BytesOK(p)'
      BY <1>1, <1>2, <1>3, <1>4, <2>1, <2>6, <3>1, <3>2, <3>4, <3>7 DEF BytesOK
    <3>9. QED
      BY <3>2, <3>5, <3>8, <2>1
  <2>7. Ready(p)' /\ BytesOK(p)' /\ phase'[p] # "addr_w"
    BY <1>1, <1>2, <1>7, <2>1, <2>3, <2>4, <2>5, <2>6
  <2>8. pc'[p] \in {"load", "command"} /\ (pc'[p] = "command" => Loaded(p)')
    BY <1>3, <2>1 DEF StartOf, Loaded
  <2>9. ChannelOK(p)' /\ Enabled(p)'
    BY <1>2, <1>3, <2>7, <2>8 DEF ChannelOK, Enabled, Idle
  <2>10. CallerOK(p)'
    BY <2>7, <2>8, <2>9 DEF CallerOK
  <2>11. QED
    BY <1>2, <1>3, <2>10, OwnerMoves DEF Outside
<1>8. QED
  BY <1>6, <1>7

(* A byte of the read loop is taken over.                                   *)
LEMMA FetchKeeps ==
  ASSUME IInv, TransferInv, NEW p \in Callers, Fetch(p)
  PROVE  TransferInv'
<1> DEFINE ch == req[p].ch
           r  == req[p]
           ph == DataPhase(r, left[p] - 1)
<1>1. /\ ch \in Channels /\ r.op = "read" /\ r.len \in Nat /\ phase[p] = "byte"
      /\ left[p] \in 2..r.len
  BY RequestType DEF IInv, TypeOK, LoopInv, Fetch, LastByteOf
<1>2. /\ pc[p] = "fetch" /\ Idle(p) /\ Done(p) /\ Enabled(p) /\ BytesOK(p)
  BY DEF TransferInv, CallerOK, ChannelOK, Outside, InFrame, Fetch
<1>3. /\ sem' = sem /\ req' = req /\ en' = en /\ cmd' = cmd
      /\ \A q \in Callers \ {p} : SameCaller(q)
      /\ \A c \in Channels : SameChannel(c)
      /\ SameWires(ch) /\ left'[p] = left[p] - 1
      /\ buf'[p] = Append(buf[p], rxr[ch])
      /\ phase'[p] = ph /\ pc'[p] = StartOf(r, ph)
  BY <1>1
  DEF IInv, TypeOK, Fetch, Enter, SameCaller, SamePlace, SameChannel, SameWires,
      coreVars, wireVars
<1>4. \A i : /\ Held(p, i)' = Held(p, i)
             /\ \A m : Aims(p, m, i)' = Aims(p, m, i)
  BY <1>3, SameBytes
<1>5. ph \in {"byte", "last"} /\ StartOf(r, ph) = "command"
      /\ (ph = "last" => left[p] - 1 <= LastByteOf(r.op))
  BY <1>1 DEF DataPhase, StartOf, LastByteOf
<1>6. Moved(p)' = Moved(p) + 1 /\ Moved(p) \in Nat /\ Moved(p) + 1 = r.len - (left[p] - 1)
  BY <1>1, <1>3 DEF Moved
<1>7. Aims(p, "read", Moved(p) + 1) /\ rxr[ch] = Held(p, Moved(p))
  BY <1>1, <1>2 DEF Done
<1>8. Ready(p)'
  BY <1>1, <1>3, <1>4, <1>5, <1>6, <1>7 DEF Ready
<1>9. BytesOK(p)'
  <2>1. buf[p] \in Seq(Byte) /\ rxr[ch] \in Byte /\ Len(buf[p]) = Moved(p)
    BY <1>1, <1>2 DEF IInv, TypeOK, BytesOK
  <2>2. Len(buf'[p]) = Moved(p) + 1
    BY <1>3, <1>6, <2>1
  <2>3. \A i \in 0..(Moved(p) - 1) : buf'[p][i + 1] = buf[p][i + 1]
    BY <1>3, <1>6, <2>1
  <2>4. buf'[p][Moved(p) + 1] = rxr[ch]
    BY <1>3, <1>6, <2>1
  <2>5. \A i \in 0..(Moved(p) - 1) : buf[p][i + 1] = Held(p, i)
    BY <1>1, <1>2 DEF BytesOK
  <2>6. \A i \in 0..Moved(p) : buf'[p][i + 1] = Held(p, i)
    <3> SUFFICES ASSUME NEW i \in 0..Moved(p) PROVE buf'[p][i + 1] = Held(p, i)
      OBVIOUS
    <3>1. CASE i = Moved(p)
      BY <3>1, <2>4, <1>7
    <3>2. CASE i \in 0..(Moved(p) - 1)
      BY <3>2, <2>3, <2>5
    <3>3. QED
      BY <3>1, <3>2, <1>6
  <2>7. \A i \in 0..(Moved(p)' - 1) : buf'[p][i + 1] = Held(p, i)'
    BY <1>4, <1>6, <2>6
  <2>8. left'[p] <= r.len
    BY <1>1, <1>3
  <2>9. QED
    BY <1>1, <1>3, <1>5, <1>6, <2>2, <2>7, <2>8 DEF BytesOK
<1>10. Loaded(p)'
  BY <1>3, <1>5 DEF Loaded
<1>11. ChannelOK(p)' /\ Enabled(p)'
  BY <1>2, <1>3, <1>5, <1>8, <1>10 DEF ChannelOK, Enabled, Idle
<1>12. CallerOK(p)'
  BY <1>3, <1>5, <1>9, <1>11 DEF CallerOK
<1>13. QED
  BY <1>2, <1>3, <1>12, OwnerMoves DEF Outside

(* check_busy sees the end of the frame: every byte was moved.              *)
LEMMA FinishKeeps ==
  ASSUME IInv, TransferInv, NEW p \in Callers, Finish(p)
  PROVE  TransferInv'
<1> DEFINE ch == req[p].ch
           r  == req[p]
<1>1. /\ ch \in Channels /\ r.op \in {"read", "write"} /\ r.len \in Nat
      /\ (r.op = "write" => Len(r.data) = r.len) /\ r.data \in Seq(Byte)
      /\ left[p] \in Nat /\ buf[p] \in Seq(Byte) /\ rxr[ch] \in Byte
  BY RequestType DEF IInv, TypeOK
<1>2. pc[p] = "last" /\ ChannelOK(p) /\ Enabled(p) /\ BytesOK(p) /\ bus[ch].mode = "closed"
  BY DEF TransferInv, CallerOK, Outside, InFrame, Finish, Busy
<1>3. phase[p] = "last" /\ Ended(p)
  <2>1. phase[p] = "last" /\ (Working(p) \/ Ending(p) \/ Ended(p))
    BY <1>2 DEF ChannelOK
  <2>2. ~Ready(p)
    BY <1>1, <1>2, <2>1 DEF Ready, Aims
  <2>3. QED
    BY <1>2, <2>1, <2>2 DEF Working, Ending
<1>4. /\ sem' = sem /\ req' = req /\ en' = en /\ cmd' = cmd /\ bus' = bus
      /\ \A q \in Callers \ {p} : SameCaller(q)
      /\ \A c \in Channels : SameChannel(c)
      /\ SameWires(ch) /\ pc'[p] = "up" /\ ret'[p] = "OK"
      /\ buf'[p] = IF r.op = "read" /\ left[p] > 0 THEN Append(buf[p], rxr[ch]) ELSE buf[p]
  BY <1>1
  DEF IInv, TypeOK, Finish, SameCaller, SamePlace, SameChannel, SameWires,
      coreVars, wireVars
<1>5. \A i : Held(p, i)' = Held(p, i)
  BY <1>4, SameBytes
<1>6. left[p] <= LastByteOf(r.op) /\ Moved(p) = r.len - left[p] /\ left[p] <= r.len
  BY <1>2, <1>3 DEF BytesOK, Moved
<1>7. ASSUME r.op = "read"
      PROVE  /\ buf'[p] \in Seq(Byte) /\ Len(buf'[p]) = r.len
             /\ \A i \in 0..(r.len - 1) : buf'[p][i + 1] = Held(p, i)
  <2>1. Len(buf[p]) = Moved(p) /\ \A i \in 0..(Moved(p) - 1) : buf[p][i + 1] = Held(p, i)
    BY <1>2, <1>3, <1>7 DEF BytesOK
  <2>2. CASE left[p] = 0
    BY <1>1, <1>4, <1>6, <2>1, <2>2
  <2>3. CASE left[p] = 1
    <3>1. /\ buf'[p] = Append(buf[p], rxr[ch]) /\ Moved(p) = r.len - 1 /\ r.len - 1 \in Nat
          /\ rxr[ch] = Held(p, Moved(p))
      BY <1>1, <1>3, <1>4, <1>6, <1>7, <2>3 DEF Ended, LastByte
    <3>2. buf'[p] \in Seq(Byte) /\ Len(buf'[p]) = r.len /\ buf'[p][r.len] = rxr[ch]
          /\ \A i \in 0..(Moved(p) - 1) : buf'[p][i + 1] = buf[p][i + 1]
      BY <1>1, <2>1, <3>1
    <3>3. ASSUME NEW i \in 0..(r.len - 1) PROVE buf'[p][i + 1] = Held(p, i)
      <4>1. CASE i = Moved(p)
        BY <4>1, <3>1, <3>2, <1>1
      <4>2. CASE i \in 0..(Moved(p) - 1)
        BY <4>2, <2>1, <3>2
      <4>3. i = Moved(p) \/ i \in 0..(Moved(p) - 1)
        BY <3>1
      <4>4. QED
        BY <4>1, <4>2, <4>3
    <3>4. QED
      BY <3>2, <3>3
  <2>4. left[p] \in {0, 1}
    BY <1>1, <1>6, <1>7 DEF LastByteOf
  <2>5. QED
    BY <2>2, <2>3, <2>4
<1>8. ASSUME r.op = "write"
      PROVE  \A i \in 0..(r.len - 1) : r.data[i + 1] = Held(p, i)
  <2>1. left[p] = 0
    BY <1>1, <1>6, <1>8 DEF LastByteOf
  <2>2. QED
    BY <1>1, <1>2, <1>3, <1>6, <1>8, <2>1 DEF BytesOK
<1>9. Success(p)'
  <2> DEFINE cell(i) == mem'[ch][r.addr][(r.off + i - 1) % ByteSize]
  <2>1. ASSUME NEW i \in 1..r.len PROVE cell(i) = Held(p, i - 1)
    <3>1. r.off + i - 1 = r.off + (i - 1)
      BY RequestType, <1>1 DEF IInv, TypeOK, Byte
    <3>2. QED
      BY <1>4, <3>1 DEF Held, Cell, SameWires
  <2>2. ASSUME r.op = "read" PROVE buf'[p] = [i \in 1..r.len |-> cell(i)]
    <3>1. \A i \in 1..r.len : buf'[p][i] = cell(i)
      <4> SUFFICES ASSUME NEW i \in 1..r.len PROVE buf'[p][i] = cell(i)
        OBVIOUS
      <4>1. i - 1 \in 0..(r.len - 1) /\ (i - 1) + 1 = i
        BY <1>1
      <4>2. buf'[p][(i - 1) + 1] = Held(p, i - 1)
        BY <1>7, <2>2, <4>1
      <4>3. QED
        BY <2>1, <4>1, <4>2
    <3> DEFINE f == [i \in 1..r.len |-> cell(i)]
               b == buf'[p]
    <3>2. b \in Seq(Byte) /\ Len(b) = r.len
      BY <1>7, <2>2
    <3>3. f = [i \in 1..Len(b) |-> f[i]] /\ \A i \in 1..Len(b) : b[i] = f[i]
      BY <3>1, <3>2, Zenon
    <3> HIDE DEF f, b
    <3>4. b = [i \in 1..Len(b) |-> b[i]]
      BY <3>2
    <3>5. b = f
      BY <3>3, <3>4, Zenon
    <3>6. QED
      BY <3>5 DEF f, b
  <2>3. ASSUME r.op = "write" PROVE r.data = [i \in 1..r.len |-> cell(i)]
    <3>1. \A i \in 1..r.len : r.data[i] = cell(i)
      <4> SUFFICES ASSUME NEW i \in 1..r.len PROVE r.data[i] = cell(i)
        OBVIOUS
      <4>1. i - 1 \in 0..(r.len - 1) /\ (i - 1) + 1 = i
        BY <1>1
      <4>2. r.data[(i - 1) + 1] = Held(p, i - 1)
        BY <1>8, <2>3, <4>1
      <4>3. QED
        BY <2>1, <4>1, <4>2
    <3> DEFINE f == [i \in 1..r.len |-> cell(i)]
               d == r.data
    <3>2. d \in Seq(Byte) /\ Len(d) = r.len
      BY <1>1, <2>3
    <3>3. f = [i \in 1..Len(d) |-> f[i]] /\ \A i \in 1..Len(d) : d[i] = f[i]
      BY <3>1, <3>2, Zenon
    <3> HIDE DEF f, d
    <3>4. d = [i \in 1..Len(d) |-> d[i]]
      BY <3>2
    <3>5. d = f
      BY <3>3, <3>4, Zenon
    <3>6. QED
      BY <3>5 DEF f, d
  <2>4. QED
    BY <1>1, <1>4, <2>2, <2>3 DEF Success
<1>10. ChannelOK(p)' /\ Enabled(p)'
  BY <1>2, <1>3, <1>4 DEF ChannelOK, Enabled, Quiet, Idle, Ended, Closed
<1>11. CallerOK(p)'
  BY <1>4, <1>9, <1>10 DEF CallerOK, InFrame
<1>12. QED
  BY <1>2, <1>4, <1>11, OwnerMoves DEF Outside

(* Steps outside the semaphore.                                             *)
LEMMA OutsideKeeps ==
  ASSUME IInv, TransferInv, NEW p \in Callers,
         Call(p) \/ Refuse(p) \/ Interrupted(p) \/ Return(p)
  PROVE  TransferInv'
<1>1. /\ pc[p] \in Outside /\ pc'[p] \in Outside /\ sem' = sem
      /\ \A q \in Callers \ {p} : SameCaller(q)
      /\ \A c \in Channels : SameChannel(c)
      /\ pc'[p] \in {"idle", "down"} => (pc[p] = "idle" /\ buf'[p] = buf[p]) \/ buf'[p] = <<>>
  BY DEF IInv, TypeOK, Call, Refuse, Interrupted, Return, Answer, SameCaller, SamePlace,
         SameChannel, SameWires, coreVars, wireVars, Outside
<1>2. CallerOK(p)'
  BY <1>1 DEF TransferInv, CallerOK, Outside, InFrame
<1>3. QED
  BY <1>1, <1>2, OneCallerMoves DEF Owns, Outside

(* The semaphore is taken: the channel is as its last owner left it.        *)
LEMMA DownKeeps == ASSUME IInv, TransferInv, NEW p \in Callers, Down(p) PROVE TransferInv'
<1> DEFINE ch == req[p].ch
<1>1. ch \in Channels
  BY RequestType DEF IInv, TypeOK
<1>2. /\ pc[p] = "down" /\ pc'[p] \in {"load", "dead"} /\ sem[ch] = 1
      /\ sem' = [sem EXCEPT ![ch] = sem[ch] - 1]
      /\ \A q \in Callers \ {p} : SameCaller(q)
      /\ \A c \in Channels : SameChannel(c)
      /\ SamePlace(p) /\ buf'[p] = buf[p] /\ req' = req
  BY <1>1
  DEF IInv, TypeOK, Down, SameCaller, SamePlace, SameChannel, SameWires, coreVars, wireVars
<1>3. \A d \in Channels : sem'[d] \in {sem[d], 0}
  BY <1>1, <1>2 DEF IInv, TypeOK
<1>4. phase[p] = "addr_w" /\ Len(buf[p]) = 0 /\ en[ch] = TRUE /\ Quiet(ch)
  BY <1>1, <1>2 DEF TransferInv, CallerOK, FreeOK, IInv, LoopInv, TypeOK
<1>5. phase'[p] = "addr_w" /\ Len(buf'[p]) = 0 /\ en'[ch] = TRUE /\ Quiet(ch)'
  BY <1>1, <1>2, <1>4 DEF SamePlace, SameChannel, SameWires, Quiet
<1>6. ChannelOK(p)' /\ Enabled(p)' /\ BytesOK(p)'
  BY <1>2, <1>5 DEF ChannelOK, Enabled, BytesOK, Ready
<1>7. CallerOK(p)'
  BY <1>2, <1>6 DEF CallerOK
<1>8. QED
  BY <1>2, <1>3, <1>7, OneCallerMoves DEF Owns

(* The semaphore is given back: the channel is quiet.                       *)
LEMMA UpKeeps == ASSUME IInv, TransferInv, NEW p \in Callers, Up(p) PROVE TransferInv'
<1> DEFINE ch == req[p].ch
<1>1. ch \in Channels /\ Owns(p, ch)
  BY RequestType DEF IInv, TypeOK, Owns, Up
<1>2. /\ pc[p] = "up" /\ pc'[p] = "return" /\ sem' = [sem EXCEPT ![ch] = sem[ch] + 1]
      /\ \A q \in Callers \ {p} : SameCaller(q)
      /\ \A c \in Channels : SameChannel(c)
  BY <1>1
  DEF IInv, TypeOK, Up, Answer, SameCaller, SamePlace, SameChannel, SameWires,
      coreVars, wireVars
<1>3. en[ch] /\ Quiet(ch)
  BY <1>2 DEF TransferInv, CallerOK, ChannelOK, Enabled, Outside
<1>4. ASSUME NEW d \in Channels, d = ch PROVE FreeOK(d)'
  BY <1>2, <1>3, <1>4 DEF FreeOK, Quiet, SameChannel, SameWires
<1>5. \A d \in Channels : d # ch => ~Owns(p, d) /\ sem'[d] = sem[d]
  BY <1>1, <1>2 DEF Owns, IInv, TypeOK
<1>6. CallerOK(p)'
  BY <1>2 DEF CallerOK, Outside, InFrame
<1>7. \A d \in Channels : IF Owns(p, d) THEN FreeOK(d)' ELSE sem'[d] \in {sem[d], 0}
  BY <1>1, <1>4, <1>5
<1>8. QED
  BY <1>2, <1>6, <1>7, OneCallerMoves

LEMMA InitTransfer == Init => TransferInv
<1> SUFFICES ASSUME Init PROVE TransferInv
  OBVIOUS
<1>1. ASSUME NEW p \in Callers PROVE CallerOK(p)
  BY DEF Init, CallerOK, Outside, InFrame
<1>2. ASSUME NEW ch \in Channels PROVE FreeOK(ch)
  BY DEF Init, FreeOK, Quiet
<1>3. QED
  BY <1>1, <1>2 DEF TransferInv

-----------------------------------------------------------------------------
(* The wires after the core changed two of their fields.                    *)
LEMMA BusStarted ==
  ASSUME TypeOK, NEW ch \in Channels, NEW a \in Slaves, NEW m \in Modes,
         bus' = [bus EXCEPT ![ch].addr = a, ![ch].mode = m]
  PROVE  bus'[ch].addr = a /\ bus'[ch].mode = m /\ bus'[ch].ptr = bus[ch].ptr
<1>1. bus \in [Channels -> BusState] /\ bus[ch] \in BusState
  BY DEF TypeOK
<1>2. bus'[ch] = [bus[ch] EXCEPT !.addr = a, !.mode = m]
  BY <1>1
<1>3. QED
  BY <1>1, <1>2 DEF BusState

LEMMA BusAimed ==
  ASSUME TypeOK, NEW ch \in Channels, NEW t \in Byte, NEW m \in Modes,
         bus' = [bus EXCEPT ![ch].ptr = t, ![ch].mode = m]
  PROVE  bus'[ch].addr = bus[ch].addr /\ bus'[ch].mode = m /\ bus'[ch].ptr = t
<1>1. bus \in [Channels -> BusState] /\ bus[ch] \in BusState
  BY DEF TypeOK
<1>2. bus'[ch] = [bus[ch] EXCEPT !.ptr = t, !.mode = m]
  BY <1>1
<1>3. QED
  BY <1>1, <1>2 DEF BusState

(* The core finishes the command of p's phase.                              *)
LEMMA StartDone ==
  ASSUME IInv, NEW p \in Callers, Working(p), phase[p] \in {"addr_w", "addr_r"},
         CoreStart(req[p].ch), UNCHANGED <<req, phase, left>>
  PROVE  Done(p)' /\ mem' = mem
<1> DEFINE ch == req[p].ch
<1>1. ch \in Channels /\ bus[ch] \in BusState /\ bus \in [Channels -> BusState]
      /\ nak \in [Channels -> BOOLEAN]
  BY RequestType DEF IInv, TypeOK
<1>2. txr[ch] = [kind |-> IF phase[p] = "addr_w" THEN "w" ELSE "r", val |-> req[p].addr]
  BY DEF Working, Loaded, StartOf, TxrFor
<1>3. phase[p] = "addr_r" => bus[ch].ptr = Cell(req[p], 0)
  BY DEF Working, Ready, Aims
<1>4. \/ nak'[ch]
      \/ /\ bus'[ch].mode = (IF phase[p] = "addr_r" THEN "read" ELSE "offset")
         /\ bus'[ch].addr = req[p].addr
         /\ bus'[ch].ptr = bus[ch].ptr
  <2>1. CASE nak'[ch] = TRUE
    BY <2>1
  <2>2. CASE /\ txr[ch].val \in Slaves
             /\ bus' = [bus EXCEPT ![ch].addr = txr[ch].val,
                          ![ch].mode = IF txr[ch].kind = "r" THEN "read" ELSE "offset"]
    <3> DEFINE m == IF txr[ch].kind = "r" THEN "read" ELSE "offset"
               a == txr[ch].val
    <3>1. TypeOK /\ m \in Modes /\ a \in Slaves
      BY <2>2 DEF IInv, Modes
    <3>2. bus' = [bus EXCEPT ![ch].addr = a, ![ch].mode = m]
      BY <2>2
    <3> HIDE DEF a, m
    <3>3. /\ bus'[ch].addr = a /\ bus'[ch].mode = m
          /\ bus'[ch].ptr = bus[ch].ptr
      BY <1>1, <3>1, <3>2, BusStarted
    <3>4. QED
      BY <1>2, <3>3 DEF a, m
  <2>3. \/ nak' = [nak EXCEPT ![ch] = TRUE]
        \/ /\ txr[ch].val \in Slaves
           /\ bus' = [bus EXCEPT ![ch].addr = txr[ch].val,
                        ![ch].mode = IF txr[ch].kind = "r" THEN "read" ELSE "offset"]
    BY DEF CoreStart
  <2>4. QED
    BY <1>1, <2>1, <2>2, <2>3
<1>5. Done(p)'
  BY <1>3, <1>4 DEF Done, Aims, Cell
<1>6. QED
  BY <1>5 DEF CoreStart

LEMMA OffsetDone ==
  ASSUME IInv, NEW p \in Callers, Working(p), phase[p] = "offset",
         CoreWrite(req[p].ch), UNCHANGED <<req, phase, left>>
  PROVE  Done(p)' /\ mem' = mem
<1> DEFINE ch == req[p].ch
<1>1. ch \in Channels /\ bus[ch] \in BusState /\ bus \in [Channels -> BusState]
      /\ nak \in [Channels -> BOOLEAN]
  BY RequestType DEF IInv, TypeOK
<1>2. txr[ch] = [kind |-> "b", val |-> req[p].off]
  BY DEF Working, Loaded, StartOf, TxrFor
<1>3. bus[ch].mode = "closed" \/ (bus[ch].mode = "offset" /\ bus[ch].addr = req[p].addr)
  BY DEF Working, Ready
<1>4. /\ mem' = mem
      /\ \/ nak'[ch]
         \/ /\ bus'[ch].mode = "write" /\ bus'[ch].addr = req[p].addr
            /\ bus'[ch].ptr = req[p].off
  <2>1. CASE nak'[ch] = TRUE /\ mem' = mem
    BY <2>1
  <2>2. CASE /\ bus[ch].mode = "offset" /\ mem' = mem
             /\ bus' = [bus EXCEPT ![ch].ptr = req[p].off, ![ch].mode = "write"]
    <3>1. req[p].off \in Byte /\ "write" \in Modes /\ bus[ch].addr \in Slaves
      BY <1>1, RequestType DEF IInv, TypeOK, Modes, BusState
    <3>2. /\ bus'[ch].addr = bus[ch].addr /\ bus'[ch].mode = "write"
          /\ bus'[ch].ptr = req[p].off
      BY <1>1, <2>2, <3>1, BusAimed DEF IInv
    <3>3. QED
      BY <1>3, <2>2, <3>2
  <2>3. \/ nak' = [nak EXCEPT ![ch] = TRUE] /\ mem' = mem
        \/ /\ bus[ch].mode = "offset" /\ mem' = mem
           /\ bus' = [bus EXCEPT ![ch].ptr = txr[ch].val, ![ch].mode = "write"]
    BY <1>3 DEF CoreWrite
  <2>4. QED
    BY <1>1, <1>2, <2>1, <2>2, <2>3
<1>5. Cell(req[p], 0) = req[p].off
  <2>1. req[p] \in Requests /\ req[p].len \in Nat
    BY RequestType DEF IInv, TypeOK
  <2>2. 0 \in 0..req[p].len
    BY <2>1
  <2>3. QED
    BY <2>1, <2>2, CellFacts
<1>6. Done(p)'
  BY <1>4, <1>5 DEF Done, Aims, Cell
<1>7. QED
  BY <1>4, <1>6

(* One byte of a write: the slave takes it, and none of the earlier ones    *)
(* changes.                                                                 *)
LEMMA ByteWritten ==
  ASSUME IInv, NEW p \in Callers, Working(p), phase[p] = "byte", req[p].op = "write",
         CoreWrite(req[p].ch), UNCHANGED <<req, phase, left>>
  PROVE  /\ Done(p)'
         /\ \A i \in 0..(Moved(p) - 1) : Held(p, i)' = Held(p, i)
         /\ \/ mem' = mem
            \/ mem' = [mem EXCEPT ![req[p].ch][req[p].addr][Cell(req[p], Moved(p))]
                                    = req[p].data[Moved(p) + 1]]
<1> DEFINE ch == req[p].ch
           r  == req[p]
           n  == Moved(p)
<1>1. ch \in Channels /\ bus[ch] \in BusState /\ bus \in [Channels -> BusState]
      /\ nak \in [Channels -> BOOLEAN] /\ r \in Requests /\ r.len \in Nat
      /\ mem \in [Channels -> [Slaves -> [Byte -> Byte]]] /\ left[p] \in 1..r.len
  BY RequestType DEF IInv, TypeOK, LoopInv, LastByteOf
<1>2. n \in 0..(r.len - 1) /\ n + 1 = r.len - left[p] + 1
  BY <1>1 DEF Moved
<1>3. txr[ch] = [kind |-> "b", val |-> r.data[n + 1]]
  BY <1>2 DEF Working, Loaded, StartOf, TxrFor
<1>4. bus[ch].mode = "write" /\ bus[ch].addr = r.addr /\ bus[ch].ptr = Cell(r, n)
  BY DEF Working, Ready, Aims
<1>5. /\ Cell(r, n) \in Byte /\ Cell(r, n + 1) = (Cell(r, n) + 1) % ByteSize
      /\ \A j \in 0..(n - 1) : Cell(r, j) # Cell(r, n)
  BY <1>1, <1>2, CellFacts
<1>6. r.addr \in Slaves
  BY <1>1, <1>4 DEF BusState
<1>7. Moved(p)' = n /\ Cell(r, n)' = Cell(r, n) /\ \A i : Held(p, i)' = mem'[ch][r.addr][Cell(r, i)]
  BY DEF Moved, Held, Cell
<1>8. CASE nak'[ch] /\ mem' = mem
  BY <1>7, <1>8 DEF Done, Held
<1>9. CASE /\ bus' = [bus EXCEPT ![ch].ptr = (Cell(r, n) + 1) % ByteSize]
           /\ mem' = [mem EXCEPT ![ch][r.addr][Cell(r, n)] = r.data[n + 1]]
  <2>1. bus'[ch].mode = "write" /\ bus'[ch].addr = r.addr /\ bus'[ch].ptr = Cell(r, n + 1)
    BY <1>1, <1>4, <1>5, <1>9 DEF BusState
  <2>2. mem'[ch][r.addr][Cell(r, n)] = r.data[n + 1]
    BY <1>1, <1>5, <1>6, <1>9
  <2>3. Done(p)'
    BY <1>7, <2>1, <2>2 DEF Done, Aims, Cell
  <2>4. ASSUME NEW j \in 0..(n - 1)
        PROVE  mem'[ch][r.addr][Cell(r, j)] = mem[ch][r.addr][Cell(r, j)]
    BY <1>1, <1>5, <1>6, <1>9, <2>4
  <2>5. QED
    BY <1>7, <1>9, <2>3, <2>4 DEF Held
<1>10. \/ nak'[ch] = TRUE /\ mem' = mem
       \/ /\ bus' = [bus EXCEPT ![ch].ptr = (bus[ch].ptr + 1) % ByteSize]
          /\ mem' = [mem EXCEPT ![ch][bus[ch].addr][bus[ch].ptr] = txr[ch].val]
  BY <1>1, <1>4 DEF CoreWrite
<1>11. QED
  BY <1>3, <1>4, <1>8, <1>9, <1>10

(* One byte of a read.                                                      *)
LEMMA ByteRead ==
  ASSUME IInv, NEW p \in Callers, Working(p), phase[p] \in {"byte", "last"},
         req[p].op = "read",
         CoreRead(req[p].ch), UNCHANGED <<req, phase, left>>
  PROVE  /\ mem' = mem
         /\ rxr'[req[p].ch] = Held(p, Moved(p))'
         /\ bus'[req[p].ch].mode = "read"
         /\ phase[p] = "byte" => Done(p)'
<1> DEFINE ch == req[p].ch
           r  == req[p]
           n  == Moved(p)
<1>1. ch \in Channels /\ bus[ch] \in BusState /\ bus \in [Channels -> BusState]
      /\ r \in Requests /\ r.len \in Nat /\ rxr \in [Channels -> Byte]
      /\ (phase[p] = "byte" => left[p] \in 1..r.len)
  BY RequestType DEF IInv, TypeOK, LoopInv, LastByteOf
<1>2. /\ bus[ch].mode = "read" /\ bus[ch].addr = r.addr /\ bus[ch].ptr = Cell(r, n)
  BY DEF Working, Ready, Aims
<1>3. /\ mem' = mem /\ rxr'[ch] = Held(p, n)
      /\ bus' = [bus EXCEPT ![ch].ptr = (Cell(r, n) + 1) % ByteSize]
  BY <1>1, <1>2 DEF CoreRead, Held
<1>4. /\ bus'[ch].mode = "read"
      /\ bus'[ch].addr = r.addr /\ bus'[ch].ptr = (Cell(r, n) + 1) % ByteSize
  BY <1>1, <1>2, <1>3 DEF BusState
<1>5. Moved(p)' = n /\ \A i : Held(p, i)' = Held(p, i)
  BY <1>3 DEF Moved, Held, Cell
<1>6. ASSUME phase[p] = "byte" PROVE Done(p)'
  <2>1. n \in 0..(r.len - 1)
    BY <1>1, <1>6 DEF Moved
  <2>2. Cell(r, n + 1) = (Cell(r, n) + 1) % ByteSize
    BY <1>1, <2>1, CellFacts
  <2>3. QED
    BY <1>3, <1>4, <1>5, <1>6, <2>2 DEF Done, Aims, Cell
<1>7. QED
  BY <1>3, <1>4, <1>5, <1>6

(* The last command of a read leaves its STOP to the core.                  *)
LEMMA CommandDone ==
  ASSUME IInv, NEW p \in Callers, Working(p), CoreStep(req[p].ch)
  PROVE  /\ \/ phase[p] = "last" /\ Ending(p)'
            \/ phase[p] = "last" /\ Idle(p)' /\ Ended(p)'
            \/ phase[p] # "last" /\ Idle(p)' /\ Done(p)'
         /\ BytesOK(p) => BytesOK(p)'
<1> DEFINE ch == req[p].ch
           r  == req[p]
<1>1. ch \in Channels /\ r.op \in {"read", "write"} /\ r.len \in Nat
      /\ phase[p] \in Phases /\ left[p] \in Nat
  BY RequestType DEF IInv, TypeOK
<1>2. /\ req' = req /\ phase' = phase /\ left' = left /\ buf' = buf
      /\ cmd' = [cmd EXCEPT ![ch] = IF cmd[ch] = "READ_STOP" THEN "STOP" ELSE "none"]
      /\ CoreStart(ch) \/ CoreWrite(ch) \/ CoreRead(ch) \/ CoreStop(ch)
  BY DEF CoreStep, callerVars
<1>4. cmd[ch] = CommandOf(r, phase[p])
  BY DEF Working
<1>3. /\ Moved(p)' = Moved(p)
      /\ cmd'[ch] = IF phase[p] = "last" /\ r.op = "read" THEN "STOP" ELSE "none"
      /\ phase[p] # "last" \/ r.op # "read" => Idle(p)'
  BY <1>1, <1>2, <1>4 DEF CommandOf, Idle, Moved, IInv, TypeOK
<1>5. ASSUME mem' = mem, BytesOK(p) PROVE BytesOK(p)'
  BY <1>2, <1>3, <1>5 DEF BytesOK, Held, Cell
<1>6. CASE phase[p] \in {"addr_w", "addr_r"}
  <2>1. CoreStart(ch)
    BY <1>2, <1>4, <1>6 DEF CommandOf, CoreStart, CoreWrite, CoreRead, CoreStop
  <2>2. QED
    BY <1>2, <1>3, <1>5, <1>6, <2>1, StartDone
<1>7. CASE phase[p] = "offset"
  <2>1. CoreWrite(ch)
    BY <1>2, <1>4, <1>7 DEF CommandOf, CoreStart, CoreWrite, CoreRead, CoreStop
  <2>2. QED
    BY <1>2, <1>3, <1>5, <1>7, <2>1, OffsetDone
<1>8. CASE phase[p] = "byte" /\ r.op = "write"
  <2>1. CoreWrite(ch)
    BY <1>2, <1>4, <1>8 DEF CommandOf, CoreStart, CoreWrite, CoreRead, CoreStop
  <2>2. Done(p)' /\ \A i \in 0..(Moved(p) - 1) : Held(p, i)' = Held(p, i)
    BY <1>2, <1>8, <2>1, ByteWritten
  <2>3. BytesOK(p) => BytesOK(p)'
    BY <1>2, <1>3, <1>8, <2>2 DEF BytesOK
  <2>4. QED
    BY <1>3, <1>8, <2>2, <2>3
<1>9. CASE phase[p] \in {"byte", "last"} /\ r.op = "read"
  <2>1. CoreRead(ch)
    BY <1>2, <1>4, <1>9 DEF CommandOf, CoreStart, CoreWrite, CoreRead, CoreStop
  <2>2. /\ mem' = mem /\ rxr'[ch] = Held(p, Moved(p))' /\ bus'[ch].mode = "read"
        /\ phase[p] = "byte" => Done(p)'
    BY <1>2, <1>9, <2>1, ByteRead
  <2>3. phase[p] = "last" => Ending(p)'
    BY <1>2, <1>3, <1>9, <2>2 DEF Ending, LastByte
  <2>4. QED
    BY <1>3, <1>5, <1>9, <2>2, <2>3
<1>10. CASE phase[p] = "last" /\ r.op = "write"
  <2>1. CoreStop(ch)
    BY <1>2, <1>4, <1>10 DEF CommandOf, CoreStart, CoreWrite, CoreRead, CoreStop
  <2>2. bus'[ch].mode = "closed" /\ mem' = mem
    BY <1>1, <2>1 DEF CoreStop, IInv, TypeOK, BusState
  <2>3. Ended(p)'
    BY <1>2, <1>3, <1>10, <2>2 DEF Ended, LastByte, Closed
  <2>4. QED
    BY <1>3, <1>5, <1>10, <2>2, <2>3
<1>11. QED
  BY <1>1, <1>6, <1>7, <1>8, <1>9, <1>10 DEF Phases

(* A STOP gets through, an earlier caller's or that of a read.              *)
LEMMA StopDone ==
  ASSUME IInv, NEW ch \in Channels, cmd[ch] = "STOP", CoreStep(ch)
  PROVE  cmd'[ch] = "none" /\ bus'[ch].mode = "closed" /\ mem' = mem /\ rxr' = rxr
  BY DEF IInv, TypeOK, BusState, CoreStep, CoreStart, CoreWrite, CoreRead, CoreStop

LEMMA CoreKeeps ==
  ASSUME IInv, TransferInv, NEW ch \in Channels, CoreStep(ch)
  PROVE  TransferInv'
<1>1. /\ \A q \in Callers : SameCaller(q)
      /\ \A d \in Channels \ {ch} : SameChannel(d)
      /\ sem' = sem /\ en' = en /\ en[ch] /\ cmd[ch] # "none" /\ txr' = txr
      /\ req' = req /\ phase' = phase /\ left' = left /\ buf' = buf /\ pc' = pc /\ ret' = ret
  BY DEF IInv, TypeOK, CoreStep, CoreStart, CoreWrite, CoreRead, CoreStop, SameCaller,
         SamePlace, SameChannel, SameWires, callerVars
<1>2. ASSUME NEW d \in Channels PROVE FreeOK(d)'
  <2>1. FreeOK(d)
    BY DEF TransferInv
  <2>2. CASE d # ch
    BY <1>1, <2>1, <2>2 DEF FreeOK, Quiet, SameChannel, SameWires
  <2>3. CASE d = ch /\ sem[ch] = 1
    <3>1. cmd[ch] = "STOP"
      BY <1>1, <2>1, <2>3 DEF FreeOK, Quiet
    <3>2. QED
      BY <1>1, <2>3, <3>1, StopDone DEF FreeOK, Quiet
  <2>4. QED
    BY <1>1, <2>2, <2>3 DEF FreeOK
<1>3. ASSUME NEW q \in Callers PROVE CallerOK(q)'
  <2>1. CallerOK(q) /\ SameCaller(q) /\ req[q].ch \in Channels
    BY <1>1, RequestType DEF TransferInv, IInv, TypeOK
  <2>2. CASE pc[q] \in Outside \/ req[q].ch # ch
    BY <1>1, <2>1, <2>2, CallerUnmoved
  <2>3. CASE pc[q] \notin Outside /\ req[q].ch = ch
    <3>1. ChannelOK(q) /\ Enabled(q)
      BY <2>1, <2>3 DEF CallerOK
    <3>2. ~Idle(q)
      BY <1>1, <2>3 DEF Idle
    <3>3. Enabled(q)'
      BY <1>1, <3>1 DEF Enabled
    <3>4. CASE cmd[ch] = "STOP" /\ pc[q] \notin {"tip", "last"}
      <4>1. cmd'[ch] = "none" /\ bus'[ch].mode = "closed" /\ mem' = mem
        BY <3>4, StopDone
      <4>2. Idle(q)' /\ Quiet(ch)'
        BY <1>1, <2>3, <4>1 DEF Idle, Quiet
      <4>3. pc[q] \in {"load", "command", "disable", "up", "nack_busy", "restop_busy", "dead"}
            /\ (pc[q] \in {"load", "command"} => phase[q] = "addr_w")
            /\ ~(pc[q] = "up" /\ ret[q] = "OK")
        BY <2>3, <3>1, <3>2, <3>4 DEF ChannelOK, IInv, TypeOK, Locations, Outside
      <4>4. ChannelOK(q)'
        BY <1>1, <2>3, <3>1, <4>1, <4>2, <4>3 DEF ChannelOK, Loaded, Ready
      <4>5. BytesOK(q) => BytesOK(q)'
        BY <1>1, <4>1 DEF BytesOK, Moved, Held, Cell
      <4>6. QED
        BY <1>1, <2>1, <2>3, <3>3, <4>3, <4>4, <4>5 DEF CallerOK, Outside
    <3>5. CASE Working(q) /\ pc[q] \in {"tip", "last", "disable"}
      <4>1. /\ \/ phase[q] = "last" /\ Ending(q)'
               \/ phase[q] = "last" /\ Idle(q)' /\ Ended(q)'
               \/ phase[q] # "last" /\ Idle(q)' /\ Done(q)'
            /\ BytesOK(q) => BytesOK(q)'
        BY <2>3, <3>5, CommandDone
      <4>2. ChannelOK(q)'
        BY <1>1, <3>1, <3>5, <4>1 DEF ChannelOK, Ending
      <4>3. QED
        BY <1>1, <2>1, <3>3, <3>5, <4>1, <4>2 DEF CallerOK, Outside, InFrame
    <3>6. CASE Ending(q) /\ pc[q] = "last"
      <4>1. cmd'[ch] = "none" /\ bus'[ch].mode = "closed" /\ mem' = mem /\ rxr' = rxr
        BY <2>3, <3>6, StopDone DEF Ending
      <4>2. Ended(q)' /\ (BytesOK(q) => BytesOK(q)')
        BY <1>1, <2>3, <3>6, <4>1
        DEF Ending, Ended, LastByte, Closed, Idle, BytesOK, Moved, Held, Cell
      <4>3. ChannelOK(q)'
        BY <1>1, <3>1, <3>6, <4>2 DEF ChannelOK
      <4>4. QED
        BY <1>1, <2>1, <3>3, <3>6, <4>2, <4>3 DEF CallerOK, Outside, InFrame
    <3>7. \/ cmd[ch] = "STOP" /\ pc[q] \notin {"tip", "last"}
          \/ Working(q) /\ pc[q] \in {"tip", "last", "disable"}
          \/ Ending(q) /\ pc[q] = "last"
      BY <1>1, <2>3, <3>1, <3>2 DEF ChannelOK, Quiet, Ended, Closed
    <3>8. QED
      BY <3>4, <3>5, <3>6, <3>7
  <2>4. QED
    BY <2>2, <2>3
<1>4. QED
  BY <1>2, <1>3 DEF TransferInv

-----------------------------------------------------------------------------
FullInv == IInv /\ TransferInv

LEMMA InitFullInv == Init => FullInv
  BY InitIInv, InitTransfer DEF FullInv

LEMMA NextFullInv == FullInv /\ [Next]_vars => FullInv'
<1> SUFFICES ASSUME IInv, TransferInv, [Next]_vars PROVE TransferInv'
  BY NextIInv DEF FullInv
<1>1. ASSUME NEW p \in Callers, Frame(p) PROVE TransferInv'
  BY <1>1, LoadKeeps, CommandKeeps, PollKeeps, AckKeeps, FetchKeeps, FinishKeeps
  DEF Frame, PollStep
<1>2. ASSUME NEW p \in Callers, Recover(p) PROVE TransferInv'
  BY <1>2, ResetKeeps, StopKeeps, PollKeeps DEF Recover, PollStep
<1>3. ASSUME NEW p \in Callers,
             \/ Call(p) \/ Refuse(p) \/ Interrupted(p) \/ Return(p)
             \/ Down(p) \/ Up(p)
      PROVE  TransferInv'
  BY <1>3, OutsideKeeps, DownKeeps, UpKeeps
<1>4. ASSUME NEW ch \in Channels, CoreStep(ch) PROVE TransferInv'
  BY <1>4, CoreKeeps
<1>5. CASE UNCHANGED vars
  <2>1. /\ \A q \in Callers : SameCaller(q)
        /\ \A d \in Channels : SameChannel(d)
        /\ sem' = sem
    BY <1>5 DEF vars, callerVars, coreVars, wireVars, SameCaller, SamePlace,
                SameChannel, SameWires
  <2>2. ASSUME NEW q \in Callers PROVE CallerOK(q)'
    BY <2>1, CallerUnmoved, RequestType DEF TransferInv, IInv, TypeOK
  <2>3. ASSUME NEW d \in Channels PROVE FreeOK(d)'
    BY <2>1 DEF TransferInv, FreeOK, Quiet, SameChannel, SameWires
  <2>4. QED
    BY <2>2, <2>3 DEF TransferInv
<1>6. QED
  BY <1>1, <1>2, <1>3, <1>4, <1>5 DEF Next

(* No command that moves data is left behind on a free channel, whatever    *)
(* poll ran out (the resets of device_busy and no_ack_response).            *)
THEOREM NoCommandLeftBehind == Spec => []NoOrphanCommand
<1>1. FullInv => NoOrphanCommand
  BY DEF FullInv, TransferInv, FreeOK, Quiet, NoOrphanCommand
<1>2. QED
  BY InitFullInv, NextFullInv, <1>1, PTL DEF Spec

(* Every outcome but -EBUSY follows the end of the frame on the wires.      *)
THEOREM HandoverIsClean == Spec => []CleanHandover
<1>1. FullInv => CleanHandover
  BY DEF FullInv, TransferInv, CallerOK, ChannelOK, Outside, Idle, Busy, CleanHandover
<1>2. QED
  BY InitFullInv, NextFullInv, <1>1, PTL DEF Spec

(* A transfer that returns 0 moved all of its bytes, to or from the offset  *)
(* it names, in order.                                                      *)
THEOREM SuccessIsTransfer == Spec => []SuccessMeansTransferred
<1>1. FullInv => SuccessMeansTransferred
  BY DEF FullInv, TransferInv, CallerOK, Success, SuccessMeansTransferred
<1>2. QED
  BY InitFullInv, NextFullInv, <1>1, PTL DEF Spec

(* The only step that changes a slave is a core's byte write, on behalf of  *)
(* the owner of its channel.                                                *)
LEMMA WriterOwns ==
  ASSUME FullInv, NEW ch \in Channels, CoreStep(ch), mem' # mem
  PROVE  \E p \in Callers :
           /\ Owns(p, ch) /\ Working(p) /\ phase[p] = "byte" /\ req[p].op = "write"
           /\ CoreWrite(ch) /\ UNCHANGED <<req, phase, left>>
<1>1. CoreWrite(ch) /\ cmd[ch] = "WRITE" /\ UNCHANGED <<req, phase, left, sem>>
  BY DEF CoreStep, CoreStart, CoreWrite, CoreRead, CoreStop, callerVars
<1>2. sem[ch] = 0
  BY <1>1 DEF FullInv, TransferInv, FreeOK, Quiet, IInv, TypeOK
<1>3. PICK p \in Callers : Owns(p, ch)
  BY <1>2 DEF FullInv, IInv, OneOwner
<1>4. req[p].ch = ch /\ ChannelOK(p) /\ req[p].op \in {"read", "write"}
  BY <1>3, RequestType DEF FullInv, TransferInv, CallerOK, Outside, Owns, IInv, TypeOK
<1>5. Working(p)
  BY <1>1, <1>4 DEF ChannelOK, Quiet, Idle, Ending, Ended, Closed
<1>6. phase[p] \in {"offset", "byte"}
  BY <1>1, <1>4, <1>5 DEF Working, CommandOf, FullInv, IInv, TypeOK, Phases
<1>7. phase[p] = "byte" => req[p].op = "write"
  BY <1>1, <1>4, <1>5 DEF Working, CommandOf
<1>8. phase[p] # "offset"
  BY <1>1, <1>4, <1>5, OffsetDone DEF FullInv
<1>9. QED
  BY <1>1, <1>3, <1>5, <1>6, <1>7, <1>8

(* A slave's byte changes only when the owner of the channel asked for it,  *)
(* at that offset and with that value.                                      *)
THEOREM OwnerWrites == Spec => OnlyOwnerWrites
<1> DEFINE Asked(ch, a, o) ==
      \E p \in Callers :
        /\ Owns(p, ch) /\ req[p].op = "write" /\ req[p].addr = a
        /\ \E i \in 1..req[p].len :
             /\ o = (req[p].off + i - 1) % ByteSize
             /\ mem'[ch][a][o] = req[p].data[i]
<1>1. ASSUME FullInv, [Next]_vars,
             NEW c \in Channels, NEW a \in Slaves, NEW o \in Byte,
             mem'[c][a][o] # mem[c][a][o]
      PROVE  Asked(c, a, o)
  <2>1. PICK ch \in Channels : CoreStep(ch)
    BY <1>1 DEF Next, vars, wireVars, Call, Refuse, Interrupted, Down, Frame, Recover, Up,
                Return, Load, Command, TipDone, TipTimeout, AckSeen, NoAck, Fetch, Finish,
                FinishTimeout, Disable, Enable, Restop, GiveUp, NackStop, NackStopped,
                NackTimeout
  <2>2. PICK p \in Callers :
           /\ Owns(p, ch) /\ Working(p) /\ phase[p] = "byte" /\ req[p].op = "write"
           /\ CoreWrite(ch) /\ UNCHANGED <<req, phase, left>>
    BY <1>1, <2>1, WriterOwns
  <2>3. /\ req[p].ch = ch /\ req[p].off \in Nat /\ left[p] \in 1..req[p].len
        /\ req[p].len \in Nat
    BY <1>1, <2>2, RequestType DEF FullInv, IInv, TypeOK, LoopInv, LastByteOf, Owns, Byte
  <2>4. mem' = [mem EXCEPT ![ch][req[p].addr][Cell(req[p], Moved(p))]
                             = req[p].data[Moved(p) + 1]]
    BY <1>1, <2>2, <2>3, ByteWritten DEF FullInv
  <2>5. c = ch /\ a = req[p].addr /\ o = Cell(req[p], Moved(p))
        /\ mem'[c][a][o] = req[p].data[Moved(p) + 1]
    BY <1>1, <2>4 DEF FullInv, IInv, TypeOK
  <2>6. Moved(p) + 1 \in 1..req[p].len /\ req[p].off + (Moved(p) + 1) - 1 = req[p].off + Moved(p)
    BY <2>3 DEF Moved
  <2>7. QED
    BY <2>2, <2>5, <2>6 DEF Cell
<1>2. FullInv /\ [Next]_vars =>
        [\A ch \in Channels, a \in Slaves, o \in Byte :
           mem'[ch][a][o] # mem[ch][a][o] => Asked(ch, a, o)]_vars
  BY <1>1
<1>3. QED
  BY InitFullInv, NextFullInv, <1>2, PTL DEF Spec, OnlyOwnerWrites
=============================================================================
