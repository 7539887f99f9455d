------------------------------ MODULE FpgaSmbus ------------------------------
(***************************************************************************)
(* The SMBus masters of the Accton FPGA driver                             *)
(* (recipes-kernel/accton-csp7551-mods/files/fpga_driver.c).               *)
(*                                                                         *)
(* Every channel is one I2C master core inside the FPGA with a transmit/   *)
(* receive register, a command/status register and an enable bit.  Kernel  *)
(* threads (through the i2c core) and user processes (through the ioctl)   *)
(* run transfers on it: fpga_smbus_read and fpga_smbus_write take the      *)
(* semaphore of the channel, step the core through one bus frame by        *)
(* polling its status register, and give the semaphore back on every path. *)
(* The core works on its own between two register accesses, so a poll that *)
(* runs out races with the command it gave up on.                          *)
(*                                                                         *)
(* The poll loops (check_tip, check_ack, check_busy) are one step each:    *)
(* they answer "done" when the bit is clear and may run out whenever it is *)
(* still set, so max_retry_time stands for any number of polls.  The FPGA  *)
(* core and the slaves behind it are external: CoreStep is what the driver *)
(* assumes of them.                                                        *)
(***************************************************************************)
EXTENDS Integers, Sequences

CONSTANTS Callers,     \* threads that may be inside fpga_smbus_read/_write
          MaxChannel,  \* MAX_CHANNEL, the number of I2C masters (34)
          Slaves,      \* the addresses at which a slave answers
          ByteSize,    \* values of a byte, of data and of a slave's offset (256)
          BuffSize,    \* MAX_BUFF_SIZE, bytes that a transfer can buffer (128)
          BlockSize,   \* bytes of an SMBus block as the driver counts them (32)
          Accesses     \* the accesses users ask for (a bound on the inputs)

MaxAddr == 127  \* 7-bit addresses
Addrs == 0..255 \* unsigned char addr
Byte == 0..(ByteSize - 1)
Channels == 0..(MaxChannel - 1)

(* The ioctl takes a struct fpga_access.  The i2c core calls an adapter,    *)
(* whose name is the channel, with a 16-bit address and a union of bytes.   *)
Sizes == {"QUICK", "BYTE", "BYTE_DATA", "WORD_DATA", "BLOCK_DATA", "OTHER"}

IoctlAccess == [via : {"ioctl"}, op : {"read", "write"}, ch : Nat, addr : Addrs,
                off : Byte, len : Nat, data : Seq(Byte)]
SmbusAccess == [via : {"smbus"}, op : {"read", "write"}, ch : Channels, addr : Nat,
                off : Byte, size : Sizes, data : Seq(Byte)]

SizeLength(size) == CASE size = "QUICK" -> 0
                      [] size = "WORD_DATA" -> 2
                      [] size = "BLOCK_DATA" -> BlockSize
                      [] OTHER -> 1

Length(a) == IF a.via = "ioctl" THEN a.len ELSE SizeLength(a.size)

(* What fpga_smbus_read or _write is called with.  A block is sent with its *)
(* count as the first byte; the core passes no data with a written BYTE.    *)
Transfer(a) ==
  [op |-> a.op, ch |-> a.ch, addr |-> a.addr % 256, off |-> a.off, len |-> Length(a),
   data |-> IF a.op = "write" THEN SubSeq(a.data, 1, Length(a)) ELSE <<>>,
   null |-> a.via = "smbus" /\ a.op = "write" /\ a.size = "BYTE"]

(* The argument checks of the ioctl and of fpga_smbus_read/_write.          *)
Refused(a) ==
  \/ a.via = "ioctl" /\ a.len + a.off > ByteSize
  \/ a.addr % 256 > MaxAddr
  \/ a.ch > MaxChannel

(* They let pass a channel that does not exist, and more bytes than "buff"  *)
(* holds: what the driver does then is not defined, and not modelled.       *)
Defined(a) == a.ch # MaxChannel /\ Length(a) <= BuffSize

Requests == {Transfer(a) : a \in {b \in Accesses : Defined(b) /\ ~Refused(b)}}

ASSUME FpgaAssumption ==
  /\ MaxChannel \in Nat \ {0}
  /\ Slaves \subseteq 0..MaxAddr
  /\ Slaves # {}
  /\ ByteSize \in Nat \ {0}
  /\ BuffSize \in Nat /\ BuffSize <= ByteSize
  /\ BlockSize \in Nat
  /\ Accesses \subseteq IoctlAccess \cup SmbusAccess
  /\ \A a \in Accesses : a.op = "write" /\ Defined(a) => Length(a) <= Len(a.data)
  /\ Requests # {}

VARIABLES
  pc,     \* where each caller is
  req,    \* its request
  phase,  \* which part of the frame it is sending
  left,   \* byte_to_rw
  buf,    \* bytes received so far
  ret,    \* the value its call returns
  sem,    \* sem[MAX_CHANNEL], the counting semaphore of each channel
  en,     \* core enabled (I2C_CONTROLLER_OFFSET)
  cmd,    \* command the core is working on; TIP is set while there is one
  txr,    \* transmit register
  rxr,    \* receive register
  nak,    \* RxACK bit: the last byte was not acknowledged
  bus,    \* the wires: whom the frame addresses, what it moves next, and where
  mem     \* contents of the slaves

callerVars == <<pc, req, phase, left, buf, ret>>
coreVars   == <<en, cmd, txr, rxr, nak>>
wireVars   == <<bus, mem>>
vars       == <<callerVars, sem, coreVars, wireVars>>

Returns  == {"OK", "EINVAL", "ERESTARTSYS", "EBUSY", "ETIMEDOUT"}
Commands == {"none", "START_WRITE", "WRITE", "READ", "READ_STOP", "STOP"}
Modes    == {"closed", "ignored", "offset", "write", "read"}
Phases   == {"addr_w", "offset", "addr_r", "byte", "last"}
Locations == {"idle", "down", "load", "command", "tip", "ack", "fetch", "last",
              "disable", "enable", "restop", "restop_busy", "nack_stop",
              "nack_busy", "up", "return", "dead"}
TxrValue == [kind : {"w", "r"}, val : Addrs] \cup [kind : {"b"}, val : Byte]

BusState == [addr : Slaves, mode : Modes, ptr : Byte]

(***************************************************************************)
(* A caller owns a channel from down_interruptible to up.                  *)
(***************************************************************************)
Owns(p, ch) == pc[p] \notin {"idle", "down", "return"} /\ req[p].ch = ch

NoRequest == CHOOSE r \in Requests : TRUE

(* BUSY_BIT: a START was seen on the wires and no STOP yet. *)
Busy(ch) == bus[ch].mode # "closed"

TypeOK ==
  /\ pc \in [Callers -> Locations]
  /\ req \in [Callers -> Requests]
  /\ phase \in [Callers -> Phases]
  /\ left \in [Callers -> Nat]
  /\ buf \in [Callers -> Seq(Byte)]
  /\ ret \in [Callers -> Returns]
  /\ sem \in [Channels -> {0, 1}]
  /\ en \in [Channels -> BOOLEAN]
  /\ cmd \in [Channels -> Commands]
  /\ txr \in [Channels -> TxrValue]
  /\ rxr \in [Channels -> Byte]
  /\ nak \in [Channels -> BOOLEAN]
  /\ bus \in [Channels -> BusState]
  /\ mem \in [Channels -> [Slaves -> [Byte -> Byte]]]

-----------------------------------------------------------------------------
(* The state once fpga_pci_probe is done: free semaphores, enabled cores.   *)
Init ==
  /\ pc = [p \in Callers |-> "idle"]
  /\ req = [p \in Callers |-> NoRequest]
  /\ phase = [p \in Callers |-> "addr_w"]
  /\ left = [p \in Callers |-> 0]
  /\ buf = [p \in Callers |-> <<>>]
  /\ ret = [p \in Callers |-> "OK"]
  /\ sem = [ch \in Channels |-> 1]
  /\ en = [ch \in Channels |-> TRUE]
  /\ cmd = [ch \in Channels |-> "none"]
  /\ txr = [ch \in Channels |-> [kind |-> "w", val |-> CHOOSE a \in Addrs : TRUE]]
  /\ rxr = [ch \in Channels |-> 0]
  /\ nak = [ch \in Channels |-> FALSE]
  /\ bus = [ch \in Channels |-> [addr |-> CHOOSE a \in Slaves : TRUE,
                                 mode |-> "closed", ptr |-> 0]]
  /\ mem = [ch \in Channels |-> [a \in Slaves |-> [o \in Byte |-> 0]]]

-----------------------------------------------------------------------------
(* A call is answered: its result stays until the caller has seen it, its   *)
(* locals are gone.                                                         *)
Answer(p, r) ==
  /\ pc' = [pc EXCEPT ![p] = "return"]
  /\ req' = [req EXCEPT ![p] = NoRequest]
  /\ phase' = [phase EXCEPT ![p] = "addr_w"]
  /\ left' = [left EXCEPT ![p] = 0]
  /\ buf' = [buf EXCEPT ![p] = IF r = "OK" THEN @ ELSE <<>>]
  /\ ret' = [ret EXCEPT ![p] = r]

Call(p) ==
  /\ pc[p] = "idle"
  /\ \E a \in Accesses :
       /\ ~Refused(a) /\ Defined(a)
       /\ req' = [req EXCEPT ![p] = Transfer(a)]
  /\ pc' = [pc EXCEPT ![p] = "down"]
  /\ UNCHANGED <<phase, left, buf, ret, sem, coreVars, wireVars>>

Refuse(p) ==
  /\ pc[p] = "idle"
  /\ \E a \in Accesses : Refused(a)
  /\ Answer(p, "EINVAL")
  /\ UNCHANGED <<sem, coreVars, wireVars>>

(* Mutated form: the interrupted wait gives back what it never got.         *)
Interrupted_Up(p) ==
  /\ pc[p] = "down"
  /\ sem' = [sem EXCEPT ![req[p].ch] = @ + 1]
  /\ Answer(p, "ERESTARTSYS")
  /\ UNCHANGED <<coreVars, wireVars>>

(* down_interruptible: a signal ends the wait without the semaphore.        *)
Interrupted(p) ==
  /\ pc[p] = "down"
  /\ Answer(p, "ERESTARTSYS")
  /\ UNCHANGED <<sem, coreVars, wireVars>>

(* Mutated form: the transfer starts without waiting for the semaphore.     *)
Down_NoWait(p) ==
  /\ pc[p] = "down"
  /\ sem' = [sem EXCEPT ![req[p].ch] = 0]
  /\ pc' = [pc EXCEPT ![p] = "load"]
  /\ UNCHANGED <<req, phase, left, buf, ret, coreVars, wireVars>>

(* A write copies its data once it has the semaphore.  If there are none    *)
(* the kernel kills the thread there, which never gives the semaphore back. *)
Down(p) ==
  /\ pc[p] = "down"
  /\ sem[req[p].ch] > 0
  /\ sem' = [sem EXCEPT ![req[p].ch] = @ - 1]
  /\ pc' = [pc EXCEPT ![p] = IF req[p].null THEN "dead" ELSE "load"]
  /\ UNCHANGED <<req, phase, left, buf, ret, coreVars, wireVars>>

Up(p) ==
  /\ pc[p] = "up"
  /\ sem' = [sem EXCEPT ![req[p].ch] = @ + 1]
  /\ Answer(p, ret[p])
  /\ UNCHANGED <<coreVars, wireVars>>

Return(p) ==
  /\ pc[p] = "return"
  /\ pc' = [pc EXCEPT ![p] = "idle"]
  /\ buf' = [buf EXCEPT ![p] = <<>>]
  /\ ret' = [ret EXCEPT ![p] = "OK"]
  /\ UNCHANGED <<req, phase, left, sem, coreVars, wireVars>>

-----------------------------------------------------------------------------
(* Register writes.  A command written while another is in progress is not  *)
(* defined by the driver: it either replaces the old one, or is dropped     *)
(* when the old one (only ever a STOP) completes.                           *)
Issue(ch, c) ==
  \/ /\ cmd' = [cmd EXCEPT ![ch] = c]
     /\ UNCHANGED bus
  \/ /\ cmd[ch] # "none"
     /\ cmd' = [cmd EXCEPT ![ch] = "none"]
     /\ bus' = [bus EXCEPT ![ch].mode = "closed"]

(* Mutated form: the bytes of a write are sent last one first.              *)
TxrFor_Reversed(r, ph, n) ==
  CASE ph = "addr_w" -> [kind |-> "w", val |-> r.addr]
    [] ph = "addr_r" -> [kind |-> "r", val |-> r.addr]
    [] ph = "offset" -> [kind |-> "b", val |-> r.off]
    [] OTHER         -> [kind |-> "b", val |-> r.data[n]]

(* What TXR holds before a phase's command. *)
TxrFor(r, ph, n) ==
  CASE ph = "addr_w" -> [kind |-> "w", val |-> r.addr]
    [] ph = "addr_r" -> [kind |-> "r", val |-> r.addr]
    [] ph = "offset" -> [kind |-> "b", val |-> r.off]
    [] OTHER         -> [kind |-> "b", val |-> r.data[r.len - n + 1]]

(* The loop conditions of the two functions: the phase after ph when n      *)
(* bytes are left.                                                          *)
LastByteOf(op) == IF op = "read" THEN 1 ELSE 0

DataPhase(r, n) == IF n > LastByteOf(r.op) THEN "byte" ELSE "last"

PhaseAfter(r, ph, n) ==
  CASE ph = "addr_w" -> "offset"
    [] ph = "offset" /\ r.op = "read" -> "addr_r"
    [] OTHER -> DataPhase(r, n)

(* Where a phase starts: reads and STOP put nothing into TXR. *)
StartOf(r, ph) ==
  IF ph = "last" \/ (ph = "byte" /\ r.op = "read") THEN "command" ELSE "load"

CommandOf(r, ph) ==
  CASE ph \in {"addr_w", "addr_r"} -> "START_WRITE"
    [] ph = "last" -> IF r.op = "read" THEN "READ_STOP" ELSE "STOP"
    [] ph = "byte" /\ r.op = "read" -> "READ"
    [] OTHER -> "WRITE"

Enter(p, ph) ==
  /\ phase' = [phase EXCEPT ![p] = ph]
  /\ pc' = [pc EXCEPT ![p] = StartOf(req[p], ph)]

Load(p) ==
  /\ pc[p] = "load"
  /\ txr' = [txr EXCEPT ![req[p].ch] = TxrFor(req[p], phase[p], left[p])]
  /\ pc' = [pc EXCEPT ![p] = "command"]
  /\ UNCHANGED <<req, phase, left, buf, ret, sem, en, cmd, rxr, nak, wireVars>>

Command(p) ==
  /\ pc[p] = "command"
  /\ Issue(req[p].ch, CommandOf(req[p], phase[p]))
  /\ pc' = [pc EXCEPT ![p] = IF phase[p] = "last" THEN "last" ELSE "tip"]
  /\ UNCHANGED <<req, phase, left, buf, ret, sem, en, txr, rxr, nak, mem>>

(* fpga_smbus_check_tip *)
TipDone(p) ==
  /\ pc[p] = "tip"
  /\ cmd[req[p].ch] = "none"
  /\ pc' = [pc EXCEPT ![p] = "ack"]
  /\ UNCHANGED <<req, phase, left, buf, ret, sem, coreVars, wireVars>>

(* Mutated form: -EBUSY without resetting the core.                         *)
TipTimeout_NoReset(p) ==
  /\ pc[p] = "tip"
  /\ cmd[req[p].ch] # "none"
  /\ pc' = [pc EXCEPT ![p] = "up"]
  /\ ret' = [ret EXCEPT ![p] = "EBUSY"]
  /\ UNCHANGED <<req, phase, left, buf, sem, coreVars, wireVars>>

TipTimeout(p) ==
  /\ pc[p] = "tip"
  /\ cmd[req[p].ch] # "none"
  /\ pc' = [pc EXCEPT ![p] = "disable"]
  /\ UNCHANGED <<req, phase, left, buf, ret, sem, coreVars, wireVars>>

(* fpga_smbus_check_ack answers 0: byte_to_rw is set to length when the     *)
(* data loop is reached, and counts the byte just sent.                     *)
LeftAfterAck(p) ==
  CASE phase[p] = "byte" /\ req[p].op = "write" -> left[p] - 1
    [] phase[p] = "byte" /\ req[p].op = "read" -> left[p]
    [] OTHER -> req[p].len

AckSeen(p) ==
  /\ pc[p] = "ack"
  /\ ~nak[req[p].ch]
  /\ left' = [left EXCEPT ![p] = LeftAfterAck(p)]
  /\ IF phase[p] = "byte" /\ req[p].op = "read"
       THEN /\ pc' = [pc EXCEPT ![p] = "fetch"]
            /\ UNCHANGED phase
       ELSE Enter(p, PhaseAfter(req[p], phase[p], LeftAfterAck(p)))
  /\ UNCHANGED <<req, buf, ret, sem, coreVars, wireVars>>

NoAck(p) ==
  /\ pc[p] = "ack"
  /\ nak[req[p].ch]
  /\ pc' = [pc EXCEPT ![p] = "nack_stop"]
  /\ UNCHANGED <<req, phase, left, buf, ret, sem, coreVars, wireVars>>

(* A byte of the read loop is taken from the receive register. *)
Fetch(p) ==
  /\ pc[p] = "fetch"
  /\ buf' = [buf EXCEPT ![p] = Append(@, rxr[req[p].ch])]
  /\ left' = [left EXCEPT ![p] = @ - 1]
  /\ Enter(p, DataPhase(req[p], left[p] - 1))
  /\ UNCHANGED <<req, ret, sem, coreVars, wireVars>>

(* Mutated form: the last byte is fetched without waiting for the core.     *)
Finish_NoWait(p) ==
  /\ pc[p] = "last"
  /\ buf' = [buf EXCEPT ![p] =
               IF req[p].op = "read" /\ left[p] > 0
                 THEN Append(@, rxr[req[p].ch]) ELSE @]
  /\ ret' = [ret EXCEPT ![p] = "OK"]
  /\ pc' = [pc EXCEPT ![p] = "up"]
  /\ UNCHANGED <<req, phase, left, sem, coreVars, wireVars>>

(* fpga_smbus_check_busy after the last command; the last byte read is      *)
(* fetched and the data copied out.                                         *)
Finish(p) ==
  /\ pc[p] = "last"
  /\ ~Busy(req[p].ch)
  /\ buf' = [buf EXCEPT ![p] =
               IF req[p].op = "read" /\ left[p] > 0
                 THEN Append(@, rxr[req[p].ch]) ELSE @]
  /\ ret' = [ret EXCEPT ![p] = "OK"]
  /\ pc' = [pc EXCEPT ![p] = "up"]
  /\ UNCHANGED <<req, phase, left, sem, coreVars, wireVars>>

FinishTimeout(p) ==
  /\ pc[p] = "last"
  /\ Busy(req[p].ch)
  /\ pc' = [pc EXCEPT ![p] = "disable"]
  /\ UNCHANGED <<req, phase, left, buf, ret, sem, coreVars, wireVars>>

-----------------------------------------------------------------------------
(* device_busy: disabling the core drops the command it was working on,     *)
(* then a STOP is sent; up() follows whether or not the STOP got through.   *)
Disable(p) ==
  /\ pc[p] = "disable"
  /\ en' = [en EXCEPT ![req[p].ch] = FALSE]
  /\ cmd' = [cmd EXCEPT ![req[p].ch] = "none"]
  /\ pc' = [pc EXCEPT ![p] = "enable"]
  /\ UNCHANGED <<req, phase, left, buf, ret, sem, txr, rxr, nak, wireVars>>

Enable(p) ==
  /\ pc[p] = "enable"
  /\ en' = [en EXCEPT ![req[p].ch] = TRUE]
  /\ pc' = [pc EXCEPT ![p] = "restop"]
  /\ UNCHANGED <<req, phase, left, buf, ret, sem, cmd, txr, rxr, nak, wireVars>>

Restop(p) ==
  /\ pc[p] = "restop"
  /\ Issue(req[p].ch, "STOP")
  /\ pc' = [pc EXCEPT ![p] = "restop_busy"]
  /\ UNCHANGED <<req, phase, left, buf, ret, sem, en, txr, rxr, nak, mem>>

(* Mutated form: the error path forgets up().                               *)
GiveUp_NoUp(p) ==
  /\ pc[p] = "restop_busy"
  /\ Answer(p, "EBUSY")
  /\ UNCHANGED <<sem, coreVars, wireVars>>

GiveUp(p) ==
  /\ pc[p] = "restop_busy"
  /\ ret' = [ret EXCEPT ![p] = "EBUSY"]
  /\ pc' = [pc EXCEPT ![p] = "up"]
  /\ UNCHANGED <<req, phase, left, buf, sem, coreVars, wireVars>>

(* no_ack_response: a STOP ends the frame; if it does not get through, the  *)
(* core is reset as above.                                                  *)
NackStop(p) ==
  /\ pc[p] = "nack_stop"
  /\ Issue(req[p].ch, "STOP")
  /\ pc' = [pc EXCEPT ![p] = "nack_busy"]
  /\ UNCHANGED <<req, phase, left, buf, ret, sem, en, txr, rxr, nak, mem>>

(* Mutated forms: the STOP is not waited for; the missing acknowledgement   *)
(* is not reported.                                                         *)
NackStopped_NoWait(p) ==
  /\ pc[p] = "nack_busy"
  /\ ret' = [ret EXCEPT ![p] = "ETIMEDOUT"]
  /\ pc' = [pc EXCEPT ![p] = "up"]
  /\ UNCHANGED <<req, phase, left, buf, sem, coreVars, wireVars>>

NackStopped_Silent(p) ==
  /\ pc[p] = "nack_busy"
  /\ ~Busy(req[p].ch)
  /\ ret' = [ret EXCEPT ![p] = "OK"]
  /\ pc' = [pc EXCEPT ![p] = "up"]
  /\ UNCHANGED <<req, phase, left, buf, sem, coreVars, wireVars>>

NackStopped(p) ==
  /\ pc[p] = "nack_busy"
  /\ ~Busy(req[p].ch)
  /\ ret' = [ret EXCEPT ![p] = "ETIMEDOUT"]
  /\ pc' = [pc EXCEPT ![p] = "up"]
  /\ UNCHANGED <<req, phase, left, buf, sem, coreVars, wireVars>>

NackTimeout(p) ==
  /\ pc[p] = "nack_busy"
  /\ Busy(req[p].ch)
  /\ pc' = [pc EXCEPT ![p] = "disable"]
  /\ UNCHANGED <<req, phase, left, buf, ret, sem, coreVars, wireVars>>

-----------------------------------------------------------------------------
(* The FPGA core and the slaves (external): the command in progress         *)
(* completes.  A slave may refuse any byte; it ignores a frame that is not  *)
(* addressed to it.                                                         *)
CoreStart(ch) ==
  /\ cmd[ch] = "START_WRITE"
  /\ \E a \in BOOLEAN :
       LET answered == a /\ txr[ch].kind \in {"w", "r"} /\ txr[ch].val \in Slaves
       IN /\ nak' = [nak EXCEPT ![ch] = ~answered]
          /\ IF answered
               THEN bus' = [bus EXCEPT ![ch].addr = txr[ch].val,
                       ![ch].mode = IF txr[ch].kind = "r" THEN "read" ELSE "offset"]
               ELSE bus' = [bus EXCEPT ![ch].mode = "ignored"]
  /\ UNCHANGED <<rxr, mem>>

CoreWrite(ch) ==
  /\ cmd[ch] = "WRITE"
  /\ \E a \in BOOLEAN :
       LET taken == /\ a
                      /\ bus[ch].mode \in {"offset", "write"}
                      /\ txr[ch].kind = "b"
           at    == bus[ch].ptr
       IN /\ nak' = [nak EXCEPT ![ch] = ~taken]
          /\ IF ~taken THEN UNCHANGED <<bus, mem>>
             ELSE IF bus[ch].mode = "offset"
               THEN /\ bus' = [bus EXCEPT ![ch].ptr = txr[ch].val,
                                          ![ch].mode = "write"]
                    /\ UNCHANGED mem
               ELSE /\ bus' = [bus EXCEPT ![ch].ptr = (at + 1) % ByteSize]
                    /\ mem' = [mem EXCEPT ![ch][bus[ch].addr][at] = txr[ch].val]
  /\ UNCHANGED rxr

CoreRead(ch) ==
  /\ cmd[ch] \in {"READ", "READ_STOP"}
  /\ IF bus[ch].mode = "read"
       THEN rxr' = [rxr EXCEPT ![ch] = mem[ch][bus[ch].addr][bus[ch].ptr]]
       ELSE \E b \in Byte : rxr' = [rxr EXCEPT ![ch] = b]
  /\ \E n \in BOOLEAN : nak' = [nak EXCEPT ![ch] = n]
  /\ bus' = [bus EXCEPT ![ch].ptr = (@ + 1) % ByteSize]
  /\ UNCHANGED mem

CoreStop(ch) ==
  /\ cmd[ch] = "STOP"
  /\ bus' = [bus EXCEPT ![ch].mode = "closed"]
  /\ UNCHANGED <<rxr, nak, mem>>

(* A read that ends the frame still has its STOP to send.                   *)
CoreStep(ch) ==
  /\ en[ch]
  /\ CoreStart(ch) \/ CoreWrite(ch) \/ CoreRead(ch) \/ CoreStop(ch)
  /\ cmd' = [cmd EXCEPT ![ch] = IF @ = "READ_STOP" THEN "STOP" ELSE "none"]
  /\ UNCHANGED <<callerVars, sem, en, txr>>

-----------------------------------------------------------------------------
Frame(p) == Load(p) \/ Command(p) \/ TipDone(p) \/ TipTimeout(p) \/ AckSeen(p)
            \/ NoAck(p) \/ Fetch(p) \/ Finish(p) \/ FinishTimeout(p)

Recover(p) == Disable(p) \/ Enable(p) \/ Restop(p) \/ GiveUp(p)
              \/ NackStop(p) \/ NackStopped(p) \/ NackTimeout(p)

Next ==
  \/ \E p \in Callers : Call(p) \/ Refuse(p) \/ Interrupted(p) \/ Down(p)
                        \/ Frame(p) \/ Recover(p) \/ Up(p) \/ Return(p)
  \/ \E ch \in Channels : CoreStep(ch)

Spec == Init /\ [][Next]_vars

(* A thread inside a transfer is scheduled again and again; the semaphore's *)
(* wait list is first-in first-out, so a waiter that can get it repeatedly  *)
(* gets it.  Nothing is assumed of the core: a poll either sees the bit     *)
(* clear or runs out.                                                       *)
Fairness == \A p \in Callers : /\ WF_vars(Frame(p) \/ Recover(p) \/ Up(p) \/ Return(p))
                               /\ SF_vars(Down(p))

FairSpec == Spec /\ Fairness

-----------------------------------------------------------------------------
(* Properties.                                                              *)

(* At most one thread is inside a transfer of a channel, and the semaphore  *)
(* is taken exactly then: an error path that forgets up(), or gives it back *)
(* twice, breaks it.                                                        *)
OneOwner ==
  \A ch \in Channels :
    /\ \A p, q \in Callers : Owns(p, ch) /\ Owns(q, ch) => p = q
    /\ sem[ch] = 0 <=> \E p \in Callers : Owns(p, ch)

(* When a channel is free its core is enabled and has nothing left to do    *)
(* that moves data: the command a poll gave up on never runs in the next    *)
(* caller's time.  Only the STOP of a failed device_busy may be pending.    *)
NoOrphanCommand ==
  \A ch \in Channels :
    sem[ch] = 1 => en[ch] /\ cmd[ch] \in {"none", "STOP"}

(* Only -EBUSY may leave the bus in the middle of a frame: before any other *)
(* outcome the end of the frame was seen on the wires, and a successful one *)
(* leaves the core idle.                                                    *)
CleanHandover ==
  \A p \in Callers : pc[p] = "up" =>
    /\ ret[p] # "EBUSY" => ~Busy(req[p].ch)
    /\ ret[p] = "OK" => cmd[req[p].ch] = "none"

(* A transfer that is about to return 0 did what it says: the slave holds   *)
(* the written bytes, the buffer holds the slave's, all of them.            *)
SuccessMeansTransferred ==
  \A p \in Callers : pc[p] = "up" /\ ret[p] = "OK" =>
    LET r    == req[p]
        held == [i \in 1..r.len |-> mem[r.ch][r.addr][(r.off + i - 1) % ByteSize]]
    IN IF r.op = "read" THEN buf[p] = held ELSE r.data = held

(* A slave's byte changes only while a thread owns the channel and asked    *)
(* for that byte to be written with that value; never through a frame that  *)
(* an earlier caller abandoned.                                             *)
OnlyOwnerWrites ==
  [][\A ch \in Channels, a \in Slaves, o \in Byte :
       mem'[ch][a][o] # mem[ch][a][o] =>
         \E p \in Callers :
           /\ Owns(p, ch) /\ req[p].op = "write" /\ req[p].addr = a
           /\ \E i \in 1..req[p].len :
                /\ o = (req[p].off + i - 1) % ByteSize
                /\ mem'[ch][a][o] = req[p].data[i]]_vars

(* Every call returns, however the core behaves and whoever waits: all      *)
(* polls are bounded and every path gives the semaphore back.  Only a       *)
(* thread that died in the driver, and who waits for its channel, do not.   *)
CallReturns ==
  \A p \in Callers :
    pc[p] # "idle" ~>
      \/ pc[p] = "idle"
      \/ \E q \in Callers : /\ pc[q] = "dead"
                            /\ q = p \/ (pc[p] = "down" /\ req[q].ch = req[p].ch)
=============================================================================
