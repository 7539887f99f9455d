--------------------------- MODULE FpgaSmbusProofs ---------------------------
(***************************************************************************)
(* Type correctness and mutual exclusion of the SMBus masters, for any     *)
(* number of callers, channels, slaves and any requests.                   *)
(***************************************************************************)
EXTENDS FpgaSmbus, TLAPS

(* byte_to_rw stays within the request while bytes are moved, and a phase   *)
(* that puts nothing into TXR is never at "load".                           *)
LoopInv ==
  \A p \in Callers :
    /\ pc[p] \in {"idle", "down", "return"} => phase[p] = "addr_w"
    /\ phase[p] = "byte" => left[p] \in (LastByteOf(req[p].op) + 1)..req[p].len
    /\ pc[p] = "fetch" => phase[p] = "byte" /\ req[p].op = "read"
    /\ pc[p] = "load" => StartOf(req[p], phase[p]) = "load"

IInv == TypeOK /\ LoopInv /\ OneOwner

(* What the functions are called with: the checks and the sizes of the      *)
(* entries leave a channel, a 7-bit address, and no more bytes than "buff"  *)
(* holds.                                                                   *)
LEMMA RequestType ==
  ASSUME NEW r \in Requests
  PROVE  /\ r.op \in {"read", "write"}
         /\ r.ch \in Channels
         /\ r.addr \in Addrs
         /\ r.off \in Byte
         /\ r.len \in Nat
         /\ r.data \in Seq(Byte)
         /\ r.op = "write" => Len(r.data) = r.len
         /\ r.len <= BuffSize
         /\ r.len <= ByteSize
         /\ r.null \in BOOLEAN
<1>1. PICK a \in Accesses : Defined(a) /\ ~Refused(a) /\ r = Transfer(a)
  BY DEF Requests
<1>2. a \in IoctlAccess \/ a \in SmbusAccess
  BY FpgaAssumption
<1>3. /\ a.op \in {"read", "write"} /\ a.ch \in Nat /\ a.addr \in Nat
      /\ a.off \in Byte /\ a.data \in Seq(Byte)
  <2>1. MaxChannel \in Nat /\ Channels \subseteq Nat /\ Addrs \subseteq Nat
    BY FpgaAssumption DEF Channels, Addrs
  <2>2. CASE a \in IoctlAccess
    BY <2>1, <2>2 DEF IoctlAccess
  <2>3. CASE a \in SmbusAccess
    BY <2>1, <2>3 DEF SmbusAccess
  <2>4. QED
    BY <1>2, <2>2, <2>3
<1>4. Length(a) \in Nat
  <2>1. SizeLength(a.size) \in Nat
    BY FpgaAssumption DEF SizeLength
  <2>2. a.via = "ioctl" => a.len \in Nat
    BY <1>2 DEF IoctlAccess, SmbusAccess
  <2>3. QED
    BY <2>1, <2>2 DEF Length
<1>5. a.ch \in Channels
  BY <1>1, <1>3, FpgaAssumption DEF Defined, Refused, Channels
<1>6. a.addr % 256 \in Addrs
  <2>1. \A n \in Nat : n % 256 \in 0..255
    OBVIOUS
  <2>2. QED
    BY <1>3, <2>1 DEF Addrs
<1>7. ASSUME a.op = "write"
      PROVE  SubSeq(a.data, 1, Length(a)) \in Seq(Byte)
             /\ Len(SubSeq(a.data, 1, Length(a))) = Length(a)
  <2>1. Length(a) <= Len(a.data)
    BY <1>1, <1>7, FpgaAssumption
  <2>2. Len(a.data) \in Nat
    BY <1>3
  <2>3. QED
    BY <1>3, <1>4, <2>1, <2>2
<1>8. Length(a) <= BuffSize /\ BuffSize <= ByteSize /\ BuffSize \in Nat /\ ByteSize \in Nat
  BY <1>1, FpgaAssumption DEF Defined
<1>9. QED
  BY <1>1, <1>3, <1>4, <1>5, <1>6, <1>7, <1>8 DEF Transfer

LEMMA NoRequestType == NoRequest \in Requests
  BY FpgaAssumption DEF NoRequest

(* What Load puts into TXR is a well-formed byte. *)
LEMMA TxrForType ==
  ASSUME NEW r \in Requests, NEW ph \in Phases, NEW n \in Nat,
         StartOf(r, ph) = "load",
         ph = "byte" => n \in (LastByteOf(r.op) + 1)..r.len
  PROVE  TxrFor(r, ph, n) \in TxrValue
<1>1. CASE ph \in {"addr_w", "addr_r", "offset"}
  BY <1>1, RequestType DEF TxrFor, TxrValue
<1>2. CASE ph = "byte"
  <2>1. r.op = "write" /\ Len(r.data) = r.len /\ n \in 1..r.len
    BY <1>2, RequestType DEF StartOf, LastByteOf
  <2>2. r.len - n + 1 \in 1..Len(r.data)
    BY <2>1, RequestType
  <2>3. r.data[r.len - n + 1] \in Byte
    BY <2>2, RequestType
  <2>4. QED
    BY <1>2, <2>3 DEF TxrFor, TxrValue
<1>3. CASE ph = "last"
  BY <1>3 DEF StartOf
<1>4. QED
  BY <1>1, <1>2, <1>3 DEF Phases

LEMMA ByteWrap == ASSUME NEW b \in Byte PROVE (b + 1) % ByteSize \in Byte
  BY FpgaAssumption DEF Byte

LEMMA InitIInv == Init => IInv
<1> SUFFICES ASSUME Init PROVE IInv
  OBVIOUS
<1>1. (CHOOSE a \in Slaves : TRUE) \in Slaves
  BY FpgaAssumption
<1>2. (CHOOSE a \in Addrs : TRUE) \in Addrs
  BY DEF Addrs
<1>3. 0 \in Byte
  BY FpgaAssumption DEF Byte
<1>4. TypeOK
  BY <1>1, <1>2, <1>3, NoRequestType
  DEF Init, TypeOK, Locations, Phases, Returns, Commands, Modes, TxrValue, BusState
<1>5. LoopInv /\ OneOwner
  BY DEF Init, LoopInv, OneOwner, Owns
<1>6. QED
  BY <1>4, <1>5 DEF IInv

(* The bus after one of its fields changed. *)
LEMMA BusUpdate ==
  ASSUME TypeOK, NEW ch \in Channels, NEW a \in Slaves, NEW m \in Modes, NEW t \in Byte
  PROVE  /\ [bus EXCEPT ![ch].mode = m] \in [Channels -> BusState]
         /\ [bus EXCEPT ![ch].addr = a, ![ch].mode = m] \in [Channels -> BusState]
         /\ [bus EXCEPT ![ch].ptr = t] \in [Channels -> BusState]
         /\ [bus EXCEPT ![ch].ptr = t, ![ch].mode = m] \in [Channels -> BusState]
<1>1. bus \in [Channels -> BusState]
  BY DEF TypeOK
<1>2. ASSUME NEW v \in BusState PROVE [bus EXCEPT ![ch] = v] \in [Channels -> BusState]
  BY <1>1
<1>3. bus[ch] \in BusState
  BY <1>1
<1>4. /\ [bus[ch] EXCEPT !.mode = m] \in BusState
      /\ [bus[ch] EXCEPT !.addr = a, !.mode = m] \in BusState
      /\ [bus[ch] EXCEPT !.ptr = t] \in BusState
      /\ [bus[ch] EXCEPT !.ptr = t, !.mode = m] \in BusState
  BY <1>3 DEF BusState
<1>5. /\ [bus EXCEPT ![ch].mode = m] = [bus EXCEPT ![ch] = [bus[ch] EXCEPT !.mode = m]]
      /\ [bus EXCEPT ![ch].ptr = t] = [bus EXCEPT ![ch] = [bus[ch] EXCEPT !.ptr = t]]
      /\ [bus EXCEPT ![ch].addr = a, ![ch].mode = m]
           = [bus EXCEPT ![ch] = [bus[ch] EXCEPT !.addr = a, !.mode = m]]
      /\ [bus EXCEPT ![ch].ptr = t, ![ch].mode = m]
           = [bus EXCEPT ![ch] = [bus[ch] EXCEPT !.ptr = t, !.mode = m]]
  BY <1>1
<1>6. QED
  BY <1>2, <1>4, <1>5

(* A command written by the driver keeps the registers' types. *)
LEMMA IssueType ==
  ASSUME TypeOK, NEW ch \in Channels, NEW c \in Commands, Issue(ch, c)
  PROVE  /\ cmd' \in [Channels -> Commands]
         /\ bus' \in [Channels -> BusState]
<1>1. cmd' \in [Channels -> Commands]
  BY DEF TypeOK, Issue, Commands
<1>2. bus' = bus \/ bus' = [bus EXCEPT ![ch].mode = "closed"]
  BY DEF Issue
<1>3. bus' \in [Channels -> BusState]
  <2>1. [bus EXCEPT ![ch].mode = "closed"] \in [Channels -> BusState]
    <3>1. "closed" \in Modes
      BY DEF Modes
    <3>2. Slaves # {} /\ 0 \in Byte
      BY FpgaAssumption DEF Byte
    <3>3. QED
      BY <3>1, <3>2, BusUpdate
  <2>2. QED
    BY <1>2, <2>1 DEF TypeOK
<1>4. QED
  BY <1>1, <1>3

(* The steps outside the semaphore keep the channels' owners.               *)
LEMMA CallStep ==
  ASSUME IInv, NEW p \in Callers, Call(p) \/ Refuse(p) \/ Interrupted(p) \/ Return(p)
  PROVE  IInv'
<1> USE NoRequestType DEF IInv
<1>1. TypeOK'
  <2>1. CASE Call(p)
    <3>1. PICK a \in Accesses : /\ Defined(a) /\ ~Refused(a)
                               /\ req' = [req EXCEPT ![p] = Transfer(a)]
      BY <2>1 DEF Call
    <3>2. Transfer(a) \in Requests
      BY <3>1 DEF Requests
    <3>3. QED
      BY <2>1, <3>1, <3>2 DEF TypeOK, Call, Locations, coreVars, wireVars
  <2>2. CASE Refuse(p)
    BY <2>2 DEF TypeOK, Refuse, Answer, Locations, Phases, Returns, coreVars, wireVars
  <2>3. CASE Interrupted(p)
    BY <2>3 DEF TypeOK, Interrupted, Answer, Locations, Phases, Returns, coreVars, wireVars
  <2>4. CASE Return(p)
    BY <2>4 DEF TypeOK, Return, Locations, Returns, coreVars, wireVars
  <2>5. QED
    BY <2>1, <2>2, <2>3, <2>4
<1>2. LoopInv'
  BY DEF TypeOK, LoopInv, Call, Refuse, Interrupted, Return, Answer
<1>3. OneOwner'
  <2>1. ASSUME NEW q \in Callers, NEW ch \in Channels
        PROVE  Owns(q, ch)' <=> Owns(q, ch)
    BY DEF TypeOK, Owns, Call, Refuse, Interrupted, Return, Answer
  <2>2. sem' = sem
    BY DEF Call, Refuse, Interrupted, Return
  <2>3. QED
    BY <2>1, <2>2 DEF OneOwner
<1>4. QED
  BY <1>1, <1>2, <1>3

LEMMA DownStep == ASSUME IInv, NEW p \in Callers, Down(p) PROVE IInv'
<1> USE DEF IInv
<1>1. req[p].ch \in Channels
  BY RequestType DEF TypeOK
<1>2. sem[req[p].ch] = 1 /\ sem' = [sem EXCEPT ![req[p].ch] = 0]
  <2>1. sem[req[p].ch] = 1
    BY <1>1 DEF TypeOK, Down
  <2>2. sem' = [sem EXCEPT ![req[p].ch] = sem[req[p].ch] - 1]
    BY DEF Down
  <2>3. sem[req[p].ch] - 1 = 0
    BY <2>1
  <2>4. QED
    BY <2>1, <2>2, <2>3
<1>3. TypeOK'
  BY <1>1, <1>2 DEF TypeOK, Down, Locations, coreVars, wireVars
<1>4. LoopInv'
  BY DEF TypeOK, LoopInv, Down, StartOf
<1>5. OneOwner'
  <2>1. \A q \in Callers : ~Owns(q, req[p].ch)
    BY <1>1, <1>2 DEF OneOwner
  <2>2. ASSUME NEW q \in Callers, NEW ch \in Channels
        PROVE  Owns(q, ch)' <=> Owns(q, ch) \/ (q = p /\ ch = req[p].ch)
    BY DEF TypeOK, Owns, Down
  <2>3. ASSUME NEW ch \in Channels
        PROVE  sem'[ch] = IF ch = req[p].ch THEN 0 ELSE sem[ch]
    BY <1>2 DEF TypeOK
  <2>4. QED
    BY <2>1, <2>2, <2>3 DEF OneOwner
<1>6. QED
  BY <1>3, <1>4, <1>5

LEMMA UpStep == ASSUME IInv, NEW p \in Callers, Up(p) PROVE IInv'
<1> USE DEF IInv
<1>1. req[p].ch \in Channels
  BY RequestType DEF TypeOK
<1>2. Owns(p, req[p].ch)
  BY DEF Owns, Up
<1>3. sem[req[p].ch] = 0 /\ sem' = [sem EXCEPT ![req[p].ch] = 1]
  <2>1. sem[req[p].ch] = 0
    BY <1>1, <1>2 DEF OneOwner
  <2>2. sem' = [sem EXCEPT ![req[p].ch] = sem[req[p].ch] + 1]
    BY DEF Up
  <2>3. sem[req[p].ch] + 1 = 1
    BY <2>1
  <2>4. QED
    BY <2>1, <2>2, <2>3
<1>4. TypeOK'
  BY <1>1, <1>3, NoRequestType
  DEF TypeOK, Up, Answer, Locations, Phases, coreVars, wireVars
<1>5. LoopInv'
  BY DEF TypeOK, LoopInv, Up, Answer
<1>6. OneOwner'
  <2>1. ASSUME NEW q \in Callers, NEW ch \in Channels
        PROVE  Owns(q, ch)' <=> Owns(q, ch) /\ q # p
    BY DEF TypeOK, Owns, Up, Answer
  <2>2. ASSUME NEW q \in Callers, Owns(q, req[p].ch) PROVE q = p
    BY <1>1, <1>2, <2>2 DEF OneOwner
  <2>3. ASSUME NEW ch \in Channels
        PROVE  sem'[ch] = IF ch = req[p].ch THEN 1 ELSE sem[ch]
    BY <1>3 DEF TypeOK
  <2>4. ASSUME NEW ch \in Channels, Owns(p, ch) PROVE ch = req[p].ch
    BY <2>4 DEF Owns
  <2>5. QED
    BY <2>1, <2>2, <2>3, <2>4 DEF OneOwner
<1>7. QED
  BY <1>4, <1>5, <1>6

(* Inside a transfer a caller keeps its channel and the semaphore is not    *)
(* touched: OneOwner is preserved.                                          *)
LEMMA StillOwner ==
  ASSUME IInv, NEW p \in Callers,
         pc[p] \notin {"idle", "down", "return"},
         pc' = [pc EXCEPT ![p] = pc'[p]], pc'[p] \notin {"idle", "down", "return"},
         UNCHANGED <<req, sem>>
  PROVE  OneOwner'
<1>1. ASSUME NEW q \in Callers, NEW ch \in Channels
      PROVE  Owns(q, ch)' <=> Owns(q, ch)
  BY DEF IInv, TypeOK, Owns
<1>2. QED
  BY <1>1 DEF IInv, OneOwner

LEMMA FrameStep == ASSUME IInv, NEW p \in Callers, Frame(p) PROVE IInv'
<1> USE DEF IInv
<1>1. req[p] \in Requests /\ req[p].ch \in Channels
  BY RequestType DEF TypeOK
<1>2. OneOwner'
  <2>1. /\ pc[p] \notin {"idle", "down", "return"}
        /\ pc' = [pc EXCEPT ![p] = pc'[p]]
        /\ pc'[p] \notin {"idle", "down", "return"}
        /\ UNCHANGED <<req, sem>>
    BY DEF TypeOK, Frame, Load, Command, TipDone, TipTimeout, AckSeen, NoAck, Fetch,
           Finish, FinishTimeout, Enter, StartOf
  <2>2. QED
    BY <2>1, StillOwner
<1>3. CASE Load(p)
  <2>1. TxrFor(req[p], phase[p], left[p]) \in TxrValue
    BY <1>1, <1>3, TxrForType DEF TypeOK, LoopInv, Load
  <2>2. txr' \in [Channels -> TxrValue]
    BY <1>3, <2>1 DEF TypeOK, Load
  <2>3. TypeOK'
    BY <1>3, <2>2 DEF TypeOK, Load, Locations, wireVars
  <2>4. LoopInv'
    BY <1>3 DEF TypeOK, LoopInv, Load
  <2>5. QED
    BY <1>2, <2>3, <2>4
<1>4. CASE Command(p)
  <2>1. CommandOf(req[p], phase[p]) \in Commands
    BY DEF CommandOf, Commands
  <2>2. /\ cmd' \in [Channels -> Commands]
        /\ bus' \in [Channels -> BusState]
    BY <1>1, <1>4, <2>1, IssueType DEF Command
  <2>3. TypeOK'
    BY <1>4, <2>2 DEF TypeOK, Command, Locations
  <2>4. LoopInv'
    BY <1>4 DEF TypeOK, LoopInv, Command
  <2>5. QED
    BY <1>2, <2>3, <2>4
<1>5. CASE TipDone(p) \/ TipTimeout(p) \/ NoAck(p) \/ FinishTimeout(p)
  <2>1. TypeOK'
    BY <1>5 DEF TypeOK, TipDone, TipTimeout, NoAck, FinishTimeout, Locations,
                coreVars, wireVars
  <2>2. LoopInv'
    BY <1>5 DEF TypeOK, LoopInv, TipDone, TipTimeout, NoAck, FinishTimeout
  <2>3. QED
    BY <1>2, <2>1, <2>2
<1>6. CASE AckSeen(p)
  <2> DEFINE n == LeftAfterAck(p)
  <2>1. n \in Nat
    BY <1>1, RequestType DEF TypeOK, LoopInv, LeftAfterAck, LastByteOf
  <2>2. phase[p] = "byte" => n <= req[p].len
    BY <1>1, RequestType DEF TypeOK, LoopInv, LeftAfterAck, LastByteOf
  <2>3. phase[p] # "byte" => n = req[p].len
    BY DEF LeftAfterAck
  <2>4. CASE phase[p] = "byte" /\ req[p].op = "read"
    BY <1>2, <1>6, <2>1, <2>4
    DEF TypeOK, LoopInv, AckSeen, LeftAfterAck, Locations, coreVars, wireVars
  <2>5. CASE ~(phase[p] = "byte" /\ req[p].op = "read")
    <3> DEFINE ph == PhaseAfter(req[p], phase[p], n)
    <3>1. ph \in Phases
      BY DEF PhaseAfter, DataPhase, Phases
    <3>2. ph = "byte" => n \in (LastByteOf(req[p].op) + 1)..req[p].len
      BY <1>1, <2>1, <2>2, <2>3, RequestType DEF PhaseAfter, DataPhase, LastByteOf
    <3>3. /\ phase' = [phase EXCEPT ![p] = ph]
          /\ left' = [left EXCEPT ![p] = n]
          /\ pc' = [pc EXCEPT ![p] = StartOf(req[p], ph)]
          /\ UNCHANGED <<req, buf, ret, sem, coreVars, wireVars>>
      BY <1>6, <2>5 DEF AckSeen, Enter
    <3> HIDE DEF n, ph
    <3>4. StartOf(req[p], ph) \in {"load", "command"}
      BY DEF StartOf
    <3>5. TypeOK'
      BY <2>1, <3>1, <3>3, <3>4 DEF TypeOK, Locations, coreVars, wireVars
    <3>6. LoopInv'
      BY <3>2, <3>3, <3>4 DEF TypeOK, LoopInv
    <3>7. QED
      BY <1>2, <3>5, <3>6
  <2>6. QED
    BY <2>4, <2>5
<1>7. CASE Fetch(p)
  <2> DEFINE ph == DataPhase(req[p], left[p] - 1)
  <2>1. phase[p] = "byte" /\ req[p].op = "read" /\ left[p] \in 2..req[p].len
    BY <1>7 DEF LoopInv, Fetch, LastByteOf
  <2>2. left[p] - 1 \in Nat /\ left[p] - 1 <= req[p].len
    BY <1>1, <2>1, RequestType
  <2>3. ph \in {"byte", "last"}
    BY DEF DataPhase
  <2>4. ph = "byte" => left[p] - 1 \in (LastByteOf(req[p].op) + 1)..req[p].len
    BY <1>1, <2>1, <2>2, RequestType DEF DataPhase, LastByteOf
  <2>5. /\ phase' = [phase EXCEPT ![p] = ph]
        /\ left' = [left EXCEPT ![p] = left[p] - 1]
        /\ pc' = [pc EXCEPT ![p] = "command"]
        /\ buf' = [buf EXCEPT ![p] = Append(buf[p], rxr[req[p].ch])]
        /\ UNCHANGED <<req, ret, sem, coreVars, wireVars>>
    BY <1>7, <2>1, <2>3 DEF Fetch, Enter, StartOf
  <2> HIDE DEF ph
  <2>6. Append(buf[p], rxr[req[p].ch]) \in Seq(Byte)
    BY <1>1 DEF TypeOK
  <2>7. TypeOK'
    BY <2>2, <2>3, <2>5, <2>6 DEF TypeOK, Locations, Phases, coreVars, wireVars
  <2>8. LoopInv'
    BY <2>4, <2>5, <2>3 DEF TypeOK, LoopInv
  <2>9. QED
    BY <1>2, <2>7, <2>8
<1>8. CASE Finish(p)
  <2>1. Append(buf[p], rxr[req[p].ch]) \in Seq(Byte)
    BY <1>1 DEF TypeOK
  <2>2. TypeOK'
    BY <1>8, <2>1 DEF TypeOK, Finish, Locations, Returns, coreVars, wireVars
  <2>3. LoopInv'
    BY <1>8 DEF TypeOK, LoopInv, Finish
  <2>4. QED
    BY <1>2, <2>2, <2>3
<1>9. QED
  BY <1>3, <1>4, <1>5, <1>6, <1>7, <1>8 DEF Frame

LEMMA RecoverStep == ASSUME IInv, NEW p \in Callers, Recover(p) PROVE IInv'
<1> USE DEF IInv
<1>1. req[p].ch \in Channels
  BY RequestType DEF TypeOK
<1>2. OneOwner'
  <2>1. /\ pc[p] \notin {"idle", "down", "return"}
        /\ pc' = [pc EXCEPT ![p] = pc'[p]]
        /\ pc'[p] \notin {"idle", "down", "return"}
        /\ UNCHANGED <<req, sem>>
    BY DEF TypeOK, Recover, Disable, Enable, Restop, GiveUp, NackStop, NackStopped,
           NackTimeout
  <2>2. QED
    BY <2>1, StillOwner
<1>3. TypeOK'
  <2>1. CASE Disable(p) \/ Enable(p)
    BY <2>1 DEF TypeOK, Disable, Enable, Locations, Commands, wireVars
  <2>2. CASE Restop(p) \/ NackStop(p)
    <3>1. /\ cmd' \in [Channels -> Commands]
          /\ bus' \in [Channels -> BusState]
      BY <1>1, <2>2, IssueType DEF Restop, NackStop, Commands
    <3>2. QED
      BY <2>2, <3>1 DEF TypeOK, Restop, NackStop, Locations
  <2>3. CASE GiveUp(p) \/ NackStopped(p) \/ NackTimeout(p)
    BY <2>3 DEF TypeOK, GiveUp, NackStopped, NackTimeout, Locations, Returns,
                coreVars, wireVars
  <2>4. QED
    BY <2>1, <2>2, <2>3 DEF Recover
<1>4. LoopInv'
  BY DEF TypeOK, LoopInv, Recover, Disable, Enable, Restop, GiveUp, NackStop,
         NackStopped, NackTimeout
<1>5. QED
  BY <1>2, <1>3, <1>4

(* The hardware touches no caller and no semaphore.                         *)
LEMMA CoreStepKeeps == ASSUME IInv, NEW ch \in Channels, CoreStep(ch) PROVE IInv'
<1> USE DEF IInv
<1>1. LoopInv' /\ OneOwner'
  BY DEF LoopInv, OneOwner, Owns, CoreStep, callerVars
<1>2. bus' \in [Channels -> BusState]
  <2>1. /\ bus \in [Channels -> BusState]
        /\ \A m \in {"write", "closed", "ignored", "offset", "read"} : m \in Modes
    BY DEF TypeOK, Modes
  <2>2. bus[ch].addr \in Slaves /\ bus[ch].mode \in Modes /\ bus[ch].ptr \in Byte
    BY DEF TypeOK, BusState
  <2>3. (bus[ch].ptr + 1) % ByteSize \in Byte
    BY <2>2, ByteWrap
  <2>4. txr[ch].kind = "b" => txr[ch].val \in Byte
    BY DEF TypeOK, TxrValue
  <2>5. CASE CoreStart(ch)
    <3>1. CASE bus' = [bus EXCEPT ![ch].mode = "ignored"]
      <4>1. [bus EXCEPT ![ch].mode = "ignored"] \in [Channels -> BusState]
        BY <2>1, <2>2, BusUpdate
      <4>2. QED
        BY <3>1, <4>1
    <3>2. ASSUME NEW m \in {"read", "offset"}, txr[ch].val \in Slaves,
                 bus' = [bus EXCEPT ![ch].addr = txr[ch].val, ![ch].mode = m]
          PROVE  bus' \in [Channels -> BusState]
      <4>1. [bus EXCEPT ![ch].addr = txr[ch].val, ![ch].mode = m] \in [Channels -> BusState]
        BY <2>1, <2>2, <3>2, BusUpdate
      <4>2. QED
        BY <3>2, <4>1
    <3>3. \/ bus' = [bus EXCEPT ![ch].mode = "ignored"]
          \/ /\ txr[ch].val \in Slaves
             /\ \E m \in {"read", "offset"} :
                  bus' = [bus EXCEPT ![ch].addr = txr[ch].val, ![ch].mode = m]
      BY <2>5 DEF CoreStart
    <3>4. QED
      BY <3>1, <3>2, <3>3
  <2>6. CASE CoreWrite(ch)
    <3> DEFINE moved == [bus EXCEPT ![ch].ptr = (bus[ch].ptr + 1) % ByteSize]
               aimed == [bus EXCEPT ![ch].ptr = txr[ch].val, ![ch].mode = "write"]
    <3>1. moved \in [Channels -> BusState]
      BY <2>2, <2>3, BusUpdate
    <3>2. txr[ch].kind = "b" => aimed \in [Channels -> BusState]
      BY <2>1, <2>2, <2>4, BusUpdate
    <3>3. bus' = bus \/ bus' = moved \/ (txr[ch].kind = "b" /\ bus' = aimed)
      BY <2>6 DEF CoreWrite
    <3>4. QED
      BY <2>1, <3>1, <3>2, <3>3
  <2>7. CASE CoreRead(ch)
    <3>1. [bus EXCEPT ![ch].ptr = (bus[ch].ptr + 1) % ByteSize] \in [Channels -> BusState]
      BY <2>1, <2>2, <2>3, BusUpdate
    <3>2. QED
      BY <2>7, <3>1 DEF CoreRead
  <2>8. CASE CoreStop(ch)
    BY <2>1, <2>2, <2>8, BusUpdate DEF CoreStop
  <2>9. QED
    BY <2>5, <2>6, <2>7, <2>8 DEF CoreStep
<1>3. bus[ch].addr \in Slaves /\ bus[ch].ptr \in Byte
  BY DEF TypeOK, BusState
<1>4. mem' \in [Channels -> [Slaves -> [Byte -> Byte]]]
  <2>1. CASE CoreWrite(ch)
    <3>1. txr[ch].kind = "b" => txr[ch].val \in Byte
      BY DEF TypeOK, TxrValue
    <3>2. \/ mem' = mem
          \/ /\ txr[ch].kind = "b"
             /\ mem' = [mem EXCEPT ![ch][bus[ch].addr][bus[ch].ptr] = txr[ch].val]
      BY <2>1 DEF CoreWrite
    <3>3. ASSUME NEW v \in Byte
          PROVE  [mem EXCEPT ![ch][bus[ch].addr][bus[ch].ptr] = v]
                   \in [Channels -> [Slaves -> [Byte -> Byte]]]
      BY <1>3 DEF TypeOK
    <3>4. mem \in [Channels -> [Slaves -> [Byte -> Byte]]]
      BY DEF TypeOK
    <3>5. QED
      BY <3>1, <3>2, <3>3, <3>4
  <2>2. CASE ~CoreWrite(ch)
    BY <2>2 DEF TypeOK, CoreStep, CoreStart, CoreRead, CoreStop
  <2>3. QED
    BY <2>1, <2>2
<1>5. nak' \in [Channels -> BOOLEAN]
  BY DEF TypeOK, CoreStep, CoreStart, CoreWrite, CoreRead, CoreStop
<1>6. rxr' \in [Channels -> Byte]
  <2>1. mem[ch][bus[ch].addr][bus[ch].ptr] \in Byte
    BY <1>3 DEF TypeOK
  <2>2. rxr' = rxr \/ \E b \in Byte : rxr' = [rxr EXCEPT ![ch] = b]
    BY <2>1 DEF CoreStep, CoreStart, CoreWrite, CoreRead, CoreStop
  <2>3. QED
    BY <2>2 DEF TypeOK
<1>7. TypeOK'
  BY <1>2, <1>4, <1>5, <1>6 DEF TypeOK, CoreStep, callerVars, Commands
<1>8. QED
  BY <1>1, <1>7

LEMMA NextIInv == IInv /\ [Next]_vars => IInv'
<1> SUFFICES ASSUME IInv, [Next]_vars PROVE IInv'
  OBVIOUS
<1>1. ASSUME NEW p \in Callers,
             \/ Call(p) \/ Refuse(p) \/ Interrupted(p) \/ Down(p)
             \/ Frame(p) \/ Recover(p) \/ Up(p) \/ Return(p)
      PROVE  IInv'
  BY <1>1, CallStep, DownStep, FrameStep, RecoverStep, UpStep
<1>2. ASSUME NEW ch \in Channels, CoreStep(ch) PROVE IInv'
  BY <1>2, CoreStepKeeps
<1>3. CASE UNCHANGED vars
  BY <1>3 DEF IInv, TypeOK, LoopInv, OneOwner, Owns, vars, callerVars, coreVars, wireVars
<1>4. QED
  BY <1>1, <1>2, <1>3 DEF Next

(* Every variable keeps its type: in particular no error path ever gives a  *)
(* semaphore back twice.                                                    *)
THEOREM TypeCorrect == Spec => []TypeOK
<1>1. IInv => TypeOK
  BY DEF IInv
<1>2. QED
  BY InitIInv, NextIInv, <1>1, PTL DEF Spec

(* Transfers of a channel exclude each other, and a free channel has a free *)
(* semaphore (fpga_smbus_read/_write between down_interruptible and up).    *)
THEOREM MutualExclusion == Spec => []OneOwner
<1>1. IInv => OneOwner
  BY DEF IInv
<1>2. QED
  BY InitIInv, NextIInv, <1>1, PTL DEF Spec
=============================================================================
