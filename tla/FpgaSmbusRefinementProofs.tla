----------------------- MODULE FpgaSmbusRefinementProofs -----------------------
(***************************************************************************)
(* The driver implements SlaveAccess, for any number of callers, channels  *)
(* and slaves and any requests: every step of RSpec is a step of Abs!Spec  *)
(* or leaves its variables unchanged.                                      *)
(***************************************************************************)
EXTENDS FpgaSmbusRefinement, FpgaSmbusTransferProofs

(* The slaves of p's channel hold what they held when p took the channel,   *)
(* but for the first n bytes of p's request.                                *)
Kept(p, n) ==
  LET r == req[p] IN
  /\ \A i \in 0..(n - 1) : Held(p, i) = r.data[i + 1]
  /\ \A a \in Slaves, o \in Byte :
       a # r.addr \/ (\A i \in 0..(n - 1) : Cell(r, i) # o) =>
         mem[r.ch][a][o] = snap[r.ch][a][o]

(* How many bytes that may be at p's place in the frame.                    *)
Stage(p, n) ==
  /\ n > 0 => req[p].op = "write" /\ phase[p] \in {"byte", "last"}
  /\ phase[p] = "byte" /\ req[p].op = "write" =>
       /\ pc[p] \in {"load", "command"} \/ cmd[req[p].ch] = "WRITE" => n = Moved(p)
       /\ pc[p] \in {"tip", "ack"} => n \in {Moved(p), Moved(p) + 1}

SnapOK(p) ==
  /\ phase[p] \in {"addr_r", "byte", "last"} => req[p].addr \in Slaves
  /\ pc[p] = "up" /\ ret[p] = "OK" =>
       phase[p] = "last" /\ (req[p].op = "write" => Len(buf[p]) = 0)
  /\ pc[p] \notin Outside => \E n \in 0..req[p].len : Kept(p, n) /\ Stage(p, n)

SnapInv ==
  /\ snap \in [Channels -> [Slaves -> [Byte -> Byte]]]
  /\ \A p \in Callers : SnapOK(p)
  /\ \A ch \in Channels : sem[ch] = 1 => snap[ch] = mem[ch]

-----------------------------------------------------------------------------
(* What RStep does to the snapshot of one channel.                          *)
LEMMA SnapStep ==
  ASSUME RStep, FullInv, FullInv', SnapInv
  PROVE  /\ snap' \in [Channels -> [Slaves -> [Byte -> Byte]]]
         /\ \A ch \in Channels : sem'[ch] = 1 => snap'[ch] = mem'[ch]
         /\ \A ch \in Channels : sem[ch] = 0 /\ sem'[ch] = 0 => snap'[ch] = snap[ch]
         /\ \A ch \in Channels : sem[ch] = 1 => snap'[ch] = mem'[ch]
  BY DEF RStep, FullInv, IInv, TypeOK, SnapInv

LEMMA Awake ==
  ASSUME IInv, NEW q \in Callers, pc[q] \notin Outside
  PROVE  req[q].ch \in Channels /\ Owns(q, req[q].ch) /\ sem[req[q].ch] = 0
<1>1. req[q].ch \in Channels
  BY RequestType DEF IInv, TypeOK
<1>2. Owns(q, req[q].ch)
  BY DEF Owns, Outside
<1>3. QED
  BY <1>1, <1>2 DEF IInv, OneOwner

(* The snapshot of a channel stays while its owner is inside.               *)
LEMMA OwnedSnap ==
  ASSUME RStep, FullInv, FullInv', SnapInv, NEW q \in Callers,
         pc[q] \notin Outside, pc'[q] \notin Outside, req'[q] = req[q]
  PROVE  snap'[req[q].ch] = snap[req[q].ch]
<1>1. req[q].ch \in Channels /\ sem[req[q].ch] = 0
  BY Awake DEF FullInv
<1>2. sem'[req[q].ch] = 0
  <2>1. ASSUME NEW ch \in Channels, Owns(q, ch)' PROVE sem'[ch] = 0
    BY <2>1 DEF FullInv, IInv, OneOwner
  <2>2. ASSUME NEW ch \in Channels, ch = req[q].ch PROVE Owns(q, ch)'
    BY <2>2 DEF Owns, Outside
  <2>3. QED
    BY <1>1, <2>1, <2>2
<1>3. QED
  BY <1>1, <1>2, SnapStep

LEMMA KeptStays ==
  ASSUME NEW q \in Callers, req'[q] = req[q], mem'[req[q].ch] = mem[req[q].ch],
         snap'[req[q].ch] = snap[req[q].ch]
  PROVE  \A n : Kept(q, n)' = Kept(q, n)
<1>1. ASSUME NEW n PROVE Kept(q, n)' = Kept(q, n)
  BY DEF Kept, Held, Cell
<1>2. QED
  BY <1>1

(* A caller that a step leaves alone.                                       *)
LEMMA SnapUnmoved ==
  ASSUME RStep, FullInv, FullInv', SnapInv, NEW q \in Callers, SameCaller(q),
         pc[q] \in Outside \/ SameChannel(req[q].ch)
  PROVE  SnapOK(q)'
<1>1. SnapOK(q)
  BY DEF SnapInv
<1>2. CASE pc[q] \in Outside
  BY <1>1, <1>2 DEF SnapOK, SameCaller, SamePlace, Outside
<1>3. CASE pc[q] \notin Outside
  <2>1. snap'[req[q].ch] = snap[req[q].ch]
    BY <1>3, OwnedSnap DEF SameCaller, SamePlace
  <2>2. SameChannel(req[q].ch)
    BY <1>3
  <2>3. \A n : Kept(q, n)' = Kept(q, n)
    BY <2>1, <2>2, KeptStays DEF SameCaller, SamePlace, SameChannel, SameWires
  <2>4. \A n : Stage(q, n)' = Stage(q, n)
    BY <2>2 DEF Stage, Moved, SameCaller, SamePlace, SameChannel
  <2>5. QED
    BY <1>1, <2>3, <2>4 DEF SnapOK, SameCaller, SamePlace
<1>4. QED
  BY <1>2, <1>3

(* A step of p on the channel it owns.                                      *)
LEMMA SnapOneMoves ==
  ASSUME RStep, FullInv, FullInv', SnapInv, NEW p \in Callers,
         \A q \in Callers \ {p} : SameCaller(q),
         \A ch \in Channels : Owns(p, ch) \/ SameChannel(ch),
         SnapOK(p)'
  PROVE  SnapInv'
<1>1. ASSUME NEW q \in Callers, q # p PROVE SnapOK(q)'
  <2>1. SameCaller(q)
    BY <1>1
  <2>2. CASE pc[q] \in Outside
    BY <2>1, <2>2, SnapUnmoved
  <2>3. CASE pc[q] \notin Outside
    <3>1. req[q].ch \in Channels /\ Owns(q, req[q].ch)
      BY <2>3, Awake DEF FullInv
    <3>2. ~Owns(p, req[q].ch)
      BY <1>1, <3>1 DEF FullInv, IInv, OneOwner
    <3>3. QED
      BY <2>1, <3>1, <3>2, SnapUnmoved
  <2>4. QED
    BY <2>2, <2>3
<1>2. QED
  BY <1>1, SnapStep DEF SnapInv

(* p goes from one place of a transfer to another without moving a byte.    *)
LEMMA PlaceMoves ==
  ASSUME RStep, FullInv, FullInv', SnapInv, NEW p \in Callers,
         \A q \in Callers \ {p} : SameCaller(q),
         \A ch \in Channels \ {req[p].ch} : SameChannel(ch),
         pc[p] \notin Outside, pc'[p] \notin Outside, SamePlace(p), mem' = mem,
         cmd'[req[p].ch] = "WRITE" =>
           cmd[req[p].ch] = "WRITE" \/ pc[p] \in {"load", "command"},
         pc'[p] \in {"load", "command"} => pc[p] \in {"load", "command"},
         pc'[p] \in {"tip", "ack"} => pc[p] \in {"load", "command", "tip", "ack"},
         pc'[p] = "up" /\ ret'[p] = "OK" =>
           phase[p] = "last" /\ (req[p].op = "write" => Len(buf'[p]) = 0)
  PROVE  SnapInv'
<1>1. SnapOK(p)
  BY DEF SnapInv
<1>2. PICK n \in 0..req[p].len : Kept(p, n) /\ Stage(p, n)
  BY <1>1 DEF SnapOK
<1>3. Kept(p, n)'
  BY <1>2, OwnedSnap, KeptStays DEF SamePlace
<1>4. Stage(p, n)'
  BY <1>2 DEF Stage, Moved, SamePlace
<1>5. SnapOK(p)'
  BY <1>1, <1>3, <1>4 DEF SnapOK, SamePlace
<1>6. \A ch \in Channels : Owns(p, ch) \/ SameChannel(ch)
  BY Awake DEF FullInv
<1>7. QED
  BY <1>5, <1>6, SnapOneMoves

-----------------------------------------------------------------------------
LEMMA PlaceSteps ==
  ASSUME RStep, FullInv, FullInv', SnapInv, NEW p \in Callers,
         \/ Load(p) \/ PollStep(p) \/ Disable(p) \/ Enable(p)
         \/ Restop(p) \/ NackStop(p) \/ Command(p) \/ Finish(p)
  PROVE  SnapInv'
<1> DEFINE ch == req[p].ch
<1> USE DEF FullInv
<1>1. ch \in Channels
  BY RequestType DEF IInv, TypeOK
<1>2. /\ \A q \in Callers \ {p} : SameCaller(q)
      /\ SamePlace(p) /\ mem' = mem
  BY DEF IInv, TypeOK, Load, PollStep, Disable, Enable, Restop, NackStop, Command, Finish,
         TipDone, TipTimeout, NoAck, FinishTimeout, GiveUp, NackStopped, NackTimeout,
         SameCaller, SamePlace, coreVars, wireVars
<1>3. /\ \A d \in Channels \ {ch} : SameChannel(d)
      /\ cmd'[ch] = "WRITE" => cmd[ch] = "WRITE" \/ pc[p] \in {"load", "command"}
  <2>1. CASE Load(p) \/ PollStep(p) \/ Disable(p) \/ Enable(p) \/ Finish(p)
    BY <1>1, <2>1
    DEF IInv, TypeOK, Load, PollStep, Disable, Enable, Finish,
        TipDone, TipTimeout, NoAck, FinishTimeout, GiveUp, NackStopped, NackTimeout,
        SameChannel, SameWires, coreVars, wireVars
  <2>2. ASSUME NEW c, Issue(ch, c)
        PROVE  /\ \A d \in Channels \ {ch} : cmd'[d] = cmd[d] /\ bus'[d] = bus[d]
               /\ cmd'[ch] \in {c, "none"}
    BY <1>1, <2>2 DEF IInv, TypeOK, Issue
  <2>3. CASE Restop(p) \/ NackStop(p)
    <3>1. Issue(ch, "STOP")
      BY <2>3 DEF Restop, NackStop
    <3>2. QED
      BY <2>2, <2>3, <3>1 DEF Restop, NackStop, SameChannel, SameWires
  <2>4. CASE Command(p)
    <3>1. Issue(ch, CommandOf(req[p], phase[p]))
      BY <2>4 DEF Command
    <3>2. QED
      BY <2>2, <2>4, <3>1 DEF Command, SameChannel, SameWires
  <2>5. QED
    BY <2>1, <2>3, <2>4
<1>4. /\ pc[p] \notin Outside /\ pc'[p] \notin Outside
      /\ pc'[p] \in {"load", "command"} => pc[p] \in {"load", "command"}
      /\ pc'[p] \in {"tip", "ack"} => pc[p] \in {"load", "command", "tip", "ack"}
      /\ pc'[p] = "up" /\ ret'[p] = "OK" => Finish(p)
  BY DEF IInv, TypeOK, Load, PollStep, Disable, Enable, Restop, NackStop, Command, Finish,
         TipDone, TipTimeout, NoAck, FinishTimeout, GiveUp, NackStopped, NackTimeout, Outside
<1>5. ASSUME Finish(p)
      PROVE  phase[p] = "last" /\ (req[p].op = "write" => Len(buf'[p]) = 0)
  <2>1. pc[p] = "last" /\ ChannelOK(p) /\ BytesOK(p)
    BY <1>5 DEF Finish, TransferInv, CallerOK, Outside, InFrame
  <2>2. phase[p] = "last"
    BY <2>1 DEF ChannelOK
  <2>3. req[p].op = "write" => buf'[p] = buf[p]
    BY <1>5 DEF Finish, IInv, TypeOK
  <2>4. QED
    BY <2>1, <2>2, <2>3 DEF BytesOK
<1>6. QED
  BY <1>2, <1>3, <1>4, <1>5, PlaceMoves

(* The byte just acknowledged is in the slave.                              *)
LEMMA AckMoves ==
  ASSUME RStep, FullInv, FullInv', SnapInv, NEW p \in Callers, AckSeen(p)
  PROVE  SnapInv'
<1> DEFINE ch == req[p].ch
           r  == req[p]
<1> USE DEF FullInv
<1>1. /\ ch \in Channels /\ r.op \in {"read", "write"} /\ r.len \in Nat
      /\ left[p] \in Nat /\ phase[p] \in Phases
      /\ (phase[p] = "byte" => left[p] \in (LastByteOf(r.op) + 1)..r.len)
  BY RequestType DEF IInv, TypeOK, LoopInv
<1>2. /\ pc[p] = "ack" /\ ~nak[ch] /\ Idle(p) /\ Done(p) /\ phase[p] # "last"
  BY DEF TransferInv, CallerOK, ChannelOK, Outside, AckSeen
<1>3. /\ \A q \in Callers \ {p} : SameCaller(q)
      /\ \A d \in Channels : SameChannel(d)
      /\ req' = req /\ mem' = mem /\ cmd' = cmd /\ buf' = buf /\ ret' = ret
      /\ left'[p] = LeftAfterAck(p) /\ pc'[p] \in {"load", "command", "fetch"}
      /\ IF phase[p] = "byte" /\ r.op = "read" THEN phase'[p] = "byte"
         ELSE phase'[p] = PhaseAfter(r, phase[p], LeftAfterAck(p))
  BY DEF IInv, TypeOK, AckSeen, Enter, StartOf, SameCaller, SamePlace, SameChannel,
         SameWires, coreVars, wireVars
<1>4. PICK n \in 0..r.len : Kept(p, n) /\ Stage(p, n)
  BY <1>2 DEF SnapInv, SnapOK, Outside
<1>5. \A k : Kept(p, k)' = Kept(p, k)
  BY <1>2, <1>3, OwnedSnap, KeptStays DEF Outside
<1>6. phase'[p] \in {"addr_r", "byte", "last"} => r.addr \in Slaves
  <2>1. CASE phase[p] = "addr_w"
    BY <1>3, <2>1 DEF PhaseAfter
  <2>2. CASE phase[p] = "offset"
    BY <1>1, <1>2, <2>2 DEF Done, Aims, IInv, TypeOK, BusState
  <2>3. QED
    BY <1>1, <1>2, <2>1, <2>2 DEF SnapInv, SnapOK, Phases
<1>7. CASE phase[p] = "byte" /\ r.op = "write"
  <2>1. n \in {Moved(p), Moved(p) + 1} /\ r.data[Moved(p) + 1] = Held(p, Moved(p))
    <3>1. n \in {Moved(p), Moved(p) + 1}
      BY <1>2, <1>4, <1>7 DEF Stage
    <3>2. r.data[Moved(p) + 1] = Held(p, Moved(p))
      BY <1>2, <1>7 DEF Done
    <3>3. QED
      BY <3>1, <3>2
  <2>2. Moved(p) \in Nat /\ Moved(p) + 1 \in 0..r.len /\ Moved(p)' = Moved(p) + 1
    <3>1. left[p] \in 1..r.len /\ left'[p] = left[p] - 1
      BY <1>1, <1>3, <1>7 DEF LeftAfterAck, LastByteOf
    <3>2. QED
      BY <1>1, <1>3, <3>1 DEF Moved
  <2>3. Kept(p, Moved(p) + 1)
    <3>1. CASE n = Moved(p) + 1
      BY <1>4, <3>1
    <3>2. CASE n = Moved(p)
      BY <1>4, <2>1, <2>2, <3>2 DEF Kept
    <3>3. QED
      BY <2>1, <3>1, <3>2
  <2>4. phase'[p] \in {"byte", "last"}
    BY <1>3, <1>7 DEF PhaseAfter, DataPhase
  <2>5. PICK k \in 0..r.len : k = Moved(p) + 1
    BY <2>2
  <2>6. Kept(p, k)' /\ Stage(p, k)'
    BY <1>3, <1>5, <1>7, <2>2, <2>3, <2>4, <2>5 DEF Stage
  <2>7. SnapOK(p)'
    BY <1>3, <1>6, <2>6 DEF SnapOK
  <2>8. QED
    BY <1>3, <2>7, SnapOneMoves
<1>8. CASE ~(phase[p] = "byte" /\ r.op = "write")
  <2>1. n = 0
    BY <1>2, <1>4, <1>8 DEF Stage
  <2>2. phase'[p] = "byte" /\ r.op = "write" => Moved(p)' = 0
    BY <1>1, <1>2, <1>3, <1>8 DEF Moved, LeftAfterAck
  <2>3. Stage(p, n)'
    BY <1>2, <1>3, <2>1, <2>2 DEF Stage, Idle
  <2>4. SnapOK(p)'
    BY <1>3, <1>4, <1>5, <1>6, <2>3 DEF SnapOK
  <2>5. QED
    BY <1>3, <2>4, SnapOneMoves
<1>9. QED
  BY <1>7, <1>8

LEMMA FetchMoves ==
  ASSUME RStep, FullInv, FullInv', SnapInv, NEW p \in Callers, Fetch(p)
  PROVE  SnapInv'
<1> DEFINE ch == req[p].ch
<1> USE DEF FullInv
<1>1. /\ \A q \in Callers \ {p} : SameCaller(q)
      /\ \A d \in Channels : SameChannel(d)
      /\ req' = req /\ mem' = mem /\ pc[p] = "fetch" /\ pc'[p] \in {"load", "command"}
      /\ phase[p] = "byte" /\ req[p].op = "read"
  BY DEF IInv, TypeOK, LoopInv, Fetch, Enter, StartOf, SameCaller, SamePlace, SameChannel,
         SameWires, coreVars, wireVars
<1>2. PICK n \in 0..req[p].len : Kept(p, n) /\ Stage(p, n)
  BY <1>1 DEF SnapInv, SnapOK, Outside
<1>3. n = 0 /\ req[p].addr \in Slaves
  BY <1>1, <1>2 DEF Stage, SnapInv, SnapOK
<1>4. Kept(p, n)'
  BY <1>1, <1>2, OwnedSnap, KeptStays DEF Outside
<1>5. Stage(p, n)'
  BY <1>1, <1>3 DEF Stage
<1>6. SnapOK(p)'
  BY <1>1, <1>2, <1>3, <1>4, <1>5 DEF SnapOK
<1>7. QED
  BY <1>1, <1>6, SnapOneMoves

(* Outside a transfer nothing is said of the snapshot.                      *)
LEMMA OutsideMoves ==
  ASSUME RStep, FullInv, FullInv', SnapInv, NEW p \in Callers,
         Call(p) \/ Refuse(p) \/ Interrupted(p) \/ Return(p) \/ Up(p)
  PROVE  SnapInv'
<1>1. /\ \A q \in Callers \ {p} : SameCaller(q)
      /\ \A d \in Channels : SameChannel(d)
      /\ pc'[p] \in Outside
  BY DEF FullInv, IInv, TypeOK, Call, Refuse, Interrupted, Return, Up, Answer, SameCaller,
         SamePlace, SameChannel, SameWires, coreVars, wireVars, Outside
<1>2. phase'[p] = "addr_w"
  BY <1>1 DEF FullInv, IInv, LoopInv, Outside
<1>3. SnapOK(p)'
  BY <1>1, <1>2 DEF SnapOK, Outside
<1>4. QED
  BY <1>1, <1>3, SnapOneMoves

(* The semaphore is taken: the snapshot is what the slaves hold now.        *)
LEMMA DownMoves ==
  ASSUME RStep, FullInv, FullInv', SnapInv, NEW p \in Callers, Down(p)
  PROVE  SnapInv'
<1> DEFINE ch == req[p].ch
<1> USE DEF FullInv
<1>1. ch \in Channels /\ req[p].len \in Nat
  BY RequestType DEF IInv, TypeOK
<1>2. /\ \A q \in Callers \ {p} : SameCaller(q)
      /\ \A d \in Channels : SameChannel(d)
      /\ req' = req /\ pc[p] = "down" /\ pc'[p] \in {"load", "dead"}
      /\ phase'[p] = phase[p] /\ sem[ch] = 1
  BY <1>1 DEF IInv, TypeOK, Down, SameCaller, SamePlace, SameChannel, SameWires,
              coreVars, wireVars
<1>3. phase[p] = "addr_w" /\ snap'[ch] = mem'[ch]
  BY <1>1, <1>2, SnapStep DEF IInv, LoopInv
<1>4. Kept(p, 0)' /\ Stage(p, 0)'
  BY <1>2, <1>3 DEF Kept, Stage
<1>5. SnapOK(p)'
  BY <1>1, <1>2, <1>3, <1>4 DEF SnapOK
<1>6. QED
  BY <1>2, <1>5, SnapOneMoves

(* The core stores a byte of the owner's write, or no slave changes.        *)
LEMMA CoreMoves ==
  ASSUME RStep, FullInv, FullInv', SnapInv, NEW ch \in Channels, CoreStep(ch)
  PROVE  SnapInv'
<1> USE DEF FullInv
<1>1. /\ \A q \in Callers : SameCaller(q)
      /\ \A d \in Channels \ {ch} : SameChannel(d)
      /\ req' = req /\ phase' = phase /\ left' = left /\ buf' = buf /\ pc' = pc /\ ret' = ret
      /\ cmd'[ch] \in {"none", "STOP"}
  BY DEF IInv, TypeOK, CoreStep, CoreStart, CoreWrite, CoreRead, CoreStop, SameCaller,
         SamePlace, SameChannel, SameWires, callerVars
<1>2. ASSUME NEW q \in Callers, pc[q] \in Outside \/ req[q].ch # ch PROVE SnapOK(q)'
  BY <1>1, <1>2, SnapUnmoved, Awake
<1>3. ASSUME NEW q \in Callers, pc[q] \notin Outside, req[q].ch = ch PROVE SnapOK(q)'
  <2>1. PICK n \in 0..req[q].len : Kept(q, n) /\ Stage(q, n)
    BY <1>3 DEF SnapInv, SnapOK
  <2>2. snap'[req[q].ch] = snap[req[q].ch]
    BY <1>1, <1>3, OwnedSnap
  <2>3. CASE mem' = mem
    <3>1. Kept(q, n)'
      BY <1>1, <2>1, <2>2, <2>3, KeptStays
    <3>2. Stage(q, n)'
      BY <1>1, <1>3, <2>1 DEF Stage, Moved
    <3>3. QED
      BY <1>1, <2>1, <3>1, <3>2 DEF SnapInv, SnapOK
  <2>4. CASE mem' # mem
    <3>1. PICK p \in Callers :
             /\ Owns(p, ch) /\ Working(p) /\ phase[p] = "byte" /\ req[p].op = "write"
             /\ CoreWrite(ch) /\ UNCHANGED <<req, phase, left>>
      BY <2>4, WriterOwns
    <3>2. p = q
      BY <1>3, <3>1, Awake DEF IInv, OneOwner
    <3>3. /\ left[q] \in 1..req[q].len /\ req[q].len \in Nat /\ req[q].addr \in Slaves
          /\ req[q] \in Requests
      BY <1>3, <3>1, <3>2, RequestType
      DEF IInv, TypeOK, LoopInv, LastByteOf, SnapInv, SnapOK
    <3>4. n = Moved(q)
      BY <1>1, <1>3, <2>1, <3>1, <3>2 DEF Stage, CoreWrite
    <3>5. n \in 0..(req[q].len - 1) /\ n + 1 \in 0..req[q].len
      BY <3>3, <3>4 DEF Moved
    <3>6. /\ mem' = [mem EXCEPT ![ch][req[q].addr][Cell(req[q], n)] = req[q].data[n + 1]]
          /\ \A i \in 0..(n - 1) : Held(q, i)' = Held(q, i)
      BY <1>3, <2>4, <3>1, <3>2, <3>4, ByteWritten
    <3>7. Cell(req[q], n) \in Byte
      BY <3>3, <3>5, CellFacts
    <3>8. mem \in [Channels -> [Slaves -> [Byte -> Byte]]]
      BY DEF IInv, TypeOK
    <3>9. \A i \in 0..((n + 1) - 1) : Held(q, i)' = req[q].data[i + 1]
      <4> SUFFICES ASSUME NEW i \in 0..n PROVE Held(q, i)' = req[q].data[i + 1]
        BY <3>5
      <4>1. CASE i = n
        BY <1>1, <1>3, <3>3, <3>6, <3>7, <3>8, <4>1 DEF Held, Cell
      <4>2. CASE i \in 0..(n - 1)
        BY <2>1, <3>6, <4>2 DEF Kept
      <4>3. QED
        BY <3>5, <4>1, <4>2
    <3>10. ASSUME NEW a \in Slaves, NEW o \in Byte,
                  a # req[q].addr \/ (\A i \in 0..((n + 1) - 1) : Cell(req[q], i) # o)
           PROVE  mem'[ch][a][o] = snap'[ch][a][o]
      <4>1. a # req[q].addr \/ Cell(req[q], n) # o
        BY <3>5, <3>10
      <4>2. mem'[ch][a][o] = mem[ch][a][o]
        BY <3>3, <3>6, <3>7, <3>8, <4>1
      <4>3. a # req[q].addr \/ (\A i \in 0..(n - 1) : Cell(req[q], i) # o)
        BY <3>5, <3>10
      <4>4. mem[ch][a][o] = snap[ch][a][o]
        BY <1>3, <2>1, <4>3 DEF Kept
      <4>5. QED
        BY <1>3, <2>2, <4>2, <4>4
    <3>11. Kept(q, n + 1)'
      BY <1>1, <1>3, <3>9, <3>10 DEF Kept, Cell
    <3>12. pc[q] \notin {"load", "command"}
      BY <1>3, <3>1, <3>2 DEF TransferInv, CallerOK, ChannelOK, Idle, CoreWrite
    <3>13. Stage(q, n + 1)'
      BY <1>1, <1>3, <3>1, <3>2, <3>4, <3>12 DEF Stage, Moved
    <3>14. SnapOK(q)
      BY DEF SnapInv
    <3>15. QED
      BY <1>1, <3>5, <3>11, <3>13, <3>14 DEF SnapOK
  <2>5. QED
    BY <2>3, <2>4
<1>4. QED
  BY <1>2, <1>3, SnapStep DEF SnapInv

LEMMA InitSnap == RInit => SnapInv
<1> SUFFICES ASSUME RInit PROVE SnapInv
  OBVIOUS
<1>1. snap = mem /\ TypeOK
  BY InitIInv DEF RInit, IInv
<1>2. \A p \in Callers : pc[p] = "idle" /\ phase[p] = "addr_w"
  BY DEF RInit, Init
<1>3. QED
  BY <1>1, <1>2 DEF SnapInv, SnapOK, TypeOK, Outside

-----------------------------------------------------------------------------
(* The slaves change for the other callers only when a semaphore is given   *)
(* back.                                                                    *)
LEMMA SnapStays ==
  ASSUME RStep, FullInv, FullInv', SnapInv,
         \A ch \in Channels : sem[ch] = 1 => mem'[ch] = mem[ch],
         \A ch \in Channels : sem[ch] = 0 => sem'[ch] = 0
  PROVE  snap' = snap
<1>1. ASSUME NEW ch \in Channels PROVE snap'[ch] = snap[ch]
  BY <1>1, SnapStep DEF SnapInv, FullInv, IInv, TypeOK
<1>2. snap = [ch \in Channels |-> snap[ch]] /\ snap' = [ch \in Channels |-> snap'[ch]]
  BY SnapStep DEF SnapInv
<1>3. QED
  BY <1>1, <1>2, Zenon

(* A step inside a transfer, or of the core, is not seen.                   *)
LEMMA Unseen ==
  ASSUME TypeOK, req' = req, snap' = snap,
         \A p \in Callers : \/ pc'[p] = pc[p] /\ buf'[p] = buf[p] /\ ret'[p] = ret[p]
                            \/ pc[p] \notin {"idle", "return"} /\ pc'[p] \notin {"idle", "return"}
  PROVE  UNCHANGED Abs!vars
<1>1. AbsState' = AbsState /\ AbsResult' = AbsResult
  BY DEF AbsState, AbsResult
<1>2. QED
  BY <1>1 DEF Abs!vars

LEMMA InsideUnseen ==
  ASSUME RStep, FullInv, FullInv', SnapInv, NEW p \in Callers,
         Down(p) \/ Frame(p) \/ Recover(p)
  PROVE  UNCHANGED Abs!vars
<1> USE DEF FullInv
<1>1. /\ req' = req /\ mem' = mem
      /\ \A q \in Callers \ {p} : pc'[q] = pc[q] /\ buf'[q] = buf[q] /\ ret'[q] = ret[q]
      /\ pc[p] \notin {"idle", "return"} /\ pc'[p] \notin {"idle", "return"}
  <2>1. CASE Down(p) \/ Recover(p)
    BY <2>1 DEF IInv, TypeOK, Down, Recover, Disable, Enable, Restop, GiveUp, NackStop,
                NackStopped, NackTimeout, coreVars, wireVars
  <2>2. CASE AckSeen(p) \/ Fetch(p)
    BY <2>2 DEF IInv, TypeOK, AckSeen, Fetch, Enter, StartOf, coreVars, wireVars
  <2>3. CASE Frame(p) /\ ~AckSeen(p) /\ ~Fetch(p)
    BY <2>3 DEF IInv, TypeOK, Frame, Load, Command, TipDone, TipTimeout, NoAck, Finish,
                FinishTimeout, coreVars, wireVars
  <2>4. QED
    BY <2>1, <2>2, <2>3
<1>2. \A ch \in Channels : sem[ch] = 0 => sem'[ch] = 0
  <2>1. CASE Down(p)
    BY <2>1, RequestType DEF Down, IInv, TypeOK
  <2>2. CASE Frame(p) \/ Recover(p)
    BY <2>2
    DEF Frame, Recover, Load, Command, TipDone, TipTimeout, AckSeen,
        NoAck, Fetch, Finish, FinishTimeout, Disable, Enable, Restop, GiveUp, NackStop,
        NackStopped, NackTimeout
  <2>3. QED
    BY <2>1, <2>2
<1>3. snap' = snap
  BY <1>1, <1>2, SnapStays
<1>4. QED
  BY <1>1, <1>3, Unseen DEF IInv

LEMMA CoreUnseen ==
  ASSUME RStep, FullInv, FullInv', SnapInv, NEW ch \in Channels, CoreStep(ch)
  PROVE  UNCHANGED Abs!vars
<1> USE DEF FullInv
<1>1. req' = req /\ pc' = pc /\ buf' = buf /\ ret' = ret /\ sem' = sem
  BY DEF CoreStep, callerVars
<1>2. ASSUME NEW d \in Channels, sem[d] = 1 PROVE mem'[d] = mem[d]
  <2>1. CASE mem' = mem
    BY <2>1
  <2>2. CASE mem' # mem
    <3>1. PICK p \in Callers : Owns(p, ch)
      BY <2>2, WriterOwns
    <3>2. d # ch
      BY <1>2, <3>1 DEF IInv, OneOwner
    <3>3. QED
      BY <3>2 DEF IInv, TypeOK, CoreStep, CoreStart, CoreWrite, CoreRead, CoreStop
  <2>3. QED
    BY <2>1, <2>2
<1>3. snap' = snap
  BY <1>1, <1>2, SnapStays
<1>4. QED
  BY <1>1, <1>3, Unseen DEF IInv

-----------------------------------------------------------------------------
(* What the callers see of a step of p outside its transfer.                *)
LEMMA Seen ==
  ASSUME TypeOK, TypeOK', NEW p \in Callers,
         \A q \in Callers \ {p} : pc'[q] = pc[q] /\ buf'[q] = buf[q] /\ ret'[q] = ret[q]
  PROVE  /\ AbsState' = [AbsState EXCEPT ![p] = AbsState'[p]]
         /\ AbsResult' = [AbsResult EXCEPT ![p] = AbsResult'[p]]
         /\ AbsState[p] = IF pc[p] = "idle" THEN "idle"
                          ELSE IF pc[p] = "return" THEN "done" ELSE "pending"
         /\ AbsState'[p] = IF pc'[p] = "idle" THEN "idle"
                           ELSE IF pc'[p] = "return" THEN "done" ELSE "pending"
         /\ AbsResult[p] = IF pc[p] = "return" THEN [ret |-> ret[p], data |-> buf[p]]
                           ELSE [ret |-> "OK", data |-> <<>>]
         /\ AbsResult'[p] = IF pc'[p] = "return" THEN [ret |-> ret'[p], data |-> buf'[p]]
                            ELSE [ret |-> "OK", data |-> <<>>]
  BY DEF AbsState, AbsResult

LEMMA SeenAnswer ==
  ASSUME TypeOK, TypeOK', NEW p \in Callers, NEW r, Answer(p, r), r \in Returns
  PROVE  /\ r = "OK" => Abs!Answer(p, r, buf[p])
         /\ r # "OK" => Abs!Answer(p, r, <<>>)
<1>1. /\ \A q \in Callers \ {p} : pc'[q] = pc[q] /\ buf'[q] = buf[q] /\ ret'[q] = ret[q]
      /\ pc'[p] = "return" /\ ret'[p] = r /\ buf'[p] = IF r = "OK" THEN buf[p] ELSE <<>>
      /\ req' = [req EXCEPT ![p] = NoRequest]
  BY DEF TypeOK, Answer
<1>2. /\ AbsState' = [AbsState EXCEPT ![p] = "done"]
      /\ AbsResult' = [AbsResult EXCEPT ![p] = [ret |-> ret'[p], data |-> buf'[p]]]
  BY <1>1, Seen
<1>3. Abs!NoRequest = NoRequest
  BY DEF Abs!NoRequest, NoRequest
<1>4. QED
  BY <1>1, <1>2, <1>3 DEF Abs!Answer

(* A call, and the steps that end one outside the semaphore.                *)
LEMMA CallSeen ==
  ASSUME RStep, FullInv, FullInv', SnapInv, NEW p \in Callers,
         Call(p) \/ Refuse(p) \/ Interrupted(p) \/ Return(p)
  PROVE  Abs!Next
<1> USE DEF FullInv, IInv
<1>1. snap' = snap
  BY SnapStays DEF Call, Refuse, Interrupted, Return, wireVars
<1>2. CASE Call(p)
  <2>1. /\ \A q \in Callers \ {p} : pc'[q] = pc[q] /\ buf'[q] = buf[q] /\ ret'[q] = ret[q]
        /\ pc[p] = "idle" /\ pc'[p] = "down" /\ buf' = buf /\ ret' = ret
    BY <1>2 DEF TypeOK, Call
  <2>2. \E r \in Requests : req' = [req EXCEPT ![p] = r]
    BY <1>2 DEF Call, Requests
  <2>3. /\ AbsState[p] = "idle" /\ AbsState' = [AbsState EXCEPT ![p] = "pending"]
        /\ AbsResult' = [AbsResult EXCEPT ![p] = AbsResult[p]]
    BY <2>1, Seen
  <2>4. AbsResult' = AbsResult
    BY <2>3 DEF AbsResult
  <2>5. Abs!Call(p)
    BY <1>1, <2>2, <2>3, <2>4 DEF Abs!Call
  <2>6. QED
    BY <2>5 DEF Abs!Next
<1>3. CASE Refuse(p)
  <2>1. pc[p] = "idle" /\ Answer(p, "EINVAL")
    BY <1>3 DEF Refuse
  <2>2. Abs!Answer(p, "EINVAL", <<>>) /\ AbsState[p] = "idle"
    BY <2>1, SeenAnswer DEF AbsState, Returns
  <2>3. Abs!Refuse(p)
    BY <1>1, <2>2 DEF Abs!Refuse
  <2>4. QED
    BY <2>3 DEF Abs!Next
<1>4. CASE Interrupted(p)
  <2>1. pc[p] = "down" /\ Answer(p, "ERESTARTSYS")
    BY <1>4 DEF Interrupted
  <2>2. Abs!Answer(p, "ERESTARTSYS", <<>>) /\ AbsState[p] = "pending"
    BY <2>1, SeenAnswer DEF AbsState, Returns
  <2>3. Abs!Fail(p)
    BY <1>1, <2>2 DEF Abs!Fail, Abs!Errors
  <2>4. QED
    BY <2>3 DEF Abs!Next
<1>5. CASE Return(p)
  <2>1. /\ \A q \in Callers \ {p} : pc'[q] = pc[q] /\ buf'[q] = buf[q] /\ ret'[q] = ret[q]
        /\ pc[p] = "return" /\ pc'[p] = "idle" /\ req' = req
    BY <1>5 DEF TypeOK, Return
  <2>2. /\ AbsState[p] = "done" /\ AbsState' = [AbsState EXCEPT ![p] = "idle"]
        /\ AbsResult' = [AbsResult EXCEPT ![p] = [ret |-> "OK", data |-> <<>>]]
    BY <2>1, Seen
  <2>3. Abs!Return(p)
    BY <1>1, <2>1, <2>2 DEF Abs!Return, Abs!NoResult
  <2>4. QED
    BY <2>3 DEF Abs!Next
<1>6. QED
  BY <1>2, <1>3, <1>4, <1>5

-----------------------------------------------------------------------------
(* Giving the semaphore back publishes the slaves of its channel.           *)
LEMMA Published ==
  ASSUME RStep, FullInv, FullInv', SnapInv, NEW p \in Callers, Up(p)
  PROVE  /\ req[p].ch \in Channels
         /\ snap' = [snap EXCEPT ![req[p].ch] = mem[req[p].ch]]
<1> DEFINE ch == req[p].ch
<1> USE DEF FullInv, IInv
<1>1. ch \in Channels /\ sem[ch] = 0
  BY Awake DEF Up, Outside
<1>2. mem' = mem /\ sem' = [sem EXCEPT ![ch] = 1]
  BY <1>1 DEF Up, TypeOK, wireVars
<1>3. ASSUME NEW d \in Channels, d # ch PROVE snap'[d] = snap[d]
  BY <1>1, <1>2, <1>3, SnapStep DEF SnapInv, TypeOK
<1>4. snap'[ch] = mem[ch]
  BY <1>1, <1>2, SnapStep DEF TypeOK
<1>5. QED
  BY <1>1, <1>3, <1>4, SnapStep DEF SnapInv

(* Nothing was moved: nothing is published.                                 *)
LEMMA NothingStored ==
  ASSUME FullInv, SnapInv, NEW p \in Callers, req[p].ch \in Channels, Kept(p, 0)
  PROVE  mem[req[p].ch] = snap[req[p].ch]
<1> DEFINE ch == req[p].ch
<1>1. /\ mem[ch] \in [Slaves -> [Byte -> Byte]]
      /\ snap[ch] \in [Slaves -> [Byte -> Byte]]
  BY DEF FullInv, IInv, TypeOK, SnapInv
<1>2. \A a \in Slaves, o \in Byte : mem[ch][a][o] = snap[ch][a][o]
  BY DEF Kept
<1>3. ASSUME NEW a \in Slaves PROVE mem[ch][a] = snap[ch][a]
  <2>1. mem[ch][a] \in [Byte -> Byte] /\ snap[ch][a] \in [Byte -> Byte]
    BY <1>1
  <2>2. QED
    BY <1>2, <2>1
<1>4. QED
  BY <1>1, <1>3

(* What SlaveAccess says is stored, cell by cell.                           *)
LEMMA StoredCells ==
  ASSUME SnapInv, NEW r \in Requests, r.addr \in Slaves, r.ch \in Channels,
         NEW n \in 0..r.len, NEW m, m = [o \in Byte |-> m[o]],
         \A i \in 0..(n - 1) : m[Cell(r, i)] = r.data[i + 1],
         \A o \in Byte : (\A i \in 0..(n - 1) : Cell(r, i) # o) => m[o] = snap[r.ch][r.addr][o]
  PROVE  Abs!Stored(r, n) = [snap EXCEPT ![r.ch][r.addr] = m]
<1> DEFINE Last(o, i) == /\ Cell(r, i) = o
                         /\ \A j \in (i + 1)..(n - 1) : Cell(r, j) # o
           New == [o \in 0..(ByteSize - 1) |->
                     IF \E i \in 0..(n - 1) : Cell(r, i) = o
                       THEN r.data[1 + CHOOSE i \in 0..(n - 1) : Last(o, i)]
                       ELSE snap[r.ch][r.addr][o]]
<1>1. r.len \in Nat /\ n \in Nat
  BY RequestType
<1>2. ASSUME NEW i \in 0..(n - 1), NEW j \in (i + 1)..(n - 1) PROVE Cell(r, i) # Cell(r, j)
  <2>1. i \in 0..(j - 1) /\ j \in 0..r.len /\ j < r.len
    BY <1>1
  <2>2. QED
    BY <2>1, CellFacts
<1>3. ASSUME NEW o \in Byte, NEW k \in 0..(n - 1), Cell(r, k) = o
      PROVE  m[o] = r.data[1 + CHOOSE i \in 0..(n - 1) : Last(o, i)]
  <2>1. Last(o, k)
    BY <1>2, <1>3
  <2>2. PICK i \in 0..(n - 1) : Last(o, i) /\ i = CHOOSE j \in 0..(n - 1) : Last(o, j)
    BY <2>1, Zenon
  <2>3. m[Cell(r, i)] = r.data[i + 1] /\ Cell(r, i) = o /\ i + 1 = 1 + i
    BY <1>1, <2>2
  <2>4. QED
    BY <2>2, <2>3
<1>4. ASSUME NEW o \in 0..(ByteSize - 1)
      PROVE  m[o] = IF \E i \in 0..(n - 1) : Cell(r, i) = o
                      THEN r.data[1 + CHOOSE i \in 0..(n - 1) : Last(o, i)]
                      ELSE snap[r.ch][r.addr][o]
  <2>1. o \in Byte
    BY DEF Byte
  <2>2. CASE \E i \in 0..(n - 1) : Cell(r, i) = o
    <3>1. PICK k \in 0..(n - 1) : Cell(r, k) = o
      BY <2>2
    <3>2. QED
      BY <1>3, <2>1, <2>2, <3>1, Zenon
  <2>3. CASE ~\E i \in 0..(n - 1) : Cell(r, i) = o
    BY <2>1, <2>3
  <2>4. QED
    BY <2>2, <2>3
<1>5. m = New
  BY <1>4, Zenon DEF Byte
<1>6. Abs!Stored(r, n) = [snap EXCEPT ![r.ch][r.addr] = New]
  BY Zenon DEF Abs!Stored, Abs!Cell, Cell
<1>7. QED
  BY <1>5, <1>6

(* The first n bytes of p's write are what p's channel publishes.           *)
LEMMA BytesStored ==
  ASSUME FullInv, SnapInv, NEW p \in Callers, NEW n \in 0..req[p].len,
         req[p].addr \in Slaves, Kept(p, n)
  PROVE  Abs!Stored(req[p], n) = [snap EXCEPT ![req[p].ch] = mem[req[p].ch]]
<1> DEFINE r == req[p]
           ch == req[p].ch
           m == mem[ch][r.addr]
<1>1. /\ r \in Requests /\ ch \in Channels /\ r.addr \in Slaves
      /\ mem \in [Channels -> [Slaves -> [Byte -> Byte]]]
      /\ snap \in [Channels -> [Slaves -> [Byte -> Byte]]]
  BY RequestType DEF FullInv, IInv, TypeOK, SnapInv
<1>2. m = [o \in Byte |-> m[o]]
  BY <1>1
<1>3. \A i \in 0..(n - 1) : m[Cell(r, i)] = r.data[i + 1]
  BY DEF Kept, Held
<1>4. \A o \in Byte : (\A i \in 0..(n - 1) : Cell(r, i) # o) => m[o] = snap[r.ch][r.addr][o]
  BY <1>1 DEF Kept
<1>5. Abs!Stored(r, n) = [snap EXCEPT ![ch][r.addr] = m]
  <2>1. PICK k : k = m
    OBVIOUS
  <2>2. /\ k = [o \in Byte |-> k[o]]
        /\ \A i \in 0..(n - 1) : k[Cell(r, i)] = r.data[i + 1]
        /\ \A o \in Byte : (\A i \in 0..(n - 1) : Cell(r, i) # o) =>
             k[o] = snap[r.ch][r.addr][o]
    BY <1>2, <1>3, <1>4, <2>1, Zenon
  <2>3. Abs!Stored(r, n) = [snap EXCEPT ![r.ch][r.addr] = k]
    <3> HIDE DEF r
    <3>1. r \in Requests /\ r.addr \in Slaves /\ r.ch \in Channels /\ n \in 0..r.len
      BY <1>1 DEF r
    <3>2. QED
      BY <2>2, <3>1, StoredCells
  <2>4. QED
    BY <2>1, <2>3
<1>6. [snap[ch] EXCEPT ![r.addr] = m] = mem[ch]
  <2>1. ASSUME NEW a \in Slaves PROVE mem[ch][a] = [snap[ch] EXCEPT ![r.addr] = m][a]
    <3>1. CASE a = r.addr
      BY <1>1, <3>1
    <3>2. CASE a # r.addr
      <4>1. \A o \in Byte : mem[ch][a][o] = snap[ch][a][o]
        BY <3>2 DEF Kept
      <4>2. mem[ch][a] \in [Byte -> Byte] /\ snap[ch][a] \in [Byte -> Byte]
        BY <1>1
      <4>3. mem[ch][a] = snap[ch][a]
        BY <4>1, <4>2
      <4>4. QED
        BY <1>1, <3>2, <4>3
    <3>3. QED
      BY <3>1, <3>2
  <2>2. mem[ch] \in [Slaves -> [Byte -> Byte]] /\ snap[ch] \in [Slaves -> [Byte -> Byte]]
    BY <1>1
  <2>3. QED
    BY <2>1, <2>2
<1>7. [snap EXCEPT ![ch][r.addr] = m] = [snap EXCEPT ![ch] = [snap[ch] EXCEPT ![r.addr] = m]]
  BY <1>1
<1>8. QED
  BY <1>5, <1>6, <1>7

(* A success publishes every byte of a write, and answers a read with bytes *)
(* the slave held together.                                                 *)
LEMMA SuccessSeen ==
  ASSUME RStep, FullInv, FullInv', SnapInv, NEW p \in Callers, Up(p), ret[p] = "OK"
  PROVE  Abs!Succeed(p)
<1> DEFINE r == req[p]
<1> USE DEF FullInv, IInv
<1>1. /\ r \in Requests /\ r.op \in {"read", "write"} /\ r.len \in Nat /\ r.ch \in Channels
      /\ buf[p] \in Seq(Byte) /\ pc[p] = "up"
  BY RequestType DEF TypeOK, Up
<1>2. /\ phase[p] = "last" /\ r.addr \in Slaves
      /\ (r.op = "write" => Len(buf[p]) = 0)
  BY <1>1 DEF SnapInv, SnapOK
<1>3. Success(p)
  BY <1>1 DEF TransferInv, CallerOK
<1>4. PICK n \in 0..r.len : Kept(p, n) /\ Stage(p, n)
  BY <1>1 DEF SnapInv, SnapOK, Outside
<1>5. Abs!Answer(p, "OK", buf[p]) /\ AbsState[p] = "pending"
  BY <1>1, SeenAnswer DEF Up, AbsState, Returns
<1>6. snap' = [snap EXCEPT ![r.ch] = mem[r.ch]]
  BY Published
<1>7. CASE r.op = "read"
  <2>1. n = 0
    BY <1>1, <1>4, <1>7 DEF Stage
  <2>2. mem[r.ch] = snap[r.ch]
    BY <1>1, <1>4, <2>1, NothingStored
  <2>3. snap' = snap
    BY <1>1, <1>6, <2>2 DEF SnapInv
  <2>4. buf[p] = [i \in 1..r.len |-> snap[r.ch][r.addr][(r.off + i - 1) % ByteSize]]
    BY <1>3, <1>7, <2>2, Zenon DEF Success
  <2>5. \A i \in 1..r.len : (r.off + i - 1) % ByteSize = Abs!Cell(r, i - 1)
    <3>1. r.off \in Nat
      BY <1>1, RequestType, FpgaAssumption DEF Byte
    <3>2. \A i \in 1..r.len : r.off + i - 1 = r.off + (i - 1)
      BY <1>1, <3>1
    <3>3. QED
      BY <3>2 DEF Abs!Cell
  <2>6. buf[p] = Abs!ReadBytes(r)
    BY <2>4, <2>5, Zenon DEF Abs!ReadBytes
  <2>7. Abs!Answer(p, "OK", Abs!ReadBytes(r))
    BY <1>5, <2>6
  <2>8. QED
    BY <1>2, <1>5, <1>7, <2>3, <2>7, Zenon DEF Abs!Succeed
<1>8. CASE r.op = "write"
  <2>1. r.data = [i \in 1..r.len |-> mem[r.ch][r.addr][(r.off + i - 1) % ByteSize]]
    BY <1>3, <1>8, Zenon DEF Success
  <2>2. \A i \in 0..(r.len - 1) : Held(p, i) = r.data[i + 1]
    <3>1. r.off \in Nat
      BY <1>1, RequestType, FpgaAssumption DEF Byte
    <3>2. ASSUME NEW i \in 0..(r.len - 1)
          PROVE  i + 1 \in 1..r.len /\ r.off + (i + 1) - 1 = r.off + i
      <4>1. \A x, y \in Nat : x + (y + 1) - 1 = x + y
        OBVIOUS
      <4>2. i \in Nat /\ i + 1 \in 1..r.len
        BY <1>1
      <4>3. QED
        BY <3>1, <4>1, <4>2
    <3>3. QED
      BY <2>1, <3>2 DEF Held, Cell
  <2>3. Kept(p, r.len)
    BY <1>1, <1>4, <2>2 DEF Kept
  <2>4. snap' = Abs!Stored(r, r.len)
    <3>1. r.len \in 0..r.len
      BY <1>1
    <3>2. Abs!Stored(r, r.len) = [snap EXCEPT ![r.ch] = mem[r.ch]]
      BY <1>2, <2>3, <3>1, BytesStored
    <3>3. QED
      BY <1>6, <3>2
  <2>5. buf[p] = <<>>
    BY <1>1, <1>2, <1>8
  <2>6. Abs!Answer(p, "OK", <<>>)
    BY <1>5, <2>5
  <2>7. QED
    BY <1>2, <1>5, <1>8, <2>4, <2>6, Zenon DEF Abs!Succeed
<1>9. QED
  BY <1>1, <1>7, <1>8

(* A failure publishes a prefix of a write, and nothing of a read.          *)
LEMMA FailureSeen ==
  ASSUME RStep, FullInv, FullInv', SnapInv, NEW p \in Callers, Up(p), ret[p] # "OK"
  PROVE  Abs!Fail(p)
<1> DEFINE r == req[p]
<1> USE DEF FullInv, IInv
<1>1. /\ r.op \in {"read", "write"} /\ r.len \in Nat /\ r.ch \in Channels
      /\ pc[p] = "up" /\ ret[p] \in Abs!Errors
  BY RequestType DEF TypeOK, Up, Returns, Abs!Errors
<1>2. PICK n \in 0..r.len : Kept(p, n) /\ Stage(p, n)
  BY <1>1 DEF SnapInv, SnapOK, Outside
<1>3. Abs!Answer(p, ret[p], <<>>) /\ AbsState[p] = "pending"
  BY <1>1, SeenAnswer DEF Up, AbsState, TypeOK
<1>4. snap' = [snap EXCEPT ![r.ch] = mem[r.ch]]
  BY Published
<1>5. CASE n = 0
  <2>1. mem[r.ch] = snap[r.ch]
    BY <1>1, <1>2, <1>5, NothingStored
  <2>2. snap' = snap
    BY <1>1, <1>4, <2>1 DEF SnapInv
  <2>3. QED
    BY <1>1, <1>3, <2>2, Zenon DEF Abs!Fail
<1>6. CASE n # 0
  <2>1. n \in 1..r.len /\ r.op = "write" /\ r.addr \in Slaves
    BY <1>1, <1>2, <1>6 DEF Stage, SnapInv, SnapOK
  <2>2. snap' = Abs!Stored(r, n)
    BY <1>2, <1>4, <2>1, BytesStored
  <2>3. QED
    BY <1>1, <1>3, <2>1, <2>2, Zenon DEF Abs!Fail
<1>7. QED
  BY <1>5, <1>6

-----------------------------------------------------------------------------
EndStep(p)   == Call(p) \/ Refuse(p) \/ Interrupted(p) \/ Return(p)
InsideStep(p) == Down(p) \/ Frame(p) \/ Recover(p)
CallerStep(p) == EndStep(p) \/ InsideStep(p) \/ Up(p)

LEMMA Steps == Next <=> \/ \E p \in Callers : CallerStep(p)
                        \/ \E ch \in Channels : CoreStep(ch)
  BY Zenon DEF Next, CallerStep, EndStep, InsideStep

LEMMA NextSnapInv ==
  ASSUME FullInv, FullInv', SnapInv, [RNext]_RVars
  PROVE  SnapInv'
<1>1. CASE RNext
  <2>1. RStep
    BY <1>1 DEF RNext
  <2>2. CASE \E p \in Callers : CallerStep(p)
    <3>1. PICK p \in Callers : CallerStep(p)
      BY <2>2
    <3>2. CASE Call(p) \/ Refuse(p) \/ Interrupted(p) \/ Return(p) \/ Up(p)
      BY <2>1, <3>2, OutsideMoves
    <3>3. CASE Down(p)
      BY <2>1, <3>3, DownMoves
    <3>4. CASE AckSeen(p)
      BY <2>1, <3>4, AckMoves
    <3>5. CASE Fetch(p)
      BY <2>1, <3>5, FetchMoves
    <3>6. CASE \/ Load(p) \/ PollStep(p) \/ Disable(p) \/ Enable(p)
               \/ Restop(p) \/ NackStop(p) \/ Command(p) \/ Finish(p)
      BY <2>1, <3>6, PlaceSteps
    <3>7. QED
      BY <3>1, <3>2, <3>3, <3>4, <3>5, <3>6
      DEF CallerStep, EndStep, InsideStep, Frame, Recover, PollStep
  <2>3. CASE \E ch \in Channels : CoreStep(ch)
    BY <2>1, <2>3, CoreMoves
  <2>4. QED
    BY <1>1, <2>2, <2>3, Steps DEF RNext
<1>2. CASE UNCHANGED RVars
  BY <1>2 DEF RVars, vars, callerVars, coreVars, wireVars, SnapInv, SnapOK, Kept, Stage,
              Held, Cell, Moved
<1>3. QED
  BY <1>1, <1>2

LEMMA InitSeen == RInit => Abs!Init
<1> SUFFICES ASSUME RInit PROVE Abs!Init
  OBVIOUS
<1>1. AbsState = [p \in Callers |-> "idle"]
  BY DEF RInit, Init, AbsState
<1>2. AbsResult = [p \in Callers |-> Abs!NoResult]
  BY DEF RInit, Init, AbsResult, Abs!NoResult
<1>3. req = [p \in Callers |-> Abs!NoRequest]
  BY Zenon DEF RInit, Init, NoRequest, Abs!NoRequest
<1>4. snap = [ch \in Channels |-> [a \in Slaves |-> [o \in 0..(ByteSize - 1) |-> 0]]]
  BY Zenon DEF RInit, Init, Byte
<1>5. QED
  BY <1>1, <1>2, <1>3, <1>4, Zenon DEF Abs!Init

LEMMA NextSeen ==
  ASSUME FullInv, FullInv', SnapInv, [RNext]_RVars
  PROVE  [Abs!Next]_Abs!vars
<1>1. CASE RNext
  <2>1. RStep
    BY <1>1 DEF RNext
  <2>2. ASSUME NEW p \in Callers, CallerStep(p) PROVE Abs!Next \/ UNCHANGED Abs!vars
    <3>1. CASE EndStep(p)
      BY <2>1, <3>1, CallSeen DEF EndStep
    <3>2. CASE InsideStep(p)
      BY <2>1, <3>2, InsideUnseen DEF InsideStep
    <3>3. CASE Up(p)
      <4>1. Abs!Succeed(p) \/ Abs!Fail(p)
        BY <2>1, <3>3, SuccessSeen, FailureSeen
      <4>2. QED
        BY <4>1 DEF Abs!Next
    <3>4. QED
      BY <2>2, <3>1, <3>2, <3>3 DEF CallerStep
  <2>3. ASSUME NEW ch \in Channels, CoreStep(ch) PROVE UNCHANGED Abs!vars
    BY <2>1, <2>3, CoreUnseen
  <2>4. QED
    BY <1>1, <2>2, <2>3, Steps DEF RNext
<1>2. CASE UNCHANGED RVars
  BY <1>2 DEF RVars, vars, callerVars, Abs!vars, AbsState, AbsResult
<1>3. QED
  BY <1>1, <1>2

(* Every transfer takes effect at one instant between its call and its      *)
(* return: fpga_smbus_read and fpga_smbus_write, with their error paths,    *)
(* implement SlaveAccess.                                                   *)
THEOREM DriverImplementsSlaveAccess == RSpec => ImplementsSlaveAccess
<1>1. RInit => FullInv /\ SnapInv /\ Abs!Init
  BY InitFullInv, InitSnap, InitSeen DEF RInit
<1>2. FullInv /\ [RNext]_RVars => FullInv'
  BY NextFullInv DEF RNext, RVars
<1>3. FullInv /\ SnapInv /\ [RNext]_RVars => SnapInv' /\ [Abs!Next]_Abs!vars
  BY <1>2, NextSnapInv, NextSeen
<1>4. QED
  BY <1>1, <1>2, <1>3, PTL DEF RSpec, ImplementsSlaveAccess, Abs!Spec
=============================================================================
