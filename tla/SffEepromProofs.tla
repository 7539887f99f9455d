---------------------------- MODULE SffEepromProofs ----------------------------
(***************************************************************************)
(* The page register of a QSFP module is left at page 0 by every access,   *)
(* for any number of threads, requests, modules, pages and disturbances.   *)
(***************************************************************************)
EXTENDS SffEeprom, TLAPS

(* Where a thread holds the port's mutex. *)
Holding == {"probe", "chunk", "select", "move", "restore", "chunk_end", "unlock"}

(* As much of the types as the argument needs. *)
Numbers == [len : Int, chunk : Int, pending : Int, total : Int, count : Int,
            page : Int, phys : Int, left : Int, moved : Int]

WeakType ==
  /\ pc \in [Threads -> Locations]
  /\ req \in [Threads -> Request] /\ \A t \in Threads : req[t] \in Requests[t]
  /\ x \in [Threads -> Numbers]

OneHolder ==
  /\ lock \subseteq Threads
  /\ \A t \in Threads : t \in lock <=> pc[t] \in Holding
  /\ \A t, u \in lock : t = u

(* A thread that works on an upper page, and will restore page 0. *)
Upper(r) == r.page > 0
Restores(t) == t \in lock /\ pc[t] \in {"move", "restore"} /\ Upper(x[t])

(* Only a module with pages has one selected, and while page 0 is not      *)
(* selected without an excuse, a thread is on its way to restore it.       *)
PageInv ==
  /\ WeakType /\ OneHolder
  /\ module # "paged" => page = 0
  /\ \A t \in Threads : pc[t] \in {"select", "restore"} => Upper(x[t])
  /\ page # 0 /\ ~excused => \E t \in Threads : Restores(t)
-----------------------------------------------------------------------------
(* The arithmetic of a chunk stays within the integers. *)
LEMMA WrapType == ASSUME NEW n \in Int PROVE Wrap(n) \in Int
  BY SffAssumption DEF Wrap, FileSize

LEMMA RequestType ==
  ASSUME NEW t \in Threads, NEW r \in Requests[t]
  PROVE  r.off \in Int /\ r.len \in Int
<1>1. r \in Request
  BY SffAssumption
<1>2. FileSize \in Int
  BY SffAssumption DEF FileSize
<1>3. QED
  BY <1>1, <1>2 DEF Request

LEMMA NoRequestType == ASSUME NEW t \in Threads PROVE NoRequest(t) \in Requests[t]
  BY SffAssumption DEF NoRequest

LEMMA ChunkType ==
  ASSUME WeakType, NEW t \in Threads
  PROVE  /\ ChunkOff(t) \in Int /\ ChunkLen(t) \in Int
         /\ PageOf(ChunkOff(t)) \in Int /\ Phys(ChunkOff(t)) \in Int
<1>1. /\ P \in Nat /\ P > 0
      /\ req[t].off \in Int /\ x[t].chunk \in Int /\ x[t].pending \in Int
  BY SffAssumption, RequestType DEF WeakType, Numbers
<1>2. ChunkStart(t) \in Int
  BY <1>1 DEF ChunkStart
<1>3. ChunkOff(t) \in Int /\ ChunkLen(t) \in Int
  BY <1>1, <1>2 DEF ChunkOff, ChunkLen
<1>4. PageWidth \in Int /\ PageWidth > 0
  BY SffAssumption
<1>5. ASSUME NEW n \in Int PROVE n % PageWidth \in Int
  BY <1>4
<1>6. ASSUME NEW n \in Int PROVE PageOf(n) \in Int
  BY <1>1, <1>5 DEF PageOf
<1>7. QED
  BY <1>1, <1>3, <1>6 DEF Phys

-----------------------------------------------------------------------------
(* The locals, written field by field: only page decides on the half. *)
SetLen(r, n)     == [r EXCEPT !.len = n]
SetChunk(r, n)   == [r EXCEPT !.chunk = n]
SetPending(r, n) == [r EXCEPT !.pending = n]
SetPage(r, n)    == [r EXCEPT !.page = n]
SetPhys(r, n)    == [r EXCEPT !.phys = n]
SetCount(r, n)   == [r EXCEPT !.count = n]
SetLeft(r, n)    == [r EXCEPT !.left = n]
SetMoved(r, n)   == [r EXCEPT !.moved = n]

LEMMA SetLenType ==
  ASSUME NEW r \in Numbers, NEW n \in Int
  PROVE  SetLen(r, n) \in Numbers /\ (Upper(SetLen(r, n)) <=> Upper(r))
  BY DEF Numbers, SetLen, Upper

LEMMA SetChunkType ==
  ASSUME NEW r \in Numbers, NEW n \in Int
  PROVE  SetChunk(r, n) \in Numbers /\ (Upper(SetChunk(r, n)) <=> Upper(r))
  BY DEF Numbers, SetChunk, Upper

LEMMA SetPendingType ==
  ASSUME NEW r \in Numbers, NEW n \in Int
  PROVE  SetPending(r, n) \in Numbers /\ (Upper(SetPending(r, n)) <=> Upper(r))
  BY DEF Numbers, SetPending, Upper

LEMMA SetPageType ==
  ASSUME NEW r \in Numbers, NEW n \in Int
  PROVE  SetPage(r, n) \in Numbers /\ (Upper(SetPage(r, n)) <=> n > 0)
  BY DEF Numbers, SetPage, Upper

LEMMA SetPhysType ==
  ASSUME NEW r \in Numbers, NEW n \in Int
  PROVE  SetPhys(r, n) \in Numbers /\ (Upper(SetPhys(r, n)) <=> Upper(r))
  BY DEF Numbers, SetPhys, Upper

LEMMA SetCountType ==
  ASSUME NEW r \in Numbers, NEW n \in Int
  PROVE  SetCount(r, n) \in Numbers /\ (Upper(SetCount(r, n)) <=> Upper(r))
  BY DEF Numbers, SetCount, Upper

LEMMA SetLeftType ==
  ASSUME NEW r \in Numbers, NEW n \in Int
  PROVE  SetLeft(r, n) \in Numbers /\ (Upper(SetLeft(r, n)) <=> Upper(r))
  BY DEF Numbers, SetLeft, Upper

LEMMA SetMovedType ==
  ASSUME NEW r \in Numbers, NEW n \in Int
  PROVE  SetMoved(r, n) \in Numbers /\ (Upper(SetMoved(r, n)) <=> Upper(r))
  BY DEF Numbers, SetMoved, Upper

ChunkLocals(r, p, a, n) ==
  SetMoved(SetLeft(SetCount(SetPhys(SetPage(r, p), a), n), n), 0)
MoveLocals(r, a, n, k) == SetMoved(SetLeft(SetPhys(r, a), n), k)
BeginLocals(r, n, c) == SetChunk(SetPending(SetLen(r, n), n), c)

LEMMA ChunkLocalsType ==
  ASSUME NEW r \in Numbers, NEW p \in Int, NEW a \in Int, NEW n \in Int
  PROVE  /\ ChunkLocals(r, p, a, n) \in Numbers
         /\ Upper(ChunkLocals(r, p, a, n)) <=> p > 0
<1>1. PICK r1 \in Numbers : r1 = SetPage(r, p) /\ (Upper(r1) <=> p > 0)
  BY SetPageType
<1>2. PICK r2 \in Numbers : r2 = SetPhys(r1, a) /\ (Upper(r2) <=> p > 0)
  BY <1>1, SetPhysType
<1>3. PICK r3 \in Numbers : r3 = SetCount(r2, n) /\ (Upper(r3) <=> p > 0)
  BY <1>2, SetCountType
<1>4. PICK r4 \in Numbers : r4 = SetLeft(r3, n) /\ (Upper(r4) <=> p > 0)
  BY <1>3, SetLeftType
<1>5. SetMoved(r4, 0) \in Numbers /\ (Upper(SetMoved(r4, 0)) <=> p > 0)
  BY <1>4, SetMovedType
<1>6. ChunkLocals(r, p, a, n) = SetMoved(r4, 0)
  BY <1>1, <1>2, <1>3, <1>4 DEF ChunkLocals
<1>7. QED
  BY <1>5, <1>6

LEMMA MoveLocalsType ==
  ASSUME NEW r \in Numbers, NEW a \in Int, NEW n \in Int, NEW k \in Int
  PROVE  /\ MoveLocals(r, a, n, k) \in Numbers
         /\ Upper(MoveLocals(r, a, n, k)) <=> Upper(r)
  BY SetPhysType, SetLeftType, SetMovedType DEF MoveLocals

LEMMA BeginLocalsType ==
  ASSUME NEW r \in Numbers, NEW n \in Int, NEW c \in Int
  PROVE  /\ BeginLocals(r, n, c) \in Numbers
         /\ Upper(BeginLocals(r, n, c)) <=> Upper(r)
  BY SetLenType, SetPendingType, SetChunkType DEF BeginLocals

LEMMA BeginType ==
  ASSUME WeakType, NEW t \in Threads, NEW n \in Int, Begin(t, n)
  PROVE  /\ x' \in [Threads -> Numbers] /\ pc' = [pc EXCEPT ![t] = "chunk"]
         /\ \A u \in Threads : Upper(x'[u]) <=> Upper(x[u])
<1>1. req[t].off \div P \in Int
  BY SffAssumption, RequestType DEF WeakType
<1>0. x \in [Threads -> Numbers]
  BY DEF WeakType
<1>2. x' = [x EXCEPT ![t] = BeginLocals(x[t], n, req[t].off \div P)]
  BY <1>0 DEF Begin, BeginLocals, SetLen, SetPending, SetChunk
<1>3. PICK y \in Numbers : x' = [x EXCEPT ![t] = y] /\ (Upper(y) <=> Upper(x[t]))
  BY <1>0, <1>1, <1>2, BeginLocalsType
<1>4. x' \in [Threads -> Numbers] /\ \A u \in Threads : Upper(x'[u]) <=> Upper(x[u])
  BY <1>0, <1>3
<1>5. QED
  BY <1>4 DEF Begin, Goto

(* How the mutex is kept: outside, taking it, inside, giving it back.       *)
LEMMA LockKeeps ==
  ASSUME WeakType, OneHolder, NEW t \in Threads, NEW l \in Locations, Goto(t, l),
         \/ pc[t] \notin Holding /\ l \notin Holding /\ lock' = lock
         \/ pc[t] \notin Holding /\ l \in Holding /\ lock = {} /\ lock' = {t}
         \/ pc[t] \in Holding /\ l \in Holding /\ lock' = lock
         \/ pc[t] \in Holding /\ l \notin Holding /\ lock' = lock \ {t}
  PROVE  OneHolder'
  BY DEF WeakType, OneHolder, Goto

(* The holder of the mutex is the only one who may have selected a page.   *)
LEMMA HolderRestores ==
  ASSUME PageInv, NEW t \in Threads, pc[t] \in Holding, page # 0, ~excused
  PROVE  pc[t] \in {"move", "restore"} /\ Upper(x[t])
<1>1. PICK u \in Threads : Restores(u)
  BY DEF PageInv
<1>2. u = t
  BY <1>1 DEF PageInv, OneHolder, Restores
<1>3. QED
  BY <1>1, <1>2 DEF Restores

(* A step of one thread within its access.  page and excused are unchanged *)
(* or excused, or page 0 is selected, or the step goes on to restore it.   *)
LEMMA InsideKeeps ==
  ASSUME PageInv, NEW t \in Threads, NEW l \in Holding, pc[t] \in Holding, Goto(t, l),
         lock' = lock, req' = req, module' = module,
         x' \in [Threads -> Numbers], \A u \in Threads : u # t => x'[u] = x[u],
         l \in {"select", "restore"} => Upper(x'[t]),
         page' = page \/ module = "paged",
         \/ excused'
         \/ page' = 0
         \/ page' = page /\ excused' = excused /\ pc[t] \notin {"move", "restore"}
         \/ l \in {"move", "restore"} /\ Upper(x'[t])
  PROVE  PageInv'
<1>1. l \in Locations
  BY DEF Holding, Locations
<1>2. WeakType'
  BY <1>1 DEF PageInv, WeakType, Goto
<1>3. OneHolder'
  BY <1>1, LockKeeps DEF PageInv
<1>4. (module # "paged" => page = 0)'
  BY DEF PageInv
<1>5. ASSUME NEW u \in Threads, pc'[u] \in {"select", "restore"} PROVE Upper(x'[u])
  BY <1>5 DEF PageInv, WeakType, Goto
<1>6. ASSUME page' # 0, ~excused' PROVE Restores(t)'
  <2>1. l \in {"move", "restore"} /\ Upper(x'[t])
    BY <1>6, HolderRestores
  <2>2. t \in lock'
    BY DEF PageInv, OneHolder
  <2>3. pc'[t] = l
    BY DEF PageInv, WeakType, Goto
  <2>4. QED
    BY <2>1, <2>2, <2>3 DEF Restores
<1>7. QED
  BY <1>2, <1>3, <1>4, <1>5, <1>6 DEF PageInv

(* The steps outside of the mutex, and those that take it or give it back, *)
(* do not touch the module.                                                *)
LEMMA EdgeKeeps ==
  ASSUME PageInv, NEW t \in Threads,
         Call(t) \/ CheckPresent(t) \/ Lock(t) \/ Unlock(t) \/ Return(t)
  PROVE  PageInv'
<1> USE DEF PageInv
<1>1. UNCHANGED <<moduleVars, excused>>
  BY DEF Call, CheckPresent, Lock, Unlock, Return, history
<1>2. \A u \in Threads : (Upper(x'[u]) <=> Upper(x[u])) \/ pc'[u] = "return"
  BY BeginType, RequestType DEF Call, CheckPresent, Lock, Unlock, Return, WeakType, Goto
<1>3. PICK l \in {"present", "return", "lock", "chunk", "probe", "idle"} : Goto(t, l)
  BY DEF Call, CheckPresent, Answer, Lock, Begin, Unlock, Return
<1>4. l \in Locations
  BY DEF Locations
<1>5. WeakType'
  <2>1. pc' \in [Threads -> Locations]
    BY <1>3, <1>4 DEF WeakType, Goto
  <2>2. req' \in [Threads -> Request] /\ \A u \in Threads : req'[u] \in Requests[u]
    <3>1. req' = req \/ \E r \in Requests[t] : req' = [req EXCEPT ![t] = r]
      BY NoRequestType DEF Call, CheckPresent, Lock, Unlock, Return
    <3>2. QED
      BY <3>1, SffAssumption DEF WeakType
  <2>3. x' \in [Threads -> Numbers]
    <3>1. NoLocals \in Numbers
      BY DEF NoLocals, Numbers
    <3>2. ASSUME Lock(t) PROVE x' \in [Threads -> Numbers]
      <4>1. req[t].len \in Int
        BY RequestType DEF WeakType
      <4>2. QED
        BY <3>2, <4>1, BeginType DEF Lock, WeakType
    <3>3. QED
      BY <3>1, <3>2 DEF Call, CheckPresent, Unlock, Return, WeakType
  <2>4. QED
    BY <2>1, <2>2, <2>3 DEF WeakType
<1>6. OneHolder'
  BY <1>3, <1>4, LockKeeps
     DEF Call, CheckPresent, Answer, Lock, Begin, Unlock, Return, Goto, WeakType, Holding
<1>7. ASSUME NEW u \in Threads, pc'[u] \in {"select", "restore"} PROVE Upper(x'[u])
  BY <1>2, <1>3, <1>7 DEF WeakType, Goto
<1>8. ASSUME NEW u \in Threads, Restores(u) PROVE Restores(u)'
  <2>1. u # t
    BY <1>8 DEF Restores, Call, CheckPresent, Lock, Unlock, Return
  <2>2. u \in lock' /\ pc'[u] = pc[u]
    BY <1>3, <1>8, <2>1 DEF Restores, WeakType, Goto, Call, CheckPresent, Lock, Unlock, Return
  <2>3. QED
    BY <1>2, <1>8, <2>2 DEF Restores
<1>9. QED
  BY <1>1, <1>5, <1>6, <1>7, <1>8 DEF moduleVars

-----------------------------------------------------------------------------
LEMMA TurnKeeps ==
  ASSUME NEW p, Turn(p)
  PROVE  page' = page \/ (module = "paged" /\ page' = p)
  BY DEF Turn

LEMMA NextPageInv == PageInv /\ [Next]_vars => PageInv'
<1> SUFFICES ASSUME PageInv, [Next]_vars PROVE PageInv'
  OBVIOUS
<1>0. WeakType /\ \A t \in Threads : x[t] \in Numbers
  BY DEF PageInv, WeakType
<1> USE DEF Holding
<1>1. ASSUME NEW t \in Threads, Probe(t) \/ ProbeFails(t) PROVE PageInv'
  <2>1. LegalLen(req[t]) \in Int /\ Wrap(ETIMEDOUT) \in Int
    <3>1. /\ P \in Int /\ FileSize \in Int /\ UnpagedSize \in Int
          /\ req[t].off \in Int /\ req[t].len \in Int
      BY <1>0, SffAssumption, RequestType DEF FileSize, UnpagedSize, WeakType
    <3>2. QED
      BY <3>1, WrapType DEF LegalLen, ETIMEDOUT
  <2>2. PICK n \in Int : Begin(t, n)
    BY <1>1, <2>1 DEF Probe, ProbeFails
  <2>3. /\ x' \in [Threads -> Numbers] /\ \A u \in Threads : u # t => x'[u] = x[u]
        /\ Goto(t, "chunk")
    BY <1>0, <2>2, BeginType DEF Begin, WeakType
  <2>4. QED
    BY <1>1, <2>3, InsideKeeps DEF Probe, ProbeFails, moduleVars
<1>2. ASSUME NEW t \in Threads, NextChunk(t) PROVE PageInv'
  <2>1. /\ x' \in [Threads -> Numbers] /\ \A u \in Threads : u # t => x'[u] = x[u]
        /\ (Upper(x'[t]) <=> PageOf(ChunkOff(t)) > 0)
    <3>1. x' = [x EXCEPT ![t] = ChunkLocals(x[t], PageOf(ChunkOff(t)), Phys(ChunkOff(t)),
                                            ChunkLen(t))]
      BY <1>0, <1>2 DEF NextChunk, WeakType, ChunkLocals, SetPage, SetPhys, SetCount, SetLeft,
                              SetMoved
    <3>2. QED
      BY <1>0, <3>1, ChunkType, ChunkLocalsType DEF WeakType
  <2>2. PICK l \in {"select", "move", "chunk_end"} :
          Goto(t, l) /\ (l = "select" => Upper(x'[t]))
    BY <1>2, <2>1 DEF NextChunk, MoveAny
  <2>3. /\ pc[t] = "chunk" /\ lock' = lock /\ req' = req /\ module' = module
        /\ page' = page /\ excused' = excused
    BY <1>2 DEF NextChunk, moduleVars, history
  <2>4. QED
    BY <2>1, <2>2, <2>3, InsideKeeps
<1>3. ASSUME NEW t \in Threads, Complete(t) PROVE PageInv'
  BY <1>0, <1>3, InsideKeeps DEF Complete, Answer, moduleVars, history, WeakType
<1>4. ASSUME NEW t \in Threads, Select(t) PROVE PageInv'
  <2>1. Upper(x[t]) /\ (page' = page \/ module = "paged")
    BY <1>4, TurnKeeps DEF Select, PageInv
  <2>2. PICK l \in {"move", "restore"} : Goto(t, l)
    BY <1>4 DEF Select, MoveAny
  <2>3. QED
    BY <1>0, <1>4, <2>1, <2>2, InsideKeeps DEF Select, history, WeakType
<1>5. ASSUME NEW t \in Threads, SelectFails(t) \/ RestoreFails(t) PROVE PageInv'
  <2>1. /\ x' \in [Threads -> Numbers] /\ \A u \in Threads : u # t => x'[u] = x[u]
    <3>1. x' = [x EXCEPT ![t] = SetMoved(x[t], ETIMEDOUT)]
      BY <1>0, <1>5 DEF SelectFails, RestoreFails, SetMoved
    <3>2. SetMoved(x[t], ETIMEDOUT) \in Numbers
      BY <1>0, SetMovedType DEF ETIMEDOUT
    <3>3. QED
      BY <1>0, <3>1, <3>2 DEF WeakType
  <2>2. page' = page \/ module = "paged"
    BY <1>5, TurnKeeps DEF SelectFails, RestoreFails
  <2>3. QED
    BY <1>5, <2>1, <2>2, InsideKeeps DEF SelectFails, RestoreFails
<1>6. ASSUME NEW t \in Threads, Move(t) \/ MoveFails(t) PROVE PageInv'
  <2>1. UnpagedSize \in Int /\ UnpagedSize > 0 /\ Unit(t) \in Int
    BY SffAssumption DEF UnpagedSize, Unit
  <2>2. /\ x' \in [Threads -> Numbers] /\ (Upper(x'[t]) <=> Upper(x[t]))
        /\ \A u \in Threads : u # t => x'[u] = x[u]
    <3>1. (x[t].phys + Unit(t)) % UnpagedSize \in Int
      BY <1>0, <2>1 DEF Numbers
    <3>2. CASE Move(t)
      <4>1. x[t].left - Unit(t) \in Int /\ x[t].moved + Unit(t) \in Int
        BY <1>0, <2>1 DEF Numbers
      <4>2. x' = [x EXCEPT ![t] = MoveLocals(x[t], (x[t].phys + Unit(t)) % UnpagedSize,
                                             x[t].left - Unit(t), x[t].moved + Unit(t))]
        BY <1>0, <3>2 DEF Move, WeakType, MoveLocals, SetPhys, SetLeft, SetMoved
      <4>3. QED
        BY <1>0, <3>1, <4>1, <4>2, MoveLocalsType DEF WeakType
    <3>3. CASE MoveFails(t)
      <4>1. PICK k \in Int : x' = [x EXCEPT ![t] = SetMoved(x[t], k)]
        <5>1. x[t].moved \in Int /\ ETIMEDOUT \in Int
          BY <1>0 DEF Numbers, ETIMEDOUT
        <5>2. CASE x[t].moved = 0
          BY <1>0, <3>3, <5>1, <5>2 DEF MoveFails, WeakType, SetMoved
        <5>3. CASE x[t].moved # 0
          BY <1>0, <3>3, <5>1, <5>3 DEF MoveFails, WeakType, SetMoved
        <5>4. QED
          BY <5>2, <5>3
      <4>2. QED
        BY <1>0, <4>1, SetMovedType DEF WeakType
    <3>4. QED
      BY <1>6, <3>2, <3>3
  <2>3. PICK l \in {"move", "restore", "chunk_end"} :
          Goto(t, l) /\ (l = "restore" => Upper(x[t]))
                     /\ (l = "chunk_end" => ~(Upper(x[t])))
    <3>1. Goto(t, AfterMove(t)) \/ Goto(t, "move")
      BY <1>6 DEF Move, MoveFails
    <3>2. QED
      BY <3>1 DEF AfterMove, Upper
  <2>4. /\ page' = page \/ module = "paged"
        /\ excused' \/ (page' = page /\ excused' = excused)
    BY <1>6, TurnKeeps DEF Move, MoveFails
  <2>5. page = 0 \/ excused \/ Upper(x[t])
    BY <1>6, HolderRestores DEF Move, MoveFails
  <2>6. /\ pc[t] = "move" /\ lock' = lock /\ req' = req /\ module' = module
    BY <1>6 DEF Move, MoveFails
  <2>7. excused' \/ page' = 0 \/ (l \in {"move", "restore"} /\ Upper(x'[t]))
    BY <2>2, <2>3, <2>4, <2>5
  <2>8. QED
    BY <2>2, <2>3, <2>4, <2>6, <2>7, InsideKeeps
<1>7. ASSUME NEW t \in Threads, Restore(t) PROVE PageInv'
  <2>1. page' = 0 /\ (page' = page \/ module = "paged")
    BY <1>7, TurnKeeps DEF Restore, PageInv, Turn
  <2>2. QED
    BY <1>0, <1>7, <2>1, InsideKeeps DEF Restore, WeakType
<1>8. ASSUME NEW t \in Threads, EndChunk(t) PROVE PageInv'
  <2>1. /\ x' \in [Threads -> Numbers] /\ \A u \in Threads : u # t => x'[u] = x[u]
        /\ Goto(t, "unlock") \/ Goto(t, "chunk")
    BY <1>0, <1>8 DEF EndChunk, Answer, WeakType, Numbers
  <2>2. QED
    BY <1>8, <2>1, InsideKeeps DEF EndChunk, moduleVars, history
<1>9. CASE Swap \/ OtherMaster
  <2>1. UNCHANGED <<pc, req, x, lock>>
    BY <1>9 DEF Swap, OtherMaster
  <2>2. (module' # "paged" => page' = 0) /\ (page' = 0 \/ excused')
    BY <1>9 DEF Swap, OtherMaster
  <2>3. QED
    BY <2>1, <2>2 DEF PageInv, WeakType, OneHolder
<1>10. CASE UNCHANGED vars
  BY <1>10 DEF vars, threadVars, moduleVars, history, PageInv, WeakType, OneHolder, Restores
<1>11. QED
  BY <1>1, <1>2, <1>3, <1>4, <1>5, <1>6, <1>7, <1>8, <1>9, <1>10, EdgeKeeps
     DEF Next, Access, UpdateClient

(* Every way out of a chunk, after failed transfers too, leaves page 0     *)
(* selected, unless the page register itself was not written or somebody   *)
(* else wrote it.                                                          *)
THEOREM PageRestoredHolds == Spec => []PageRestored
<1>1. Init => PageInv
  BY SffAssumption DEF Init, PageInv, WeakType, OneHolder, Holding, Locations, Numbers,
                       NoLocals, NoRequest
<1>2. PageInv => PageRestored
  BY DEF PageInv, PageRestored, Restores
<1>3. QED
  BY <1>1, <1>2, NextPageInv, PTL DEF Spec
=============================================================================
