------------------------------ MODULE SffEeprom ------------------------------
(***************************************************************************)
(* The sfp_eeprom file of a QSFP port                                      *)
(* (recipes-kernel/accton-csp7551-mods/files/x86-64-accton-csp7551-sfp.c). *)
(*                                                                         *)
(* A module has a lower half of P bytes, and an upper half of P bytes that *)
(* shows one of several pages.  In the file the pages follow each other.   *)
(* An access is cut into chunks, one per page, a chunk into transfers of   *)
(* the i2c adapter; before and after a chunk of a page the page register   *)
(* is written.  All of it happens under the port's mutex, which keeps out  *)
(* this host's other accesses but neither another i2c master nor a swap of *)
(* the module.                                                             *)
(*                                                                         *)
(* A byte is told by its place in the file: done[t][k] is the place the    *)
(* k-th byte of an access was read from or written to, as long as nothing  *)
(* changes the module behind its back.  Modules and other masters are      *)
(* external.                                                               *)
(***************************************************************************)
EXTENDS Integers, Sequences

CONSTANTS Threads,
          P,            \* SFF_8436_PAGE_SIZE (128)
          Pages,        \* SFF_8436_SPECED_PAGES (4)
          Width,        \* the number of values of a size_t (2^64)
          PageWidth,    \* the number of values of a page, an u8 (256)
          Requests,     \* per thread, its accesses (a bound on the inputs)
          Modules,      \* the modules that may be plugged
          Disturbances  \* what may go wrong, see below

UnpagedSize == 2 * P
FileSize    == (1 + Pages) * P
PageSelect  == P - 1

Request == [op : {"read", "write"}, off : 0..(FileSize - 1), len : 1..FileSize,
            select : 0..(Pages - 1)]  \* the byte a write has for PageSelect

Module == {"paged", "flat"}

ASSUME SffAssumption ==
  /\ P \in Nat /\ P > 1 /\ Pages \in Nat \ {0} /\ Width \in Nat
  /\ Width > 2 * FileSize
  /\ PageWidth \in Pages..Width
  /\ Requests \in [Threads -> SUBSET Request]
  /\ \A t \in Threads : /\ Requests[t] # {}
                        /\ \A r \in Requests[t] : r.off + r.len <= FileSize
  /\ Modules \subseteq Module /\ Modules # {}
  /\ Disturbances \subseteq {"error", "swap", "master"}

NoModule == "none"

VARIABLES
  pc,       \* where each thread is
  req,      \* its access
  ret,      \* what its access returns, a negative value for an error
  x,        \* the other locals of its access, see Locals
  done,     \* the places of the bytes it transferred
  lock,     \* threads that hold update_lock
  module,   \* the plugged module
  page,     \* the module's page register
  probed,   \* history: the access knows whether the module has pages
  failed,   \* history: a transfer of the access failed
  tampered, \* history: "during" when something else changed the module in the
            \* access, "before" when page 0 may not be selected when needed
  excused   \* history: why page 0 may not be selected

threadVars == <<pc, req, ret, x, done>>
moduleVars == <<module, page>>
history    == <<probed, failed, tampered, excused>>
vars       == <<threadVars, lock, moduleVars, history>>

Locations == {"idle", "present", "lock", "probe", "chunk", "select", "move",
              "restore", "chunk_end", "unlock", "return"}
ENODEV == -2
ETIMEDOUT == -1

Sizes == 0..(Width - 1)

Locals == [len : Sizes,       \* len in sfp_port_read_write
           chunk : Sizes,     \* chunk
           pending : Sizes,   \* pending_len
           total : Sizes,     \* retval
           count : Sizes,     \* chunk_len
           page : Sizes,      \* page in sff_8436_eeprom_update_client
           phys : 0..(UnpagedSize - 1),                 \* phy_offset
           left : Sizes,      \* count
           moved : -1..(Width - 1)]                     \* retval there

NoLocals == [len |-> 0, chunk |-> 0, pending |-> 0, total |-> 0, count |-> 0,
             page |-> 0, phys |-> 0, left |-> 0, moved |-> 0]

Places == 0..((1 + Width) * P - 1)

TypeOK ==
  /\ pc \in [Threads -> Locations]
  /\ \A t \in Threads : req[t] \in Requests[t]
  /\ ret \in [Threads -> -2..(Width - 1)]
  /\ x \in [Threads -> Locals]
  /\ done \in [Threads -> Seq(Places)]
  /\ lock \in SUBSET Threads
  /\ module \in Modules \cup {NoModule}
  /\ page \in Sizes
  /\ probed \in [Threads -> BOOLEAN] /\ failed \in [Threads -> BOOLEAN]
  /\ tampered \in [Threads -> {"no", "before", "during"}]
  /\ excused \in BOOLEAN

NoRequest(t) == CHOOSE r \in Requests[t] : TRUE

Init ==
  /\ pc = [t \in Threads |-> "idle"]
  /\ req = [t \in Threads |-> NoRequest(t)]
  /\ ret = [t \in Threads |-> 0]
  /\ x = [t \in Threads |-> NoLocals]
  /\ done = [t \in Threads |-> <<>>]
  /\ lock = {}
  /\ module \in Modules
  /\ page = 0
  /\ probed = [t \in Threads |-> FALSE]
  /\ failed = [t \in Threads |-> FALSE]
  /\ tampered = [t \in Threads |-> "no"]
  /\ excused = FALSE

-----------------------------------------------------------------------------
Goto(t, l) == pc' = [pc EXCEPT ![t] = l]

Answer(t, l, r) == Goto(t, l) /\ ret' = [ret EXCEPT ![t] = r]

(* size_t arithmetic *)
Wrap(n) == n % Width

(* The module's byte that an address of the i2c device stands for. *)
Place(phys) == IF phys < P \/ module = "flat" THEN phys ELSE page * P + phys

(* sff_8436_translate_offset, which returns the page as an u8 *)
Phys(off) == IF off < P THEN off ELSE P + (off % P)
PageOf(off) == IF off < P THEN 0 ELSE (off \div P - 1) % PageWidth

Call(t) ==
  /\ pc[t] = "idle"
  /\ \E r \in Requests[t] : req' = [req EXCEPT ![t] = r]
  /\ Goto(t, "present")
  /\ UNCHANGED <<ret, x, done, lock, moduleVars, history>>

(* sfp_is_port_present, whose own hazards are those of module QsfpPort; its *)
(* read of the present register of the CPLD may fail.                      *)
CheckPresent(t) ==
  /\ pc[t] = "present"
  /\ \/ module = NoModule /\ Answer(t, "return", ENODEV)
     \/ module # NoModule /\ Goto(t, "lock") /\ UNCHANGED ret
     \/ "error" \in Disturbances /\ Answer(t, "return", ETIMEDOUT)
  /\ UNCHANGED <<req, x, done, lock, moduleVars, history>>

Begin(t, n) ==
  /\ Goto(t, "chunk")
  /\ x' = [x EXCEPT ![t].len = n, ![t].pending = n, ![t].chunk = req[t].off \div P]

(* A page was left selected, or the access itself writes the page register: *)
(* page 0 is not selected by the code, it relies on finding it selected.   *)
WrongPage(r) == \/ page # 0
                \/ r.op = "write" /\ PageSelect \in r.off..(r.off + r.len - 1)

(* sff_8436_page_legal is asked first; short accesses are always legal. *)
Lock(t) ==
  /\ pc[t] = "lock"
  /\ lock = {} /\ lock' = {t}
  /\ tampered' = [tampered EXCEPT ![t] = IF WrongPage(req[t]) THEN "before" ELSE "no"]
  /\ IF req[t].off + req[t].len <= UnpagedSize
     THEN Begin(t, req[t].len) ELSE Goto(t, "probe") /\ UNCHANGED x
  /\ UNCHANGED <<req, ret, done, moduleVars, probed, failed, excused>>

(* Mutated form: a module with pages is trimmed to one page less. *)
LegalLen_OnePageLess(r) ==
  LET end == IF module = "paged" THEN FileSize - P ELSE UnpagedSize
      maxlen == Wrap(end - r.off)
  IN  IF r.len > maxlen THEN maxlen ELSE r.len

(* The length trimmed to the module; maxlen wraps when off is beyond it. *)
LegalLen(r) ==
  LET end == IF module = "paged" THEN FileSize ELSE UnpagedSize
      maxlen == Wrap(end - r.off)
  IN  IF r.len > maxlen THEN maxlen ELSE r.len

Probe(t) ==
  /\ pc[t] = "probe" /\ module # NoModule
  /\ Begin(t, LegalLen(req[t]))
  /\ probed' = [probed EXCEPT ![t] = TRUE]
  /\ UNCHANGED <<req, ret, done, lock, moduleVars, failed, tampered, excused>>

(* A transfer fails when all its tries did, always without a module. *)
MayFail == module = NoModule \/ "error" \in Disturbances

Failed(t) == failed' = [failed EXCEPT ![t] = TRUE]

(* The error becomes a size_t, which is never negative. *)
ProbeFails(t) ==
  /\ pc[t] = "probe" /\ MayFail
  /\ Begin(t, Wrap(ETIMEDOUT))
  /\ Failed(t)
  /\ UNCHANGED <<req, ret, done, lock, moduleVars, probed, tampered, excused>>

-----------------------------------------------------------------------------
(* The chunks of sfp_port_read_write. *)
LastChunk(t) == Wrap(req[t].off + x[t].len - 1) \div P

ChunkStart(t) == x[t].chunk * P
ChunkOff(t) == IF ChunkStart(t) < req[t].off THEN req[t].off ELSE ChunkStart(t)

(* Mutated form: the last chunk is not cut to what is left. *)
ChunkLen_Whole(t) ==
  IF ChunkStart(t) < req[t].off THEN ChunkStart(t) + P - req[t].off ELSE P

ChunkLen(t) ==
  IF ChunkStart(t) < req[t].off
  THEN IF Wrap(req[t].off + x[t].pending) < ChunkStart(t) + P
       THEN x[t].pending ELSE ChunkStart(t) + P - req[t].off
  ELSE IF x[t].pending > P THEN P ELSE x[t].pending

(* "while (count)": an empty chunk, which only a failed probe leads to,     *)
(* transfers nothing.                                                       *)
MoveAny(n, after) == IF n > 0 THEN "move" ELSE after

NextChunk(t) ==
  /\ pc[t] = "chunk" /\ x[t].chunk <= LastChunk(t)
  /\ Goto(t, IF PageOf(ChunkOff(t)) > 0 THEN "select" ELSE MoveAny(ChunkLen(t), "chunk_end"))
  /\ x' = [x EXCEPT ![t].page = PageOf(ChunkOff(t)), ![t].phys = Phys(ChunkOff(t)),
                    ![t].count = ChunkLen(t), ![t].left = ChunkLen(t), ![t].moved = 0]
  /\ UNCHANGED <<req, ret, done, lock, moduleVars, history>>

(* retval is handed back as a signed value. *)
Signed(n) == IF 2 * n < Width THEN n ELSE ETIMEDOUT

Complete(t) ==
  /\ pc[t] = "chunk" /\ x[t].chunk > LastChunk(t)
  /\ Answer(t, "unlock", Signed(x[t].total))
  /\ UNCHANGED <<req, x, done, lock, moduleVars, history>>

(* A flat module has no page register. *)
Turn(p) == page' = IF module = "paged" THEN p ELSE page

(* sff_8436_eeprom_update_client: select, transfer, restore. *)
Select(t) ==
  /\ pc[t] = "select" /\ module # NoModule
  /\ Turn(x[t].page)
  /\ Goto(t, MoveAny(x[t].left, "restore"))
  /\ UNCHANGED <<req, ret, x, done, lock, module, history>>

(* The error is returned at once; the page may have been selected. *)
SelectFails(t) ==
  /\ pc[t] = "select" /\ MayFail
  /\ Turn(x[t].page) \/ UNCHANGED page
  /\ excused' = TRUE
  /\ Failed(t)
  /\ Goto(t, "chunk_end")
  /\ x' = [x EXCEPT ![t].moved = ETIMEDOUT]
  /\ UNCHANGED <<req, ret, done, lock, module, probed, tampered>>

AfterMove(t) == IF x[t].page > 0 THEN "restore" ELSE "chunk_end"

(* The adapter reads words or bytes; write_max is one byte. *)
Unit(t) == IF req[t].op = "read" /\ x[t].left > 1 THEN 2 ELSE 1

Touched(t) == [k \in 1..Unit(t) |-> Place((x[t].phys + k - 1) % UnpagedSize)]

SelectsPage(t) == req[t].op = "write" /\ x[t].phys = PageSelect

Move(t) ==
  /\ pc[t] = "move" /\ module # NoModule
  /\ done' = [done EXCEPT ![t] = IF tampered[t] = "during" THEN <<>> ELSE @ \o Touched(t)]
  /\ x' = [x EXCEPT ![t].phys = (@ + Unit(t)) % UnpagedSize,
                    ![t].left = @ - Unit(t), ![t].moved = @ + Unit(t)]
  /\ Goto(t, IF x[t].left = Unit(t) THEN AfterMove(t) ELSE "move")
  /\ IF SelectsPage(t) THEN Turn(req[t].select) /\ excused' = TRUE
                       ELSE UNCHANGED <<page, excused>>
  /\ UNCHANGED <<req, ret, lock, module, probed, failed, tampered>>

(* Mutated form: the page is not restored when a transfer failed. *)
MoveFails_NoRestore(t) ==
  /\ pc[t] = "move" /\ MayFail
  /\ Failed(t)
  /\ Goto(t, "chunk_end")
  /\ x' = [x EXCEPT ![t].moved = IF @ = 0 THEN ETIMEDOUT ELSE @]
  /\ UNCHANGED <<page, excused>>
  /\ UNCHANGED <<req, ret, done, lock, module, probed, tampered>>

(* Mutated form: a failed transfer is tried again without a limit. *)
MoveFails_Forever(t) ==
  /\ pc[t] = "move" /\ MayFail
  /\ Failed(t)
  /\ Goto(t, "select")
  /\ UNCHANGED <<req, ret, x, done, lock, moduleVars, probed, tampered, excused>>

(* What was moved before is still counted; a failed write may have arrived. *)
MoveFails(t) ==
  /\ pc[t] = "move" /\ MayFail
  /\ Failed(t)
  /\ Goto(t, AfterMove(t))
  /\ x' = [x EXCEPT ![t].moved = IF @ = 0 THEN ETIMEDOUT ELSE @]
  /\ \/ SelectsPage(t) /\ Turn(req[t].select) /\ excused' = TRUE
     \/ UNCHANGED <<page, excused>>
  /\ UNCHANGED <<req, ret, done, lock, module, probed, tampered>>

Restore(t) ==
  /\ pc[t] = "restore" /\ module # NoModule
  /\ Turn(0)
  /\ excused' = FALSE
  /\ Goto(t, "chunk_end")
  /\ UNCHANGED <<req, ret, x, done, lock, module, probed, failed, tampered>>

(* The error replaces the number of bytes of the chunk. *)
RestoreFails(t) ==
  /\ pc[t] = "restore" /\ MayFail
  /\ Turn(0) \/ UNCHANGED page
  /\ excused' = TRUE
  /\ Failed(t)
  /\ Goto(t, "chunk_end")
  /\ x' = [x EXCEPT ![t].moved = ETIMEDOUT]
  /\ UNCHANGED <<req, ret, done, lock, module, probed, tampered>>

(* Mutated form: after a failure all bytes of the full chunks and the whole *)
(* failing chunk are reported.                                             *)
EndChunk_Whole(t) ==
  /\ pc[t] = "chunk_end"
  /\ IF Wrap(x[t].moved) # x[t].count
     THEN Answer(t, "unlock", x[t].total + x[t].count) /\ UNCHANGED x
     ELSE /\ Goto(t, "chunk")
          /\ x' = [x EXCEPT ![t].chunk = @ + 1, ![t].pending = @ - x[t].count,
                            ![t].total = @ + x[t].count]
          /\ UNCHANGED ret
  /\ UNCHANGED <<req, done, lock, moduleVars, history>>

(* status is compared as a size_t; after a short chunk the result is its   *)
(* status alone, without the chunks before it.                             *)
EndChunk(t) ==
  /\ pc[t] = "chunk_end"
  /\ IF Wrap(x[t].moved) # x[t].count
     THEN Answer(t, "unlock", x[t].moved) /\ UNCHANGED x
     ELSE /\ Goto(t, "chunk")
          /\ x' = [x EXCEPT ![t].chunk = @ + 1, ![t].pending = @ - x[t].count,
                            ![t].total = @ + x[t].count]
          /\ UNCHANGED ret
  /\ UNCHANGED <<req, done, lock, moduleVars, history>>

(* Locals of a thread are gone once its access has returned. *)
Unlock(t) ==
  /\ pc[t] = "unlock"
  /\ lock' = lock \ {t}
  /\ Goto(t, "return")
  /\ x' = [x EXCEPT ![t] = NoLocals]
  /\ done' = [done EXCEPT ![t] = <<>>]
  /\ probed' = [probed EXCEPT ![t] = FALSE]
  /\ failed' = [failed EXCEPT ![t] = FALSE]
  /\ tampered' = [tampered EXCEPT ![t] = "no"]
  /\ UNCHANGED <<req, ret, moduleVars, excused>>

Return(t) ==
  /\ pc[t] = "return"
  /\ Goto(t, "idle")
  /\ req' = [req EXCEPT ![t] = NoRequest(t)]
  /\ ret' = [ret EXCEPT ![t] = 0]
  /\ UNCHANGED <<x, done, lock, moduleVars, history>>

UpdateClient(t) ==
  \/ Select(t) \/ SelectFails(t)
  \/ Move(t) \/ MoveFails(t)
  \/ Restore(t) \/ RestoreFails(t)

Access(t) ==
  \/ CheckPresent(t) \/ Lock(t)
  \/ Probe(t) \/ ProbeFails(t)
  \/ NextChunk(t) \/ UpdateClient(t) \/ EndChunk(t) \/ Complete(t)
  \/ Unlock(t) \/ Return(t)

-----------------------------------------------------------------------------
Tamper ==
  /\ tampered' = [t \in Threads |-> IF t \in lock THEN "during" ELSE tampered[t]]
  /\ done' = [t \in Threads |-> <<>>]

(* A module is unplugged, or one is plugged; page 0 is selected at power-on. *)
Swap ==
  /\ "swap" \in Disturbances
  /\ module' \in IF module = NoModule THEN Modules ELSE {NoModule}
  /\ page' = 0
  /\ excused' = FALSE
  /\ Tamper
  /\ UNCHANGED <<pc, req, ret, x, lock, probed, failed>>

(* "but not from other I2C masters" *)
OtherMaster ==
  /\ "master" \in Disturbances /\ module = "paged"
  /\ page' \in 0..(Pages - 1) /\ page' # page
  /\ excused' = TRUE
  /\ Tamper
  /\ UNCHANGED <<pc, req, ret, x, lock, module, probed, failed>>

Next == \/ \E t \in Threads : Call(t) \/ Access(t)
        \/ Swap \/ OtherMaster

Spec == Init /\ [][Next]_vars

(* Threads are scheduled, and the mutex is handed to a waiter. *)
Fairness == \A t \in Threads : SF_vars(Access(t))

FairSpec == Spec /\ Fairness

-----------------------------------------------------------------------------
(* Properties.                                                              *)

(* What an access reports as transferred are the bytes that its offset     *)
(* names, one after the other, whatever failed, unless the module was      *)
(* changed behind its back.  Only the bytes of upper page 0 also depend on *)
(* that page having been left selected.  (Probes that fail: LegalLength.)  *)
RightBytes ==
  \A t \in Threads :
    LET r == req[t]
    IN  /\ pc[t] = "unlock" /\ ret[t] > 0 /\ tampered[t] # "during"
        /\ r.off + r.len > UnpagedSize => probed[t]
        /\ module = "paged" \/ r.off < UnpagedSize
        => /\ ret[t] <= r.len /\ ret[t] <= Len(done[t])
           /\ \A k \in 1..ret[t] :
                \/ done[t][k] = r.off + k - 1
                \/ tampered[t] = "before" /\ r.off + k - 1 \in P..(UnpagedSize - 1)

(* An access in which no transfer failed is complete: it moved all that    *)
(* was asked of it and that the module has.                                *)
FullLength ==
  \A t \in Threads :
    LET r == req[t]
        end == IF module = "paged" THEN FileSize ELSE UnpagedSize
    IN  pc[t] = "unlock" /\ ~failed[t] /\ tampered[t] # "during" /\ r.off <= end
        => ret[t] = IF r.off + r.len <= end THEN r.len ELSE end - r.off

(* When nobody holds the port, page 0 is selected, unless a write of the   *)
(* page register failed or somebody else wrote it: every way out of a      *)
(* chunk restores the page.                                                *)
PageRestored == lock = {} /\ page # 0 => excused

(* What page_legal hands on is a length within the module, or an error     *)
(* that ends the access before a byte is transferred: "initial offset      *)
(* exceeds supported pages, return -EINVAL", "error out (no module?)".     *)
LegalLength ==
  \A t \in Threads :
    pc[t] = "move" /\ tampered[t] # "during" =>
      req[t].off + x[t].len <= (IF module = "flat" THEN UnpagedSize ELSE FileSize)

(* Every access comes back, whatever the module answers. *)
AccessReturns == \A t \in Threads : pc[t] # "idle" ~> pc[t] = "idle"
=============================================================================
