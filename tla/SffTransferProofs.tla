--------------------------- MODULE SffTransferProofs ---------------------------
(***************************************************************************)
(* What an access of the sfp_eeprom file transfers, for any page size and  *)
(* number of pages, threads, accesses, modules and disturbances: the bytes *)
(* its offset names, all of them unless a transfer failed.  SffEepromProofs *)
(* shows that one thread at a time works on the module; here its place in  *)
(* the file is related to the chunk, the page and the half it works on.    *)
(***************************************************************************)
EXTENDS SffEepromProofs

-----------------------------------------------------------------------------
(* Chunks: k begins at Base(k), Quot(n) is the one of byte n.               *)
Base(k) == k * P
Quot(n) == n \div P

LEMMA BaseFacts ==
  ASSUME NEW k \in Nat
  PROVE  Base(k) \in Nat /\ Base(0) = 0 /\ Base(k + 1) = Base(k) + P
<1>1. P \in Nat
  BY SffAssumption
<1>2. Base(k) \in Nat
  BY <1>1 DEF Base
<1>3. Base(0) = 0 /\ Base(k + 1) = Base(k) + P
  BY <1>1 DEF Base
<1>4. QED
  BY <1>2, <1>3

LEMMA BaseMono ==
  ASSUME NEW j \in Nat, NEW k \in Nat
  PROVE  /\ j < k => Base(j) + P <= Base(k)
         /\ j <= k => Base(j) <= Base(k)
<1>1. P \in Nat /\ P > 0
  BY SffAssumption
<1>2. ASSUME NEW d \in Nat PROVE (j + d) * P = j * P + d * P /\ d * P \in Nat
  BY <1>1
<1>3. ASSUME NEW d \in Nat, d > 0 PROVE d * P >= P
  BY <1>1, <1>3
<1>4. CASE j < k
  <2>1. PICK d \in Nat : d = k - j /\ d > 0
    BY <1>4
  <2>2. k * P = j * P + d * P /\ d * P >= P
    BY <1>2, <1>3, <2>1
  <2>3. j * P \in Int /\ k * P \in Int /\ d * P \in Int
    BY <1>1, <2>1
  <2>4. QED
    BY <1>1, <2>2, <2>3 DEF Base
<1>5. CASE j = k
  BY <1>1, <1>5, BaseFacts DEF Base
<1>6. CASE j > k
  BY <1>6
<1>7. QED
  BY <1>4, <1>5, <1>6

LEMMA BaseTwice == ASSUME NEW k \in Nat PROVE Base(k) >= 2 * k
<1>1. PICK d \in Nat : P = d + 2
  <2>1. P \in Nat /\ P > 1
    BY SffAssumption
  <2>2. P - 2 \in Nat /\ P = (P - 2) + 2
    BY <2>1
  <2>3. QED
    BY <2>2
<1>2. PICK m \in Nat : m = k * d
  OBVIOUS
<1>3. k * (d + 2) = k * d + k * 2
  OBVIOUS
<1>4. QED
  BY <1>1, <1>2, <1>3 DEF Base

LEMMA QuotFacts ==
  ASSUME NEW n \in Nat
  PROVE  /\ Quot(n) \in Nat
         /\ Base(Quot(n)) <= n /\ n < Base(Quot(n)) + P
         /\ n % P = n - Base(Quot(n))
<1>1. P \in Nat /\ P > 0
  BY SffAssumption
<1>2. Quot(n) \in Nat
  BY <1>1 DEF Quot
<1>3. n = (P * (n \div P)) + (n % P) /\ n % P \in 0..(P - 1)
  BY <1>1
<1>4. P * (n \div P) = Base(Quot(n))
  BY <1>1, <1>2 DEF Base, Quot
<1>5. Base(Quot(n)) \in Nat
  BY <1>2, BaseFacts
<1>6. PICK m \in 0..(P - 1) : m = n % P
  BY <1>3
<1>7. n = Base(Quot(n)) + m
  BY <1>3, <1>4, <1>6
<1>8. QED
  BY <1>1, <1>2, <1>5, <1>6, <1>7

LEMMA QuotIs ==
  ASSUME NEW n \in Nat, NEW k \in Nat
  PROVE  /\ k <= Quot(n) <=> Base(k) <= n
         /\ Base(k) <= n /\ n < Base(k) + P => Quot(n) = k
<1>1. /\ Quot(n) \in Nat /\ Base(Quot(n)) \in Nat /\ Base(k) \in Nat /\ P \in Nat
      /\ Base(Quot(n)) <= n /\ n < Base(Quot(n)) + P
  BY QuotFacts, BaseFacts, SffAssumption
<1>2. /\ k <= Quot(n) => Base(k) <= Base(Quot(n))
      /\ Quot(n) < k => Base(Quot(n)) + P <= Base(k)
      /\ k < Quot(n) => Base(k) + P <= Base(Quot(n))
  BY <1>1, BaseMono
<1>3. QED
  BY <1>1, <1>2

(* The sizes, in chunks; a size_t holds them with room to spare.            *)
LEMMA SizeFacts ==
  /\ P \in Nat /\ P > 1 /\ Width \in Nat /\ FileSize \in Nat
  /\ UnpagedSize = Base(2) /\ Base(2) = 2 * P /\ Base(1) = P
  /\ UnpagedSize <= FileSize /\ 2 * FileSize < Width
<1>1. P \in Nat /\ P > 1 /\ Width \in Nat /\ Width > 2 * FileSize /\ 1 + Pages \in Nat /\ 2 <= 1 + Pages
  BY SffAssumption
<1>2. FileSize = Base(1 + Pages) /\ UnpagedSize = Base(2) /\ Base(2) = 2 * P /\ Base(1) = P
  BY <1>1 DEF FileSize, Base, UnpagedSize
<1>3. Base(1 + Pages) \in Nat /\ Base(2) <= Base(1 + Pages)
  BY <1>1, BaseFacts, BaseMono
<1>4. QED
  BY <1>1, <1>2, <1>3

(* sff_8436_translate_offset, in chunks; a page of the file fits in an u8.  *)
LEMMA Translated ==
  ASSUME NEW n \in Nat, NEW k \in Nat, k = Quot(n)
  PROVE  /\ n < FileSize => PageOf(n) = IF k = 0 THEN 0 ELSE k - 1
         /\ Phys(n) = (IF k = 0 THEN 0 ELSE P) + (n - Base(k))
         /\ Phys(n) \in 0..(UnpagedSize - 1) /\ PageOf(n) \in 0..k
<1>1. /\ Base(k) \in Nat /\ Base(k) <= n /\ n < Base(k) + P /\ n % P = n - Base(k)
      /\ P \in Nat /\ P > 1 /\ UnpagedSize = 2 * P /\ Base(0) = 0
  BY QuotFacts, BaseFacts, SizeFacts
<1>2. n < P <=> k = 0
  <2>1. k >= 1 <=> Base(1) <= n
    BY QuotIs
  <2>2. QED
    BY <1>1, <2>1, SizeFacts
<1>3. k = n \div P
  BY DEF Quot
<1>4. Phys(n) = (IF k = 0 THEN 0 ELSE P) + (n - Base(k)) /\ Phys(n) \in 0..(UnpagedSize - 1)
  BY <1>1, <1>2 DEF Phys
<1>5. PageOf(n) = IF k = 0 THEN 0 ELSE (k - 1) % PageWidth
  BY <1>2, <1>3 DEF PageOf
<1>6. PICK w \in Nat : w = PageWidth /\ w > 0 /\ w >= Pages
  BY SffAssumption
<1>7. ASSUME NEW m \in Nat PROVE m % w \in 0..m /\ (m < w => m % w = m)
  BY <1>6
<1>8. CASE k = 0
  BY <1>4, <1>5, <1>8
<1>9. CASE k > 0
  <2>1. PICK m \in Nat : m = k - 1
    BY <1>9
  <2>2. PageOf(n) = m % w /\ m % w \in 0..m /\ (m < w => m % w = m)
    BY <1>5, <1>6, <1>7, <1>9, <2>1
  <2>3. n < FileSize => k < 1 + Pages
    <3>1. 1 + Pages \in Nat /\ FileSize = Base(1 + Pages)
      BY SffAssumption DEF FileSize, Base
    <3>2. 1 + Pages <= k <=> Base(1 + Pages) <= n
      BY <3>1, QuotIs
    <3>3. QED
      BY <1>1, <3>1, <3>2, BaseFacts
  <2>4. Pages \in Nat
    BY SffAssumption
  <2>5. n < FileSize => m < w
    BY <1>6, <2>1, <2>3, <2>4
  <2>6. QED
    BY <1>4, <1>9, <2>1, <2>2, <2>5
<1>10. QED
  BY <1>8, <1>9

(* size_t arithmetic that does not wrap; -1 is its greatest value.          *)
LEMMA Wrapped ==
  ASSUME NEW n \in Int
  PROVE  /\ Wrap(n) \in Sizes
         /\ n \in Sizes => Wrap(n) = n
         /\ n \in Nat => Wrap(n) <= n
         /\ Wrap(-1) = Width - 1
<1>1. Width \in Nat /\ Width > 2
  BY SizeFacts
<1>2. QED
  BY <1>1 DEF Wrap, Sizes

LEMMA RequestFacts ==
  ASSUME NEW t \in Threads, NEW r \in Requests[t]
  PROVE  /\ r.off \in Nat /\ r.len \in Nat /\ r.len > 0
         /\ r.off + r.len <= FileSize
         /\ r.select \in Sizes
<1>1. r \in Request /\ r.off + r.len <= FileSize /\ Pages \in Nat
  BY SffAssumption
<1>2. FileSize \in Nat /\ Width \in Nat
  BY SizeFacts
<1>3. r.select \in 0..(Pages - 1) /\ r.off \in 0..(FileSize - 1) /\ r.len \in 1..FileSize
  BY <1>1 DEF Request
<1>4. Pages <= FileSize /\ FileSize < Width
  <2>1. P \in Nat /\ P > 1 /\ 2 * FileSize < Width
    BY SizeFacts
  <2>2. Pages * P \in Nat /\ Base(1 + Pages) = Base(Pages) + P /\ FileSize = Base(1 + Pages)
    BY <1>1, <2>1, BaseFacts DEF Base, FileSize
  <2>3. ASSUME NEW k \in Nat PROVE k * P >= k
    BY <2>1
  <2>4. Pages * P >= Pages
    BY <1>1, <2>3
  <2>5. QED
    BY <1>1, <1>2, <2>1, <2>2, <2>4 DEF Base
<1>5. QED
  BY <1>1, <1>2, <1>3, <1>4 DEF Sizes

-----------------------------------------------------------------------------
(* Type correctness.  A failed probe makes the length of an access the     *)
(* greatest size_t, so the bounds need more than the request: how the      *)
(* length is divided into what was transferred and what is pending, and    *)
(* that no chunk is begun after the last one.                              *)
InChunk == {"select", "move", "restore", "chunk_end"}
Begun   == {"chunk"} \cup InChunk

Sent(r) == r.count - r.left
Final(q, r) == Quot(Wrap(q.off + r.len - 1))

Counts(l, q, r) ==
  /\ l \notin Begun \cup {"unlock"} => r = NoLocals
  /\ l \in Begun => r.total + r.pending = r.len /\ q.off < Base(r.chunk) + P
  /\ l \in InChunk => /\ r.chunk <= Final(q, r)
                      /\ r.count <= r.pending /\ r.left <= r.count
                      /\ r.moved \in {-1, Sent(r)}
  /\ l = "select" => r.moved = 0 /\ r.left = r.count
  /\ l = "move" => r.left > 0 /\ r.moved = Sent(r)

ThreadTypes == /\ x \in [Threads -> Locals]
               /\ \A t \in Threads : Counts(pc[t], req[t], x[t])

OtherTypes == /\ ret \in [Threads -> -2..(Width - 1)]
              /\ done \in [Threads -> Seq(Places)]
              /\ module \in Modules \cup {NoModule}
              /\ page \in Sizes
              /\ probed \in [Threads -> BOOLEAN] /\ failed \in [Threads -> BOOLEAN]
              /\ tampered \in [Threads -> {"no", "before", "during"}]
              /\ excused \in BOOLEAN

TypeInv == PageInv /\ ThreadTypes /\ OtherTypes

LEMMA LocalsFacts ==
  ASSUME NEW r \in Locals
  PROVE  /\ r \in Numbers
         /\ r.len \in Nat /\ r.chunk \in Nat /\ r.pending \in Nat /\ r.total \in Nat
         /\ r.count \in Nat /\ r.page \in Nat /\ r.left \in Nat /\ r.phys \in Nat
         /\ r.moved \in Int
         /\ r.len < Width /\ r.chunk < Width /\ r.pending < Width /\ r.total < Width
         /\ r.count < Width /\ r.page < Width /\ r.left < Width
         /\ r.moved >= -1 /\ r.moved < Width /\ r.phys < UnpagedSize
<1>1. Width \in Nat /\ UnpagedSize \in Nat
  BY SizeFacts
<1>2. QED
  BY <1>1 DEF Locals, Sizes, Numbers

(* A step of one thread, whose locals become y.                            *)
LEMMA ThreadTypesKeep ==
  ASSUME TypeInv, PageInv', NEW t \in Threads, NEW l \in Locations, Goto(t, l),
         \A u \in Threads \ {t} : req'[u] = req[u],
         NEW y \in Locals, x' = [x EXCEPT ![t] = y], Counts(l, req'[t], y)
  PROVE  ThreadTypes'
<1>1. x' \in [Threads -> Locals]
  BY DEF TypeInv, ThreadTypes
<1>2. pc'[t] = l /\ x'[t] = y
  BY DEF TypeInv, ThreadTypes, PageInv, WeakType, Goto
<1>3. ASSUME NEW u \in Threads, u # t PROVE pc'[u] = pc[u] /\ x'[u] = x[u] /\ req'[u] = req[u]
  BY <1>3 DEF TypeInv, ThreadTypes, PageInv, WeakType, Goto
<1>4. ASSUME NEW u \in Threads PROVE Counts(pc'[u], req'[u], x'[u])
  BY <1>2, <1>3 DEF TypeInv, ThreadTypes
<1>5. QED
  BY <1>1, <1>4 DEF ThreadTypes


(* Several fields of a thread's locals, set at once. *)
LEMMA BeginFields ==
  ASSUME NEW r \in Numbers, NEW n \in Int, NEW c \in Int, NEW y,
         y = [r EXCEPT !.len = n, !.pending = n, !.chunk = c]
  PROVE  y = [len |-> n, chunk |-> c, pending |-> n, total |-> r.total, count |-> r.count,
              page |-> r.page, phys |-> r.phys, left |-> r.left, moved |-> r.moved]
  BY DEF Numbers

LEMMA ChunkFields ==
  ASSUME NEW r \in Numbers, NEW p \in Int, NEW a \in Int, NEW n \in Int, NEW y,
         y = [r EXCEPT !.page = p, !.phys = a, !.count = n, !.left = n, !.moved = 0]
  PROVE  y = [len |-> r.len, chunk |-> r.chunk, pending |-> r.pending, total |-> r.total,
              count |-> n, page |-> p, phys |-> a, left |-> n, moved |-> 0]
  BY DEF Numbers

Moved(r, a, n, k) == [r EXCEPT !.phys = a, !.left = n, !.moved = k]
Ended(r, c, n, k) == [r EXCEPT !.chunk = c, !.pending = n, !.total = k]

LEMMA MoveFields ==
  ASSUME NEW r \in Numbers, NEW a \in Int, NEW n \in Int, NEW k \in Int
  PROVE  \E y \in Numbers :
           /\ y = Moved(r, a, n, k)
           /\ y.len = r.len /\ y.chunk = r.chunk /\ y.pending = r.pending /\ y.total = r.total
           /\ y.count = r.count /\ y.page = r.page /\ y.phys = a /\ y.left = n /\ y.moved = k
<1>1. PICK y : y = Moved(r, a, n, k)
  OBVIOUS
<1>2. y = [len |-> r.len, chunk |-> r.chunk, pending |-> r.pending, total |-> r.total,
           count |-> r.count, page |-> r.page, phys |-> a, left |-> n, moved |-> k]
  BY <1>1 DEF Numbers, Moved
<1>3. y \in Numbers
  BY <1>2 DEF Numbers
<1>4. QED
  BY <1>1, <1>2, <1>3

LEMMA FailFields ==
  ASSUME NEW r \in Numbers, NEW k \in Int, NEW y, y = [r EXCEPT !.moved = k]
  PROVE  y = [len |-> r.len, chunk |-> r.chunk, pending |-> r.pending, total |-> r.total,
              count |-> r.count, page |-> r.page, phys |-> r.phys, left |-> r.left,
              moved |-> k]
  BY DEF Numbers

LEMMA EndFields ==
  ASSUME NEW r \in Numbers, NEW c \in Int, NEW n \in Int, NEW k \in Int
  PROVE  \E y \in Numbers :
           /\ y = Ended(r, c, n, k)
           /\ y.len = r.len /\ y.chunk = c /\ y.pending = n /\ y.total = k
           /\ y.count = r.count /\ y.page = r.page /\ y.phys = r.phys /\ y.left = r.left
           /\ y.moved = r.moved
<1>1. PICK y : y = Ended(r, c, n, k)
  OBVIOUS
<1>2. y = [len |-> r.len, chunk |-> c, pending |-> n, total |-> k, count |-> r.count,
           page |-> r.page, phys |-> r.phys, left |-> r.left, moved |-> r.moved]
  BY <1>1 DEF Numbers, Ended
<1>3. y \in Numbers
  BY <1>2 DEF Numbers
<1>4. QED
  BY <1>1, <1>2, <1>3

(* Locals whose fields are in range. *)
LEMMA IsLocals ==
  ASSUME NEW r \in Numbers, r.len \in Sizes, r.chunk \in Sizes, r.pending \in Sizes,
         r.total \in Sizes, r.count \in Sizes, r.page \in Sizes, r.left \in Sizes,
         r.phys \in 0..(UnpagedSize - 1), r.moved \in -1..(Width - 1)
  PROVE  r \in Locals
  BY DEF Numbers, Locals

LEMMA LocalsNow ==
  ASSUME TypeInv, NEW t \in Threads
  PROVE  x[t] \in Locals /\ Counts(pc[t], req[t], x[t]) /\ req[t] \in Requests[t]
  BY DEF TypeInv, ThreadTypes, PageInv, WeakType

LEMMA BeginLocalsAre ==
  ASSUME TypeInv, NEW t \in Threads, pc[t] \in {"lock", "probe"}, NEW n \in Sizes, Begin(t, n)
  PROVE  \E y \in Locals :
           /\ x' = [x EXCEPT ![t] = y]
           /\ y = [len |-> n, chunk |-> Quot(req[t].off), pending |-> n, total |-> 0,
                   count |-> 0, page |-> 0, phys |-> 0, left |-> 0, moved |-> 0]
           /\ Counts("chunk", req[t], y)
<1>1. x[t] = NoLocals
  BY LocalsNow DEF Counts, Begun, InChunk
<1>2. PICK c : c = Quot(req[t].off)
  OBVIOUS
<1>3. x' = [x EXCEPT ![t] = [len |-> n, chunk |-> c, pending |-> n, total |-> 0,
                             count |-> 0, page |-> 0, phys |-> 0, left |-> 0, moved |-> 0]]
  <2>1. x' = [x EXCEPT ![t] = [x[t] EXCEPT !.len = n, !.pending = n, !.chunk = c]]
    BY <1>2 DEF Begin, Quot, TypeInv, ThreadTypes
  <2>2. PICK z : z = [NoLocals EXCEPT !.len = n, !.pending = n, !.chunk = c]
    OBVIOUS
  <2>3. NoLocals \in Numbers /\ n \in Int /\ c \in Int
    BY <1>2, LocalsNow, RequestFacts, QuotFacts, SizeFacts DEF NoLocals, Numbers, Sizes
  <2>4. z = [len |-> n, chunk |-> c, pending |-> n, total |-> 0,
             count |-> 0, page |-> 0, phys |-> 0, left |-> 0, moved |-> 0]
    BY <2>2, <2>3, BeginFields DEF NoLocals
  <2>5. QED
    BY <1>1, <2>1, <2>2, <2>4
<1>4. PICK y : y = [len |-> n, chunk |-> c, pending |-> n, total |-> 0,
                    count |-> 0, page |-> 0, phys |-> 0, left |-> 0, moved |-> 0]
  OBVIOUS
<1>5. /\ req[t].off \in Nat /\ req[t].off < Width /\ Width \in Nat /\ UnpagedSize \in Nat
      /\ UnpagedSize > 0
  BY LocalsNow, RequestFacts, SizeFacts
<1>6. c \in Nat /\ c < Width /\ req[t].off < Base(c) + P
  <2>1. c \in Nat /\ Base(c) <= req[t].off /\ req[t].off < Base(c) + P
    BY <1>2, <1>5, QuotFacts
  <2>2. c <= Base(c)
    <3>1. P \in Nat /\ P > 1
      BY SizeFacts
    <3>2. c * P >= c
      BY <2>1, <3>1
    <3>3. QED
      BY <3>2 DEF Base
  <2>3. QED
    BY <1>5, <2>1, <2>2, BaseFacts
<1>7. y \in Locals
  <2>1. n \in Nat /\ n < Width /\ 0 \in Sizes /\ c \in Sizes
    BY <1>5, <1>6 DEF Sizes
  <2>2. QED
    BY <1>4, <1>5, <2>1 DEF Locals
<1>8. Counts("chunk", req[t], y)
  <2>1. n \in Nat
    BY <1>5 DEF Sizes
  <2>2. QED
    BY <1>4, <1>6, <2>1 DEF Counts, Begun, InChunk
<1>9. QED
  BY <1>2, <1>3, <1>4, <1>7, <1>8

(* Where a chunk begins, and how much of the pending bytes it takes.        *)
LEMMA ChunkBounds ==
  ASSUME TypeInv, NEW t \in Threads, pc[t] = "chunk"
  PROVE  /\ ChunkOff(t) \in Nat /\ ChunkLen(t) \in 0..(x[t].pending)
         /\ PageOf(ChunkOff(t)) \in Sizes /\ Phys(ChunkOff(t)) \in 0..(UnpagedSize - 1)
<1>1. /\ req[t].off \in Nat /\ x[t].pending \in Nat /\ x[t].chunk \in Nat /\ P \in Nat
      /\ x[t].chunk < Width /\ Width \in Nat /\ P > 1 /\ req[t].off < Width
  BY LocalsNow, LocalsFacts, RequestFacts, SizeFacts
<1>2. /\ ChunkStart(t) = Base(x[t].chunk) /\ Base(x[t].chunk) \in Nat
      /\ req[t].off < Base(x[t].chunk) + P
  BY <1>1, BaseFacts, LocalsNow DEF ChunkStart, Base, Counts, Begun
<1>3. ChunkOff(t) \in Nat
  BY <1>1, <1>2 DEF ChunkOff
<1>4. ChunkLen(t) \in 0..(x[t].pending)
  <2>1. req[t].off + x[t].pending \in Nat
    BY <1>1
  <2>2. PICK w \in Nat : w = Wrap(req[t].off + x[t].pending) /\ w <= req[t].off + x[t].pending
    BY <1>1, <2>1, Wrapped DEF Sizes
  <2>3. QED
    BY <1>1, <1>2, <2>2 DEF ChunkLen
<1>5. PICK k \in Nat : k = Quot(ChunkOff(t))
  BY <1>3, QuotFacts
<1>6. k < Width
  <2>1. CASE ChunkStart(t) < req[t].off
    <3>1. ChunkOff(t) = req[t].off /\ Base(k) <= req[t].off
      BY <1>1, <1>5, <2>1, QuotFacts DEF ChunkOff
    <3>2. k * P >= k
      BY <1>1
    <3>3. k <= Base(k) /\ Base(k) \in Nat
      BY <3>2, BaseFacts DEF Base
    <3>4. QED
      BY <1>1, <3>1, <3>3
  <2>2. CASE ~(ChunkStart(t) < req[t].off)
    <3>1. ChunkOff(t) = Base(x[t].chunk)
      BY <1>2, <2>2 DEF ChunkOff
    <3>2. k = x[t].chunk
      BY <1>1, <1>2, <1>5, <3>1, QuotIs
    <3>3. QED
      BY <1>1, <3>2
  <2>3. QED
    BY <2>1, <2>2
<1>7. PageOf(ChunkOff(t)) \in 0..k /\ Phys(ChunkOff(t)) \in 0..(UnpagedSize - 1)
  BY <1>3, <1>5, Translated
<1>8. QED
  BY <1>1, <1>3, <1>4, <1>6, <1>7 DEF Sizes

LEMMA ChunkLocalsAre ==
  ASSUME TypeInv, NEW t \in Threads, NextChunk(t)
  PROVE  \E y \in Locals :
           /\ x' = [x EXCEPT ![t] = y]
           /\ y = [len |-> x[t].len, chunk |-> x[t].chunk, pending |-> x[t].pending,
                   total |-> x[t].total, count |-> ChunkLen(t), page |-> PageOf(ChunkOff(t)),
                   phys |-> Phys(ChunkOff(t)), left |-> ChunkLen(t), moved |-> 0]
           /\ \A l \in {"select", "chunk_end"} : Counts(l, req[t], y)
           /\ ChunkLen(t) > 0 => Counts("move", req[t], y)
<1>1. PICK p, a, n : p = PageOf(ChunkOff(t)) /\ a = Phys(ChunkOff(t)) /\ n = ChunkLen(t)
  OBVIOUS
<1>2. p \in Sizes /\ a \in 0..(UnpagedSize - 1) /\ n \in 0..(x[t].pending)
  BY <1>1, ChunkBounds DEF NextChunk
<1>3. PICK y : y = [len |-> x[t].len, chunk |-> x[t].chunk, pending |-> x[t].pending,
                    total |-> x[t].total, count |-> n, page |-> p, phys |-> a,
                    left |-> n, moved |-> 0]
  OBVIOUS
<1>4. x[t] \in Locals /\ x[t] \in Numbers /\ Counts("chunk", req[t], x[t])
  BY LocalsNow, LocalsFacts DEF NextChunk
<1>5. x' = [x EXCEPT ![t] = y]
  <2>1. x' = [x EXCEPT ![t] = [x[t] EXCEPT !.page = p, !.phys = a, !.count = n, !.left = n,
                                           !.moved = 0]]
    BY <1>1 DEF NextChunk, TypeInv, ThreadTypes
  <2>2. PICK z : z = [x[t] EXCEPT !.page = p, !.phys = a, !.count = n, !.left = n, !.moved = 0]
    OBVIOUS
  <2>3. p \in Int /\ a \in Int /\ n \in Int
    BY <1>2, <1>4, LocalsFacts, SizeFacts DEF Sizes
  <2>4. z = y
    BY <1>3, <1>4, <2>2, <2>3, ChunkFields
  <2>5. QED
    BY <2>1, <2>2, <2>4
<1>6. n \in Nat /\ n <= x[t].pending /\ x[t].pending \in Nat /\ x[t].pending < Width /\ Width \in Nat
  BY <1>2, <1>4, LocalsFacts, SizeFacts
<1>7. y \in Locals
  <2>1. n \in Sizes /\ 0 \in -1..(Width - 1)
    BY <1>6 DEF Sizes
  <2>2. QED
    BY <1>2, <1>3, <1>4, <2>1 DEF Locals
<1>8. /\ Final(req[t], y) = LastChunk(t) /\ Sent(y) = 0
      /\ y.chunk <= Final(req[t], y)
  BY <1>3, <1>6 DEF Final, LastChunk, Quot, NextChunk, Sent
<1>9. /\ \A l \in {"select", "chunk_end"} : Counts(l, req[t], y)
      /\ n > 0 => Counts("move", req[t], y)
  BY <1>3, <1>4, <1>6, <1>8 DEF Counts, Begun, InChunk
<1>10. QED
  BY <1>1, <1>3, <1>5, <1>7, <1>9


LEMMA UnitFacts ==
  ASSUME TypeInv, NEW t \in Threads, pc[t] = "move"
  PROVE  /\ Unit(t) \in {1, 2} /\ Unit(t) <= x[t].left
         /\ x[t].left <= x[t].count /\ x[t].moved = x[t].count - x[t].left
         /\ (x[t].phys + Unit(t)) % UnpagedSize \in 0..(UnpagedSize - 1)
<1>1. /\ x[t].left \in Nat /\ x[t].count \in Nat /\ x[t].phys \in Nat
      /\ UnpagedSize \in Nat /\ UnpagedSize > 0
  BY LocalsNow, LocalsFacts, SizeFacts
<1>2. /\ x[t].left > 0 /\ x[t].left <= x[t].count /\ x[t].moved = x[t].count - x[t].left
  BY LocalsNow DEF Counts, InChunk, Sent
<1>3. Unit(t) \in {1, 2} /\ Unit(t) <= x[t].left
  BY <1>1, <1>2 DEF Unit
<1>4. PICK n \in Nat : n = x[t].phys + Unit(t)
  BY <1>1, <1>3
<1>5. n % UnpagedSize \in 0..(UnpagedSize - 1)
  BY <1>1, <1>4
<1>6. QED
  BY <1>2, <1>3, <1>4, <1>5

LEMMA MoveLocalsAre ==
  ASSUME TypeInv, NEW t \in Threads, Move(t)
  PROVE  \E y \in Locals :
           /\ x' = [x EXCEPT ![t] = y]
           /\ y.len = x[t].len /\ y.chunk = x[t].chunk /\ y.pending = x[t].pending
           /\ y.total = x[t].total /\ y.count = x[t].count /\ y.page = x[t].page
           /\ y.phys = (x[t].phys + Unit(t)) % UnpagedSize
           /\ y.left = x[t].left - Unit(t) /\ y.moved = x[t].moved + Unit(t)
           /\ \A l \in {"restore", "chunk_end"} : Counts(l, req[t], y)
           /\ x[t].left # Unit(t) => Counts("move", req[t], y)
<1>1. PICK u, a \in Int : u = Unit(t) /\ a = (x[t].phys + u) % UnpagedSize
  BY UnitFacts, SizeFacts DEF Move
<1>2. /\ u \in {1, 2} /\ u <= x[t].left /\ a \in 0..(UnpagedSize - 1)
      /\ x[t].left <= x[t].count /\ x[t].moved = x[t].count - x[t].left
  BY <1>1, UnitFacts DEF Move
<1>3. x[t] \in Locals /\ x[t] \in Numbers /\ Counts("move", req[t], x[t])
  BY LocalsNow, LocalsFacts DEF Move
<1>4. /\ x[t].left \in Nat /\ x[t].count \in Nat /\ x[t].moved \in Int
      /\ x[t].count < Width /\ Width \in Nat /\ UnpagedSize \in Nat
  BY <1>3, LocalsFacts, SizeFacts
<1>5. PICK n \in Int, k \in Int : n = x[t].left - u /\ k = x[t].moved + u
  BY <1>2, <1>4
<1>6. PICK y \in Numbers :
        /\ y = Moved(x[t], a, n, k)
        /\ y.len = x[t].len /\ y.chunk = x[t].chunk /\ y.pending = x[t].pending
        /\ y.total = x[t].total /\ y.count = x[t].count /\ y.page = x[t].page
        /\ y.phys = a /\ y.left = n /\ y.moved = k
  BY <1>3, MoveFields
<1>7. x' = [x EXCEPT ![t] = y]
  BY <1>1, <1>5, <1>6 DEF Move, TypeInv, ThreadTypes, Moved
<1>8. y \in Locals
  <2>1. n \in Sizes /\ k \in -1..(Width - 1)
    BY <1>2, <1>4, <1>5 DEF Sizes
  <2>2. /\ x[t].len \in Sizes /\ x[t].chunk \in Sizes /\ x[t].pending \in Sizes
        /\ x[t].total \in Sizes /\ x[t].count \in Sizes /\ x[t].page \in Sizes
    BY <1>3 DEF Locals
  <2>3. QED
    BY <1>2, <1>6, <2>1, <2>2, IsLocals
<1>9. Final(req[t], y) = Final(req[t], x[t]) /\ y.moved = Sent(y)
  BY <1>2, <1>4, <1>5, <1>6 DEF Final, Sent
<1>10. /\ \A l \in {"restore", "chunk_end"} : Counts(l, req[t], y)
       /\ x[t].left # u => Counts("move", req[t], y)
  <2>1. y.left <= y.count /\ (x[t].left # u => y.left > 0)
    BY <1>2, <1>4, <1>5, <1>6
  <2>2. /\ x[t].total + x[t].pending = x[t].len /\ req[t].off < Base(x[t].chunk) + P
        /\ x[t].chunk <= Final(req[t], x[t]) /\ x[t].count <= x[t].pending
    BY <1>3 DEF Counts, Begun, InChunk
  <2>3. QED
    BY <1>6, <1>9, <2>1, <2>2 DEF Counts, Begun, InChunk
<1>11. QED
  BY <1>1, <1>5, <1>6, <1>7, <1>8, <1>10

(* A transfer fails: moved becomes -1, or stays as it was.                  *)
LEMMA FailLocalsAre ==
  ASSUME TypeInv, NEW t \in Threads,
         SelectFails(t) \/ MoveFails(t) \/ RestoreFails(t)
  PROVE  \E y \in Locals :
           /\ x' = [x EXCEPT ![t] = y]
           /\ \E k \in {-1, x[t].moved} :
                /\ MoveFails(t) \/ k = -1
                /\ y = [len |-> x[t].len, chunk |-> x[t].chunk, pending |-> x[t].pending,
                        total |-> x[t].total, count |-> x[t].count, page |-> x[t].page,
                        phys |-> x[t].phys, left |-> x[t].left, moved |-> k]
           /\ \A l \in {"restore", "chunk_end"} : Counts(l, req[t], y)
<1>1. x[t] \in Locals /\ x[t] \in Numbers /\ x[t].moved \in Int /\ Width \in Nat
  BY LocalsNow, LocalsFacts, SizeFacts
<1>2. PICK k \in {-1, x[t].moved} :
        /\ MoveFails(t) \/ k = -1
        /\ x' = [x EXCEPT ![t] = [x[t] EXCEPT !.moved = k]]
  <2>1. CASE SelectFails(t) \/ RestoreFails(t)
    BY <2>1 DEF SelectFails, RestoreFails, ETIMEDOUT, TypeInv, ThreadTypes
  <2>2. CASE MoveFails(t) /\ x[t].moved = 0
    BY <2>2 DEF MoveFails, ETIMEDOUT, TypeInv, ThreadTypes
  <2>3. CASE MoveFails(t) /\ x[t].moved # 0
    BY <2>3 DEF MoveFails, ETIMEDOUT, TypeInv, ThreadTypes
  <2>4. QED
    BY <2>1, <2>2, <2>3
<1>3. PICK y : y = [x[t] EXCEPT !.moved = k]
  OBVIOUS
<1>4. y = [len |-> x[t].len, chunk |-> x[t].chunk, pending |-> x[t].pending,
           total |-> x[t].total, count |-> x[t].count, page |-> x[t].page,
           phys |-> x[t].phys, left |-> x[t].left, moved |-> k]
  BY <1>1, <1>2, <1>3, FailFields
<1>5. y \in Locals
  <2>1. k \in -1..(Width - 1)
    BY <1>1, <1>2, LocalsFacts
  <2>2. QED
    BY <1>1, <1>4, <2>1 DEF Locals
<1>6. Final(req[t], y) = Final(req[t], x[t]) /\ Sent(y) = Sent(x[t])
  BY <1>4 DEF Final, Sent
<1>7. Counts(pc[t], req[t], x[t]) /\ pc[t] \in InChunk
  BY LocalsNow DEF SelectFails, MoveFails, RestoreFails, InChunk
<1>8. \A l \in {"restore", "chunk_end"} : Counts(l, req[t], y)
  BY <1>2, <1>4, <1>6, <1>7 DEF Counts, Begun, InChunk
<1>9. QED
  BY <1>2, <1>3, <1>4, <1>5, <1>8

(* The next chunk: the bytes of this one are no longer pending.             *)
LEMMA EndLocalsAre ==
  ASSUME TypeInv, NEW t \in Threads, EndChunk(t), Wrap(x[t].moved) = x[t].count
  PROVE  \E y \in Locals :
           /\ x' = [x EXCEPT ![t] = y]
           /\ y.len = x[t].len /\ y.chunk = x[t].chunk + 1
           /\ y.pending = x[t].pending - x[t].count /\ y.total = x[t].total + x[t].count
           /\ Counts("chunk", req[t], y)
<1>1. x[t] \in Locals /\ x[t] \in Numbers /\ Counts("chunk_end", req[t], x[t])
  BY LocalsNow, LocalsFacts DEF EndChunk
<1>2. /\ x[t].len \in Nat /\ x[t].chunk \in Nat /\ x[t].pending \in Nat /\ x[t].total \in Nat
      /\ x[t].count \in Nat /\ x[t].len < Width /\ Width \in Nat /\ Width > 4
      /\ P \in Nat /\ P > 1 /\ req[t].off \in Nat
  BY <1>1, LocalsNow, LocalsFacts, RequestFacts, SizeFacts
<1>3. /\ x[t].total + x[t].pending = x[t].len /\ x[t].count <= x[t].pending
      /\ x[t].chunk <= Final(req[t], x[t]) /\ req[t].off < Base(x[t].chunk) + P
  BY <1>1 DEF Counts, Begun, InChunk
<1>4. PICK c \in Int, n \in Int, k \in Int :
        /\ c = x[t].chunk + 1 /\ n = x[t].pending - x[t].count
        /\ k = x[t].total + x[t].count
  <2>1. /\ x[t].chunk \in Nat /\ x[t].pending \in Nat /\ x[t].total \in Nat
        /\ x[t].count \in Nat
    BY <1>2
  <2>2. /\ x[t].chunk + 1 \in Int /\ x[t].pending - x[t].count \in Int
        /\ x[t].total + x[t].count \in Int
    BY <2>1
  <2>3. QED
    BY <2>2
<1>5. PICK y \in Numbers :
        /\ y = Ended(x[t], c, n, k)
        /\ y.len = x[t].len /\ y.chunk = c /\ y.pending = n /\ y.total = k
        /\ y.count = x[t].count /\ y.page = x[t].page /\ y.phys = x[t].phys
        /\ y.left = x[t].left /\ y.moved = x[t].moved
  BY <1>1, EndFields
<1>6. x' = [x EXCEPT ![t] = y]
  BY <1>4, <1>5 DEF EndChunk, TypeInv, ThreadTypes, Ended
<1>7. x[t].chunk + 1 < Width
  <2>1. PICK m \in Sizes : m = Wrap(req[t].off + x[t].len - 1)
    BY <1>2, Wrapped
  <2>2. m \in Nat /\ m < Width
    BY <1>2, <2>1 DEF Sizes
  <2>3. Base(x[t].chunk) <= m
    BY <1>2, <1>3, <2>1, <2>2, QuotIs DEF Final
  <2>4. Base(x[t].chunk) >= 2 * x[t].chunk
    BY <1>2, BaseTwice
  <2>5. QED
    BY <1>2, <2>2, <2>3, <2>4, BaseFacts
<1>8. y \in Locals
  <2>1. c \in Sizes /\ n \in Sizes /\ k \in Sizes
    BY <1>2, <1>3, <1>4, <1>7 DEF Sizes
  <2>2. /\ x[t].len \in Sizes /\ x[t].count \in Sizes /\ x[t].page \in Sizes
        /\ x[t].left \in Sizes /\ x[t].phys \in 0..(UnpagedSize - 1)
        /\ x[t].moved \in -1..(Width - 1)
    BY <1>1 DEF Locals
  <2>3. QED
    BY <1>5, <2>1, <2>2, IsLocals
<1>9. Counts("chunk", req[t], y)
  <2>1. Base(x[t].chunk + 1) = Base(x[t].chunk) + P /\ Base(x[t].chunk) \in Nat
    BY <1>2, BaseFacts
  <2>2. QED
    BY <1>2, <1>3, <1>4, <1>5, <2>1 DEF Counts, Begun, InChunk
<1>10. QED
  BY <1>4, <1>5, <1>8, <1>9, <1>6

(* A step of one thread that changes its locals as a lemma above says, or  *)
(* not at all.                                                             *)
LEMMA ThreadTypesNext == TypeInv /\ PageInv' /\ [Next]_vars => ThreadTypes'
<1> SUFFICES ASSUME TypeInv, PageInv', [Next]_vars PROVE ThreadTypes'
  OBVIOUS
<1> USE DEF Locations
<1>0. /\ x \in [Threads -> Locals]
      /\ \A t \in Threads : /\ x[t] \in Locals /\ Counts(pc[t], req[t], x[t])
                            /\ req[t] \in Requests[t]
  BY LocalsNow DEF TypeInv, ThreadTypes
<1>a. NoLocals \in Locals
  <2>1. 0 \in Sizes /\ 0 \in 0..(UnpagedSize - 1) /\ 0 \in -1..(Width - 1)
    BY SizeFacts DEF Sizes
  <2>2. QED
    BY <2>1 DEF NoLocals, Locals
<1>b. ASSUME NEW t \in Threads, NEW l \in Locations, Goto(t, l), x' = x,
             \A u \in Threads \ {t} : req'[u] = req[u], Counts(l, req'[t], x[t])
      PROVE  ThreadTypes'
  <2>1. PICK y \in Locals : y = x[t]
    BY <1>0
  <2>2. x' = [x EXCEPT ![t] = y]
    BY <1>0, <1>b, <2>1
  <2>3. Counts(l, req'[t], y)
    BY <1>b, <2>1
  <2>4. TypeInv /\ PageInv' /\ Goto(t, l) /\ \A u \in Threads \ {t} : req'[u] = req[u]
    BY <1>b
  <2>5. QED
    BY <2>2, <2>3, <2>4, ThreadTypesKeep
<1>1. ASSUME NEW t \in Threads, Call(t) \/ CheckPresent(t) \/ Return(t) PROVE ThreadTypes'
  <2>1. x[t] = NoLocals
    BY <1>0, <1>1 DEF Call, CheckPresent, Return, Counts, Begun, InChunk
  <2>2. \A l \in Locations : l \notin Begun \cup {"unlock"} => Counts(l, req'[t], x[t])
    BY <2>1 DEF Counts, Begun, InChunk
  <2>3. PICK l \in {"present", "return", "lock", "idle"} : Goto(t, l)
    BY <1>1 DEF Call, CheckPresent, Return, Answer
  <2>4. x' = x /\ \A u \in Threads \ {t} : req'[u] = req[u]
    BY <1>1 DEF Call, CheckPresent, Return, TypeInv, PageInv, WeakType
  <2>5. Counts(l, req'[t], x[t])
    BY <2>2, <2>3 DEF Begun, InChunk
  <2>6. QED
    BY <1>b, <2>3, <2>4, <2>5
<1>2. ASSUME NEW t \in Threads, Lock(t) \/ Probe(t) \/ ProbeFails(t) PROVE ThreadTypes'
  <2>0. req' = req /\ pc[t] \in {"lock", "probe"}
    BY <1>2 DEF Lock, Probe, ProbeFails
  <2>1. ASSUME NEW n \in Sizes, Begin(t, n) PROVE ThreadTypes'
    BY <2>0, <2>1, BeginLocalsAre, ThreadTypesKeep DEF Begin
  <2>2. req[t].len \in Sizes /\ req[t].off \in Nat
    BY <1>0, RequestFacts, SizeFacts DEF Sizes
  <2>3. LegalLen(req[t]) \in Sizes /\ Wrap(ETIMEDOUT) \in Sizes
    <3>1. /\ FileSize - req[t].off \in Int /\ UnpagedSize - req[t].off \in Int
          /\ ETIMEDOUT \in Int
      BY <2>2, SizeFacts DEF ETIMEDOUT
    <3>2. /\ Wrap(FileSize - req[t].off) \in Sizes /\ Wrap(UnpagedSize - req[t].off) \in Sizes
          /\ Wrap(ETIMEDOUT) \in Sizes
      BY <3>1, Wrapped
    <3>3. QED
      BY <2>2, <3>2 DEF LegalLen
  <2>4. CASE Goto(t, "probe") /\ x' = x
    <3>1. Counts("probe", req'[t], x[t])
      BY <1>0, <1>2, <2>4 DEF Lock, Probe, ProbeFails, Begin, Goto, Counts, Begun, InChunk
    <3>2. QED
      BY <1>b, <2>0, <2>4, <3>1
  <2>5. (Goto(t, "probe") /\ x' = x) \/ \E n \in Sizes : Begin(t, n)
    BY <1>2, <2>2, <2>3 DEF Lock, Probe, ProbeFails
  <2>6. QED
    BY <2>1, <2>4, <2>5
<1>3. ASSUME NEW t \in Threads, NextChunk(t) PROVE ThreadTypes'
  <2>1. req' = req
    BY <1>3 DEF NextChunk
  <2>2. PICK l \in {"select", "move", "chunk_end"} :
          Goto(t, l) /\ (l = "move" => ChunkLen(t) > 0)
    BY <1>3 DEF NextChunk, MoveAny
  <2>3. PICK y \in Locals : x' = [x EXCEPT ![t] = y] /\ Counts(l, req[t], y)
    BY <1>3, <2>2, ChunkLocalsAre
  <2>4. QED
    BY <2>1, <2>2, <2>3, ThreadTypesKeep
<1>4. ASSUME NEW t \in Threads, Select(t) \/ Restore(t) \/ Complete(t) PROVE ThreadTypes'
  <2>1. req' = req /\ x' = x
    BY <1>4 DEF Select, Restore, Complete
  <2>2. PICK l \in Locations : Goto(t, l) /\ Counts(l, req[t], x[t])
    <3>1. CASE Select(t)
      <4>1. /\ x[t].left \in Nat
            /\ Counts("restore", req[t], x[t])
            /\ x[t].left > 0 => Counts("move", req[t], x[t])
        <5>1. x[t].count \in Nat /\ x[t].left \in Nat
          BY <1>0, LocalsFacts
        <5>2. QED
          BY <1>0, <3>1, <5>1 DEF Select, Counts, Begun, InChunk, Sent
      <4>2. QED
        BY <3>1, <4>1 DEF Select, MoveAny
    <3>2. CASE Restore(t) \/ Complete(t)
      BY <1>0, <3>2 DEF Restore, Complete, Answer, Counts, Begun, InChunk
    <3>3. QED
      BY <1>4, <3>1, <3>2
  <2>3. QED
    BY <1>b, <2>1, <2>2
<1>5. ASSUME NEW t \in Threads, SelectFails(t) \/ MoveFails(t) \/ RestoreFails(t)
      PROVE  ThreadTypes'
  <2>1. req' = req
    BY <1>5 DEF SelectFails, MoveFails, RestoreFails
  <2>2. PICK l \in {"restore", "chunk_end"} : Goto(t, l)
    BY <1>5 DEF SelectFails, MoveFails, RestoreFails, AfterMove
  <2>3. PICK y \in Locals : x' = [x EXCEPT ![t] = y] /\ Counts(l, req[t], y)
    BY <1>5, FailLocalsAre
  <2>4. QED
    BY <2>1, <2>2, <2>3, ThreadTypesKeep
<1>6. ASSUME NEW t \in Threads, Move(t) PROVE ThreadTypes'
  <2>1. req' = req
    BY <1>6 DEF Move
  <2>2. PICK l \in {"move", "restore", "chunk_end"} :
          Goto(t, l) /\ (l = "move" => x[t].left # Unit(t))
    BY <1>6 DEF Move, AfterMove
  <2>3. PICK y \in Locals : x' = [x EXCEPT ![t] = y] /\ Counts(l, req[t], y)
    BY <1>6, <2>2, MoveLocalsAre
  <2>4. QED
    BY <2>1, <2>2, <2>3, ThreadTypesKeep
<1>7. ASSUME NEW t \in Threads, EndChunk(t) PROVE ThreadTypes'
  <2>1. req' = req
    BY <1>7 DEF EndChunk
  <2>2. CASE Wrap(x[t].moved) = x[t].count
    <3>1. Goto(t, "chunk")
      BY <1>7, <2>2 DEF EndChunk
    <3>2. PICK y \in Locals : x' = [x EXCEPT ![t] = y] /\ Counts("chunk", req[t], y)
      BY <1>7, <2>2, EndLocalsAre
    <3>3. QED
      BY <2>1, <3>1, <3>2, ThreadTypesKeep
  <2>3. CASE Wrap(x[t].moved) # x[t].count
    <3>1. Goto(t, "unlock") /\ x' = x /\ Counts("unlock", req[t], x[t])
      BY <1>7, <2>3 DEF EndChunk, Answer, Counts, Begun, InChunk
    <3>2. QED
      BY <1>b, <2>1, <3>1
  <2>4. QED
    BY <2>2, <2>3
<1>8. ASSUME NEW t \in Threads, Unlock(t) PROVE ThreadTypes'
  <2>1. req' = req /\ x' = [x EXCEPT ![t] = NoLocals] /\ Goto(t, "return")
    BY <1>8 DEF Unlock
  <2>2. Counts("return", req[t], NoLocals)
    BY DEF Counts, Begun, InChunk
  <2>3. QED
    BY <1>a, <2>1, <2>2, ThreadTypesKeep
<1>9. CASE UNCHANGED <<pc, req, x>>
  BY <1>0, <1>9 DEF ThreadTypes
<1>10. QED
  <2>1. CASE Swap \/ OtherMaster \/ UNCHANGED vars
    BY <1>9, <2>1 DEF Swap, OtherMaster, vars, threadVars
  <2>2. QED
    BY <1>1, <1>2, <1>3, <1>4, <1>5, <1>6, <1>7, <1>8, <2>1 DEF Next, Access, UpdateClient

(* The bytes an access transferred are places of the file: with a page     *)
(* register of any value, at most that page's last byte.                   *)
LEMMA PlaceType ==
  ASSUME page \in Sizes, NEW n \in 0..(UnpagedSize - 1)
  PROVE  Place(n) \in Places
<1>1. /\ P \in Nat /\ P > 1 /\ Width \in Nat /\ Width > 2 /\ UnpagedSize = 2 * P
      /\ page \in Nat /\ page < Width /\ n \in Nat /\ n < 2 * P
  BY SizeFacts DEF Sizes
<1>2. PICK k \in Nat, w \in Nat : k = page /\ w = Width - 1 /\ k <= w
  BY <1>1
<1>3. Base(k) \in Nat /\ Base(k) <= Base(w) /\ Base(w) \in Nat /\ Base(0) <= Base(w)
  BY <1>2, BaseFacts, BaseMono
<1>4. (1 + Width) * P = Base(w) + 2 * P
  <2>1. (w + 1) + 1 = 1 + Width /\ w + 1 \in Nat /\ (w + 1) + 1 \in Nat
    BY <1>1, <1>2
  <2>2. Base((w + 1) + 1) = Base(w + 1) + P /\ Base(w + 1) = Base(w) + P
    BY <1>2, <2>1, BaseFacts
  <2>3. QED
    BY <1>1, <1>3, <2>1, <2>2 DEF Base
<1>5. page * P = Base(k)
  BY <1>2 DEF Base
<1>6. QED
  BY <1>1, <1>3, <1>4, <1>5 DEF Place, Places

LEMMA TouchedType ==
  ASSUME TypeInv, NEW t \in Threads, pc[t] = "move"
  PROVE  Touched(t) \in Seq(Places) /\ Len(Touched(t)) = Unit(t)
<1>1. Unit(t) \in Nat /\ x[t].phys \in Nat /\ UnpagedSize \in Nat /\ UnpagedSize > 0
  BY UnitFacts, LocalsNow, LocalsFacts, SizeFacts
<1>2. ASSUME NEW k \in 1..Unit(t) PROVE Place((x[t].phys + k - 1) % UnpagedSize) \in Places
  <2>1. PICK m \in Nat : m = x[t].phys + k - 1
    BY <1>1
  <2>2. PICK n \in 0..(UnpagedSize - 1) : n = m % UnpagedSize
    BY <1>1
  <2>3. QED
    BY <2>1, <2>2, PlaceType DEF TypeInv, OtherTypes
<1>3. QED
  BY <1>1, <1>2 DEF Touched

LEMMA OtherTypesNext == TypeInv /\ [Next]_vars => OtherTypes'
<1> SUFFICES ASSUME TypeInv, [Next]_vars PROVE OtherTypes'
  OBVIOUS
<1> DEFINE Outside == Swap \/ OtherMaster \/ UNCHANGED vars
<1>0. Outside \/ \E t \in Threads : Call(t) \/ Access(t)
  BY DEF Next
<1>1. ret' \in [Threads -> -2..(Width - 1)]
  <2>1. ret \in [Threads -> -2..(Width - 1)] /\ Width \in Nat /\ Width > 4
    BY SizeFacts DEF TypeInv, OtherTypes
  <2>2. CASE Outside
    BY <2>1, <2>2 DEF Swap, OtherMaster, vars, threadVars
  <2>3. ASSUME NEW t \in Threads, Call(t) \/ Access(t) PROVE ret' \in [Threads -> -2..(Width - 1)]
    <3>1. /\ x[t].moved \in -2..(Width - 1) /\ Signed(x[t].total) \in -2..(Width - 1)
          /\ ENODEV \in -2..(Width - 1) /\ ETIMEDOUT \in -2..(Width - 1) /\ 0 \in -2..(Width - 1)
      <4>1. x[t].moved \in Int /\ x[t].total \in Nat /\ x[t].total < Width
            /\ x[t].moved >= -1 /\ x[t].moved < Width
        BY LocalsNow, LocalsFacts
      <4>2. QED
        BY <2>1, <4>1 DEF Signed, ETIMEDOUT, ENODEV
    <3>2. \/ ret' = ret
          \/ \E n \in {x[t].moved, Signed(x[t].total), ENODEV, ETIMEDOUT, 0} : ret' = [ret EXCEPT ![t] = n]
      BY <2>3 DEF Call, Access, CheckPresent, Lock, Probe, ProbeFails, NextChunk, UpdateClient,
                  Select, SelectFails, Move, MoveFails, Restore, RestoreFails, EndChunk,
                  Complete, Unlock, Return, Answer
    <3>3. QED
      BY <2>1, <3>1, <3>2
  <2>4. QED
    BY <1>0, <2>2, <2>3
<1>2. done' \in [Threads -> Seq(Places)]
  <2>1. done \in [Threads -> Seq(Places)] /\ <<>> \in Seq(Places)
    BY DEF TypeInv, OtherTypes
  <2>2. CASE Outside
    BY <2>1, <2>2 DEF Swap, OtherMaster, Tamper, vars, threadVars
  <2>3. ASSUME NEW t \in Threads, Call(t) \/ Access(t) PROVE done' \in [Threads -> Seq(Places)]
    <3>1. CASE Move(t)
      <4>1. Touched(t) \in Seq(Places) /\ done[t] \in Seq(Places)
        BY <2>1, <3>1, TouchedType DEF Move
      <4>2. done[t] \o Touched(t) \in Seq(Places)
        BY <4>1
      <4>3. \/ done' = [done EXCEPT ![t] = <<>>]
            \/ done' = [done EXCEPT ![t] = done[t] \o Touched(t)]
        BY <3>1 DEF Move
      <4>4. QED
        BY <2>1, <4>2, <4>3
    <3>2. CASE Unlock(t)
      BY <2>1, <3>2 DEF Unlock
    <3>3. CASE ~Move(t) /\ ~Unlock(t)
      BY <2>1, <2>3, <3>3
         DEF Call, Access, CheckPresent, Lock, Probe, ProbeFails, NextChunk, UpdateClient,
             Select, SelectFails, MoveFails, Restore, RestoreFails, EndChunk, Complete, Return
    <3>4. QED
      BY <3>1, <3>2, <3>3
  <2>4. QED
    BY <1>0, <2>2, <2>3
<1>3. module' \in Modules \cup {NoModule} /\ page' \in Sizes
  <2>1. module \in Modules \cup {NoModule} /\ page \in Sizes /\ 0 \in Sizes
    BY SizeFacts DEF TypeInv, OtherTypes, Sizes
  <2>2. CASE Outside
    <3>1. 0..(Pages - 1) \subseteq Sizes
      <4>0. Pages \in Nat /\ 1 + Pages = Pages + 1 /\ P \in Nat
        BY SffAssumption
      <4>1. /\ Base(Pages) >= 2 * Pages /\ Base(1 + Pages) = Base(Pages) + P
            /\ Base(Pages) \in Nat
        BY <4>0, BaseFacts, BaseTwice
      <4>2. FileSize = Base(1 + Pages) /\ Width > 2 * FileSize /\ Width \in Nat
        BY SizeFacts DEF FileSize, Base
      <4>3. QED
        BY <4>0, <4>1, <4>2 DEF Sizes
    <3>2. QED
      BY <2>1, <2>2, <3>1 DEF Swap, OtherMaster, vars, moduleVars
  <2>3. ASSUME NEW t \in Threads, Call(t) \/ Access(t)
        PROVE  module' = module /\ page' \in Sizes
    <3>1. x[t].page \in Sizes /\ req[t].select \in Sizes
      BY LocalsNow, RequestFacts DEF Locals
    <3>2. page' = page \/ \E p \in {x[t].page, req[t].select, 0} : Turn(p)
      BY <2>3
         DEF Call, Access, CheckPresent, Lock, Probe, ProbeFails, NextChunk, UpdateClient,
             Select, SelectFails, Move, MoveFails, Restore, RestoreFails, EndChunk, Complete,
             Unlock, Return, moduleVars
    <3>3. module' = module
      BY <2>3
         DEF Call, Access, CheckPresent, Lock, Probe, ProbeFails, NextChunk, UpdateClient,
             Select, SelectFails, Move, MoveFails, Restore, RestoreFails, EndChunk, Complete,
             Unlock, Return, moduleVars
    <3>4. QED
      BY <2>1, <3>1, <3>2, <3>3 DEF Turn
  <2>4. QED
    BY <1>0, <2>1, <2>2, <2>3
<1>4. /\ probed' \in [Threads -> BOOLEAN] /\ failed' \in [Threads -> BOOLEAN]
      /\ tampered' \in [Threads -> {"no", "before", "during"}]
      /\ excused' \in BOOLEAN
  <2>1. /\ probed \in [Threads -> BOOLEAN] /\ failed \in [Threads -> BOOLEAN]
        /\ tampered \in [Threads -> {"no", "before", "during"}] /\ excused \in BOOLEAN
    BY DEF TypeInv, OtherTypes
  <2>2. CASE Outside
    BY <2>1, <2>2 DEF Swap, OtherMaster, Tamper, vars, history
  <2>3. ASSUME NEW t \in Threads, Call(t) \/ Access(t)
        PROVE  /\ probed' \in [Threads -> BOOLEAN] /\ failed' \in [Threads -> BOOLEAN]
               /\ tampered' \in [Threads -> {"no", "before", "during"}]
               /\ excused' \in BOOLEAN
    <3>1. /\ probed' = probed \/ \E b \in BOOLEAN : probed' = [probed EXCEPT ![t] = b]
          /\ failed' = failed \/ \E b \in BOOLEAN : failed' = [failed EXCEPT ![t] = b]
      BY <2>3
         DEF Call, Access, CheckPresent, Lock, Probe, ProbeFails, NextChunk, UpdateClient,
             Select, SelectFails, Move, MoveFails, Restore, RestoreFails, EndChunk, Complete,
             Unlock, Return, history, Failed
    <3>2. /\ tampered' = tampered
             \/ \E b \in {"no", "before"} : tampered' = [tampered EXCEPT ![t] = b]
          /\ excused' = excused \/ excused' \in BOOLEAN
      BY <2>3
         DEF Call, Access, CheckPresent, Lock, Probe, ProbeFails, NextChunk, UpdateClient,
             Select, SelectFails, Move, MoveFails, Restore, RestoreFails, EndChunk, Complete,
             Unlock, Return, history
    <3>3. QED
      BY <2>1, <3>1, <3>2
  <2>4. QED
    BY <1>0, <2>2, <2>3
<1>5. QED
  BY <1>1, <1>2, <1>3, <1>4 DEF OtherTypes

LEMMA InitTypeInv == Init => TypeInv
<1> SUFFICES ASSUME Init PROVE TypeInv
  OBVIOUS
<1>1. PageInv
  BY SffAssumption DEF Init, PageInv, WeakType, OneHolder, Holding, Locations, Numbers,
                       NoLocals, NoRequest
<1>2. ThreadTypes
  <2>1. 0 \in Sizes /\ 0 \in 0..(UnpagedSize - 1) /\ 0 \in -1..(Width - 1)
    BY SizeFacts DEF Sizes
  <2>2. NoLocals \in Locals
    BY <2>1 DEF NoLocals, Locals
  <2>3. QED
    BY <2>2 DEF Init, ThreadTypes, Counts, Begun, InChunk
<1>3. OtherTypes
  <2>1. 0 \in Sizes /\ 0 \in -2..(Width - 1)
    BY SizeFacts DEF Sizes
  <2>2. <<>> \in Seq(Places) /\ module \in Modules
    BY DEF Init
  <2>3. QED
    BY <2>1, <2>2 DEF Init, OtherTypes
<1>4. QED
  BY <1>1, <1>2, <1>3 DEF TypeInv

LEMMA NextTypeInv == TypeInv /\ [Next]_vars => TypeInv'
<1> SUFFICES ASSUME TypeInv, [Next]_vars PROVE TypeInv'
  OBVIOUS
<1>1. PageInv'
  BY NextPageInv DEF TypeInv
<1>2. QED
  BY <1>1, ThreadTypesNext, OtherTypesNext DEF TypeInv

(* Every variable stays in its type: the arithmetic on size_t never leaves *)
(* the range in which the code's comparisons mean what they say, although  *)
(* a failed probe hands sfp_port_read_write a length of all ones.          *)
THEOREM TypeCorrect == Spec => []TypeOK
<1>1. TypeInv => TypeOK
  BY DEF TypeInv, ThreadTypes, OtherTypes, PageInv, WeakType, OneHolder, TypeOK
<1>2. QED
  BY <1>1, InitTypeInv, NextTypeInv, PTL DEF Spec

-----------------------------------------------------------------------------
(* What an access has done so far.  w is the length it should transfer:    *)
(* what was asked, cut to the module.                                      *)
End == IF module = "paged" THEN FileSize ELSE UnpagedSize
Want(q, e) == IF q.off + q.len <= e THEN q.len ELSE e - q.off

(* The access knows where the module ends, and begins within the module,   *)
(* which nobody else changed.                                              *)
Known(t) == req[t].off + req[t].len <= UnpagedSize \/ probed[t]
Fits(t) == tampered[t] # "during" /\ Known(t) /\ req[t].off <= End

Overwrites(q) == q.op = "write" /\ PageSelect \in q.off..(q.off + q.len - 1)

(* The byte at which the chunk begins. *)
Pos(q, r) == q.off + r.total

(* Between chunks: the next chunk is the one of the first pending byte.    *)
Whole(l, q, r, w) ==
  /\ r.len = w
  /\ r.pending = 0 => l = "chunk" /\ Base(r.chunk) >= q.off + r.len
  /\ r.pending > 0 => /\ Base(r.chunk) <= Pos(q, r) /\ Pos(q, r) < Base(r.chunk) + P
                      /\ r.total = 0 \/ Pos(q, r) = Base(r.chunk)

(* Within a chunk: its bytes are pending, and end with the page; the half  *)
(* and the offset in it are those of the byte that is transferred next.    *)
Cut(l, q, r) ==
  /\ r.pending > 0
  /\ r.count > 0 /\ r.count <= Base(r.chunk) + P - Pos(q, r)
  /\ r.count = r.pending \/ r.count = Base(r.chunk) + P - Pos(q, r)
  /\ r.page = IF r.chunk = 0 THEN 0 ELSE r.chunk - 1
  /\ l \in {"select", "move"} =>
       r.phys = (IF r.chunk = 0 THEN 0 ELSE P) + (Pos(q, r) - Base(r.chunk)) + Sent(r)

(* Each byte is the one its offset names. *)
RightByte(b, n, tp) == b = n \/ (tp = "before" /\ n \in P..(UnpagedSize - 1))
Bytes(d, q, tp) == \A k \in 1..Len(d) : RightByte(d[k], q.off + k - 1, tp)

(* The page that the chunk needs is selected. *)
Selected(t) ==
  /\ pc[t] = "move" /\ x[t].page > 0 /\ module = "paged" => page = x[t].page
  /\ \/ tampered[t] = "before"
     \/ pc[t] \in {"move", "restore"} /\ x[t].page > 0
     \/ pc[t] = "chunk_end" /\ x[t].moved = -1
     \/ page = 0

Working(t) ==
  /\ Whole(pc[t], req[t], x[t], Want(req[t], End))
  /\ pc[t] \in InChunk => Cut(pc[t], req[t], x[t])
  /\ Len(done[t]) = x[t].total + (IF pc[t] = "chunk" THEN 0 ELSE Sent(x[t]))
  /\ Bytes(done[t], req[t], tampered[t])
  /\ Selected(t)
  /\ pc[t] \in {"restore", "chunk_end"} =>
       failed[t] \/ (x[t].left = 0 /\ x[t].moved = x[t].count)

Reported(t) ==
  /\ ret[t] <= Len(done[t]) /\ ret[t] <= Want(req[t], End)
  /\ Bytes(done[t], req[t], tampered[t])
  /\ failed[t] \/ ret[t] = Want(req[t], End)

(* What is known of an access that does not fit, or has not begun. *)
Remembers(t) ==
  /\ pc[t] \notin Holding => tampered[t] = "no"
  /\ pc[t] \notin Begun \cup {"unlock"} => done[t] = <<>> /\ ~probed[t] /\ ~failed[t]
  /\ pc[t] \in Holding /\ tampered[t] = "no" => ~Overwrites(req[t])
  /\ pc[t] = "probe" => /\ req[t].off + req[t].len > UnpagedSize
                        /\ tampered[t] = "no" => page = 0
  /\ pc[t] \in Begun \cup {"unlock"} => failed[t] \/ Known(t)

Sound(t) ==
  /\ Remembers(t)
  /\ pc[t] \in Begun /\ Fits(t) => Working(t)
  /\ pc[t] = "unlock" /\ Fits(t) => Reported(t)

AccessInv == TypeInv /\ \A t \in Threads : Sound(t)

(* The other threads: outside of the mutex nothing depends on the module.  *)
LEMMA OthersKeep ==
  ASSUME AccessInv, NEW t \in Threads, NEW u \in Threads, u # t,
         pc[t] \in Holding \/ UNCHANGED moduleVars,
         pc'[u] = pc[u], req'[u] = req[u], x'[u] = x[u], ret'[u] = ret[u], done'[u] = done[u],
         probed'[u] = probed[u], failed'[u] = failed[u], tampered'[u] = tampered[u]
  PROVE  Sound(u)'
<1>1. Sound(u)
  BY DEF AccessInv
<1>2. CASE UNCHANGED moduleVars
  BY <1>1, <1>2 DEF Sound, Remembers, Fits, Known, Working, Reported, Selected, End, moduleVars
<1>3. CASE pc[t] \in Holding
  <2>1. pc[u] \notin Holding
    BY <1>3 DEF AccessInv, TypeInv, PageInv, OneHolder
  <2>2. QED
    BY <1>1, <2>1 DEF Sound, Remembers, Begun, InChunk, Holding
<1>4. QED
  BY <1>2, <1>3

LEMMA WantFacts ==
  ASSUME TypeInv, NEW t \in Threads, req[t].off <= End
  PROVE  /\ Want(req[t], End) \in Nat
         /\ req[t].off + Want(req[t], End) <= End
         /\ Want(req[t], End) <= req[t].len
         /\ Want(req[t], End) = 0 => req[t].off = End
         /\ \E k \in Nat : End = Base(k)
         /\ End \in Nat /\ End <= FileSize
<1>1. /\ req[t].off \in Nat /\ req[t].len \in Nat /\ req[t].len > 0
  BY LocalsNow, RequestFacts
<1>2. FileSize \in Nat /\ UnpagedSize \in Nat /\ UnpagedSize <= FileSize /\ UnpagedSize = Base(2)
  BY SizeFacts
<1>3. FileSize = Base(1 + Pages) /\ 1 + Pages \in Nat
  BY SffAssumption DEF FileSize, Base
<1>4. End \in Nat /\ End <= FileSize /\ \E k \in Nat : End = Base(k)
  BY <1>2, <1>3 DEF End
<1>5. QED
  BY <1>1, <1>4 DEF Want

(* A step within an access. *)
LEMMA HolderKeeps ==
  ASSUME AccessInv, TypeInv', NEW t \in Threads, NEW l \in Begun \cup {"unlock"}, Goto(t, l),
         pc[t] \in Begun, req' = req, module' = module, probed' = probed,
         tampered' = tampered, failed'[t] \/ failed' = failed
  PROVE  /\ pc'[t] = l /\ End' = End /\ (Fits(t)' <=> Fits(t))
         /\ Remembers(t)'
<1>1. pc'[t] = l
  BY DEF AccessInv, TypeInv, PageInv, WeakType, Goto
<1>2. End' = End
  BY DEF End
<1>3. (Known(t)' <=> Known(t)) /\ (Fits(t)' <=> Fits(t))
  BY <1>2 DEF Known, Fits
<1>4. Sound(t) /\ pc[t] \in Holding /\ l \in Holding /\ l # "probe"
  BY DEF AccessInv, Begun, InChunk, Holding
<1>5. Remembers(t)'
  BY <1>1, <1>3, <1>4 DEF Sound, Remembers
<1>6. QED
  BY <1>1, <1>2, <1>3, <1>5

(* The first chunk is the one of the first byte. *)
LEMMA FirstChunk ==
  ASSUME NEW n \in Nat, NEW w \in Nat, NEW j \in Nat, n + w <= Base(j), w = 0 => n = Base(j)
  PROVE  /\ w = 0 => Base(Quot(n)) >= n + w
         /\ w > 0 => Base(Quot(n)) <= n /\ n < Base(Quot(n)) + P
<1>1. /\ Quot(n) \in Nat /\ Base(Quot(n)) <= n /\ n < Base(Quot(n)) + P /\ Base(j) \in Nat
      /\ Base(Quot(n)) \in Nat /\ P \in Nat /\ P > 1
  BY QuotFacts, BaseFacts, SizeFacts
<1>2. ASSUME w = 0 PROVE Quot(n) = j
  <2>1. Base(j) <= n /\ n < Base(j) + P
    BY <1>1, <1>2
  <2>2. QED
    BY <2>1, QuotIs
<1>3. QED
  BY <1>1, <1>2

(* Taking the mutex, or probing the module, begins the first chunk with    *)
(* the length that the access should transfer, if it fits.                 *)
LEMMA BeginWorks ==
  ASSUME AccessInv, TypeInv', NEW t \in Threads, pc[t] \in {"lock", "probe"},
         NEW n \in Sizes, Begin(t, n), req' = req, module' = module, done' = done, page' = page,
         Fits(t)' => n = Want(req[t], End) /\ (tampered'[t] = "before" \/ page = 0)
  PROVE  pc'[t] = "chunk" /\ (Fits(t)' => Working(t)')
<1>1. PICK y \in Locals :
        /\ x' = [x EXCEPT ![t] = y]
        /\ y = [len |-> n, chunk |-> Quot(req[t].off), pending |-> n, total |-> 0,
                count |-> 0, page |-> 0, phys |-> 0, left |-> 0, moved |-> 0]
  BY BeginLocalsAre DEF AccessInv
<1>2. pc'[t] = "chunk" /\ x'[t] = y /\ req'[t] = req[t] /\ End' = End
  BY <1>1 DEF Begin, Goto, AccessInv, TypeInv, ThreadTypes, PageInv, WeakType, End
<1>3. ASSUME Fits(t)' PROVE Working(t)'
  <2>0. TypeInv /\ req[t].off <= End
    BY <1>2, <1>3 DEF Fits, AccessInv
  <2>1. PICK k \in Nat : End = Base(k)
    BY <2>0, WantFacts
  <2>2. PICK w \in Nat : w = Want(req[t], End) /\ n = w
    BY <1>3, <2>0, WantFacts
  <2>3. /\ req[t].off + w <= Base(k) /\ (w = 0 => req[t].off = Base(k))
        /\ req[t].off \in Nat
    BY <2>0, <2>1, <2>2, WantFacts, LocalsNow, RequestFacts
  <2>4. /\ w = 0 => Base(Quot(req[t].off)) >= req[t].off + w
        /\ w > 0 => /\ Base(Quot(req[t].off)) <= req[t].off
                    /\ req[t].off < Base(Quot(req[t].off)) + P
    BY <2>3, FirstChunk
  <2>5. Whole("chunk", req[t], y, w)
    BY <1>1, <2>2, <2>3, <2>4 DEF Whole, Pos
  <2>6. done'[t] = <<>> /\ Len(done'[t]) = 0
    BY DEF AccessInv, Sound, Remembers, Begun, InChunk
  <2>7. Bytes(done'[t], req'[t], tampered'[t])
    BY <2>6 DEF Bytes
  <2>8. Selected(t)'
    BY <1>2, <1>3 DEF Selected
  <2>9. QED
    BY <1>1, <1>2, <2>2, <2>5, <2>6, <2>7, <2>8 DEF Working, InChunk
<1>4. QED
  BY <1>2, <1>3

LEMMA LockSound == ASSUME AccessInv, TypeInv', NEW t \in Threads, Lock(t) PROVE Sound(t)'
<1>1. /\ req' = req /\ module' = module /\ page' = page /\ done' = done
      /\ probed' = probed /\ failed' = failed /\ pc[t] = "lock"
      /\ tampered'[t] = IF WrongPage(req[t]) THEN "before" ELSE "no"
  BY DEF Lock, moduleVars, AccessInv, TypeInv, OtherTypes
<1>2. done[t] = <<>> /\ ~probed[t] /\ ~failed[t]
  BY <1>1 DEF AccessInv, Sound, Remembers, Begun, InChunk
<1>3. tampered'[t] = "no" => page = 0 /\ ~Overwrites(req[t])
  BY <1>1 DEF WrongPage, Overwrites
<1>4. /\ req[t].off \in Nat /\ req[t].len \in Nat /\ req[t].len \in Sizes
      /\ UnpagedSize \in Nat /\ FileSize \in Nat /\ UnpagedSize <= FileSize
  <2>1. req[t].off \in Nat /\ req[t].len \in Nat /\ req[t].off + req[t].len <= FileSize
    BY LocalsNow, RequestFacts DEF AccessInv
  <2>2. QED
    BY <2>1, SizeFacts DEF Sizes
<1>5. CASE req[t].off + req[t].len <= UnpagedSize
  <2>1. Begin(t, req[t].len)
    BY <1>5 DEF Lock
  <2>2. Want(req[t], End) = req[t].len
    BY <1>4, <1>5 DEF Want, End
  <2>3. tampered'[t] = "before" \/ page = 0
    BY <1>1, <1>3
  <2>4. PICK n \in Sizes : n = req[t].len
    BY <1>4
  <2>5. Begin(t, n)
    BY <2>1, <2>4
  <2>6. pc'[t] = "chunk" /\ (Fits(t)' => Working(t)')
    BY <1>1, <2>2, <2>3, <2>4, <2>5, BeginWorks
  <2>7. Remembers(t)' /\ Known(t)'
    BY <1>1, <1>3, <1>5, <2>6 DEF Remembers, Holding, Begun, InChunk, Known
  <2>8. QED
    BY <2>6, <2>7 DEF Sound
<1>6. CASE ~(req[t].off + req[t].len <= UnpagedSize)
  <2>1. pc'[t] = "probe"
    BY <1>6 DEF Lock, Goto, AccessInv, TypeInv, PageInv, WeakType
  <2>2. Remembers(t)'
    BY <1>1, <1>2, <1>3, <1>4, <1>6, <2>1 DEF Remembers, Holding, Begun, InChunk
  <2>3. QED
    BY <2>1, <2>2 DEF Sound, Begun, InChunk
<1>7. QED
  BY <1>5, <1>6

LEMMA ProbeSound ==
  ASSUME AccessInv, TypeInv', NEW t \in Threads, Probe(t) \/ ProbeFails(t)
  PROVE  Sound(t)'
<1>1. /\ req' = req /\ module' = module /\ page' = page /\ done' = done
      /\ tampered' = tampered /\ pc[t] = "probe"
  BY DEF Probe, ProbeFails, moduleVars
<1>2. /\ done[t] = <<>> /\ ~probed[t] /\ ~failed[t]
      /\ tampered[t] = "no" => page = 0 /\ ~Overwrites(req[t])
      /\ req[t].off + req[t].len > UnpagedSize
  BY <1>1 DEF AccessInv, Sound, Remembers, Begun, InChunk, Holding
<1>3. /\ req[t].off \in Nat /\ req[t].len \in Nat
      /\ req[t].off + req[t].len <= FileSize
      /\ UnpagedSize \in Nat /\ FileSize \in Nat /\ Width \in Nat
      /\ UnpagedSize <= FileSize /\ 2 * FileSize < Width
  BY LocalsNow, RequestFacts, SizeFacts DEF AccessInv
<1>4. tampered[t] \in {"no", "before", "during"}
  BY DEF AccessInv, TypeInv, OtherTypes
<1>5. CASE Probe(t)
  <2>1. probed' = [probed EXCEPT ![t] = TRUE] /\ probed'[t]
    BY <1>5 DEF Probe, AccessInv, TypeInv, OtherTypes
  <2>2. Begin(t, LegalLen(req[t]))
    BY <1>5 DEF Probe
  <2>3. ASSUME req[t].off <= End PROVE LegalLen(req[t]) = Want(req[t], End)
    <3>1. PICK e \in Nat : e = End /\ e <= FileSize
      BY <1>3 DEF End
    <3>2. e - req[t].off \in Sizes
      BY <1>3, <2>3, <3>1 DEF Sizes
    <3>3. Wrap(e - req[t].off) = e - req[t].off
      BY <1>3, <3>2, Wrapped
    <3>4. LegalLen(req[t]) = IF req[t].len > Wrap(e - req[t].off) THEN Wrap(e - req[t].off)
                             ELSE req[t].len
      BY <3>1 DEF LegalLen, End
    <3>5. QED
      BY <1>3, <2>3, <3>1, <3>3, <3>4 DEF Want
  <2>4. PICK n \in Sizes : n = LegalLen(req[t])
    <3>1. /\ FileSize - req[t].off \in Int /\ UnpagedSize - req[t].off \in Int
          /\ req[t].len \in Sizes
      BY <1>3 DEF Sizes
    <3>2. Wrap(FileSize - req[t].off) \in Sizes /\ Wrap(UnpagedSize - req[t].off) \in Sizes
      BY <3>1, Wrapped
    <3>3. QED
      BY <3>1, <3>2 DEF LegalLen
  <2>5. Fits(t)' => n = Want(req[t], End) /\ (tampered'[t] = "before" \/ page = 0)
    BY <1>1, <1>2, <1>4, <2>3, <2>4 DEF Fits, End
  <2>6. Begin(t, n)
    BY <2>2, <2>4
  <2>7. pc'[t] = "chunk" /\ (Fits(t)' => Working(t)')
    BY <1>1, <2>5, <2>6, BeginWorks
  <2>8. Remembers(t)'
    BY <1>1, <1>2, <2>1, <2>7 DEF Remembers, Known, Begun, InChunk, Holding
  <2>9. QED
    BY <2>7, <2>8 DEF Sound
<1>6. CASE ProbeFails(t)
  <2>1. probed' = probed /\ failed'[t] /\ Begin(t, Wrap(ETIMEDOUT))
    BY <1>6 DEF ProbeFails, Failed, AccessInv, TypeInv, OtherTypes
  <2>2. ~Known(t)'
    BY <1>1, <1>2, <1>3, <2>1 DEF Known
  <2>3. pc'[t] = "chunk"
    BY <2>1 DEF Begin, Goto, AccessInv, TypeInv, PageInv, WeakType
  <2>4. Remembers(t)'
    BY <1>1, <1>2, <2>1, <2>3 DEF Remembers, Begun, InChunk, Holding
  <2>5. QED
    BY <2>2, <2>3, <2>4 DEF Sound, Fits
<1>7. QED
  BY <1>5, <1>6

(* What is known of the numbers of an access that fits. *)
LEMMA FitFacts ==
  ASSUME AccessInv, NEW t \in Threads, pc[t] \in Begun, Fits(t)
  PROVE  /\ Working(t) /\ Counts(pc[t], req[t], x[t])
         /\ req[t].off \in Nat /\ x[t].len \in Nat /\ x[t].total \in Nat
         /\ x[t].pending \in Nat /\ x[t].chunk \in Nat /\ x[t].count \in Nat
         /\ x[t].left \in Nat /\ x[t].page \in Nat /\ x[t].phys \in Nat
         /\ x[t].moved \in Int
         /\ x[t].total + x[t].pending = x[t].len
         /\ x[t].len = Want(req[t], End) /\ req[t].off + x[t].len <= End
         /\ x[t].len <= req[t].len /\ req[t].len \in Nat
         /\ x[t].len = 0 => req[t].off = End
         /\ End \in Nat /\ End <= FileSize /\ End > 0
         /\ Base(x[t].chunk) \in Nat
         /\ P \in Nat /\ P > 1 /\ Width \in Nat /\ 2 * FileSize < Width /\ FileSize \in Nat
<1>1. Working(t) /\ TypeInv /\ req[t].off <= End
  BY DEF AccessInv, Sound, Fits
<1>2. Counts(pc[t], req[t], x[t]) /\ x[t] \in Locals /\ req[t] \in Requests[t]
  BY <1>1, LocalsNow
<1>3. x[t].len = Want(req[t], End)
  BY <1>1 DEF Working, Whole
<1>4. /\ x[t].len \in Nat /\ x[t].total \in Nat /\ x[t].pending \in Nat /\ x[t].chunk \in Nat
      /\ x[t].count \in Nat /\ x[t].left \in Nat /\ x[t].page \in Nat /\ x[t].phys \in Nat
      /\ x[t].moved \in Int /\ req[t].off \in Nat /\ req[t].len \in Nat
  BY <1>2, LocalsFacts, RequestFacts
<1>5. x[t].total + x[t].pending = x[t].len
  BY <1>2 DEF Counts
<1>6. /\ req[t].off + Want(req[t], End) <= End /\ Want(req[t], End) <= req[t].len
      /\ Want(req[t], End) = 0 => req[t].off = End
      /\ End \in Nat /\ End <= FileSize
  BY <1>1, WantFacts
<1>7. /\ P \in Nat /\ P > 1 /\ Width \in Nat /\ 2 * FileSize < Width /\ FileSize \in Nat
      /\ UnpagedSize = 2 * P /\ UnpagedSize <= FileSize
  BY SizeFacts
<1>8. End > 0
  BY <1>7 DEF End
<1>9. Base(x[t].chunk) \in Nat
  BY <1>4, BaseFacts
<1>10. QED
  BY <1>1, <1>2, <1>3, <1>4, <1>5, <1>6, <1>7, <1>8, <1>9

LEMMA ChunkIs ==
  ASSUME AccessInv, NEW t \in Threads, pc[t] = "chunk", Fits(t)
  PROVE  /\ x[t].chunk <= LastChunk(t) <=> x[t].pending > 0
         /\ x[t].pending > 0 =>
              /\ ChunkOff(t) = Pos(req[t], x[t])
              /\ ChunkLen(t) > 0
              /\ ChunkLen(t) <= Base(x[t].chunk) + P - Pos(req[t], x[t])
              /\ ChunkLen(t) = x[t].pending
                 \/ ChunkLen(t) = Base(x[t].chunk) + P - Pos(req[t], x[t])
              /\ PageOf(ChunkOff(t)) = IF x[t].chunk = 0 THEN 0 ELSE x[t].chunk - 1
              /\ Phys(ChunkOff(t)) = (IF x[t].chunk = 0 THEN 0 ELSE P)
                                     + (Pos(req[t], x[t]) - Base(x[t].chunk))
<1>1. PICK r : r = x[t]
  OBVIOUS
<1>2. PICK off \in Nat, b \in Nat : off = req[t].off /\ b = Base(r.chunk)
  BY <1>1, FitFacts DEF Begun
<1>3. /\ r.len \in Nat /\ r.total \in Nat /\ r.pending \in Nat /\ r.chunk \in Nat
      /\ r.total + r.pending = r.len /\ off + r.len <= FileSize
      /\ off + r.len > 0
      /\ P \in Nat /\ P > 1 /\ Width \in Nat /\ 2 * FileSize < Width /\ FileSize \in Nat
  <2>1. /\ r.len \in Nat /\ r.total \in Nat /\ r.pending \in Nat /\ r.chunk \in Nat
        /\ r.total + r.pending = r.len /\ off + r.len <= End /\ (r.len = 0 => off = End)
        /\ End \in Nat /\ End <= FileSize /\ End > 0
        /\ P \in Nat /\ P > 1 /\ Width \in Nat /\ 2 * FileSize < Width /\ FileSize \in Nat
    BY <1>1, <1>2, FitFacts DEF Begun
  <2>2. QED
    BY <2>1
<1>4. /\ r.pending = 0 => b >= off + r.len
      /\ r.pending > 0 => b <= off + r.total /\ off + r.total < b + P
                          /\ (r.total = 0 \/ off + r.total = b)
  BY <1>1, <1>2, FitFacts DEF Begun, Working, Whole, Pos
<1>5. off < b + P
  BY <1>1, <1>2, FitFacts DEF Begun, Counts
<1>6. r.chunk <= LastChunk(t) <=> r.pending > 0
  <2>1. PICK n \in Nat : n = off + r.len - 1 /\ n < Width
    BY <1>3
  <2>2. Wrap(n) = n
    BY <1>3, <2>1, Wrapped DEF Sizes
  <2>3. LastChunk(t) = Quot(n)
    BY <1>1, <1>2, <2>1, <2>2 DEF LastChunk, Quot
  <2>4. r.chunk <= Quot(n) <=> b <= n
    BY <1>2, <1>3, QuotIs
  <2>5. QED
    BY <1>3, <1>4, <2>1, <2>3, <2>4
<1>7. ASSUME r.pending > 0
      PROVE  /\ ChunkOff(t) = off + r.total
             /\ ChunkLen(t) > 0 /\ ChunkLen(t) <= b + P - (off + r.total)
             /\ ChunkLen(t) = r.pending \/ ChunkLen(t) = b + P - (off + r.total)
  <2>1. ChunkStart(t) = b
    BY <1>1, <1>2 DEF ChunkStart, Base
  <2>2. ChunkOff(t) = off + r.total
    BY <1>2, <1>3, <1>4, <1>7, <2>1 DEF ChunkOff
  <2>3. PICK m \in Nat : m = off + r.pending /\ m < Width
    BY <1>3
  <2>4. Wrap(m) = m
    BY <1>3, <2>3, Wrapped DEF Sizes
  <2>5. ChunkLen(t) = IF b < off THEN IF off + r.pending < b + P THEN r.pending ELSE b + P - off
                      ELSE IF r.pending > P THEN P ELSE r.pending
    BY <1>1, <1>2, <2>1, <2>3, <2>4 DEF ChunkLen
  <2>6. QED
    BY <1>3, <1>4, <1>5, <1>7, <2>2, <2>5
<1>8. ASSUME r.pending > 0
      PROVE  /\ PageOf(ChunkOff(t)) = IF r.chunk = 0 THEN 0 ELSE r.chunk - 1
             /\ Phys(ChunkOff(t)) = (IF r.chunk = 0 THEN 0 ELSE P) + (off + r.total - b)
  <2>1. PICK n \in Nat : n = off + r.total
    BY <1>3
  <2>2. Quot(n) = r.chunk
    BY <1>2, <1>3, <1>4, <1>8, <2>1, QuotIs
  <2>3. /\ PageOf(n) = IF r.chunk = 0 THEN 0 ELSE r.chunk - 1
        /\ Phys(n) = (IF r.chunk = 0 THEN 0 ELSE P) + (n - b)
    <3>1. n < FileSize
      BY <1>3, <1>8, <2>1
    <3>2. QED
      BY <1>2, <1>3, <2>2, <3>1, Translated
  <2>4. ChunkOff(t) = n
    BY <1>7, <1>8, <2>1
  <2>5. PageOf(ChunkOff(t)) = PageOf(n) /\ Phys(ChunkOff(t)) = Phys(n)
    BY <2>4
  <2>6. QED
    BY <1>3, <2>1, <2>3, <2>5
<1>9. Pos(req[t], x[t]) = off + r.total
  BY <1>1, <1>2 DEF Pos
<1>10. QED
  BY <1>1, <1>2, <1>3, <1>6, <1>7, <1>8, <1>9

LEMMA NextChunkSound ==
  ASSUME AccessInv, TypeInv', NEW t \in Threads, NextChunk(t)
  PROVE  Sound(t)'
<1>1. /\ req' = req /\ module' = module /\ page' = page /\ done' = done /\ probed' = probed
      /\ tampered' = tampered /\ failed' = failed /\ pc[t] = "chunk"
  BY DEF NextChunk, moduleVars, history
<1>2. PICK l \in {"select", "move", "chunk_end"} :
        /\ Goto(t, l)
        /\ l = IF PageOf(ChunkOff(t)) > 0 THEN "select" ELSE MoveAny(ChunkLen(t), "chunk_end")
  BY DEF NextChunk, MoveAny
<1>3. /\ pc'[t] = l /\ End' = End /\ (Fits(t)' <=> Fits(t)) /\ Remembers(t)'
  BY <1>1, <1>2, HolderKeeps DEF Begun, InChunk
<1>4. ASSUME Fits(t) PROVE Working(t)'
  <2>1. PICK y \in Locals :
          /\ x' = [x EXCEPT ![t] = y]
          /\ y = [len |-> x[t].len, chunk |-> x[t].chunk, pending |-> x[t].pending,
                  total |-> x[t].total, count |-> ChunkLen(t), page |-> PageOf(ChunkOff(t)),
                  phys |-> Phys(ChunkOff(t)), left |-> ChunkLen(t), moved |-> 0]
    BY ChunkLocalsAre DEF AccessInv
  <2>2. x'[t] = y
    BY <2>1 DEF AccessInv, TypeInv, ThreadTypes
  <2>3. x[t].pending > 0
    BY <1>1, <1>4, ChunkIs DEF NextChunk
  <2>4. /\ ChunkLen(t) > 0
        /\ ChunkLen(t) <= Base(x[t].chunk) + P - Pos(req[t], x[t])
        /\ ChunkLen(t) = x[t].pending \/ ChunkLen(t) = Base(x[t].chunk) + P - Pos(req[t], x[t])
        /\ PageOf(ChunkOff(t)) = IF x[t].chunk = 0 THEN 0 ELSE x[t].chunk - 1
        /\ Phys(ChunkOff(t)) = (IF x[t].chunk = 0 THEN 0 ELSE P)
                               + (Pos(req[t], x[t]) - Base(x[t].chunk))
    BY <1>1, <1>4, <2>3, ChunkIs
  <2>5. l \in {"select", "move"} /\ (l = "move" => ~(PageOf(ChunkOff(t)) > 0))
    BY <1>2, <2>4 DEF MoveAny
  <2>6. /\ Working(t) /\ x[t].total \in Nat /\ x[t].chunk \in Nat /\ x[t].pending \in Nat
        /\ Base(x[t].chunk) \in Nat /\ req[t].off \in Nat /\ P \in Nat
    BY <1>1, <1>4, FitFacts DEF Begun
  <2>7. Pos(req[t], y) = Pos(req[t], x[t]) /\ Pos(req[t], x[t]) \in Nat
    BY <2>1, <2>6 DEF Pos
  <2>8. Whole(l, req[t], y, Want(req[t], End))
    <3>1. /\ y.len = x[t].len /\ y.chunk = x[t].chunk /\ y.pending = x[t].pending
          /\ y.total = x[t].total
      BY <2>1
    <3>2. Whole("chunk", req[t], x[t], Want(req[t], End))
      BY <1>1, <2>6 DEF Working
    <3>3. QED
      BY <2>3, <2>6, <2>7, <3>1, <3>2 DEF Whole
  <2>9. ChunkLen(t) \in Int /\ Sent(y) = 0
    <3>1. ChunkLen(t) \in Int
      BY <2>4, <2>6, <2>7
    <3>2. QED
      BY <2>1, <3>1 DEF Sent
  <2>10. Cut(l, req[t], y)
    BY <2>1, <2>3, <2>4, <2>6, <2>7, <2>9 DEF Cut
  <2>11. Len(done[t]) = y.total + Sent(y)
    BY <1>1, <2>1, <2>6, <2>9 DEF Working
  <2>12. Bytes(done'[t], req'[t], tampered'[t])
    BY <1>1, <2>6 DEF Working
  <2>13. Selected(t)'
    BY <1>1, <1>3, <2>1, <2>2, <2>5, <2>6 DEF Working, Selected
  <2>14. QED
    BY <1>1, <1>3, <2>2, <2>5, <2>8, <2>10, <2>11, <2>12, <2>13 DEF Working, InChunk
<1>5. QED
  BY <1>2, <1>3, <1>4 DEF Sound, Begun, InChunk

LEMMA CompleteSound ==
  ASSUME AccessInv, TypeInv', NEW t \in Threads, Complete(t)
  PROVE  Sound(t)'
<1>1. /\ req' = req /\ module' = module /\ done' = done /\ probed' = probed
      /\ tampered' = tampered /\ failed' = failed /\ pc[t] = "chunk"
      /\ Goto(t, "unlock") /\ ret'[t] = Signed(x[t].total)
  BY DEF Complete, Answer, moduleVars, history, AccessInv, TypeInv, OtherTypes
<1>2. /\ pc'[t] = "unlock" /\ End' = End /\ (Fits(t)' <=> Fits(t)) /\ Remembers(t)'
  BY <1>1, HolderKeeps DEF Begun
<1>3. ASSUME Fits(t) PROVE Reported(t)'
  <2>1. /\ Working(t) /\ x[t].total \in Nat /\ x[t].pending \in Nat
        /\ x[t].chunk \in Nat
        /\ x[t].total + x[t].pending = x[t].len /\ x[t].len = Want(req[t], End)
        /\ req[t].off + x[t].len <= End /\ End <= FileSize /\ End \in Nat
        /\ req[t].off \in Nat /\ FileSize \in Nat /\ Width \in Nat /\ 2 * FileSize < Width
    BY <1>1, <1>3, FitFacts DEF Begun
  <2>2. x[t].pending = 0
    <3>1. ~(x[t].pending > 0)
      <4>1. x[t].chunk <= LastChunk(t) <=> x[t].pending > 0
        BY <1>1, <1>3, ChunkIs
      <4>2. x[t].chunk > LastChunk(t) /\ LastChunk(t) \in Int
        <5>1. req[t].off + x[t].len - 1 \in Int
          BY <2>1
        <5>2. PICK n \in Nat : n = Wrap(req[t].off + x[t].len - 1)
          BY <2>1, <5>1, Wrapped DEF Sizes
        <5>3. LastChunk(t) = Quot(n)
          BY <5>2 DEF LastChunk, Quot
        <5>4. QED
          BY <5>3, QuotFacts DEF Complete
      <4>3. QED
        BY <2>1, <4>1, <4>2
    <3>2. QED
      BY <2>1, <3>1
  <2>3. Signed(x[t].total) = Want(req[t], End)
    BY <2>1, <2>2 DEF Signed
  <2>4. Len(done[t]) = x[t].total
    BY <1>1, <2>1 DEF Working
  <2>5. Bytes(done[t], req[t], tampered[t])
    BY <2>1 DEF Working
  <2>6. QED
    BY <1>1, <1>2, <2>1, <2>2, <2>3, <2>4, <2>5 DEF Reported
<1>4. QED
  BY <1>2, <1>3 DEF Sound, Begun, InChunk

(* The chunk's status is compared with its length: they are equal when all *)
(* of it was transferred, for an error is the greatest size_t.             *)
LEMMA EndChunkSound ==
  ASSUME AccessInv, TypeInv', NEW t \in Threads, EndChunk(t)
  PROVE  Sound(t)'
<1>1. /\ req' = req /\ module' = module /\ page' = page /\ done' = done /\ probed' = probed
      /\ tampered' = tampered /\ failed' = failed /\ pc[t] = "chunk_end"
  BY DEF EndChunk, moduleVars, history
<1>2. ASSUME Fits(t)
      PROVE  /\ x[t].moved = -1 \/ x[t].moved = Sent(x[t])
             /\ Wrap(x[t].moved) = x[t].count <=> x[t].moved = x[t].count
             /\ x[t].count > 0 /\ x[t].count <= x[t].pending /\ x[t].left <= x[t].count
             /\ x[t].total + x[t].count <= Want(req[t], End)
             /\ Len(done[t]) = x[t].total + Sent(x[t])
  <2>1. /\ Working(t) /\ Counts(pc[t], req[t], x[t])
        /\ x[t].len \in Nat /\ x[t].total \in Nat /\ x[t].pending \in Nat
        /\ x[t].count \in Nat /\ x[t].left \in Nat /\ x[t].moved \in Int
        /\ x[t].total + x[t].pending = x[t].len /\ x[t].len = Want(req[t], End)
        /\ req[t].off + x[t].len <= End /\ End <= FileSize /\ End \in Nat /\ req[t].off \in Nat
        /\ FileSize \in Nat /\ Width \in Nat /\ 2 * FileSize < Width /\ End > 0
    BY <1>1, <1>2, FitFacts DEF Begun, InChunk
  <2>2. /\ x[t].moved \in {-1, Sent(x[t])}
        /\ x[t].count <= x[t].pending /\ x[t].left <= x[t].count
    BY <1>1, <2>1 DEF Counts, InChunk
  <2>3. Len(done[t]) = x[t].total + Sent(x[t]) /\ x[t].count > 0
    BY <1>1, <2>1 DEF Working, Cut, InChunk
  <2>4. x[t].count < Width - 1
    BY <2>1, <2>2
  <2>5. Wrap(x[t].moved) = x[t].count <=> x[t].moved = x[t].count
    <3>1. CASE x[t].moved = -1
      BY <2>1, <2>4, <3>1, Wrapped
    <3>2. CASE x[t].moved = Sent(x[t])
      <4>1. PICK m \in Sizes : m = x[t].moved
        BY <2>1, <2>2, <2>4, <3>2 DEF Sizes, Sent
      <4>2. Wrap(m) = m
        BY <2>1, <4>1, Wrapped DEF Sizes
      <4>3. QED
        BY <4>1, <4>2
    <3>3. QED
      BY <2>2, <3>1, <3>2
  <2>6. x[t].total + x[t].count <= Want(req[t], End)
    <3>1. PICK total \in Nat, count \in Nat, pending \in Nat, len \in Nat :
            /\ total = x[t].total /\ count = x[t].count
            /\ pending = x[t].pending /\ len = x[t].len
      BY <2>1
    <3>2. total + pending = len /\ count <= pending
      BY <2>1, <2>2, <3>1
    <3>3. total + count <= len
      BY <3>2
    <3>4. QED
      BY <2>1, <3>1, <3>3
  <2>7. QED
    BY <2>2, <2>3, <2>5, <2>6
<1>3. CASE Wrap(x[t].moved) = x[t].count
  <2>1. Goto(t, "chunk")
    BY <1>3 DEF EndChunk
  <2>2. /\ pc'[t] = "chunk" /\ End' = End /\ (Fits(t)' <=> Fits(t)) /\ Remembers(t)'
    BY <1>1, <2>1, HolderKeeps DEF Begun, InChunk
  <2>3. ASSUME Fits(t) PROVE Working(t)'
    <3>1. PICK y \in Locals :
            /\ x' = [x EXCEPT ![t] = y]
            /\ y.len = x[t].len /\ y.chunk = x[t].chunk + 1
            /\ y.pending = x[t].pending - x[t].count /\ y.total = x[t].total + x[t].count
      <4>1. TypeInv
        BY DEF AccessInv
      <4>2. QED
        BY <1>3, <4>1, EndLocalsAre
    <3>2. x'[t] = y
      BY <3>1 DEF AccessInv, TypeInv, ThreadTypes
    <3>3. /\ Working(t) /\ x[t].len \in Nat /\ x[t].total \in Nat /\ x[t].pending \in Nat
          /\ x[t].count \in Nat /\ x[t].left \in Nat /\ x[t].moved \in Int /\ x[t].chunk \in Nat
          /\ x[t].total + x[t].pending = x[t].len
          /\ req[t].off \in Nat /\ P \in Nat /\ P > 1
          /\ Base(x[t].chunk) \in Nat /\ Base(x[t].chunk + 1) = Base(x[t].chunk) + P
      BY <1>1, <2>3, FitFacts, BaseFacts DEF Begun, InChunk
    <3>4. /\ x[t].moved = x[t].count /\ x[t].left = 0 /\ Sent(x[t]) = x[t].count
          /\ x[t].count > 0 /\ x[t].count <= x[t].pending
      <4>1. /\ x[t].moved = x[t].count /\ x[t].count > 0 /\ x[t].count <= x[t].pending
            /\ x[t].moved = -1 \/ x[t].moved = x[t].count - x[t].left
        BY <1>2, <1>3, <2>3 DEF Sent
      <4>2. x[t].count \in Nat /\ x[t].left \in Nat
        BY <3>3
      <4>3. x[t].left = 0
        BY <4>1, <4>2
      <4>4. QED
        BY <4>1, <4>2, <4>3 DEF Sent
    <3>5. /\ Whole("chunk_end", req[t], x[t], Want(req[t], End))
          /\ Cut("chunk_end", req[t], x[t]) /\ Selected(t)
          /\ Len(done[t]) = x[t].total + x[t].count
          /\ Bytes(done[t], req[t], tampered[t])
      BY <1>1, <3>3, <3>4 DEF Working, InChunk
    <3>6. Whole("chunk", req[t], y, Want(req[t], End))
      <4>1. /\ x[t].len = Want(req[t], End)
            /\ x[t].count <= Base(x[t].chunk) + P - (req[t].off + x[t].total)
            /\ x[t].count = x[t].pending
               \/ x[t].count = Base(x[t].chunk) + P - (req[t].off + x[t].total)
        BY <3>5 DEF Whole, Cut, Pos
      <4>2. Base(y.chunk) = Base(x[t].chunk) + P
        BY <3>1, <3>3
      <4>3. Pos(req[t], y) = req[t].off + (x[t].total + x[t].count)
        BY <3>1 DEF Pos
      <4>4. QED
        BY <3>1, <3>3, <3>4, <4>1, <4>2, <4>3 DEF Whole
    <3>7. Selected(t)'
      BY <1>1, <2>2, <3>3, <3>4, <3>5 DEF Selected
    <3>8. QED
      BY <1>1, <2>2, <3>1, <3>2, <3>5, <3>6, <3>7 DEF Working, InChunk
  <2>4. QED
    BY <2>2, <2>3 DEF Sound
<1>4. CASE Wrap(x[t].moved) # x[t].count
  <2>1. Goto(t, "unlock") /\ ret'[t] = x[t].moved
    BY <1>4 DEF EndChunk, Answer, AccessInv, TypeInv, OtherTypes
  <2>2. /\ pc'[t] = "unlock" /\ End' = End /\ (Fits(t)' <=> Fits(t)) /\ Remembers(t)'
    BY <1>1, <2>1, HolderKeeps DEF Begun, InChunk
  <2>3. ASSUME Fits(t) PROVE Reported(t)'
    <3>1. /\ Working(t) /\ x[t].total \in Nat /\ x[t].count \in Nat /\ x[t].left \in Nat
          /\ x[t].moved \in Int /\ x[t].len = Want(req[t], End) /\ x[t].len \in Nat
      BY <1>1, <2>3, FitFacts DEF Begun, InChunk
    <3>2. failed[t] /\ Bytes(done[t], req[t], tampered[t])
      BY <1>1, <1>2, <1>4, <2>3, <3>1 DEF Working
    <3>3. x[t].moved <= Len(done[t]) /\ x[t].moved <= Want(req[t], End)
      <4>1. /\ x[t].moved = -1 \/ x[t].moved = x[t].count - x[t].left
            /\ x[t].total + x[t].count <= x[t].len
            /\ Len(done[t]) = x[t].total + (x[t].count - x[t].left)
            /\ x[t].left <= x[t].count
        BY <1>2, <2>3, <3>1 DEF Sent
      <4>2. PICK m \in Int, total \in Nat, count \in Nat, left \in Nat, len \in Nat :
              /\ m = x[t].moved /\ total = x[t].total /\ count = x[t].count
              /\ left = x[t].left /\ len = x[t].len
        BY <3>1
      <4>3. /\ m = -1 \/ m = count - left
            /\ total + count <= len /\ left <= count
        BY <4>1, <4>2
      <4>4. m <= total + (count - left) /\ m <= len
        BY <4>3
      <4>5. Len(done[t]) = total + (count - left) /\ Want(req[t], End) = len
        BY <3>1, <4>1, <4>2
      <4>6. QED
        BY <4>2, <4>4, <4>5
    <3>4. QED
      BY <1>1, <2>1, <2>2, <3>2, <3>3 DEF Reported
  <2>4. QED
    BY <2>2, <2>3 DEF Sound, Begun, InChunk
<1>5. QED
  BY <1>3, <1>4

(* Selecting a page and restoring page 0 change no more than the page. *)
LEMMA TurnSound ==
  ASSUME AccessInv, TypeInv', NEW t \in Threads, Select(t) \/ Restore(t)
  PROVE  Sound(t)'
<1>1. /\ req' = req /\ x' = x /\ module' = module /\ done' = done /\ probed' = probed
      /\ tampered' = tampered /\ failed' = failed /\ pc[t] \in {"select", "restore"}
      /\ module # "paged" => page = 0 /\ page' = 0
      /\ Upper(x[t])
  BY DEF Select, Restore, history, Turn, AccessInv, TypeInv, PageInv
<1>2. PICK l \in {"move", "restore", "chunk_end"} :
        /\ Goto(t, l)
        /\ Select(t) => l = MoveAny(x[t].left, "restore") /\ Turn(x[t].page)
        /\ Restore(t) => l = "chunk_end" /\ Turn(0)
  BY DEF Select, Restore, MoveAny
<1>3. /\ pc'[t] = l /\ End' = End /\ (Fits(t)' <=> Fits(t)) /\ Remembers(t)'
  BY <1>1, <1>2, HolderKeeps DEF Begun, InChunk
<1>4. ASSUME Fits(t) PROVE Working(t)'
  <2>1. /\ Working(t) /\ Counts(pc[t], req[t], x[t])
        /\ x[t].pending \in Nat /\ x[t].count \in Nat /\ x[t].left \in Nat
        /\ x[t].page \in Nat
    BY <1>1, <1>4, FitFacts DEF Begun, InChunk
  <2>2. /\ Cut(pc[t], req[t], x[t]) /\ x[t].pending > 0 /\ x[t].count > 0
        /\ x[t].page > 0
    BY <1>1, <2>1 DEF Working, InChunk, Cut, Upper
  <2>3. CASE Select(t)
    <3>1. pc[t] = "select" /\ x[t].left = x[t].count
      BY <2>1, <2>3 DEF Select, Counts
    <3>2. l = "move"
      BY <1>2, <2>1, <2>2, <2>3, <3>1 DEF MoveAny
    <3>3. Selected(t)'
      BY <1>1, <1>2, <1>3, <2>2, <2>3, <3>2 DEF Selected, Turn
    <3>4. Whole("move", req[t], x[t], Want(req[t], End)) /\ Cut("move", req[t], x[t])
      BY <2>1, <2>2, <3>1 DEF Working, Whole, Cut
    <3>5. /\ Len(done[t]) = x[t].total + Sent(x[t])
          /\ Bytes(done[t], req[t], tampered[t])
      BY <2>1, <3>1 DEF Working
    <3>6. QED
      BY <1>1, <1>3, <3>2, <3>3, <3>4, <3>5 DEF Working
  <2>4. CASE Restore(t)
    <3>1. pc[t] = "restore" /\ l = "chunk_end"
      BY <1>2, <2>4 DEF Restore
    <3>2. page' = 0
      BY <1>1, <1>2, <2>4 DEF Turn
    <3>3. Selected(t)'
      BY <1>3, <3>1, <3>2 DEF Selected
    <3>4. Whole("chunk_end", req[t], x[t], Want(req[t], End)) /\ Cut("chunk_end", req[t], x[t])
      BY <2>1, <2>2, <3>1 DEF Working, Whole, Cut
    <3>5. /\ Len(done[t]) = x[t].total + Sent(x[t])
          /\ Bytes(done[t], req[t], tampered[t])
          /\ failed[t] \/ (x[t].left = 0 /\ x[t].moved = x[t].count)
      BY <2>1, <3>1 DEF Working
    <3>6. QED
      BY <1>1, <1>3, <3>1, <3>3, <3>4, <3>5 DEF Working
  <2>5. QED
    BY <2>3, <2>4
<1>5. QED
  BY <1>2, <1>3, <1>4 DEF Sound, Begun, InChunk

(* A write of the page register by the access itself, which its request     *)
(* told beforehand.                                                        *)
LEMMA SelectsPageExpected ==
  ASSUME AccessInv, NEW t \in Threads, pc[t] = "move", Fits(t), SelectsPage(t)
  PROVE  tampered[t] = "before" /\ x[t].page = 0
<1>1. PICK r : r = x[t]
  OBVIOUS
<1>2. /\ Working(t) /\ Counts(pc[t], req[t], x[t])
      /\ req[t].off \in Nat /\ r.total \in Nat /\ r.pending \in Nat /\ r.chunk \in Nat
      /\ r.count \in Nat /\ r.left \in Nat /\ r.phys \in Nat
      /\ r.total + r.pending = r.len /\ r.len <= req[t].len /\ req[t].len \in Nat
      /\ P \in Nat /\ P > 1 /\ Base(r.chunk) \in Nat
  BY <1>1, FitFacts DEF Begun, InChunk
<1>3. /\ r.left > 0 /\ r.left <= r.count /\ r.count <= r.pending /\ Sent(r) = r.count - r.left
  BY <1>1, <1>2 DEF Counts, InChunk, Sent
<1>4. /\ r.pending > 0
      /\ Base(r.chunk) <= Pos(req[t], r) /\ Pos(req[t], r) < Base(r.chunk) + P
      /\ r.page = IF r.chunk = 0 THEN 0 ELSE r.chunk - 1
      /\ r.phys = (IF r.chunk = 0 THEN 0 ELSE P) + (Pos(req[t], r) - Base(r.chunk)) + Sent(r)
  BY <1>1, <1>2, <1>3 DEF Working, Whole, Cut, InChunk
<1>5. r.phys = P - 1 /\ req[t].op = "write"
  BY <1>1 DEF SelectsPage, PageSelect
<1>6. Pos(req[t], r) = req[t].off + r.total
  BY DEF Pos
<1>7. r.chunk = 0 /\ Base(0) = 0
  BY <1>2, <1>3, <1>4, <1>5, <1>6, BaseFacts
<1>8. r.page = 0 /\ req[t].off + r.total + Sent(r) = P - 1
  <2>1. Base(r.chunk) = 0
    BY <1>7
  <2>2. QED
    BY <1>2, <1>3, <1>4, <1>5, <1>6, <1>7, <2>1
<1>9. PageSelect \in req[t].off..(req[t].off + req[t].len - 1)
  BY <1>2, <1>3, <1>8 DEF PageSelect
<1>10. tampered[t] # "no"
  BY <1>5, <1>9 DEF AccessInv, Sound, Remembers, Overwrites, Holding
<1>11. tampered[t] \in {"no", "before", "during"} /\ tampered[t] # "during"
  BY DEF AccessInv, TypeInv, OtherTypes, Fits
<1>12. QED
  BY <1>1, <1>8, <1>10, <1>11

(* A failed transfer keeps what was transferred before it. *)
LEMMA FailsSound ==
  ASSUME AccessInv, TypeInv', NEW t \in Threads,
         SelectFails(t) \/ MoveFails(t) \/ RestoreFails(t)
  PROVE  Sound(t)'
<1>1. /\ req' = req /\ module' = module /\ done' = done /\ probed' = probed
      /\ tampered' = tampered /\ failed'[t]
      /\ pc[t] = (IF MoveFails(t) THEN "move" ELSE IF SelectFails(t) THEN "select" ELSE "restore")
  BY DEF SelectFails, MoveFails, RestoreFails, Failed, AccessInv, TypeInv, OtherTypes
<1>2. PICK l \in {"restore", "chunk_end"} :
        /\ Goto(t, l)
        /\ MoveFails(t) => l = AfterMove(t)
        /\ ~MoveFails(t) => l = "chunk_end"
  BY DEF SelectFails, MoveFails, RestoreFails, AfterMove
<1>3. /\ pc'[t] = l /\ End' = End /\ (Fits(t)' <=> Fits(t)) /\ Remembers(t)'
  BY <1>1, <1>2, HolderKeeps DEF Begun, InChunk
<1>4. ASSUME Fits(t) PROVE Working(t)'
  <2>1. PICK y \in Locals, k \in {-1, x[t].moved} :
          /\ x' = [x EXCEPT ![t] = y]
          /\ MoveFails(t) \/ k = -1
          /\ y = [len |-> x[t].len, chunk |-> x[t].chunk, pending |-> x[t].pending,
                  total |-> x[t].total, count |-> x[t].count, page |-> x[t].page,
                  phys |-> x[t].phys, left |-> x[t].left, moved |-> k]
    BY FailLocalsAre DEF AccessInv
  <2>2. x'[t] = y /\ Sent(y) = Sent(x[t]) /\ Pos(req[t], y) = Pos(req[t], x[t])
    BY <2>1 DEF AccessInv, TypeInv, ThreadTypes, Sent, Pos
  <2>3. Working(t) /\ x[t].page \in Nat /\ x[t].pending \in Nat
    BY <1>1, <1>4, FitFacts DEF Begun, InChunk
  <2>4. /\ Whole(pc[t], req[t], x[t], Want(req[t], End)) /\ Cut(pc[t], req[t], x[t])
        /\ x[t].pending > 0
    BY <1>1, <2>3 DEF Working, InChunk, Cut
  <2>5. Whole(l, req[t], y, Want(req[t], End))
    BY <2>1, <2>2, <2>3, <2>4 DEF Whole
  <2>6. Cut(l, req[t], y)
    BY <2>1, <2>2, <2>4 DEF Cut
  <2>7. Len(done[t]) = y.total + Sent(y) /\ Bytes(done[t], req[t], tampered[t])
    BY <1>1, <2>1, <2>2, <2>3 DEF Working
  <2>8. Selected(t)'
    <3>1. CASE ~MoveFails(t)
      BY <1>2, <1>3, <2>1, <2>2, <3>1 DEF Selected
    <3>2. CASE MoveFails(t) /\ x[t].page > 0
      BY <1>2, <1>3, <2>1, <2>2, <3>2 DEF Selected, AfterMove
    <3>3. CASE MoveFails(t) /\ ~(x[t].page > 0)
      <4>1. tampered[t] = "before" \/ page = 0
        BY <1>1, <2>3, <3>3 DEF Working, Selected
      <4>2. tampered[t] = "before" \/ page' = page
        BY <1>1, <1>4, <3>3, SelectsPageExpected DEF MoveFails
      <4>3. QED
        BY <1>1, <1>2, <1>3, <4>1, <4>2 DEF Selected
    <3>4. QED
      BY <3>1, <3>2, <3>3
  <2>9. QED
    BY <1>1, <1>2, <1>3, <2>2, <2>5, <2>6, <2>7, <2>8 DEF Working
<1>5. QED
  BY <1>2, <1>3, <1>4 DEF Sound, Begun, InChunk

(* The numbers of a transfer within a chunk: h is the half it is in, n the *)
(* byte of the file that the k-th unit should be.                          *)
LEMMA MoveNumbers ==
  ASSUME AccessInv, NEW t \in Threads, pc[t] = "move", Fits(t), NEW k \in 1..Unit(t)
  PROVE  \E n \in Nat, c \in Nat, b \in Nat :
           /\ n = req[t].off + x[t].total + Sent(x[t]) + k - 1
           /\ c = x[t].chunk /\ b = Base(c)
           /\ b <= n /\ n < b + P /\ n < End
           /\ x[t].phys + k - 1 = (IF c = 0 THEN 0 ELSE P) + (n - b)
           /\ x[t].page = IF c = 0 THEN 0 ELSE c - 1
<1>1. PICK r : r = x[t]
  OBVIOUS
<1>2. /\ Working(t) /\ Counts(pc[t], req[t], x[t])
      /\ req[t].off \in Nat /\ r.total \in Nat /\ r.pending \in Nat /\ r.chunk \in Nat
      /\ r.count \in Nat /\ r.left \in Nat /\ r.phys \in Nat
      /\ r.total + r.pending = r.len /\ req[t].off + r.len <= End /\ End \in Nat
      /\ P \in Nat /\ P > 1 /\ Base(r.chunk) \in Nat
  BY <1>1, FitFacts DEF Begun, InChunk
<1>3. /\ r.left > 0 /\ r.left <= r.count /\ r.count <= r.pending /\ Sent(r) = r.count - r.left
  BY <1>1, <1>2 DEF Counts, InChunk, Sent
<1>4. /\ r.pending > 0
      /\ Base(r.chunk) <= req[t].off + r.total
      /\ r.count <= Base(r.chunk) + P - (req[t].off + r.total)
      /\ r.page = IF r.chunk = 0 THEN 0 ELSE r.chunk - 1
      /\ r.phys = (IF r.chunk = 0 THEN 0 ELSE P) + ((req[t].off + r.total) - Base(r.chunk)) + Sent(r)
  BY <1>1, <1>2, <1>3 DEF Working, Whole, Cut, InChunk, Pos
<1>5. Unit(t) <= r.left /\ Unit(t) \in {1, 2}
  BY <1>1, UnitFacts DEF AccessInv
<1>6. PICK n \in Nat, c \in Nat, b \in Nat :
        /\ n = req[t].off + r.total + Sent(r) + k - 1
        /\ c = r.chunk /\ b = Base(r.chunk)
  BY <1>2, <1>3, <1>5
<1>7. k <= r.left /\ k >= 1 /\ k \in Int
  BY <1>2, <1>5
<1>8. b <= n /\ n < b + P /\ n < End
  BY <1>2, <1>3, <1>4, <1>6, <1>7
<1>9. r.phys + k - 1 = (IF c = 0 THEN 0 ELSE P) + (n - b)
  BY <1>2, <1>3, <1>4, <1>6, <1>7
<1>10. QED
  BY <1>1, <1>4, <1>6, <1>8, <1>9

LEMMA MovedByte ==
  ASSUME AccessInv, NEW t \in Threads, pc[t] = "move", Fits(t), module # NoModule,
         NEW k \in 1..Unit(t)
  PROVE  RightByte(Touched(t)[k], req[t].off + x[t].total + Sent(x[t]) + k - 1, tampered[t])
<1>1. PICK n \in Nat, c \in Nat, b \in Nat :
        /\ n = req[t].off + x[t].total + Sent(x[t]) + k - 1
        /\ c = x[t].chunk /\ b = Base(c)
        /\ b <= n /\ n < b + P /\ n < End
        /\ x[t].phys + k - 1 = (IF c = 0 THEN 0 ELSE P) + (n - b)
        /\ x[t].page = IF c = 0 THEN 0 ELSE c - 1
  BY MoveNumbers
<1>2. /\ P \in Nat /\ P > 1 /\ UnpagedSize = 2 * P /\ UnpagedSize = Base(2) /\ Base(1) = P
      /\ Base(0) = 0
  BY SizeFacts, BaseFacts
<1>3. PICK m \in 0..(UnpagedSize - 1) : m = (IF c = 0 THEN 0 ELSE P) + (n - b)
  BY <1>1, <1>2
<1>4. Touched(t)[k] = Place(m)
  <2>1. Touched(t)[k] = Place((x[t].phys + k - 1) % UnpagedSize)
    BY DEF Touched
  <2>2. m % UnpagedSize = m
    BY <1>2, <1>3
  <2>3. x[t].phys + k - 1 = m
    BY <1>1, <1>3
  <2>4. QED
    BY <2>1, <2>2, <2>3
<1>5. module \in {"paged", "flat"}
  BY SffAssumption DEF AccessInv, TypeInv, OtherTypes, Module
<1>6. Working(t)
  BY FitFacts DEF Begun, InChunk
<1>7. c < 2 => m = n
  <2>1. CASE c = 0
    BY <1>1, <1>2, <1>3, <2>1
  <2>2. CASE c = 1
    BY <1>1, <1>2, <1>3, <2>2
  <2>3. QED
    BY <1>1, <2>1, <2>2
<1>8. CASE module = "flat"
  <2>1. End = Base(2)
    BY <1>2, <1>8 DEF End
  <2>2. ~(2 <= c)
    <3>1. 2 <= c => Base(2) <= Base(c)
      BY <1>1, BaseMono
    <3>2. QED
      BY <1>1, <1>2, <2>1, <3>1
  <2>3. m = n
    BY <1>1, <1>7, <2>2
  <2>4. Place(m) = m
    BY <1>8 DEF Place
  <2>5. QED
    BY <1>1, <1>4, <2>3, <2>4 DEF RightByte
<1>9. CASE module = "paged" /\ c = 0
  <2>1. m < P /\ m = n
    BY <1>1, <1>2, <1>3, <1>7, <1>9
  <2>2. Place(m) = m
    BY <2>1 DEF Place
  <2>3. QED
    BY <1>1, <1>4, <2>1, <2>2 DEF RightByte
<1>10. CASE module = "paged" /\ c = 1
  <2>1. m = n /\ n \in P..(UnpagedSize - 1)
    BY <1>1, <1>2, <1>3, <1>7, <1>10
  <2>2. x[t].page = 0
    BY <1>1, <1>10
  <2>3. tampered[t] = "before" \/ page = 0
    BY <1>6, <2>2 DEF Working, Selected
  <2>4. page = 0 => Place(m) = m
    BY <1>2, <1>3 DEF Place
  <2>5. QED
    BY <1>1, <1>4, <2>1, <2>3, <2>4 DEF RightByte
<1>11. CASE module = "paged" /\ c > 1
  <2>1. PICK j \in Nat : j = c - 1 /\ j > 0 /\ c = j + 1
    BY <1>1, <1>11
  <2>2. page = j
    BY <1>1, <1>6, <1>11, <2>1 DEF Working, Selected
  <2>3. Base(j + 1) = Base(j) + P /\ Base(j) \in Nat
    BY <2>1, BaseFacts
  <2>4. page * P = Base(j)
    BY <2>2 DEF Base
  <2>5. ~(m < P) /\ m = P + (n - b) /\ b = Base(j) + P
    BY <1>1, <1>2, <1>3, <1>11, <2>1, <2>3
  <2>6. Place(m) = page * P + m
    BY <1>11, <2>5 DEF Place
  <2>7. Place(m) = n
    BY <1>1, <1>2, <2>3, <2>4, <2>5, <2>6
  <2>8. QED
    BY <1>1, <1>4, <2>7 DEF RightByte
<1>12. QED
  BY <1>1, <1>5, <1>8, <1>9, <1>10, <1>11

LEMMA MoveSound ==
  ASSUME AccessInv, TypeInv', NEW t \in Threads, Move(t)
  PROVE  Sound(t)'
<1>1. /\ req' = req /\ module' = module /\ probed' = probed /\ module # NoModule
      /\ tampered' = tampered /\ failed' = failed /\ pc[t] = "move"
  BY DEF Move
<1>2. PICK l \in {"move", "restore", "chunk_end"} :
        /\ Goto(t, l)
        /\ l = IF x[t].left = Unit(t) THEN AfterMove(t) ELSE "move"
  BY DEF Move, AfterMove
<1>3. /\ pc'[t] = l /\ End' = End /\ (Fits(t)' <=> Fits(t)) /\ Remembers(t)'
  BY <1>1, <1>2, HolderKeeps DEF Begun, InChunk
<1>4. ASSUME Fits(t) PROVE Working(t)'
  <2>1. PICK y \in Locals :
          /\ x' = [x EXCEPT ![t] = y]
          /\ y.len = x[t].len /\ y.chunk = x[t].chunk /\ y.pending = x[t].pending
          /\ y.total = x[t].total /\ y.count = x[t].count /\ y.page = x[t].page
          /\ y.phys = (x[t].phys + Unit(t)) % UnpagedSize
          /\ y.left = x[t].left - Unit(t) /\ y.moved = x[t].moved + Unit(t)
    BY MoveLocalsAre DEF AccessInv
  <2>2. /\ Working(t) /\ Counts(pc[t], req[t], x[t])
        /\ req[t].off \in Nat /\ x[t].total \in Nat /\ x[t].pending \in Nat
        /\ x[t].count \in Nat /\ x[t].left \in Nat /\ x[t].page \in Nat /\ x[t].phys \in Nat
        /\ x[t].chunk \in Nat /\ P \in Nat /\ P > 1 /\ Base(x[t].chunk) \in Nat
    BY <1>1, <1>4, FitFacts DEF Begun, InChunk
  <2>3. /\ x'[t] = y /\ Pos(req[t], y) = Pos(req[t], x[t])
    BY <2>1 DEF AccessInv, TypeInv, ThreadTypes, Pos
  <2>4. PICK u \in Nat : /\ u = Unit(t) /\ u > 0 /\ u <= x[t].left /\ x[t].left <= x[t].count
                         /\ x[t].moved = x[t].count - x[t].left
    BY <1>1, UnitFacts DEF AccessInv
  <2>5. Sent(x[t]) = x[t].count - x[t].left /\ Sent(y) = Sent(x[t]) + u /\ y.moved = Sent(y)
    BY <2>1, <2>2, <2>4 DEF Sent
  <2>6. /\ Whole("move", req[t], x[t], Want(req[t], End)) /\ Cut("move", req[t], x[t])
        /\ x[t].pending > 0
    BY <1>1, <2>2 DEF Working, InChunk, Cut
  <2>7. Whole(l, req[t], y, Want(req[t], End))
    BY <2>1, <2>3, <2>6 DEF Whole
  <2>8. Cut(l, req[t], y)
    <3>1. l = "move" => y.phys = x[t].phys + u
      <4>1. ASSUME l = "move" PROVE x[t].phys + u < UnpagedSize
        <5>1. u < x[t].left
          BY <1>2, <2>2, <2>4, <4>1 DEF AfterMove
        <5>2. /\ x[t].phys = (IF x[t].chunk = 0 THEN 0 ELSE P)
                             + (req[t].off + x[t].total - Base(x[t].chunk)) + Sent(x[t])
              /\ x[t].count <= Base(x[t].chunk) + P - (req[t].off + x[t].total)
          BY <2>2, <2>6 DEF Cut, Pos
        <5>3. UnpagedSize = 2 * P
          BY SizeFacts
        <5>4. QED
          BY <2>2, <2>4, <2>5, <5>1, <5>2, <5>3
      <4>2. PICK m \in Nat : m = x[t].phys + u
        BY <2>2
      <4>3. UnpagedSize \in Nat /\ UnpagedSize > 0
        BY SizeFacts
      <4>4. m < UnpagedSize => m % UnpagedSize = m
        BY <4>3
      <4>5. QED
        BY <2>1, <2>4, <4>1, <4>2, <4>4
    <3>2. x[t].phys = (IF x[t].chunk = 0 THEN 0 ELSE P)
                      + (Pos(req[t], x[t]) - Base(x[t].chunk)) + Sent(x[t])
      BY <2>6 DEF Cut
    <3>3. Pos(req[t], x[t]) \in Nat
      BY <2>2 DEF Pos
    <3>4. l = "move" => y.phys = (IF y.chunk = 0 THEN 0 ELSE P)
                                 + (Pos(req[t], y) - Base(y.chunk)) + Sent(y)
      BY <2>1, <2>2, <2>3, <2>4, <2>5, <3>1, <3>2, <3>3
    <3>5. QED
      BY <2>1, <2>3, <2>6, <3>4 DEF Cut
  <2>9. done'[t] = done[t] \o Touched(t)
    BY <1>4 DEF Move, Fits, AccessInv, TypeInv, OtherTypes
  <2>10. PICK d, e : d = done[t] /\ e = Touched(t)
    OBVIOUS
  <2>11. d \in Seq(Places) /\ e \in Seq(Places) /\ Len(e) = u
    BY <1>1, <2>4, <2>10, TouchedType DEF AccessInv, TypeInv, OtherTypes
  <2>12. Len(d) = x[t].total + Sent(x[t]) /\ Len(d) \in Nat
    BY <1>1, <2>2, <2>10, <2>11 DEF Working
  <2>13. Len(done'[t]) = y.total + Sent(y)
    <3>1. Len(d \o e) = Len(d) + u
      BY <2>11
    <3>2. PICK s \in Int : s = Sent(x[t])
      BY <2>2, <2>5
    <3>3. PICK a \in Nat : a = x[t].total
      BY <2>2
    <3>4. Len(d) = a + s
      BY <2>12, <3>2, <3>3
    <3>5. Len(d \o e) = a + (s + u)
      BY <3>1, <3>4
    <3>6. QED
      BY <2>1, <2>5, <2>9, <2>10, <3>2, <3>3, <3>5
  <2>14. Bytes(done'[t], req[t], tampered[t])
    <3>1. Bytes(d, req[t], tampered[t])
      BY <2>2, <2>10 DEF Working
    <3>2. \A k \in 1..u : RightByte(e[k], req[t].off + x[t].total + Sent(x[t]) + k - 1, tampered[t])
      BY <1>1, <1>4, <2>4, <2>10, MovedByte
    <3>3. ASSUME NEW k \in 1..Len(d \o e)
          PROVE  RightByte((d \o e)[k], req[t].off + k - 1, tampered[t])
      <4>1. CASE k <= Len(d)
        <5>1. (d \o e)[k] = d[k] /\ k \in 1..Len(d)
          BY <2>11, <4>1
        <5>2. QED
          BY <3>1, <5>1 DEF Bytes
      <4>2. CASE k > Len(d)
        <5>1. PICK j \in 1..u : j = k - Len(d)
          BY <2>11, <2>12, <4>2
        <5>2. (d \o e)[k] = e[j]
          BY <2>11, <4>2, <5>1
        <5>3. req[t].off + k - 1 = req[t].off + x[t].total + Sent(x[t]) + j - 1
          <6>1. PICK s \in Int, a \in Nat, o \in Nat, m \in Nat, i \in Nat :
                  s = Sent(x[t]) /\ a = x[t].total /\ o = req[t].off /\ m = Len(d) /\ i = k
            <7>1. Sent(x[t]) \in Int
              BY <2>2, <2>5
            <7>2. k \in Nat
              <8>1. Len(d \o e) \in Nat
                BY <2>11
              <8>2. QED
                BY <8>1
            <7>3. QED
              BY <2>2, <2>12, <7>1, <7>2
          <6>2. m = a + s
            BY <2>12, <6>1
          <6>3. j = i - m
            BY <5>1, <6>1
          <6>4. o + i - 1 = o + a + s + j - 1
            BY <6>2, <6>3
          <6>5. QED
            BY <6>1, <6>4
        <5>4. QED
          BY <3>2, <5>2, <5>3
      <4>3. QED
        BY <2>11, <4>1, <4>2
    <3>4. QED
      BY <2>9, <2>10, <3>3 DEF Bytes
  <2>15. Selected(t)'
    <3>1. Selected(t)
      BY <2>2 DEF Working
    <3>2. CASE SelectsPage(t)
      <4>1. tampered[t] = "before" /\ x[t].page = 0
        BY <1>1, <1>4, <3>2, SelectsPageExpected
      <4>2. QED
        BY <1>1, <1>3, <2>1, <2>3, <4>1 DEF Selected
    <3>3. CASE ~SelectsPage(t)
      <4>1. page' = page
        BY <3>3 DEF Move
      <4>2. (l = "restore" => x[t].page > 0) /\ (l = "chunk_end" => ~(x[t].page > 0))
        BY <1>2 DEF AfterMove
      <4>3. QED
        BY <1>1, <1>3, <2>1, <2>3, <3>1, <4>1, <4>2 DEF Selected
    <3>4. QED
      BY <3>2, <3>3
  <2>16. l \in {"restore", "chunk_end"} => y.left = 0 /\ y.moved = y.count
    BY <1>2, <2>1, <2>2, <2>4
  <2>17. QED
    BY <1>1, <1>2, <1>3, <2>3, <2>7, <2>8, <2>13, <2>14, <2>15, <2>16 DEF Working
<1>5. QED
  BY <1>2, <1>3, <1>4 DEF Sound, Begun, InChunk

(* Outside of the mutex, and when it is given back. *)
LEMMA EdgeSound ==
  ASSUME AccessInv, TypeInv', NEW t \in Threads,
         Call(t) \/ CheckPresent(t) \/ Unlock(t) \/ Return(t)
  PROVE  Sound(t)'
<1>1. Remembers(t) /\ pc[t] \in Locations
  BY DEF AccessInv, Sound, TypeInv, PageInv, WeakType
<1>2. pc'[t] \notin Holding
  BY DEF Call, CheckPresent, Unlock, Return, Goto, Answer, Holding, AccessInv, TypeInv,
         PageInv, WeakType
<1>3. tampered'[t] = "no" /\ done'[t] = <<>> /\ ~probed'[t] /\ ~failed'[t]
  <2>1. CASE Unlock(t)
    BY <2>1 DEF Unlock, AccessInv, TypeInv, OtherTypes
  <2>2. CASE Call(t) \/ CheckPresent(t) \/ Return(t)
    <3>1. pc[t] \notin Holding /\ pc[t] \notin Begun \cup {"unlock"}
      BY <2>2 DEF Call, CheckPresent, Return, Holding, Begun, InChunk
    <3>2. UNCHANGED <<done, probed, failed, tampered>>
      BY <2>2 DEF Call, CheckPresent, Return, history
    <3>3. QED
      BY <1>1, <3>1, <3>2 DEF Remembers
  <2>3. QED
    BY <2>1, <2>2
<1>4. QED
  BY <1>2, <1>3 DEF Sound, Remembers, Holding, Begun, InChunk

(* A thread's step changes its own state only. *)
LEMMA OwnStateOnly ==
  ASSUME TypeInv, NEW t \in Threads, Call(t) \/ Access(t), NEW u \in Threads, u # t
  PROVE  /\ pc'[u] = pc[u] /\ req'[u] = req[u] /\ x'[u] = x[u] /\ ret'[u] = ret[u]
         /\ done'[u] = done[u] /\ probed'[u] = probed[u] /\ failed'[u] = failed[u]
         /\ tampered'[u] = tampered[u]
         /\ pc[t] \in Holding \/ UNCHANGED moduleVars
<1> USE DEF TypeInv, ThreadTypes, OtherTypes, PageInv, WeakType
<1>1. pc'[u] = pc[u] /\ req'[u] = req[u]
  BY DEF Call, Access, CheckPresent, Lock, Probe, ProbeFails, NextChunk, UpdateClient,
         Select, SelectFails, Move, MoveFails, Restore, RestoreFails, EndChunk,
         Complete, Unlock, Return, Answer, Goto, Begin
<1>2. x'[u] = x[u]
  BY DEF Call, Access, CheckPresent, Lock, Probe, ProbeFails, NextChunk, UpdateClient,
         Select, SelectFails, Move, MoveFails, Restore, RestoreFails, EndChunk,
         Complete, Unlock, Return, Begin
<1>3. ret'[u] = ret[u] /\ done'[u] = done[u]
  BY DEF Call, Access, CheckPresent, Lock, Probe, ProbeFails, NextChunk, UpdateClient,
         Select, SelectFails, Move, MoveFails, Restore, RestoreFails, EndChunk,
         Complete, Unlock, Return, Answer
<1>4. probed'[u] = probed[u] /\ failed'[u] = failed[u] /\ tampered'[u] = tampered[u]
  BY DEF Call, Access, CheckPresent, Lock, Probe, ProbeFails, NextChunk, UpdateClient,
         Select, SelectFails, Move, MoveFails, Restore, RestoreFails, EndChunk,
         Complete, Unlock, Return, history, Failed
<1>5. pc[t] \in Holding \/ UNCHANGED moduleVars
  BY DEF Call, Access, CheckPresent, Lock, Probe, ProbeFails, NextChunk, UpdateClient,
         Select, SelectFails, Move, MoveFails, Restore, RestoreFails, EndChunk,
         Complete, Unlock, Return, Holding
<1>6. QED
  BY <1>1, <1>2, <1>3, <1>4, <1>5

LEMMA NextAccessInv == AccessInv /\ [Next]_vars => AccessInv'
<1> SUFFICES ASSUME AccessInv, [Next]_vars PROVE AccessInv'
  OBVIOUS
<1>1. TypeInv'
  BY NextTypeInv DEF AccessInv
<1>2. ASSUME NEW t \in Threads, Call(t) \/ Access(t) PROVE \A u \in Threads : Sound(u)'
  <2>1. Sound(t)'
    BY <1>1, <1>2, LockSound, ProbeSound, NextChunkSound, CompleteSound, EndChunkSound,
       TurnSound, FailsSound, MoveSound, EdgeSound DEF Access, UpdateClient
  <2>2. ASSUME NEW u \in Threads, u # t PROVE Sound(u)'
    BY <1>2, <2>2, OthersKeep, OwnStateOnly DEF AccessInv
  <2>3. QED
    BY <2>1, <2>2
<1>3. ASSUME Swap \/ OtherMaster, NEW u \in Threads PROVE Sound(u)'
  <2>1. Sound(u) /\ (u \in lock <=> pc[u] \in Holding)
    BY DEF AccessInv, TypeInv, PageInv, OneHolder
  <2>2. /\ pc' = pc /\ req' = req /\ probed' = probed /\ failed' = failed
        /\ done'[u] = <<>>
        /\ tampered'[u] = IF u \in lock THEN "during" ELSE tampered[u]
    BY <1>3 DEF Swap, OtherMaster, Tamper
  <2>3. Remembers(u)'
    BY <2>1, <2>2 DEF Sound, Remembers, Known, Holding
  <2>4. pc[u] \in Begun \cup {"unlock"} => ~Fits(u)'
    BY <2>1, <2>2 DEF Fits, Begun, InChunk, Holding
  <2>5. QED
    BY <2>2, <2>3, <2>4 DEF Sound
<1>4. ASSUME UNCHANGED vars, NEW u \in Threads PROVE Sound(u)'
  BY <1>4 DEF AccessInv, vars, threadVars, moduleVars, history, Sound, Remembers, Fits, Known,
              Working, Reported, Selected, End
<1>5. \A u \in Threads : Sound(u)'
  BY <1>2, <1>3, <1>4 DEF Next
<1>6. QED
  BY <1>1, <1>5 DEF AccessInv

LEMMA InitAccessInv == Init => AccessInv
<1>1. Init => \A t \in Threads : Sound(t)
  BY DEF Init, Sound, Remembers, Holding, Begun, InChunk
<1>2. QED
  BY <1>1, InitTypeInv DEF AccessInv

-----------------------------------------------------------------------------
(* An access in which no transfer failed is complete: it moved all that    *)
(* was asked of it and that the module has.                                *)
THEOREM FullLengthHolds == Spec => []FullLength
<1>1. ASSUME AccessInv PROVE FullLength
  <2> SUFFICES ASSUME NEW t \in Threads, pc[t] = "unlock", ~failed[t], tampered[t] # "during",
                      req[t].off <= End
               PROVE  ret[t] = Want(req[t], End)
    BY DEF FullLength, End, Want
  <2>1. Known(t)
    BY <1>1 DEF AccessInv, Sound, Remembers
  <2>2. Reported(t)
    BY <1>1, <2>1 DEF AccessInv, Sound, Fits
  <2>3. QED
    BY <2>2 DEF Reported
<1>2. QED
  BY <1>1, InitAccessInv, NextAccessInv, PTL DEF Spec

(* What an access reports as transferred are the bytes that its offset     *)
(* names, one after the other, whatever failed, on any page and across     *)
(* pages, unless the module was changed behind its back.                   *)
THEOREM RightBytesHolds == Spec => []RightBytes
<1>1. ASSUME AccessInv PROVE RightBytes
  <2> SUFFICES ASSUME NEW t \in Threads,
                      /\ pc[t] = "unlock" /\ ret[t] > 0 /\ tampered[t] # "during"
                      /\ req[t].off + req[t].len > UnpagedSize => probed[t]
                      /\ module = "paged" \/ req[t].off < UnpagedSize
               PROVE  /\ ret[t] <= req[t].len /\ ret[t] <= Len(done[t])
                      /\ \A k \in 1..ret[t] :
                           \/ done[t][k] = req[t].off + k - 1
                           \/ tampered[t] = "before"
                              /\ req[t].off + k - 1 \in P..(UnpagedSize - 1)
    BY DEF RightBytes
  <2>1. /\ req[t].off \in Nat /\ req[t].len \in Nat /\ req[t].len > 0
        /\ req[t].off + req[t].len <= FileSize
        /\ UnpagedSize \in Nat /\ FileSize \in Nat
    BY <1>1, LocalsNow, RequestFacts, SizeFacts DEF AccessInv
  <2>2. Fits(t)
    BY <2>1 DEF Fits, Known, End
  <2>3. Reported(t)
    BY <1>1, <2>2 DEF AccessInv, Sound
  <2>4. Want(req[t], End) <= req[t].len /\ Want(req[t], End) \in Nat
    BY <1>1, <2>2, WantFacts DEF AccessInv, Fits
  <2>5. ret[t] \in Int /\ done[t] \in Seq(Places)
    BY <1>1, SizeFacts DEF AccessInv, TypeInv, OtherTypes
  <2>6. ret[t] <= req[t].len /\ ret[t] <= Len(done[t])
    BY <2>1, <2>3, <2>4, <2>5 DEF Reported
  <2>7. ASSUME NEW k \in 1..ret[t] PROVE RightByte(done[t][k], req[t].off + k - 1, tampered[t])
    <3>1. k \in 1..Len(done[t])
      BY <2>5, <2>6
    <3>2. QED
      BY <2>3, <3>1 DEF Reported, Bytes
  <2>8. QED
    BY <2>6, <2>7 DEF RightByte
<1>2. QED
  BY <1>1, InitAccessInv, NextAccessInv, PTL DEF Spec
=============================================================================
