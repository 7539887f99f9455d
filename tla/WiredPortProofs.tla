---------------------------- MODULE WiredPortProofs ----------------------------
(***************************************************************************)
(* A locked port passes only authorized stations, and hostapd's stations   *)
(* agree with the bridge, for any stations, any number of waiting messages *)
(* and any configuration.                                                  *)
(***************************************************************************)
EXTENDS WiredPort, FiniteSetTheorems, TLAPS

FdbType == fdb \in [Macs -> {"none", "locked", "open"}]

(* What the forwarding entries may be once the port is configured. *)
Granted == IF portLocked THEN \A m \in Macs : fdb[m] = "open" => m \in granted
                         ELSE granted # {}

(* The port was locked before it was flushed and set up; with multiple     *)
(* authentication nothing unlocks it while hostapd runs; and it is down    *)
(* when deinit unlocks it.                                                 *)
GrantInv ==
  /\ FdbType
  /\ phase \in {"up", "running"} => Granted
  /\ phase \in {"flush", "up"} => portLocked
  /\ phase = "running" /\ multi_auth => portLocked
  /\ phase \in {"unlock", "clear"} => ~up
-----------------------------------------------------------------------------
LEMMA WithoutKeeps ==
  ASSUME FdbType, NEW S
  PROVE  /\ Without(fdb, S) \in [Macs -> {"none", "locked", "open"}]
         /\ \A m \in Macs : Without(fdb, S)[m] = "open" => fdb[m] = "open" /\ m \notin S
  BY DEF Without, FdbType

LEMMA FlushedKeeps ==
  ASSUME FdbType
  PROVE  /\ Flushed(fdb) \in [Macs -> {"none", "locked", "open"}]
         /\ \A m \in Macs : Flushed(fdb)[m] # "open"
  BY DEF Flushed, Without, Entries, FdbType

(* An authorization opens at most the station's own entry.                 *)
LEMMA AuthorizeKeeps ==
  ASSUME GrantInv, phase = "running", NEW m \in Macs, Authorize(m)
  PROVE  FdbType' /\ Granted' /\ (multi_auth => portLocked')
<1> DEFINE f == IF multi_auth \/ mac_auth = "kernel" THEN Added(fdb, m) ELSE fdb
           Opens(g) == /\ g \in [Macs -> {"none", "locked", "open"}]
                       /\ \A n \in Macs : g[n] = "open" => fdb[n] = "open" \/ n = m
<1>1. Opens(f)
  BY DEF Added, GrantInv, FdbType
<1>2. Opens(Unlocked(f))
  BY <1>1 DEF Unlocked, Without
<1>3. CASE ~multi_auth /\ locked
  <2>1. fdb' = Unlocked(f) /\ ~portLocked' /\ m \in granted'
    BY <1>3 DEF Authorize, SetPortLocked
  <2>2. QED
    BY <1>2, <1>3, <2>1 DEF FdbType, Granted
<1>4. CASE ~(~multi_auth /\ locked)
  <2>1. fdb' = f /\ portLocked' = portLocked /\ granted' = granted \cup {m}
    BY <1>4 DEF Authorize
  <2>2. QED
    BY <1>1, <2>1 DEF GrantInv, FdbType, Granted
<1>5. QED
  BY <1>3, <1>4

LEMMA DeauthorizeKeeps ==
  ASSUME GrantInv, phase = "running", NEW m \in Macs, Deauthorize(m)
  PROVE  FdbType' /\ Granted' /\ (multi_auth => portLocked')
<1>1. CASE multi_auth /\ DelNeigh(m)
  <2>1. /\ fdb' = Without(fdb, Entries(fdb) \cap {m}) /\ granted' = granted \ {m}
        /\ portLocked /\ portLocked' = portLocked
    BY <1>1 DEF DelNeigh, GrantInv
  <2>2. \A n \in Macs : fdb[n] = "open" => n \in granted /\ n \in Entries(fdb)
    BY <2>1 DEF GrantInv, Granted, Entries
  <2>3. QED
    BY <2>1, <2>2, WithoutKeeps DEF GrantInv, FdbType, Granted
<1>2. CASE ~multi_auth /\ LockAndFlush
  BY <1>2, FlushedKeeps DEF LockAndFlush, SetPortLocked, GrantInv, FdbType, Granted
<1>3. CASE ~multi_auth /\ UNCHANGED <<bridge, locked, granted>>
  BY <1>3 DEF bridge, GrantInv, FdbType, Granted
<1>4. QED
  BY <1>1, <1>2, <1>3 DEF Deauthorize

LEMMA NextGrantInv == GrantInv /\ [Next]_vars => GrantInv'
<1> SUFFICES ASSUME GrantInv, [Next]_vars PROVE GrantInv'
  OBVIOUS
<1>1. CASE UNCHANGED <<config, up, portLocked, fdb, phase, granted>>
  BY <1>1 DEF GrantInv, FdbType, Granted, config
<1>2. CASE Start \/ AwaitBridge \/ Stop \/ Crash
  BY <1>2 DEF Start, AwaitBridge, Stop, Crash, Goto, GrantInv, FdbType, bridge, port
<1>3. CASE LockPort
  BY <1>3 DEF LockPort, SetPortLocked, Goto, GrantInv, FdbType
<1>4. CASE FlushPort
  <2>1. FdbType' /\ \A m \in Macs : fdb'[m] # "open"
    BY <1>4, FlushedKeeps DEF FlushPort, GrantInv, FdbType
  <2>2. QED
    BY <1>4, <2>1 DEF FlushPort, Goto, GrantInv, Granted
<1>5. CASE SetPortUp
  BY <1>5 DEF SetPortUp, Goto, GrantInv, FdbType, Granted, config
<1>6. CASE SetPortDown
  BY <1>6, FlushedKeeps DEF SetPortDown, Goto, GrantInv, FdbType
<1>7. CASE UnlockPort
  <2>1. FdbType'
    <3>1. FdbType /\ Unlocked(fdb) \in [Macs -> {"none", "locked", "open"}]
      BY WithoutKeeps DEF GrantInv, Unlocked
    <3>2. fdb' = fdb \/ fdb' = Unlocked(fdb)
      BY <1>7 DEF UnlockPort, bridge
    <3>3. QED
      BY <3>1, <3>2 DEF FdbType
  <2>2. QED
    BY <1>7, <2>1 DEF UnlockPort, Goto, GrantInv, port
<1>8. CASE Clear
  BY <1>8, FlushedKeeps DEF Clear, Goto, GrantInv, FdbType
<1>9. CASE Newlink
  <2>1. phase = "running" /\ phase' = phase /\ multi_auth' = multi_auth
    BY <1>9 DEF Newlink, Ready, config
  <2>2. CASE running /\ ~Head(queue).running
    <3>1. fdb' = Flushed(fdb) /\ portLocked'
      BY <1>9, <2>1, <2>2 DEF Newlink, SetPortLocked, GrantInv
    <3>2. FdbType' /\ \A m \in Macs : fdb'[m] # "open"
      BY <3>1, FlushedKeeps DEF GrantInv, FdbType
    <3>3. QED
      BY <2>1, <3>1, <3>2 DEF GrantInv, Granted
  <2>3. CASE ~(running /\ ~Head(queue).running)
    <3>1. fdb' = fdb /\ portLocked' = portLocked /\ granted' = granted
      BY <1>9, <2>3 DEF Newlink
    <3>2. QED
      BY <2>1, <3>1 DEF GrantInv, Granted, FdbType
  <2>4. QED
    BY <2>2, <2>3
<1>10. CASE Newneigh \/ Delneigh
  BY <1>1, <1>10 DEF Newneigh, Delneigh, port
<1>11. ASSUME NEW m \in Macs, Eapol(m) \/ Dhcp(m) \/ EapRxTimeout(m) PROVE GrantInv'
  BY <1>1, <1>11 DEF Eapol, Dhcp, EapRxTimeout, port, bridge
<1>12. ASSUME NEW m \in Macs, AccessAccept(m) \/ EapolAccept(m) PROVE GrantInv'
  <2>1. Authorize(m) /\ phase = "running" /\ phase' = phase /\ multi_auth' = multi_auth
    BY <1>12 DEF AccessAccept, EapolAccept, Ready, config
  <2>2. QED
    BY <2>1, AuthorizeKeeps DEF GrantInv
<1>13. ASSUME NEW m \in Macs, AccessReject(m) \/ EapolRefuse(m) PROVE GrantInv'
  <2>1. Deauthorize(m) /\ phase = "running" /\ phase' = phase /\ multi_auth' = multi_auth
    BY <1>13 DEF AccessReject, EapolRefuse, Ready, config
  <2>2. QED
    BY <2>1, DeauthorizeKeeps DEF GrantInv
<1>14. CASE Attach \/ Plug
  BY <1>1, <1>14 DEF Attach, Plug, bridge
<1>15. CASE Unplug
  BY <1>15, FlushedKeeps DEF Unplug, GrantInv, FdbType, Granted, config
<1>16. ASSUME NEW m \in Macs, Send(m) PROVE GrantInv'
  BY <1>16 DEF Send, GrantInv, FdbType, Granted, config, port
<1>17. ASSUME NEW m \in Macs, Age(m) PROVE GrantInv'
  BY <1>17, WithoutKeeps DEF Age, GrantInv, FdbType, Granted, config, port
<1>18. QED
  BY <1>1, <1>2, <1>3, <1>4, <1>5, <1>6, <1>7, <1>8, <1>9, <1>10, <1>11, <1>12, <1>13,
     <1>14, <1>15, <1>16, <1>17
     DEF Next, Lifecycle, HandleMessage, Station, Kernel, vars, port, bridge

(* A locked port passes only stations hostapd authorized, and the port is  *)
(* unlocked only after one was, through crashes and restarts of hostapd,   *)
(* losses of the link and any order of messages, frames and answers.       *)
THEOREM NoTrafficWithoutGrantHolds == Spec => []NoTrafficWithoutGrant
<1>1. Init => GrantInv
  BY DEF Init, GrantInv, FdbType
<1>2. GrantInv => NoTrafficWithoutGrant
  BY DEF GrantInv, Granted, NoTrafficWithoutGrant, Passes, Running
<1>3. QED
  BY <1>1, <1>2, NextGrantInv, PTL DEF Spec

-----------------------------------------------------------------------------
(* The second half: what hostapd knows of the entries.                     *)
Fdb == [Macs -> {"none", "locked", "open"}]
-----------------------------------------------------------------------------
(* What the kernel tells.                                                  *)
IsDel(e, m) == e.kind = "del" /\ e.mac = m
IsNote(e, m) == e.kind = "new" /\ e.mac = m /\ e.locked

(* Some message says that m left; some, or the last about it, that m waits *)
(* behind a locked entry.                                                  *)
Leaving(q, m) == \E i \in 1..Len(q) : IsDel(q[i], m)
Noted(q, m) ==
  \E i \in 1..Len(q) : IsNote(q[i], m) /\ \A j \in (i + 1)..Len(q) : ~IsDel(q[j], m)

LEMMA ConcatFacts ==
  ASSUME NEW a \in Seq(Message), NEW b \in Seq(Message), NEW m
  PROVE  /\ a \o b \in Seq(Message)
         /\ Leaving(a \o b, m) <=> Leaving(a, m) \/ Leaving(b, m)
         /\ Noted(a \o b, m) <=> Noted(b, m) \/ (Noted(a, m) /\ ~Leaving(b, m))
<1> DEFINE c == a \o b
<1>1. /\ c \in Seq(Message) /\ Len(c) = Len(a) + Len(b)
      /\ Len(a) \in Nat /\ Len(b) \in Nat
      /\ \A i \in 1..Len(a) : i \in 1..Len(c) /\ c[i] = a[i]
      /\ \A i \in 1..Len(b) : Len(a) + i \in 1..Len(c) /\ c[Len(a) + i] = b[i]
  OBVIOUS
<1>2. ASSUME NEW i \in 1..Len(c)
      PROVE  i \in 1..Len(a) \/ \E k \in 1..Len(b) : i = Len(a) + k
  <2>1. CASE i > Len(a)
    <3>1. i - Len(a) \in 1..Len(b) /\ i = Len(a) + (i - Len(a))
      BY <1>1, <2>1
    <3>2. QED
      BY <3>1
  <2>2. QED
    BY <1>1, <2>1
<1> HIDE DEF c
<1>3. Leaving(c, m) <=> Leaving(a, m) \/ Leaving(b, m)
  <2>1. Leaving(a, m) \/ Leaving(b, m) => Leaving(c, m)
    BY <1>1 DEF Leaving
  <2>2. ASSUME Leaving(c, m) PROVE Leaving(a, m) \/ Leaving(b, m)
    <3>1. PICK i \in 1..Len(c) : IsDel(c[i], m)
      BY <2>2 DEF Leaving
    <3>2. QED
      BY <1>1, <1>2, <3>1 DEF Leaving
  <2>3. QED
    BY <2>1, <2>2
<1>4. ASSUME Noted(b, m) PROVE Noted(c, m)
  <2>1. PICK k \in 1..Len(b) : IsNote(b[k], m) /\ \A j \in (k + 1)..Len(b) : ~IsDel(b[j], m)
    BY <1>4 DEF Noted
  <2>2. IsNote(c[Len(a) + k], m) /\ Len(a) + k \in 1..Len(c)
    BY <1>1, <2>1
  <2>3. ASSUME NEW j \in (Len(a) + k + 1)..Len(c) PROVE ~IsDel(c[j], m)
    <3>1. j - Len(a) \in (k + 1)..Len(b) /\ j - Len(a) \in 1..Len(b)
          /\ j = Len(a) + (j - Len(a))
      BY <1>1, <2>3
    <3>2. c[j] = b[j - Len(a)]
      BY <1>1, <3>1
    <3>3. QED
      BY <2>1, <3>1, <3>2
  <2>4. QED
    BY <2>2, <2>3 DEF Noted
<1>5. ASSUME Noted(a, m), ~Leaving(b, m) PROVE Noted(c, m)
  <2>1. PICK k \in 1..Len(a) : IsNote(a[k], m) /\ \A j \in (k + 1)..Len(a) : ~IsDel(a[j], m)
    BY <1>5 DEF Noted
  <2>2. IsNote(c[k], m) /\ k \in 1..Len(c)
    BY <1>1, <2>1
  <2>3. ASSUME NEW j \in (k + 1)..Len(c) PROVE ~IsDel(c[j], m)
    <3>1. j \in 1..Len(c)
      BY <1>1, <2>3
    <3>2. CASE j \in 1..Len(a)
      BY <1>1, <2>1, <2>3, <3>2
    <3>3. ASSUME NEW i \in 1..Len(b), j = Len(a) + i PROVE ~IsDel(c[j], m)
      BY <1>1, <1>5, <3>3 DEF Leaving
    <3>4. QED
      BY <1>2, <3>1, <3>2, <3>3
  <2>4. QED
    BY <2>2, <2>3 DEF Noted
<1>6. ASSUME Noted(c, m), ~Noted(b, m) PROVE Noted(a, m) /\ ~Leaving(b, m)
  <2>1. PICK k \in 1..Len(c) : IsNote(c[k], m) /\ \A j \in (k + 1)..Len(c) : ~IsDel(c[j], m)
    BY <1>6 DEF Noted
  <2>2. ASSUME NEW i \in 1..Len(b), k = Len(a) + i PROVE FALSE
    <3>1. IsNote(b[i], m)
      BY <1>1, <2>1, <2>2
    <3>2. ASSUME NEW j \in (i + 1)..Len(b) PROVE ~IsDel(b[j], m)
      <4>1. j \in 1..Len(b) /\ Len(a) + j \in (k + 1)..Len(c)
        BY <1>1, <2>2
      <4>2. QED
        BY <1>1, <2>1, <4>1
    <3>3. QED
      BY <1>6, <3>1, <3>2 DEF Noted
  <2>3. k \in 1..Len(a)
    BY <1>2, <2>2
  <2>4. ASSUME NEW j \in (k + 1)..Len(a) PROVE ~IsDel(a[j], m)
    <3>1. j \in 1..Len(a) /\ j \in (k + 1)..Len(c)
      BY <1>1, <2>3
    <3>2. QED
      BY <1>1, <2>1, <3>1
  <2>5. ASSUME NEW j \in 1..Len(b) PROVE ~IsDel(b[j], m)
    <3>1. Len(a) + j \in (k + 1)..Len(c)
      BY <1>1, <2>3
    <3>2. QED
      BY <1>1, <2>1, <3>1
  <2>6. QED
    BY <1>1, <2>1, <2>3, <2>4, <2>5 DEF Noted, Leaving
<1>7. QED
  BY <1>1, <1>3, <1>4, <1>5, <1>6 DEF c

LEMMA NoNews ==
  ASSUME NEW m
  PROVE  <<>> \in Seq(Message) /\ ~Leaving(<<>>, m) /\ ~Noted(<<>>, m)
  BY DEF Leaving, Noted

LEMMA OneMessage ==
  ASSUME NEW x \in Message, NEW m
  PROVE  /\ <<x>> \in Seq(Message)
         /\ Leaving(<<x>>, m) <=> IsDel(x, m)
         /\ Noted(<<x>>, m) <=> IsNote(x, m)
<1>1. Len(<<x>>) = 1 /\ <<x>>[1] = x /\ <<x>> \in Seq(Message) /\ 1..1 = {1} /\ 2..1 = {}
  OBVIOUS
<1>2. Leaving(<<x>>, m) <=> IsDel(x, m)
  BY <1>1 DEF Leaving
<1>3. Noted(<<x>>, m) <=> IsNote(x, m)
  BY <1>1 DEF Noted
<1>4. QED
  BY <1>1, <1>2, <1>3

(* The messages behind the first one. *)
LEMMA TailFacts ==
  ASSUME NEW q \in Seq(Message), q # <<>>, NEW m
  PROVE  /\ Tail(q) \in Seq(Message) /\ Head(q) \in Message
         /\ Leaving(q, m) <=> IsDel(Head(q), m) \/ Leaving(Tail(q), m)
         /\ Noted(q, m) <=> Noted(Tail(q), m) \/ (IsNote(Head(q), m) /\ ~Leaving(Tail(q), m))
<1>1. Tail(q) \in Seq(Message) /\ Head(q) \in Message
  OBVIOUS
<1>2. q = <<Head(q)>> \o Tail(q)
  OBVIOUS
<1>3. /\ <<Head(q)>> \in Seq(Message)
      /\ Leaving(<<Head(q)>>, m) <=> IsDel(Head(q), m)
      /\ Noted(<<Head(q)>>, m) <=> IsNote(Head(q), m)
  BY <1>1, OneMessage
<1>4. PICK a \in Seq(Message), b \in Seq(Message) : a = <<Head(q)>> /\ b = Tail(q)
  BY <1>1, <1>3
<1>5. /\ Leaving(a \o b, m) <=> Leaving(a, m) \/ Leaving(b, m)
      /\ Noted(a \o b, m) <=> Noted(b, m) \/ (Noted(a, m) /\ ~Leaving(b, m))
  BY ConcatFacts
<1>6. QED
  BY <1>1, <1>2, <1>3, <1>4, <1>5

LEMMA LinkFacts ==
  ASSUME NEW r \in BOOLEAN, NEW m
  PROVE  Link(r) \in Seq(Message) /\ ~Leaving(Link(r), m) /\ ~Noted(Link(r), m)
<1>1. PICK x \in Message : x = [kind |-> "link", running |-> r]
  BY DEF Message
<1>2. Link(r) = <<x>> /\ ~IsDel(x, m) /\ ~IsNote(x, m)
  BY <1>1 DEF Link, IsDel, IsNote
<1>3. QED
  BY <1>2, OneMessage

LEMMA NeighFacts ==
  ASSUME NEW k \in {"new", "del"}, NEW n \in Macs, NEW e
  PROVE  /\ Neigh(k, n, e) \in Message
         /\ \A m : IsDel(Neigh(k, n, e), m) <=> k = "del" /\ m = n
         /\ \A m : IsNote(Neigh(k, n, e), m) <=> k = "new" /\ m = n /\ e = "locked"
  BY DEF Neigh, Message, IsDel, IsNote

LEMMA NewFacts ==
  ASSUME NEW n \in Macs, NEW e, NEW m
  PROVE  /\ Heard(<<Neigh("new", n, e)>>) \in Seq(Message)
         /\ ~Leaving(Heard(<<Neigh("new", n, e)>>), m)
         /\ Noted(Heard(<<Neigh("new", n, e)>>), m) => m = n /\ e = "locked"
         /\ Listening /\ m = n /\ e = "locked" => Noted(Heard(<<Neigh("new", n, e)>>), m)
<1>1. CASE Listening
  <2>1. PICK x \in Message : x = Neigh("new", n, e)
    BY NeighFacts
  <2>2. ~IsDel(x, m) /\ (IsNote(x, m) <=> m = n /\ e = "locked")
    BY <2>1, NeighFacts
  <2>3. Heard(<<Neigh("new", n, e)>>) = <<x>>
    BY <1>1, <2>1 DEF Heard
  <2>4. QED
    BY <2>2, <2>3, OneMessage
<1>2. CASE ~Listening
  BY <1>2, NoNews DEF Heard
<1>3. QED
  BY <1>1, <1>2

(* Every entry that goes is told of, whatever the order.                   *)
LEMMA DeletedFacts ==
  ASSUME NEW f, NEW S \in SUBSET Macs, NEW m
  PROVE  /\ Deleted(f, S) \in Seq(Message) /\ ~Noted(Deleted(f, S), m)
         /\ Leaving(Deleted(f, S), m) => m \in S
         /\ Listening /\ m \in S => Leaving(Deleted(f, S), m)
<1> DEFINE gone == SetToSeq(S)
           n == Cardinality(S)
           news == [i \in 1..n |-> Neigh("del", gone[i], f[gone[i]])]
<1>1. IsFiniteSet(S) /\ n \in Nat /\ ExistsBijection(1..n, S)
  BY WiredAssumption, FS_Subset, FS_CardinalityType
<1>2. PICK g \in [1..n -> S] : IsInjective(g)
  BY <1>1 DEF ExistsBijection, Bijection, Injection
<1>3. gone \in [1..n -> S] /\ IsInjective(gone)
  BY <1>2 DEF SetToSeq
<1>4. gone \in Surjection(1..n, S)
  <2>1. gone \in Injection(1..n, S)
    BY <1>3 DEF Injection
  <2>2. IsFiniteSet(1..n) /\ Cardinality(1..n) = n
    BY <1>1, FS_Interval
  <2>3. QED
    BY <1>1, <2>1, <2>2, FS_Injection
<1>5. CASE Listening
  <2>1. Deleted(f, S) = news
    BY <1>5 DEF Deleted, Heard
  <2>2. \A i \in 1..n : gone[i] \in S /\ gone[i] \in Macs
    BY <1>3
  <2> HIDE DEF gone, n
  <2>3. \A i \in 1..n : /\ news[i] \in Message
                        /\ IsDel(news[i], m) <=> m = gone[i]
                        /\ ~IsNote(news[i], m)
    BY <2>2, NeighFacts
  <2>4. news \in Seq(Message) /\ Len(news) = n
    BY <1>1, <2>3
  <2>5. m \in S => \E i \in 1..n : m = gone[i]
    BY <1>4 DEF Surjection
  <2> HIDE DEF news
  <2>6. QED
    BY <2>1, <2>2, <2>3, <2>4, <2>5 DEF Leaving, Noted
<1>6. CASE ~Listening
  BY <1>6, NoNews DEF Deleted, Heard
<1>7. QED
  BY <1>5, <1>6

-----------------------------------------------------------------------------
(* What the kernel did to an entry between g and h, if it told of it in e: *)
(* nothing, it dropped it, it opened it, or a device waits behind it.      *)
Moved(g, h, e, m) ==
  \/ h[m] = g[m] /\ ~Leaving(e, m) /\ ~Noted(e, m)
  \/ h[m] = "none" /\ Leaving(e, m) /\ ~Noted(e, m)
  \/ h[m] = "open"
  \/ h[m] = "locked" /\ Noted(e, m) /\ (g[m] = "open" => Leaving(e, m))

Told(g, h, e) == e \in Seq(Message) /\ (Listening => \A m \in Macs : Moved(g, h, e, m))

LEMMA ToldTwice ==
  ASSUME NEW f, NEW g, NEW h, NEW a, NEW b, Told(f, g, a), Told(g, h, b)
  PROVE  Told(f, h, a \o b)
<1>1. a \in Seq(Message) /\ b \in Seq(Message)
  BY DEF Told
<1>2. ASSUME Listening, NEW m \in Macs PROVE Moved(f, h, a \o b, m)
  <2>1. /\ Leaving(a \o b, m) <=> Leaving(a, m) \/ Leaving(b, m)
        /\ Noted(a \o b, m) <=> Noted(b, m) \/ (Noted(a, m) /\ ~Leaving(b, m))
    BY <1>1, ConcatFacts
  <2>2. Moved(f, g, a, m) /\ Moved(g, h, b, m)
    BY <1>2 DEF Told
  <2>3. QED
    BY <2>1, <2>2 DEF Moved
<1>3. QED
  BY <1>1, <1>2, ConcatFacts DEF Told

LEMMA ToldNothing == ASSUME NEW g PROVE Told(g, g, <<>>)
  BY NoNews DEF Told, Moved

LEMMA ToldLink == ASSUME NEW g, NEW r \in BOOLEAN PROVE Told(g, g, Link(r))
  BY LinkFacts DEF Told, Moved

LEMMA WithoutIs ==
  ASSUME NEW g \in Fdb, NEW S
  PROVE  /\ Without(g, S) \in Fdb
         /\ \A m \in Macs : Without(g, S)[m] = IF m \in S THEN "none" ELSE g[m]
  BY DEF Without, Fdb

LEMMA ToldDeleted ==
  ASSUME NEW g \in Fdb, NEW S \in SUBSET Macs
  PROVE  Told(g, Without(g, S), Deleted(g, S))
  BY WithoutIs, DeletedFacts DEF Told, Moved

LEMMA FlushedIs ==
  ASSUME NEW g \in Fdb
  PROVE  /\ Flushed(g) \in Fdb /\ (\A m \in Macs : Flushed(g)[m] = "none")
         /\ Told(g, Flushed(g), FlushedTells(g))
<1>1. Entries(g) \in SUBSET Macs
  BY DEF Entries
<1>2. QED
  BY <1>1, WithoutIs, ToldDeleted DEF Flushed, FlushedTells, Entries

LEMMA UnlockedIs ==
  ASSUME NEW g \in Fdb, Running \in BOOLEAN
  PROVE  /\ Unlocked(g) \in Fdb
         /\ \A m \in Macs : Unlocked(g)[m] = IF g[m] = "locked" THEN "none" ELSE g[m]
         /\ Told(g, Unlocked(g), UnlockedTells(g))
         /\ \A m \in Macs : Leaving(UnlockedTells(g), m) => g[m] = "locked"
<1> DEFINE S == LockedEntries(g)
<1>1. S \in SUBSET Macs /\ \A m \in Macs : m \in S <=> g[m] = "locked"
  BY DEF LockedEntries
<1>2. /\ Unlocked(g) = Without(g, S) /\ UnlockedTells(g) = Deleted(g, S) \o Link(Running)
  BY DEF Unlocked, UnlockedTells
<1> HIDE DEF S
<1>3. Told(g, Unlocked(g), UnlockedTells(g))
  BY <1>1, <1>2, ToldDeleted, ToldLink, ToldTwice
<1>4. ASSUME NEW m \in Macs, Leaving(UnlockedTells(g), m) PROVE g[m] = "locked"
  BY <1>1, <1>2, <1>4, DeletedFacts, LinkFacts, ConcatFacts
<1>5. QED
  BY <1>1, <1>2, <1>3, <1>4, WithoutIs

LEMMA AddedIs ==
  ASSUME NEW g \in Fdb, NEW m \in Macs
  PROVE  /\ Added(g, m) \in Fdb
         /\ \A n \in Macs \ {m} : Added(g, m)[n] = g[n]
         /\ IF attached /\ Running THEN Added(g, m)[m] = "open" ELSE Added(g, m) = g
         /\ Told(g, Added(g, m), AddedTells(g, m))
         /\ \A n : ~Leaving(AddedTells(g, m), n)
<1> DEFINE h == Added(g, m)
           e == AddedTells(g, m)
<1>1. /\ h \in Fdb /\ \A n \in Macs \ {m} : h[n] = g[n]
      /\ IF attached /\ Running THEN h[m] = "open" ELSE h = g
  BY DEF Added, Fdb
<1>2. e = IF h = g THEN <<>> ELSE Heard(<<Neigh("new", m, "open")>>)
  BY DEF AddedTells
<1> HIDE DEF h, e
<1>3. /\ e \in Seq(Message) /\ \A n : ~Leaving(e, n) /\ ~Noted(e, n)
  BY <1>2, NoNews, NewFacts
<1>4. \A n \in Macs : h[n] = g[n] \/ h[n] = "open"
  BY <1>1
<1>5. Told(g, h, e)
  BY <1>3, <1>4 DEF Told, Moved
<1>6. QED
  BY <1>1, <1>3, <1>5 DEF h, e

-----------------------------------------------------------------------------
(* The driver's calls and the kernel's own steps.                          *)
BridgeType == /\ fdb \in Fdb /\ queue \in Seq(Message)
              /\ up \in BOOLEAN /\ carrier \in BOOLEAN
              /\ mac_auth \in MacAuths /\ multi_auth \in MultiAuths

(* What the port does, it tells hostapd, unless that is stopped. *)
Tells == /\ fdb' \in Fdb
         /\ \E e : /\ Told(fdb, fdb', e)
                   /\ queue' = IF phase = "stopped" THEN queue ELSE queue \o e

LEMMA RunningType == BridgeType => Running \in BOOLEAN
  BY DEF BridgeType, Running

LEMMA LinkTells ==
  ASSUME BridgeType, NEW r \in BOOLEAN, Tell(Link(r)) \/ Tell(<<>>) \/ UNCHANGED queue,
         UNCHANGED fdb
  PROVE  Tells
<1>1. PICK e : /\ Told(fdb, fdb, e)
               /\ queue' = IF phase = "stopped" THEN queue ELSE queue \o e
  <2>1. CASE Tell(Link(r))
    BY <2>1, ToldLink DEF Tell
  <2>2. CASE Tell(<<>>)
    BY <2>2, ToldNothing DEF Tell
  <2>3. CASE queue' = queue
    <3>1. queue' = queue \o <<>>
      BY <2>3 DEF BridgeType
    <3>2. QED
      BY <2>3, <3>1, ToldNothing
  <2>4. QED
    BY <2>1, <2>2, <2>3
<1>2. QED
  BY <1>1 DEF Tells, BridgeType

(* An authorization: the station's entry opens if the port runs, and no    *)
(* message says that the station left.                                     *)
Closed == ~(attached /\ Running) => \A m \in Macs : fdb[m] = "none"

LEMMA AuthorizeIs ==
  ASSUME BridgeType, Closed, NEW m \in Macs, Authorize(m)
  PROVE  /\ fdb' \in Fdb
         /\ Listening /\ attached /\ Running => fdb'[m] = "open"
         /\ \E e : /\ Told(fdb, fdb', e) /\ ~Leaving(e, m)
                   /\ queue' = IF phase = "stopped" THEN queue ELSE queue \o e
         /\ \/ UNCHANGED <<portLocked, portMab, locked>>
               /\ \A n \in Macs : fdb'[n] = "locked" => fdb[n] = "locked"
            \/ SetPortLocked(FALSE) /\ \A n \in Macs : fdb'[n] # "locked"
<1> DEFINE add == multi_auth \/ mac_auth = "kernel"
           unlock == ~multi_auth /\ locked
           f == IF add THEN Added(fdb, m) ELSE fdb
           a == IF add THEN AddedTells(fdb, m) ELSE <<>>
           g == IF unlock THEN Unlocked(f) ELSE f
           b == IF unlock THEN UnlockedTells(f) ELSE <<>>
<1>1. /\ fdb' = g /\ Tell(a \o b)
      /\ IF unlock THEN SetPortLocked(FALSE) ELSE UNCHANGED <<portLocked, portMab, locked>>
  BY DEF Authorize
<1>2. /\ f \in Fdb /\ Told(fdb, f, a) /\ ~Leaving(a, m)
      /\ \A n \in Macs : f[n] = "locked" => fdb[n] = "locked"
      /\ add /\ attached /\ Running => f[m] = "open"
      /\ add /\ ~(attached /\ Running) => f[m] = "none"
  <2>1. CASE add
    <3>1. /\ f = Added(fdb, m) /\ a = AddedTells(fdb, m) /\ fdb \in Fdb
      BY <2>1 DEF BridgeType
    <3>2. /\ f \in Fdb /\ Told(fdb, f, a) /\ ~Leaving(a, m)
          /\ \A n \in Macs \ {m} : f[n] = fdb[n]
          /\ IF attached /\ Running THEN f[m] = "open" ELSE f = fdb
      BY <3>1, AddedIs
    <3>3. QED
      BY <3>2 DEF Closed
  <2>2. CASE ~add
    BY <2>2, ToldNothing, NoNews DEF BridgeType
  <2>3. QED
    BY <2>1, <2>2
<1>3. add = (multi_auth \/ Listening)
  BY DEF Listening
<1> HIDE DEF f, a, add
<1>4. CASE unlock
  <2>1. /\ g = Unlocked(f) /\ b = UnlockedTells(f) /\ SetPortLocked(FALSE)
    BY <1>1, <1>4
  <2>2. /\ g \in Fdb /\ Told(f, g, b) /\ \A n \in Macs : g[n] # "locked"
        /\ f[m] = "open" => g[m] = "open"
        /\ Leaving(b, m) => f[m] = "locked"
    BY <1>2, <2>1, UnlockedIs, RunningType
  <2>3. ~Leaving(b, m)
    <3>1. CASE Listening
      BY <1>2, <1>3, <2>2, <3>1
    <3>2. CASE ~Listening
      <4>1. b = <<>> \o Link(Running)
        BY <2>1, <3>2 DEF UnlockedTells, Deleted, Heard
      <4>2. QED
        BY <4>1, RunningType, LinkFacts, NoNews, ConcatFacts
    <3>3. QED
      BY <3>1, <3>2
  <2>4. Told(fdb, g, a \o b) /\ ~Leaving(a \o b, m)
    BY <1>2, <2>2, <2>3, ToldTwice, ConcatFacts DEF Told
  <2>5. QED
    BY <1>1, <1>2, <1>3, <2>1, <2>2, <2>4 DEF Tell
<1>5. CASE ~unlock
  <2>1. g = f /\ b = <<>> /\ UNCHANGED <<portLocked, portMab, locked>>
    BY <1>1, <1>5
  <2>2. Told(fdb, g, a \o b) /\ ~Leaving(a \o b, m)
    <3>1. Told(f, g, b) /\ ~Leaving(b, m)
      BY <2>1, ToldNothing, NoNews
    <3>2. Told(fdb, g, a \o b)
      BY <1>2, <3>1, ToldTwice
    <3>3. a \in Seq(Message) /\ b \in Seq(Message)
      BY <1>2, <3>1 DEF Told
    <3>4. QED
      BY <1>2, <3>1, <3>2, <3>3, ConcatFacts
  <2>3. QED
    BY <1>1, <1>2, <1>3, <2>1, <2>2 DEF Tell
<1>6. QED
  BY <1>4, <1>5

LEMMA DeauthorizeIs ==
  ASSUME BridgeType, NEW m \in Macs, Deauthorize(m)
  PROVE  /\ Tells
         /\ \A n \in Macs : fdb'[n] = "locked" => fdb[n] = "locked"
         /\ \/ UNCHANGED <<portLocked, portMab, locked>>
            \/ SetPortLocked(TRUE)
<1>1. CASE DelNeigh(m)
  <2>1. /\ fdb' = Without(fdb, Entries(fdb) \cap {m}) /\ UNCHANGED <<portLocked, portMab, locked>>
        /\ Tell(Deleted(fdb, Entries(fdb) \cap {m}))
        /\ Entries(fdb) \cap {m} \in SUBSET Macs /\ fdb \in Fdb
    BY <1>1 DEF DelNeigh, BridgeType
  <2>2. QED
    BY <2>1, WithoutIs, ToldDeleted DEF Tell, Tells
<1>2. CASE LockAndFlush
  <2>1. /\ fdb' = Flushed(fdb) /\ SetPortLocked(TRUE) /\ fdb \in Fdb
        /\ Tell(Link(Running) \o FlushedTells(fdb))
    BY <1>2 DEF LockAndFlush, BridgeType
  <2>2. Told(fdb, Flushed(fdb), Link(Running) \o FlushedTells(fdb))
    BY <2>1, FlushedIs, RunningType, ToldLink, ToldTwice
  <2>3. QED
    BY <2>1, <2>2, FlushedIs DEF Tell, Tells
<1>3. CASE UNCHANGED <<bridge, locked>>
  <2>1. UNCHANGED <<fdb, queue, portLocked, portMab, locked>>
    BY <1>3 DEF bridge
  <2>2. Tells
    BY <2>1, LinkTells
  <2>3. QED
    BY <2>1, <2>2
<1>4. QED
  BY <1>1, <1>2, <1>3 DEF Deauthorize

-----------------------------------------------------------------------------
(* Where hostapd is, and where the port: hostapd waits for the bridge      *)
(* before it does anything to the port; a port that does not run has no    *)
(* entries; hostapd has stations only while it runs.                       *)
PlaceInv ==
  /\ phase \in {"lock", "flush", "up", "running"} => attached
  /\ Closed
  /\ phase = "stopped" => queue = <<>>
  /\ phase # "running" => \A m \in Macs : sta[m] = "absent" /\ mode[m] = "new" /\ ~timer[m]

WiredInv == TypeOK /\ PlaceInv

LEMMA TypeIs == TypeOK => BridgeType
  BY DEF TypeOK, BridgeType, Fdb

LEMMA LifecycleTells ==
  ASSUME WiredInv,
         \/ Start \/ AwaitBridge \/ LockPort \/ FlushPort \/ SetPortUp
         \/ Stop \/ SetPortDown \/ UnlockPort
  PROVE  Tells
<1>0. BridgeType /\ Closed /\ fdb \in Fdb /\ Running \in BOOLEAN /\ up \in BOOLEAN /\ carrier \in BOOLEAN
  BY TypeIs, RunningType DEF WiredInv, PlaceInv, BridgeType
<1>1. CASE Start \/ AwaitBridge \/ Stop
  <2>1. UNCHANGED <<queue, fdb>>
    BY <1>1 DEF Start, AwaitBridge, Stop, bridge
  <2>2. QED
    BY <1>0, <2>1, LinkTells
<1>2. CASE LockPort
  BY <1>0, <1>2, LinkTells DEF LockPort
<1>3. CASE FlushPort
  BY <1>0, <1>3, FlushedIs DEF FlushPort, Tell, Tells
<1>4. CASE SetPortUp
  <2>1. UNCHANGED fdb /\ (Tell(Link(carrier)) \/ Tell(<<>>))
    BY <1>4 DEF SetPortUp
  <2>2. QED
    BY <1>0, <2>1, LinkTells
<1>5. CASE SetPortDown
  <2>1. fdb' = Flushed(fdb) /\ Flushed(fdb) \in Fdb
    BY <1>0, <1>5, FlushedIs DEF SetPortDown
  <2>2. CASE up
    <3>1. Told(fdb, Flushed(fdb), Link(FALSE) \o FlushedTells(fdb))
      BY <1>0, FlushedIs, ToldLink, ToldTwice
    <3>2. QED
      BY <1>5, <2>1, <2>2, <3>1 DEF SetPortDown, Tell, Tells
  <2>3. CASE ~up
    <3>1. \A m \in Macs : Flushed(fdb)[m] = fdb[m]
      BY <1>0, <2>3, FlushedIs DEF Closed, Running
    <3>2. Told(fdb, Flushed(fdb), <<>>)
      BY <3>1, NoNews DEF Told, Moved
    <3>3. QED
      BY <1>5, <2>1, <2>3, <3>2 DEF SetPortDown, Tell, Tells
  <2>4. QED
    BY <1>0, <2>2, <2>3
<1>6. CASE UnlockPort
  <2>1. CASE attached
    BY <1>0, <1>6, <2>1, UnlockedIs DEF UnlockPort, Tell, Tells
  <2>2. CASE ~attached
    <3>1. UNCHANGED <<queue, fdb>>
      BY <1>6, <2>2 DEF UnlockPort, bridge
    <3>2. QED
      BY <1>0, <3>1, LinkTells
  <2>3. QED
    BY <2>1, <2>2
<1>7. QED
  BY <1>1, <1>2, <1>3, <1>4, <1>5, <1>6

LEMMA StationTells ==
  ASSUME WiredInv, NEW m \in Macs, Station(m)
  PROVE  Tells
<1>0. BridgeType /\ Closed
  BY TypeIs DEF WiredInv, PlaceInv
<1>1. CASE Eapol(m) \/ Dhcp(m) \/ EapRxTimeout(m)
  <2>1. UNCHANGED <<queue, fdb>>
    BY <1>1 DEF Eapol, Dhcp, EapRxTimeout, bridge
  <2>2. QED
    BY <1>0, <2>1, LinkTells
<1>2. CASE AccessAccept(m) \/ EapolAccept(m)
  BY <1>0, <1>2, AuthorizeIs DEF AccessAccept, EapolAccept, Tells
<1>3. CASE AccessReject(m) \/ EapolRefuse(m)
  BY <1>0, <1>3, DeauthorizeIs DEF AccessReject, EapolRefuse
<1>4. QED
  BY <1>1, <1>2, <1>3 DEF Station

LEMMA KernelTells ==
  ASSUME WiredInv, Kernel
  PROVE  Tells
<1>0. BridgeType /\ fdb \in Fdb
  BY TypeIs DEF WiredInv, BridgeType
<1>1. CASE Attach
  BY <1>0, <1>1, LinkTells DEF Attach, bridge
<1>2. CASE Plug
  <2>1. UNCHANGED fdb /\ (Tell(Link(TRUE)) \/ Tell(<<>>))
    BY <1>2 DEF Plug
  <2>2. QED
    BY <1>0, <2>1, LinkTells
<1>3. CASE Unplug
  <2>1. PICK told : /\ told = IF up THEN Link(FALSE) ELSE <<>>
                    /\ Tell(told \o FlushedTells(fdb)) \/ Tell(FlushedTells(fdb) \o told)
    BY <1>3 DEF Unplug
  <2>2. Told(fdb, fdb, told) /\ Told(Flushed(fdb), Flushed(fdb), told)
    BY <2>1, ToldLink, ToldNothing
  <2>3. /\ Told(fdb, Flushed(fdb), told \o FlushedTells(fdb))
        /\ Told(fdb, Flushed(fdb), FlushedTells(fdb) \o told)
    BY <1>0, <2>2, FlushedIs, ToldTwice
  <2>4. fdb' = Flushed(fdb) /\ Flushed(fdb) \in Fdb
    BY <1>0, <1>3, FlushedIs DEF Unplug
  <2>5. QED
    BY <2>1, <2>3, <2>4 DEF Tell, Tells
<1>4. ASSUME NEW m \in Macs, Send(m) PROVE Tells
  <2>1. PICK e \in {"locked", "open"} : /\ fdb' = [fdb EXCEPT ![m] = e] /\ fdb[m] = "none"
                                       /\ Tell(Heard(<<Neigh("new", m, e)>>))
    <3>1. fdb'[m] = IF portLocked THEN "locked" ELSE "open"
      BY <1>0, <1>4 DEF Send, Fdb
    <3>2. QED
      BY <1>4, <3>1 DEF Send
  <2>2. /\ fdb' \in Fdb /\ fdb'[m] = e /\ \A n \in Macs \ {m} : fdb'[n] = fdb[n]
    BY <1>0, <2>1 DEF Fdb
  <2>3. Told(fdb, fdb', Heard(<<Neigh("new", m, e)>>))
    BY <2>1, <2>2, NewFacts DEF Told, Moved
  <2>4. QED
    BY <2>1, <2>2, <2>3 DEF Tell, Tells
<1>5. ASSUME NEW m \in Macs, Age(m) PROVE Tells
  <2>1. {m} \in SUBSET Macs /\ fdb' = Without(fdb, {m}) /\ Tell(Deleted(fdb, {m}))
    BY <1>5 DEF Age
  <2>2. QED
    BY <1>0, <2>1, WithoutIs, ToldDeleted DEF Tell, Tells
<1>6. QED
  BY <1>1, <1>2, <1>3, <1>4, <1>5 DEF Kernel

(* A message is read; what its handler does to the port is told of too. *)
LEMMA HandleTells ==
  ASSUME WiredInv, HandleMessage
  PROVE  /\ fdb' \in Fdb /\ queue # <<>> /\ phase = "running"
         /\ \E e : Told(fdb, fdb', e) /\ queue' = Tail(queue) \o e
<1>0. BridgeType /\ fdb \in Fdb /\ Running \in BOOLEAN /\ queue \in Seq(Message)
  BY TypeIs, RunningType DEF WiredInv, BridgeType
<1>1. queue # <<>> /\ phase = "running"
  BY DEF HandleMessage, Newlink, Newneigh, Delneigh, Ready
<1>2. CASE Newlink
  <2> DEFINE down == running /\ ~Head(queue).running
             a == IF down /\ ~multi_auth THEN Link(Running) ELSE <<>>
             b == IF down THEN FlushedTells(fdb) ELSE <<>>
  <2>1. /\ queue' = Tail(queue) \o a \o b
        /\ fdb' = IF down THEN Flushed(fdb) ELSE fdb
    BY <1>2 DEF Newlink
  <2>2. Told(fdb, fdb, a) /\ Told(fdb, fdb', b) /\ fdb' \in Fdb
    BY <1>0, <2>1, FlushedIs, ToldLink, ToldNothing
  <2>3. Told(fdb, fdb', a \o b)
    BY <2>2, ToldTwice
  <2>4. queue' = Tail(queue) \o (a \o b)
    <3>1. a \in Seq(Message) /\ b \in Seq(Message) /\ Tail(queue) \in Seq(Message)
      BY <1>0, <1>1, <2>2 DEF Told
    <3> HIDE DEF a, b
    <3>2. QED
      BY <2>1, <3>1
  <2>5. QED
    BY <1>1, <2>2, <2>3, <2>4
<1>3. CASE Newneigh \/ Delneigh
  <2>1. fdb' = fdb /\ queue' = Tail(queue)
    BY <1>3 DEF Newneigh, Delneigh
  <2>2. queue' = Tail(queue) \o <<>>
    BY <1>0, <1>1, <2>1
  <2>3. QED
    BY <1>0, <1>1, <2>1, <2>2, ToldNothing
<1>4. QED
  BY <1>2, <1>3 DEF HandleMessage

-----------------------------------------------------------------------------
(* Types.                                                                  *)
LEMMA MessageIs ==
  ASSUME NEW x \in Message
  PROVE  /\ x.kind = "link" => x.running \in BOOLEAN
         /\ x.kind \in {"new", "del"} => x.mac \in Macs
         /\ x.kind = "new" => x.locked \in BOOLEAN
  BY DEF Message

LEMMA BridgeTypeNext == WiredInv /\ [Next]_vars => fdb' \in Fdb /\ queue' \in Seq(Message)
<1> SUFFICES ASSUME WiredInv, [Next]_vars PROVE fdb' \in Fdb /\ queue' \in Seq(Message)
  OBVIOUS
<1>0. fdb \in Fdb /\ queue \in Seq(Message)
  BY TypeIs DEF WiredInv, BridgeType
<1>1. CASE Tells
  <2>1. PICK e \in Seq(Message) : queue' = IF phase = "stopped" THEN queue ELSE queue \o e
    BY <1>1 DEF Tells, Told
  <2>2. queue \o e \in Seq(Message)
    BY <1>0, <2>1
  <2>3. QED
    BY <1>0, <1>1, <2>1, <2>2 DEF Tells
<1>2. CASE HandleMessage
  <2>1. PICK e \in Seq(Message) : queue' = Tail(queue) \o e
    BY <1>2, HandleTells DEF Told
  <2>2. Tail(queue) \in Seq(Message)
    BY <1>0, <1>2, HandleTells
  <2>3. QED
    BY <1>2, <2>1, <2>2, HandleTells
<1>3. CASE Clear \/ Crash \/ UNCHANGED vars
  <2>1. fdb' = fdb \/ fdb' = Flushed(fdb)
    BY <1>3 DEF Clear, Crash, vars, bridge
  <2>2. queue' = queue \/ queue' = <<>>
    BY <1>3 DEF Clear, Crash, vars, bridge
  <2>3. <<>> \in Seq(Message)
    OBVIOUS
  <2>4. QED
    BY <1>0, <2>1, <2>2, <2>3, FlushedIs
<1>4. QED
  BY <1>1, <1>2, <1>3, LifecycleTells, StationTells, KernelTells DEF Next, Lifecycle

(* The lock as the port has it, and as the driver remembers it.            *)
LockInv ==
  /\ portLocked \in BOOLEAN /\ portMab \in BOOLEAN /\ locked \in BOOLEAN
  /\ portMab => portLocked /\ mac_auth = "kernel"
  /\ ~portMab => \A m \in Macs : fdb[m] # "locked"
  /\ phase \in {"flush", "up", "running"} => locked = portLocked

LEMMA LockKeeps ==
  ASSUME LockInv, mac_auth' = mac_auth,
         \/ /\ UNCHANGED <<portLocked, portMab, locked>>
            /\ \A m \in Macs : fdb'[m] = "locked" => fdb[m] = "locked" \/ portMab
            /\ phase' \in {"flush", "up", "running"} => phase \in {"flush", "up", "running"}
         \/ /\ SetPortLocked(TRUE)
            /\ \A m \in Macs : fdb'[m] = "locked" => fdb[m] = "locked"
         \/ /\ SetPortLocked(FALSE)
            /\ \A m \in Macs : fdb'[m] # "locked"
  PROVE  LockInv'
<1>1. CASE /\ UNCHANGED <<portLocked, portMab, locked>>
           /\ \A m \in Macs : fdb'[m] = "locked" => fdb[m] = "locked" \/ portMab
           /\ phase' \in {"flush", "up", "running"} => phase \in {"flush", "up", "running"}
  BY <1>1 DEF LockInv
<1>2. CASE /\ SetPortLocked(TRUE)
           /\ \A m \in Macs : fdb'[m] = "locked" => fdb[m] = "locked"
  BY <1>2 DEF LockInv, SetPortLocked
<1>3. CASE /\ SetPortLocked(FALSE) /\ \A m \in Macs : fdb'[m] # "locked"
  BY <1>3 DEF LockInv, SetPortLocked
<1>4. QED
  BY <1>1, <1>2, <1>3

LEMMA LockInvNext == WiredInv /\ [Next]_vars => LockInv'
<1> SUFFICES ASSUME WiredInv, [Next]_vars PROVE LockInv'
  OBVIOUS
<1>0. /\ LockInv /\ BridgeType /\ Closed /\ fdb \in Fdb /\ Running \in BOOLEAN
      /\ mac_auth' = mac_auth
  <2>1. LockInv
    BY DEF WiredInv, TypeOK, LockInv
  <2>2. mac_auth' = mac_auth
    BY DEF vars, config, Next, Lifecycle, HandleMessage, Station, Kernel, Start, AwaitBridge,
           LockPort, FlushPort, SetPortUp, Stop, SetPortDown, UnlockPort, Clear, Crash, Newlink,
           Newneigh, Delneigh, Eapol, Dhcp, EapRxTimeout, AccessAccept, AccessReject,
           EapolAccept, EapolRefuse, Attach, Plug, Unplug, Send, Age
  <2>3. QED
    BY <2>1, <2>2, TypeIs, RunningType DEF WiredInv, PlaceInv, BridgeType
<1>1. CASE UNCHANGED <<portLocked, portMab, fdb, phase, locked>>
  BY <1>0, <1>1, LockKeeps
<1>2. CASE Start \/ AwaitBridge \/ SetPortUp \/ Stop \/ Crash
  <2>1. CASE Start
    BY <1>0, <2>1 DEF Start, Goto, bridge, LockInv
  <2>2. CASE AwaitBridge \/ SetPortUp \/ Stop \/ Crash
    <3>1. /\ UNCHANGED <<portLocked, portMab, locked, fdb>>
          /\ phase' \in {"flush", "up", "running"} => phase \in {"flush", "up", "running"}
      BY <2>2 DEF AwaitBridge, SetPortUp, Stop, Crash, Goto, bridge
    <3>2. QED
      BY <1>0, <3>1, LockKeeps
  <2>3. QED
    BY <1>2, <2>1, <2>2
<1>3. CASE LockPort
  BY <1>0, <1>3, LockKeeps DEF LockPort
<1>4. CASE FlushPort \/ SetPortDown \/ Clear \/ Unplug
  <2>1. fdb' = Flushed(fdb) /\ UNCHANGED <<portLocked, portMab, locked>>
    BY <1>4 DEF FlushPort, SetPortDown, Clear, Unplug
  <2>2. \A m \in Macs : fdb'[m] = "none"
    BY <1>0, <2>1, FlushedIs
  <2>3. phase' \in {"flush", "up", "running"} => phase \in {"flush", "up", "running"}
    BY <1>4 DEF FlushPort, SetPortDown, Clear, Unplug, Goto
  <2>4. QED
    BY <1>0, <2>1, <2>2, <2>3, LockKeeps
<1>5. CASE UnlockPort
  <2>1. CASE attached
    <3>1. fdb' = Unlocked(fdb) /\ SetPortLocked(FALSE)
      BY <1>5, <2>1 DEF UnlockPort
    <3>2. \A m \in Macs : fdb'[m] # "locked"
      BY <1>0, <3>1, UnlockedIs
    <3>3. QED
      BY <1>0, <3>1, <3>2, LockKeeps
  <2>2. CASE ~attached
    BY <1>0, <1>5, <2>2, LockKeeps DEF UnlockPort, Goto, bridge
  <2>3. QED
    BY <2>1, <2>2
<1>6. CASE Newlink
  <2>1. /\ phase' = phase
        /\ fdb' = fdb \/ fdb' = Flushed(fdb)
        /\ UNCHANGED <<portLocked, portMab, locked>> \/ SetPortLocked(TRUE)
    BY <1>6 DEF Newlink
  <2>2. \A m \in Macs : fdb'[m] = "locked" => fdb[m] = "locked"
    BY <1>0, <2>1, FlushedIs
  <2>3. QED
    BY <1>0, <2>1, <2>2, LockKeeps
<1>7. CASE Newneigh \/ Delneigh
  BY <1>1, <1>7 DEF Newneigh, Delneigh
<1>8. ASSUME NEW m \in Macs, Eapol(m) \/ Dhcp(m) \/ EapRxTimeout(m) PROVE LockInv'
  BY <1>1, <1>8 DEF Eapol, Dhcp, EapRxTimeout, bridge
<1>9. ASSUME NEW m \in Macs, AccessAccept(m) \/ EapolAccept(m) PROVE LockInv'
  <2>1. Authorize(m) /\ phase' = phase
    BY <1>9 DEF AccessAccept, EapolAccept
  <2>2. \/ UNCHANGED <<portLocked, portMab, locked>>
           /\ \A n \in Macs : fdb'[n] = "locked" => fdb[n] = "locked"
        \/ SetPortLocked(FALSE) /\ \A n \in Macs : fdb'[n] # "locked"
    BY <1>0, <2>1, AuthorizeIs
  <2>3. QED
    BY <1>0, <2>1, <2>2, LockKeeps
<1>10. ASSUME NEW m \in Macs, AccessReject(m) \/ EapolRefuse(m) PROVE LockInv'
  <2>1. Deauthorize(m) /\ phase' = phase
    BY <1>10 DEF AccessReject, EapolRefuse
  <2>2. /\ UNCHANGED <<portLocked, portMab, locked>> \/ SetPortLocked(TRUE)
        /\ \A n \in Macs : fdb'[n] = "locked" => fdb[n] = "locked"
    BY <1>0, <2>1, DeauthorizeIs
  <2>3. QED
    BY <1>0, <2>1, <2>2, LockKeeps
<1>11. CASE Attach \/ Plug
  BY <1>1, <1>11 DEF Attach, Plug, bridge
<1>12. ASSUME NEW m \in Macs, Send(m) \/ Age(m) PROVE LockInv'
  <2>1. \A n \in Macs : fdb'[n] = "locked" => fdb[n] = "locked" \/ portMab
    BY <1>0, <1>12, WithoutIs DEF Send, Age, Fdb
  <2>2. phase' = phase /\ UNCHANGED <<portLocked, portMab, locked>>
    BY <1>12 DEF Send, Age
  <2>3. QED
    BY <1>0, <2>1, <2>2, LockKeeps
<1>13. QED
  BY <1>1, <1>2, <1>3, <1>4, <1>5, <1>6, <1>7, <1>8, <1>9, <1>10, <1>11, <1>12
     DEF Next, Lifecycle, HandleMessage, Station, Kernel, vars, bridge

(* Everything else.                                                        *)
OtherTypes ==
  /\ multi_auth \in MultiAuths /\ mac_auth \in MacAuths
  /\ attached \in BOOLEAN /\ up \in BOOLEAN /\ carrier \in BOOLEAN
  /\ phase \in {"stopped", "running"} \cup Starting \cup Stopping
  /\ running \in BOOLEAN
  /\ sta \in [Macs -> {"absent", "unauthorized", "authorized"}]
  /\ mode \in [Macs -> {"new", "mab", "pae"}]
  /\ timer \in [Macs -> BOOLEAN] /\ request \in [Macs -> BOOLEAN]
  /\ granted \in SUBSET Macs

LEMMA OtherTypesNext == WiredInv /\ [Next]_vars => OtherTypes'
<1> SUFFICES ASSUME WiredInv, [Next]_vars PROVE OtherTypes'
  OBVIOUS
<1>0. OtherTypes /\ queue \in Seq(Message)
  BY DEF WiredInv, TypeOK, OtherTypes
<1> USE DEF OtherTypes, Starting, Stopping
<1>1. CASE Start \/ AwaitBridge \/ LockPort \/ FlushPort \/ SetPortUp
  BY <1>0, <1>1 DEF Start, AwaitBridge, LockPort, FlushPort, SetPortUp, Goto, config, port, stations
<1>2. CASE SetPortDown \/ UnlockPort \/ Clear
  <2>1. CASE SetPortDown
    BY <1>0, <2>1 DEF SetPortDown, Goto, config, stations
  <2>2. CASE UnlockPort
    BY <1>0, <2>2 DEF UnlockPort, Goto, config, port, stations
  <2>3. CASE Clear
    BY <1>0, <2>3 DEF Clear, Goto, config, port, stations
  <2>4. QED
    BY <1>2, <2>1, <2>2, <2>3
<1>3. CASE Stop \/ Crash
  <2>1. CASE Stop
    BY <1>0, <2>1 DEF Stop, DropStations, Goto, config, port
  <2>2. CASE Crash
    BY <1>0, <2>2 DEF Crash, DropStations, Goto, config, port
  <2>3. QED
    BY <1>3, <2>1, <2>2
<1>4. CASE Newlink
  <2>1. Head(queue).running \in BOOLEAN
    <3>1. queue # <<>> /\ Head(queue).kind = "link"
      BY <1>4 DEF Newlink
    <3>2. Head(queue) \in Message
      BY <1>0, <3>1
    <3>3. QED
      BY <3>1, <3>2, MessageIs
  <2>2. /\ running' \in BOOLEAN /\ granted' \in SUBSET Macs
        /\ UNCHANGED <<config, port, phase, stations>>
    BY <1>0, <1>4, <2>1 DEF Newlink
  <2>3. QED
    BY <1>0, <2>2 DEF config, port, stations
<1>5. CASE Newneigh \/ Delneigh
  <2>1. Head(queue).mac \in Macs
    <3>1. queue # <<>> /\ Head(queue).kind \in {"new", "del"}
      BY <1>5 DEF Newneigh, Delneigh
    <3>2. Head(queue) \in Message
      BY <1>0, <3>1
    <3>3. QED
      BY <3>1, <3>2, MessageIs
  <2>2. CASE Newneigh
    BY <1>0, <2>1, <2>2 DEF Newneigh, NewSta, config, port
  <2>3. CASE Delneigh
    BY <1>0, <2>1, <2>3 DEF Delneigh, config, port
  <2>4. QED
    BY <1>5, <2>2, <2>3
<1>6. ASSUME NEW m \in Macs, Eapol(m) \/ Dhcp(m) \/ EapRxTimeout(m) PROVE OtherTypes'
  <2>1. CASE Eapol(m)
    BY <1>0, <2>1 DEF Eapol, config, port
  <2>2. CASE Dhcp(m)
    BY <1>0, <2>2 DEF Dhcp, NewSta, config, port
  <2>3. CASE EapRxTimeout(m)
    BY <1>0, <2>3 DEF EapRxTimeout, config, port
  <2>4. QED
    BY <1>6, <2>1, <2>2, <2>3
<1>7. ASSUME NEW m \in Macs, AccessAccept(m) \/ EapolAccept(m) PROVE OtherTypes'
  BY <1>0, <1>7 DEF AccessAccept, EapolAccept, Authorize, config, port
<1>8. ASSUME NEW m \in Macs, AccessReject(m) \/ EapolRefuse(m) PROVE OtherTypes'
  BY <1>0, <1>8 DEF AccessReject, EapolRefuse, Deauthorize, DelNeigh, LockAndFlush, config, port
<1>9. CASE Attach \/ Plug \/ Unplug
  BY <1>0, <1>9 DEF Attach, Plug, Unplug, config, stations
<1>10. ASSUME NEW m \in Macs, Send(m) \/ Age(m) PROVE OtherTypes'
  BY <1>0, <1>10 DEF Send, Age, config, port, stations
<1>11. CASE UNCHANGED vars
  BY <1>0, <1>11 DEF vars, config, port, stations
<1>12. QED
  BY <1>1, <1>2, <1>3, <1>4, <1>5, <1>6, <1>7, <1>8, <1>9, <1>10, <1>11
     DEF Next, Lifecycle, HandleMessage, Station, Kernel

LEMMA ClosedNext == WiredInv /\ [Next]_vars => Closed'
<1> SUFFICES ASSUME WiredInv, [Next]_vars PROVE Closed'
  OBVIOUS
<1>0. Closed /\ fdb \in Fdb /\ BridgeType
  BY TypeIs DEF WiredInv, PlaceInv, BridgeType
<1>1. ASSUME \A m \in Macs : fdb'[m] = "none" PROVE Closed'
  BY <1>1 DEF Closed
<1>2. ASSUME attached' /\ Running' <=> attached /\ Running,
             ~(attached /\ Running) => \A m \in Macs : fdb[m] = "none" => fdb'[m] = "none"
      PROVE  Closed'
  BY <1>0, <1>2 DEF Closed
<1>3. CASE UNCHANGED <<attached, up, carrier, fdb>>
  BY <1>2, <1>3 DEF Running
<1>4. CASE Start \/ AwaitBridge \/ LockPort \/ Stop \/ Crash \/ Newneigh \/ Delneigh
  BY <1>3, <1>4 DEF Start, AwaitBridge, LockPort, Stop, Crash, Newneigh, Delneigh, port, bridge
<1>5. CASE FlushPort \/ SetPortDown \/ Clear \/ Unplug
  <2>1. fdb' = Flushed(fdb)
    BY <1>5 DEF FlushPort, SetPortDown, Clear, Unplug
  <2>2. QED
    BY <1>0, <1>1, <2>1, FlushedIs
<1>6. CASE Attach \/ SetPortUp \/ Plug
  <2>1. /\ attached => attached'
        /\ up => up'
        /\ carrier => carrier'
        /\ fdb' = fdb
    <3>1. CASE Attach
      BY <3>1 DEF Attach, bridge
    <3>2. CASE SetPortUp
      BY <3>2 DEF SetPortUp
    <3>3. CASE Plug
      BY <3>3 DEF Plug
    <3>4. QED
      BY <1>6, <3>1, <3>2, <3>3
  <2>2. attached /\ Running => attached' /\ Running'
    BY <2>1 DEF Running
  <2>3. QED
    BY <1>0, <2>1, <2>2 DEF Closed
<1>7. CASE UnlockPort
  <2>1. UNCHANGED port /\ (fdb' = fdb \/ fdb' = Unlocked(fdb))
    BY <1>7 DEF UnlockPort, bridge
  <2>2. \A m \in Macs : fdb[m] = "none" => fdb'[m] = "none"
    BY <1>0, <2>1, UnlockedIs, RunningType
  <2>3. QED
    BY <1>2, <2>1, <2>2 DEF port, Running
<1>8. CASE Newlink
  <2>1. UNCHANGED port /\ (fdb' = fdb \/ fdb' = Flushed(fdb))
    BY <1>8 DEF Newlink
  <2>2. \A m \in Macs : fdb[m] = "none" => fdb'[m] = "none"
    BY <1>0, <2>1, FlushedIs
  <2>3. QED
    BY <1>2, <2>1, <2>2 DEF port, Running
<1>9. ASSUME NEW m \in Macs, Eapol(m) \/ Dhcp(m) \/ EapRxTimeout(m) PROVE Closed'
  BY <1>3, <1>9 DEF Eapol, Dhcp, EapRxTimeout, port, bridge
<1>10. ASSUME NEW m \in Macs, AccessAccept(m) \/ EapolAccept(m) PROVE Closed'
  <2>1. Authorize(m) /\ UNCHANGED port
    BY <1>10 DEF AccessAccept, EapolAccept
  <2>2. ASSUME ~(attached /\ Running), NEW n \in Macs, fdb[n] = "none" PROVE fdb'[n] = "none"
    <3>1. fdb' = fdb \/ fdb' = Unlocked(fdb)
      <4>1. Added(fdb, m) = fdb
        BY <2>2 DEF Added
      <4>2. QED
        BY <2>1, <4>1 DEF Authorize
    <3>2. QED
      BY <1>0, <2>2, <3>1, UnlockedIs, RunningType
  <2>3. QED
    BY <1>2, <2>1, <2>2 DEF port, Running
<1>11. ASSUME NEW m \in Macs, AccessReject(m) \/ EapolRefuse(m) PROVE Closed'
  <2>1. Deauthorize(m) /\ UNCHANGED port
    BY <1>11 DEF AccessReject, EapolRefuse
  <2>2. \/ fdb' = fdb \/ fdb' = Flushed(fdb)
        \/ fdb' = Without(fdb, Entries(fdb) \cap {m})
    BY <2>1 DEF Deauthorize, DelNeigh, LockAndFlush, bridge
  <2>3. \A n \in Macs : fdb[n] = "none" => fdb'[n] = "none"
    <3>1. CASE fdb' = fdb \/ fdb' = Flushed(fdb)
      BY <1>0, <3>1, FlushedIs
    <3>2. CASE fdb' = Without(fdb, Entries(fdb) \cap {m})
      BY <1>0, <3>2, WithoutIs
    <3>3. QED
      BY <2>2, <3>1, <3>2
  <2>4. QED
    BY <1>2, <2>1, <2>3 DEF port, Running
<1>12. ASSUME NEW m \in Macs, Send(m) \/ Age(m) PROVE Closed'
  <2>1. UNCHANGED port
    BY <1>12 DEF Send, Age
  <2>2. ASSUME ~(attached /\ Running), NEW n \in Macs, fdb[n] = "none" PROVE fdb'[n] = "none"
    BY <1>0, <1>12, <2>2, WithoutIs DEF Send, Age
  <2>3. QED
    BY <1>2, <2>1, <2>2 DEF port, Running
<1>13. QED
  BY <1>3, <1>4, <1>5, <1>6, <1>7, <1>8, <1>9, <1>10, <1>11, <1>12
     DEF Next, Lifecycle, HandleMessage, Station, Kernel, vars, port, bridge

LEMMA PlaceInvNext == WiredInv /\ [Next]_vars => PlaceInv'
<1> SUFFICES ASSUME WiredInv, [Next]_vars PROVE PlaceInv'
  OBVIOUS
<1> DEFINE Dropped == \A m \in Macs : sta[m] = "absent" /\ mode[m] = "new" /\ ~timer[m]
           After == {"lock", "flush", "up", "running"}
           Hold == /\ phase \in After => attached
                   /\ phase = "stopped" => queue = <<>>
                   /\ phase # "running" => Dropped
<1>0. Hold /\ Closed'
  BY ClosedNext DEF WiredInv, PlaceInv
<1>1. ASSUME Hold' PROVE PlaceInv'
  BY <1>0, <1>1 DEF PlaceInv
<1>2. CASE /\ phase' \in After => phase \in After \/ attached'
           /\ attached => attached'
           /\ phase' = "stopped" => phase = "stopped" /\ queue' = queue
           /\ phase' = "running" \/ (phase # "running" /\ UNCHANGED <<sta, mode, timer>>)
  BY <1>0, <1>1, <1>2
<1>3. CASE Start \/ AwaitBridge \/ LockPort \/ FlushPort \/ SetPortUp \/ SetPortDown \/ UnlockPort
  BY <1>2, <1>3 DEF Start, AwaitBridge, LockPort, FlushPort, SetPortUp, SetPortDown, UnlockPort,
                    Goto, port, stations
<1>4. CASE Stop
  BY <1>1, <1>4 DEF Stop, DropStations, Goto
<1>5. CASE Clear
  BY <1>0, <1>1, <1>5 DEF Clear, Goto, stations
<1>6. CASE Crash
  BY <1>1, <1>6 DEF Crash, DropStations, Goto
<1>7. CASE HandleMessage
  BY <1>2, <1>7 DEF HandleMessage, Newlink, Newneigh, Delneigh, Ready, port
<1>8. ASSUME NEW m \in Macs, Station(m) PROVE PlaceInv'
  BY <1>2, <1>8 DEF Station, Eapol, Dhcp, EapRxTimeout, AccessAccept, AccessReject, EapolAccept,
                    EapolRefuse, Ready, port
<1>9. CASE Kernel
  <2>1. phase' = phase /\ UNCHANGED <<sta, mode, timer>> /\ (attached => attached')
    <3>1. CASE Attach
      BY <3>1 DEF Attach, stations
    <3>2. CASE Plug
      BY <3>2 DEF Plug, stations
    <3>3. CASE Unplug
      BY <3>3 DEF Unplug, stations
    <3>4. ASSUME NEW m \in Macs, Send(m) \/ Age(m)
          PROVE  phase' = phase /\ UNCHANGED <<sta, mode, timer>> /\ (attached => attached')
      BY <3>4 DEF Send, Age, port, stations
    <3>5. QED
      BY <1>9, <3>1, <3>2, <3>3, <3>4 DEF Kernel
  <2>2. phase = "stopped" => queue' = queue
    <3>1. CASE Attach
      BY <3>1 DEF Attach, bridge
    <3>2. CASE Plug
      BY <3>2 DEF Plug, Tell
    <3>3. CASE Unplug
      BY <3>3 DEF Unplug, Tell
    <3>4. ASSUME NEW m \in Macs, Send(m) \/ Age(m), phase = "stopped" PROVE queue' = queue
      BY <3>4 DEF Send, Age, Tell
    <3>5. QED
      BY <1>9, <3>1, <3>2, <3>3, <3>4 DEF Kernel
  <2>3. QED
    BY <1>0, <1>1, <2>1, <2>2
<1>10. CASE UNCHANGED vars
  BY <1>2, <1>10 DEF vars, port, bridge, stations
<1>11. QED
  BY <1>3, <1>4, <1>5, <1>6, <1>7, <1>8, <1>9, <1>10 DEF Next, Lifecycle

LEMMA InitWiredInv == Init => WiredInv
<1> SUFFICES ASSUME Init PROVE WiredInv
  OBVIOUS
<1>1. <<>> \in Seq(Message)
  OBVIOUS
<1>2. TypeOK
  BY <1>1 DEF Init, TypeOK, Starting, Stopping
<1>3. PlaceInv
  BY DEF Init, PlaceInv, Closed
<1>4. QED
  BY <1>2, <1>3 DEF WiredInv

LEMMA NextWiredInv == WiredInv /\ [Next]_vars => WiredInv'
<1> SUFFICES ASSUME WiredInv, [Next]_vars PROVE WiredInv'
  OBVIOUS
<1>1. TypeOK'
  BY BridgeTypeNext, LockInvNext, OtherTypesNext DEF TypeOK, Fdb, LockInv, OtherTypes
<1>2. QED
  BY <1>1, PlaceInvNext DEF WiredInv

(* The types, and what is known of the lock: the driver's copy of it is    *)
(* the port's once it was set, MAB is only set on a locked port, and       *)
(* without MAB no entry is locked.                                         *)
THEOREM TypeCorrect == Spec => []TypeOK
<1>1. WiredInv => TypeOK
  BY DEF WiredInv
<1>2. QED
  BY <1>1, InitWiredInv, NextWiredInv, PTL DEF Spec

-----------------------------------------------------------------------------
(* Kernel MAB: what hostapd knows of a device, and what it will know when  *)
(* it has read its messages.  A message that a device waits is followed by *)
(* one that it left unless it still has an entry; a device that hostapd    *)
(* tries to authenticate by its address, or served so, has its entry, or   *)
(* the message that it left waits; and a device that waits behind a locked *)
(* entry has a station, or the message that it waits is still to be read.  *)
Known(m) ==
  /\ Noted(queue, m) => fdb[m] # "none"
  /\ timer[m] => mode[m] = "new" /\ sta[m] = "unauthorized"
  /\ timer[m] \/ mode[m] = "mab" => fdb[m] # "none" \/ Leaving(queue, m)
  /\ mode[m] = "mab" /\ sta[m] = "authorized" => fdb[m] = "open" \/ Leaving(queue, m)
  /\ phase \in {"up", "running"} /\ fdb[m] = "locked" =>
       Noted(queue, m) \/ (sta[m] # "absent" /\ ~Leaving(queue, m))

MabInv == WiredInv /\ (Listening => \A m \in Macs : Known(m))

(* Messages that are added to those that wait, of which the first may have *)
(* been read if it did not tell of m.                                      *)
LEMMA KnownKeeps ==
  ASSUME NEW m, Known(m), NEW q \in Seq(Message), NEW e \in Seq(Message),
         Leaving(q, m) <=> Leaving(queue, m), Noted(q, m) <=> Noted(queue, m),
         queue' = q \o e, Moved(fdb, fdb', e, m),
         mode'[m] = mode[m], timer'[m] = timer[m],
         \/ sta'[m] = sta[m]
         \/ sta'[m] = "unauthorized" /\ mode[m] # "new"
         \/ /\ sta'[m] = "authorized" /\ mode[m] # "new"
            /\ mode[m] = "mab" => fdb'[m] = "open" \/ Leaving(queue, m),
         phase' \in {"up", "running"} => phase \in {"up", "running"} \/ fdb'[m] # "locked"
  PROVE  Known(m)'
<1>1. /\ Leaving(queue', m) <=> Leaving(queue, m) \/ Leaving(e, m)
      /\ Noted(queue', m) <=> Noted(e, m) \/ (Noted(queue, m) /\ ~Leaving(e, m))
  BY ConcatFacts
<1>2. Noted(queue', m) => fdb'[m] # "none"
  BY <1>1 DEF Known, Moved
<1>3. timer'[m] => mode'[m] = "new" /\ sta'[m] = "unauthorized"
  BY DEF Known
<1>4. timer'[m] \/ mode'[m] = "mab" => fdb'[m] # "none" \/ Leaving(queue', m)
  BY <1>1 DEF Known, Moved
<1>5. mode'[m] = "mab" /\ sta'[m] = "authorized" => fdb'[m] = "open" \/ Leaving(queue', m)
  BY <1>1 DEF Known, Moved
<1>6. phase' \in {"up", "running"} /\ fdb'[m] = "locked" =>
        Noted(queue', m) \/ (sta'[m] # "absent" /\ ~Leaving(queue', m))
  BY <1>1 DEF Known, Moved
<1>7. QED
  BY <1>2, <1>3, <1>4, <1>5, <1>6 DEF Known

(* Without messages or stations there is nothing to know.                  *)
LEMMA KnownAtFirst ==
  ASSUME NEW m, phase' \notin {"up", "running"},
         sta'[m] = "absent" /\ mode'[m] = "new" /\ ~timer'[m],
         Noted(queue', m) => fdb'[m] # "none"
  PROVE  Known(m)'
  BY DEF Known

LEMMA TellsKeeps ==
  ASSUME MabInv, Listening, Tells, phase # "stopped", NEW m \in Macs,
         UNCHANGED <<sta, mode, timer>>,
         phase' \in {"up", "running"} => phase \in {"up", "running"} \/ fdb'[m] # "locked"
  PROVE  Known(m)'
<1>1. PICK e : Told(fdb, fdb', e) /\ queue' = queue \o e
  BY DEF Tells
<1>2. /\ e \in Seq(Message) /\ Moved(fdb, fdb', e, m) /\ Known(m) /\ queue \in Seq(Message)
      /\ mode'[m] = mode[m] /\ timer'[m] = timer[m] /\ sta'[m] = sta[m]
  BY <1>1 DEF Told, MabInv, WiredInv, TypeOK
<1>3. QED
  BY <1>1, <1>2, KnownKeeps

LEMMA LifecycleKnown ==
  ASSUME MabInv, PlaceInv', Lifecycle, Listening, NEW m \in Macs
  PROVE  Known(m)'
<1>0. WiredInv /\ Known(m) /\ fdb \in Fdb
  BY TypeIs DEF MabInv, WiredInv, BridgeType
<1>1. CASE Start \/ Clear \/ Crash
  <2>1. phase' \notin {"up", "running"} /\ queue' = <<>>
    BY <1>0, <1>1 DEF Start, Clear, Crash, Goto, bridge, WiredInv, PlaceInv
  <2>2. QED
    BY <2>1, NoNews, KnownAtFirst DEF PlaceInv
<1>2. CASE Stop
  <2>1. phase' = "down" /\ queue' = queue /\ fdb' = fdb
    BY <1>2 DEF Stop, Goto, bridge
  <2>2. Noted(queue', m) => fdb'[m] # "none"
    BY <1>0, <2>1 DEF Known
  <2>3. QED
    BY <2>1, <2>2, KnownAtFirst DEF PlaceInv
<1>3. CASE FlushPort
  <2>1. phase = "flush" /\ UNCHANGED <<sta, mode, timer>> /\ fdb'[m] # "locked"
    BY <1>0, <1>3, FlushedIs DEF FlushPort, stations
  <2>2. QED
    BY <1>0, <1>3, <2>1, LifecycleTells, TellsKeeps
<1>4. CASE AwaitBridge \/ LockPort \/ SetPortUp \/ SetPortDown \/ UnlockPort
  <2>1. /\ phase # "stopped" /\ UNCHANGED <<sta, mode, timer>>
        /\ phase' \in {"up", "running"} => phase \in {"up", "running"}
    BY <1>4 DEF AwaitBridge, LockPort, SetPortUp, SetPortDown, UnlockPort, Goto, stations
  <2>2. QED
    BY <1>0, <1>4, <2>1, LifecycleTells, TellsKeeps
<1>5. QED
  BY <1>1, <1>2, <1>3, <1>4 DEF Lifecycle

(* A station is created when the message that its device waits is read.    *)
LEMMA NewneighKnown ==
  ASSUME MabInv, Newneigh, Listening, NEW m \in Macs
  PROVE  Known(m)'
<1> DEFINE x == Head(queue)
           q == Tail(queue)
<1>1. /\ Known(m) /\ phase = "running" /\ phase' = phase /\ queue \in Seq(Message) /\ queue # <<>>
      /\ fdb' = fdb /\ queue' = q /\ x.kind = "new"
      /\ IF x.locked THEN NewSta(x.mac) ELSE UNCHANGED <<sta, mode, timer>>
  BY DEF Newneigh, Ready, MabInv, WiredInv, TypeOK
<1>2. /\ q \in Seq(Message)
      /\ Leaving(queue, m) <=> Leaving(q, m)
      /\ Noted(queue, m) <=> Noted(q, m) \/ (x.mac = m /\ x.locked /\ ~Leaving(q, m))
  BY <1>1, TailFacts DEF IsDel, IsNote
<1>3. /\ sta \in [Macs -> {"absent", "unauthorized", "authorized"}]
      /\ mode \in [Macs -> {"new", "mab", "pae"}] /\ timer \in [Macs -> BOOLEAN]
  BY DEF MabInv, WiredInv, TypeOK
<1>4. CASE x.mac = m /\ x.locked
  <2>1. CASE sta[m] = "absent"
    <3>1. sta'[m] = "unauthorized" /\ mode'[m] = "new"
      BY <1>1, <1>3, <1>4, <2>1 DEF NewSta
    <3>2. ~Leaving(q, m) => fdb'[m] # "none"
      BY <1>1, <1>2, <1>4 DEF Known
    <3>3. fdb'[m] = "locked" => Noted(q, m) \/ ~Leaving(q, m)
      BY <1>1, <1>2, <1>4, <2>1 DEF Known
    <3>4. Noted(q, m) => fdb'[m] # "none"
      BY <1>1, <1>2 DEF Known
    <3>5. QED
      BY <1>1, <3>1, <3>2, <3>3, <3>4 DEF Known
  <2>2. CASE sta[m] # "absent"
    <3>1. UNCHANGED <<sta, mode, timer>>
      BY <1>1, <1>4, <2>2 DEF NewSta
    <3>2. QED
      BY <1>1, <1>2, <1>4, <2>2, <3>1 DEF Known
  <2>3. QED
    BY <2>1, <2>2
<1>5. CASE ~(x.mac = m /\ x.locked)
  <2>1. sta'[m] = sta[m] /\ mode'[m] = mode[m] /\ timer'[m] = timer[m]
    BY <1>1, <1>3, <1>5 DEF NewSta
  <2>2. QED
    BY <1>1, <1>2, <1>5, <2>1 DEF Known
<1>6. QED
  BY <1>4, <1>5

LEMMA DelneighKnown ==
  ASSUME MabInv, Delneigh, Listening, NEW m \in Macs
  PROVE  Known(m)'
<1> DEFINE x == Head(queue)
           q == Tail(queue)
<1>1. /\ Known(m) /\ phase = "running" /\ phase' = phase /\ queue \in Seq(Message) /\ queue # <<>>
      /\ fdb' = fdb /\ queue' = q /\ x.kind = "del"
      /\ sta' = [sta EXCEPT ![x.mac] = "absent"] /\ mode' = [mode EXCEPT ![x.mac] = "new"]
      /\ timer' = [timer EXCEPT ![x.mac] = FALSE]
  BY DEF Delneigh, Ready, MabInv, WiredInv, TypeOK
<1>2. /\ q \in Seq(Message)
      /\ Leaving(queue, m) <=> x.mac = m \/ Leaving(q, m)
      /\ Noted(queue, m) <=> Noted(q, m)
  BY <1>1, TailFacts DEF IsDel, IsNote
<1>3. /\ sta \in [Macs -> {"absent", "unauthorized", "authorized"}]
      /\ mode \in [Macs -> {"new", "mab", "pae"}] /\ timer \in [Macs -> BOOLEAN]
  BY DEF MabInv, WiredInv, TypeOK
<1>4. CASE x.mac = m
  <2>1. sta'[m] = "absent" /\ mode'[m] = "new" /\ timer'[m] = FALSE
    BY <1>1, <1>3, <1>4
  <2>2. /\ Noted(q, m) => fdb'[m] # "none"
        /\ fdb'[m] = "locked" => Noted(q, m)
    BY <1>1, <1>2, <1>4 DEF Known
  <2>3. QED
    BY <1>1, <2>1, <2>2 DEF Known
<1>5. CASE x.mac # m
  <2>1. sta'[m] = sta[m] /\ mode'[m] = mode[m] /\ timer'[m] = timer[m]
    BY <1>1, <1>3, <1>5
  <2>2. QED
    BY <1>1, <1>2, <1>5, <2>1 DEF Known
<1>6. QED
  BY <1>4, <1>5

LEMMA NewlinkKnown ==
  ASSUME MabInv, Newlink, Listening, NEW m \in Macs
  PROVE  Known(m)'
<1>1. /\ queue \in Seq(Message) /\ queue # <<>> /\ Head(queue).kind = "link"
      /\ phase' = phase /\ UNCHANGED <<sta, mode, timer>> /\ Known(m)
  BY DEF Newlink, stations, MabInv, WiredInv, TypeOK
<1>2. PICK e : Told(fdb, fdb', e) /\ queue' = Tail(queue) \o e
  BY HandleTells DEF MabInv, HandleMessage
<1>3. /\ Tail(queue) \in Seq(Message)
      /\ Leaving(Tail(queue), m) <=> Leaving(queue, m)
      /\ Noted(Tail(queue), m) <=> Noted(queue, m)
  BY <1>1, TailFacts DEF IsDel, IsNote
<1>4. e \in Seq(Message) /\ Moved(fdb, fdb', e, m)
  BY <1>2 DEF Told
<1>5. mode'[m] = mode[m] /\ timer'[m] = timer[m] /\ sta'[m] = sta[m]
  BY <1>1
<1>6. QED
  BY <1>1, <1>2, <1>3, <1>4, <1>5, KnownKeeps

LEMMA StationKnown ==
  ASSUME MabInv, NEW n \in Macs, Station(n), Listening, NEW m \in Macs
  PROVE  Known(m)'
<1>0. /\ Known(m) /\ BridgeType /\ Closed /\ queue \in Seq(Message) /\ phase = "running"
      /\ phase' = phase
      /\ sta \in [Macs -> {"absent", "unauthorized", "authorized"}]
      /\ mode \in [Macs -> {"new", "mab", "pae"}] /\ timer \in [Macs -> BOOLEAN]
  <2>1. phase = "running" /\ phase' = phase
    BY DEF Station, Eapol, Dhcp, EapRxTimeout, AccessAccept, AccessReject, EapolAccept,
           EapolRefuse, Ready
  <2>2. QED
    BY <2>1, TypeIs DEF MabInv, WiredInv, TypeOK, PlaceInv
<1>1. CASE Eapol(n)
  <2>1. fdb' = fdb /\ queue' = queue
    BY <1>1 DEF Eapol, bridge
  <2>2. CASE m = n
    <3>1. sta'[m] # "absent" /\ mode'[m] = "pae" /\ timer'[m] = FALSE
      BY <1>0, <1>1, <2>2 DEF Eapol
    <3>2. QED
      BY <1>0, <2>1, <3>1 DEF Known
  <2>3. CASE m # n
    <3>1. sta'[m] = sta[m] /\ mode'[m] = mode[m] /\ timer'[m] = timer[m]
      BY <1>0, <1>1, <2>3 DEF Eapol
    <3>2. QED
      BY <1>0, <2>1, <3>1 DEF Known
  <2>4. QED
    BY <2>2, <2>3
<1>2. CASE Dhcp(n)
  BY <1>2 DEF Dhcp, Listening
<1>3. CASE EapRxTimeout(n)
  <2>1. fdb' = fdb /\ queue' = queue /\ sta' = sta /\ timer[n]
    BY <1>3 DEF EapRxTimeout, bridge
  <2>2. CASE m = n
    <3>1. mode'[m] = "mab" /\ timer'[m] = FALSE
      BY <1>0, <1>3, <2>2 DEF EapRxTimeout
    <3>2. QED
      BY <1>0, <2>1, <2>2, <3>1 DEF Known
  <2>3. CASE m # n
    <3>1. mode'[m] = mode[m] /\ timer'[m] = timer[m]
      BY <1>0, <1>3, <2>3 DEF EapRxTimeout
    <3>2. QED
      BY <1>0, <2>1, <3>1 DEF Known
  <2>4. QED
    BY <2>2, <2>3
<1>4. CASE AccessAccept(n) \/ EapolAccept(n)
  <2>1. Authorize(n) /\ mode' = mode /\ timer' = timer /\ mode[n] # "new"
    BY <1>4 DEF AccessAccept, EapolAccept
  <2>2. PICK e : Told(fdb, fdb', e) /\ queue' = queue \o e
    BY <1>0, <2>1, AuthorizeIs
  <2>3. e \in Seq(Message) /\ Moved(fdb, fdb', e, m)
    BY <2>2 DEF Told
  <2>4. CASE m = n
    <3>1. sta'[m] = "authorized"
      BY <1>0, <2>1, <2>4 DEF Authorize
    <3>2. fdb[m] # "none" => fdb'[m] = "open"
      BY <1>0, <2>1, <2>4, AuthorizeIs DEF Closed
    <3>3. mode[m] = "mab" => fdb'[m] = "open" \/ Leaving(queue, m)
      BY <1>0, <3>2 DEF Known
    <3>4. QED
      BY <1>0, <2>1, <2>2, <2>3, <2>4, <3>1, <3>3, KnownKeeps
  <2>5. CASE m # n
    <3>1. sta'[m] = sta[m]
      BY <1>0, <2>1, <2>5 DEF Authorize
    <3>2. QED
      BY <1>0, <2>1, <2>2, <2>3, <3>1, KnownKeeps
  <2>6. QED
    BY <2>4, <2>5
<1>5. CASE AccessReject(n) \/ EapolRefuse(n)
  <2>1. Deauthorize(n) /\ mode' = mode /\ timer' = timer /\ mode[n] # "new"
    BY <1>5 DEF AccessReject, EapolRefuse
  <2>2. PICK e : Told(fdb, fdb', e) /\ queue' = queue \o e
    BY <1>0, <2>1, DeauthorizeIs DEF Tells
  <2>3. e \in Seq(Message) /\ Moved(fdb, fdb', e, m)
    BY <2>2 DEF Told
  <2>4. sta'[m] = IF m = n THEN "unauthorized" ELSE sta[m]
    BY <1>0, <2>1 DEF Deauthorize
  <2>5. QED
    BY <1>0, <2>1, <2>2, <2>3, <2>4, KnownKeeps
<1>6. QED
  BY <1>1, <1>2, <1>3, <1>4, <1>5 DEF Station

LEMMA KernelKnown ==
  ASSUME MabInv, PlaceInv', Kernel, Listening, NEW m \in Macs
  PROVE  Known(m)'
<1>1. phase' = phase /\ UNCHANGED <<sta, mode, timer>>
  <2>1. CASE Attach \/ Plug \/ Unplug
    BY <2>1 DEF Attach, Plug, Unplug, stations
  <2>2. ASSUME NEW n \in Macs, Send(n) \/ Age(n)
        PROVE  phase' = phase /\ UNCHANGED <<sta, mode, timer>>
    BY <2>2 DEF Send, Age, stations
  <2>3. QED
    BY <2>1, <2>2 DEF Kernel
<1>2. Tells
  BY KernelTells DEF MabInv
<1>3. CASE phase = "stopped"
  <2>1. queue' = <<>>
    BY <1>1, <1>3 DEF PlaceInv
  <2>2. QED
    BY <1>1, <1>3, <2>1, NoNews, KnownAtFirst DEF PlaceInv
<1>4. CASE phase # "stopped"
  BY <1>1, <1>2, <1>4, TellsKeeps
<1>5. QED
  BY <1>3, <1>4

LEMMA InitMabInv == Init => MabInv
<1> SUFFICES ASSUME Init PROVE MabInv
  OBVIOUS
<1>1. \A m \in Macs : Known(m)
  BY NoNews DEF Init, Known
<1>2. QED
  BY <1>1, InitWiredInv DEF MabInv

LEMMA NextMabInv == MabInv /\ [Next]_vars => MabInv'
<1> SUFFICES ASSUME MabInv, [Next]_vars PROVE MabInv'
  OBVIOUS
<1>1. WiredInv' /\ PlaceInv'
  BY NextWiredInv DEF MabInv, WiredInv
<1>2. Listening' <=> Listening
  BY DEF Listening, vars, config, Next, Lifecycle, HandleMessage, Station, Kernel, Start,
         AwaitBridge, LockPort, FlushPort, SetPortUp, Stop, SetPortDown, UnlockPort, Clear, Crash,
         Newlink, Newneigh, Delneigh, Eapol, Dhcp, EapRxTimeout, AccessAccept, AccessReject,
         EapolAccept, EapolRefuse, Attach, Plug, Unplug, Send, Age
<1>3. ASSUME Listening, NEW m \in Macs PROVE Known(m)'
  <2>1. CASE UNCHANGED vars
    BY <1>3, <2>1 DEF MabInv, Known, vars, bridge, stations
  <2>2. ASSUME NEW n \in Macs, Station(n) PROVE Known(m)'
    BY <1>3, <2>2, StationKnown
  <2>3. CASE HandleMessage
    BY <1>3, <2>3, NewlinkKnown, NewneighKnown, DelneighKnown DEF HandleMessage
  <2>4. CASE Lifecycle
    BY <1>1, <1>3, <2>4, LifecycleKnown
  <2>5. CASE Kernel
    BY <1>1, <1>3, <2>5, KernelKnown
  <2>6. QED
    BY <2>1, <2>2, <2>3, <2>4, <2>5 DEF Next
<1>4. QED
  BY <1>1, <1>2, <1>3 DEF MabInv

(* Once hostapd has read its messages it has a station for every device    *)
(* that waits behind a locked entry, whatever was lost, aged out,          *)
(* restarted or read late before.                                          *)
THEOREM NoForgottenDeviceHolds == Spec => []NoForgottenDevice
<1>1. MabInv => NoForgottenDevice
  <2> SUFFICES ASSUME MabInv, Ready, queue = <<>>, NEW m \in LockedEntries(fdb)
               PROVE  sta[m] # "absent"
    BY DEF NoForgottenDevice
  <2>1. m \in Macs /\ fdb[m] = "locked"
    BY DEF LockedEntries
  <2>2. portMab /\ Listening
    BY <2>1 DEF MabInv, WiredInv, TypeOK, Listening
  <2>3. QED
    BY <2>1, <2>2, NoNews DEF MabInv, Known, Ready
<1>2. QED
  BY <1>1, InitMabInv, NextMabInv, PTL DEF Spec

(* Once hostapd has read its messages, every device that it authorized by  *)
(* its address passes while the port runs: a session ends before its       *)
(* device could be locked out with it.                                     *)
THEOREM AuthorizedIsServedHolds == Spec => []AuthorizedIsServed
<1>1. MabInv => AuthorizedIsServed
  <2> SUFFICES ASSUME MabInv, Ready, queue = <<>>, mac_auth = "kernel", Running,
                      NEW m \in Macs, sta[m] = "authorized", mode[m] = "mab"
               PROVE  Passes(m)
    BY DEF AuthorizedIsServed
  <2>1. fdb[m] = "open"
    BY NoNews DEF MabInv, Known, Listening
  <2>2. attached
    BY DEF MabInv, WiredInv, PlaceInv, Ready
  <2>3. QED
    BY <2>1, <2>2 DEF Passes
<1>2. QED
  BY <1>1, InitMabInv, NextMabInv, PTL DEF Spec

(* An authorization leaves the messages that the station left as they are: *)
(* it opens the station's entry before it unlocks the port, which drops    *)
(* the locked ones.                                                        *)
THEOREM AcceptKeepsStationHolds == Spec => AcceptKeepsStation
<1>1. WiredInv /\ [Next]_vars =>
        [\A m \in Macs : sta[m] # "authorized" /\ sta'[m] = "authorized"
                         => Departures(m)' = Departures(m)]_vars
  <2> SUFFICES ASSUME WiredInv, Next, NEW m \in Macs,
                      sta[m] # "authorized", sta'[m] = "authorized"
               PROVE  Departures(m)' = Departures(m)
    OBVIOUS
  <2>0. /\ BridgeType /\ Closed /\ queue \in Seq(Message)
        /\ sta \in [Macs -> {"absent", "unauthorized", "authorized"}]
    BY TypeIs DEF WiredInv, PlaceInv, TypeOK
  <2>1. Authorize(m) /\ phase = "running"
    <3>1. CASE Lifecycle \/ Kernel
      BY <3>1 DEF Lifecycle, Kernel, Start, AwaitBridge, LockPort, FlushPort, SetPortUp, Stop,
                  SetPortDown, UnlockPort, Clear, Crash, DropStations, Attach, Plug, Unplug,
                  Send, Age, stations
    <3>2. CASE HandleMessage
      BY <2>0, <3>2 DEF HandleMessage, Newlink, Newneigh, NewSta, Delneigh, stations
    <3>3. ASSUME NEW n \in Macs, Station(n) PROVE Authorize(m) /\ phase = "running"
      <4>1. CASE Eapol(n) \/ Dhcp(n) \/ EapRxTimeout(n)
        BY <2>0, <4>1 DEF Eapol, Dhcp, EapRxTimeout, NewSta
      <4>2. CASE AccessReject(n) \/ EapolRefuse(n)
        BY <2>0, <4>2 DEF AccessReject, EapolRefuse, Deauthorize
      <4>3. CASE AccessAccept(n) \/ EapolAccept(n)
        <5>1. Authorize(n) /\ phase = "running" /\ sta' = [sta EXCEPT ![n] = "authorized"]
          BY <4>3 DEF AccessAccept, EapolAccept, Authorize, Ready
        <5>2. m = n
          BY <2>0, <5>1
        <5>3. QED
          BY <5>1, <5>2
      <4>4. QED
        BY <3>3, <4>1, <4>2, <4>3 DEF Station
    <3>4. QED
      BY <3>1, <3>2, <3>3 DEF Next
  <2>2. PICK e \in Seq(Message) : ~Leaving(e, m) /\ queue' = queue \o e
    BY <2>0, <2>1, AuthorizeIs DEF Told
  <2>3. /\ DOMAIN queue = 1..Len(queue) /\ DOMAIN queue' = 1..(Len(queue) + Len(e))
        /\ Len(queue) \in Nat /\ Len(e) \in Nat
        /\ \A i \in 1..Len(queue) : queue'[i] = queue[i]
    BY <2>0, <2>2
  <2>4. ASSUME NEW i \in DOMAIN queue', i \notin DOMAIN queue PROVE ~IsDel(queue'[i], m)
    <3>1. i - Len(queue) \in 1..Len(e) /\ queue'[i] = e[i - Len(queue)]
      BY <2>0, <2>2, <2>3, <2>4
    <3>2. QED
      BY <2>2, <3>1 DEF Leaving
  <2>5. DOMAIN queue \subseteq DOMAIN queue'
    BY <2>3
  <2>6. QED
    BY <2>3, <2>4, <2>5 DEF Departures, IsDel
<1>2. QED
  BY <1>1, InitWiredInv, NextWiredInv, PTL DEF Spec, AcceptKeepsStation
=============================================================================
