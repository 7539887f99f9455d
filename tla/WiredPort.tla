------------------------------ MODULE WiredPort ------------------------------
(***************************************************************************)
(* A bridge port under hostapd's wired_linux driver, and MAC               *)
(* authentication bypass (recipes-connectivity/hostapd/files/*.patch).     *)
(*                                                                         *)
(* Hostapd is one event loop: it handles one netlink message, frame, timer *)
(* or RADIUS answer after the other, and start and stop are single calls   *)
(* in which nothing else is handled.  The kernel's bridge port goes on     *)
(* meanwhile and tells of its steps by netlink messages, which wait in     *)
(* queue.  A driver call waits for the kernel's acknowledgement.           *)
(*                                                                         *)
(* External: the bridge port (locked and MAB ports, learning, ageing), and *)
(* hostapd's core (station table, EAPOL state machines, RADIUS client).    *)
(***************************************************************************)
EXTENDS Integers, Sequences, SequencesExt

CONSTANTS Macs,      \* the stations' addresses
          MaxQueue,  \* the environment acts while fewer messages wait (a bound)
          MultiAuths, MacAuths  \* the configurations

ASSUME WiredAssumption ==
  /\ IsFiniteSet(Macs)
  /\ MaxQueue \in Nat \ {0}
  /\ MultiAuths \subseteq BOOLEAN /\ MacAuths \subseteq {"off", "kernel", "software"}

VARIABLES
  multi_auth, mac_auth,    \* hostapd-wired.conf
  attached,                \* the port has a master
  up, carrier,             \* IFF_UP, and whether a device is plugged
  portLocked, portMab,     \* IFLA_BRPORT_LOCKED, IFLA_BRPORT_MAB
  fdb,                     \* forwarding entries of the port
  queue,                   \* netlink messages hostapd has not read
  phase,                   \* where hostapd is
  locked, running,         \* drv->locked, drv->running
  sta, mode, timer,        \* stations, how they authenticate, the MAB timer
  request,                 \* the RADIUS request that is under way
  granted                  \* history: stations authorized since they were last
                           \* de-authorized or all entries flushed by hostapd

config   == <<multi_auth, mac_auth>>
port     == <<attached, up, carrier>>
bridge   == <<portLocked, portMab, fdb, queue>>
stations == <<sta, mode, timer, request>>
vars == <<config, port, bridge, phase, locked, running, stations, granted>>

(* "bridge" waits for the bridge, "lock" ... "up" are the rest of init,    *)
(* "down" ... "clear" are deinit.                                          *)
Starting == {"bridge", "lock", "flush", "up"}
Stopping == {"down", "unlock", "clear"}

Message == [kind : {"link"}, running : BOOLEAN]
           \cup [kind : {"new", "del"}, mac : Macs, locked : BOOLEAN]

TypeOK ==
  /\ multi_auth \in MultiAuths /\ mac_auth \in MacAuths
  /\ attached \in BOOLEAN /\ up \in BOOLEAN /\ carrier \in BOOLEAN
  /\ portLocked \in BOOLEAN /\ portMab \in BOOLEAN
  /\ portMab => portLocked /\ mac_auth = "kernel"
  /\ fdb \in [Macs -> {"none", "locked", "open"}]
  /\ ~portMab => \A m \in Macs : fdb[m] # "locked"
  /\ queue \in Seq(Message)
  /\ phase \in {"stopped", "running"} \cup Starting \cup Stopping
  /\ locked \in BOOLEAN /\ running \in BOOLEAN
  /\ phase \in {"flush", "up", "running"} => locked = portLocked
  /\ sta \in [Macs -> {"absent", "unauthorized", "authorized"}]
  /\ mode \in [Macs -> {"new", "mab", "pae"}]
  /\ timer \in [Macs -> BOOLEAN]
  /\ request \in [Macs -> BOOLEAN]
  /\ granted \in SUBSET Macs

Init ==
  /\ multi_auth \in MultiAuths /\ mac_auth \in MacAuths
  /\ attached \in BOOLEAN /\ up \in BOOLEAN /\ carrier \in BOOLEAN
  /\ portLocked = FALSE /\ portMab = FALSE
  /\ fdb = [m \in Macs |-> "none"]
  /\ queue = <<>>
  /\ phase = "stopped"
  /\ locked = FALSE /\ running = FALSE
  /\ sta = [m \in Macs |-> "absent"] /\ mode = [m \in Macs |-> "new"]
  /\ timer = [m \in Macs |-> FALSE] /\ request = [m \in Macs |-> FALSE]
  /\ granted = {}

-----------------------------------------------------------------------------
(* The kernel's answers to requests, as what they do to fdb f and which    *)
(* messages they send.                                                     *)
Running == up /\ carrier
Link(r) == <<[kind |-> "link", running |-> r]>>
Neigh(k, m, entry) == [kind |-> k, mac |-> m, locked |-> entry = "locked"]

(* Neighbour messages are subscribed to with kernel MAB only. *)
Listening_Not == FALSE  \* mutated form: without RTMGRP_NEIGH
Listening == mac_auth = "kernel"
Heard(news) == IF Listening THEN news ELSE <<>>
Tell(msgs) == queue' = IF phase = "stopped" THEN queue ELSE queue \o msgs

Deleted(f, S) ==
  LET gone == SetToSeq(S)
  IN  Heard([i \in 1..Cardinality(S) |-> Neigh("del", gone[i], f[gone[i]])])
Without(f, S) == [m \in Macs |-> IF m \in S THEN "none" ELSE f[m]]
Entries(f) == {m \in Macs : f[m] # "none"}
LockedEntries(f) == {m \in Macs : f[m] = "locked"}

(* driver_wired_linux_add_neigh; a port that is down takes no entry, and   *)
(* the error is ignored.                                                   *)
Added(f, m) == IF attached /\ Running THEN [f EXCEPT ![m] = "open"] ELSE f
AddedTells(f, m) == IF Added(f, m) = f THEN <<>> ELSE Heard(<<Neigh("new", m, "open")>>)

(* driver_wired_linux_set_port_locked; clearing MAB flushes locked entries. *)
SetPortLocked_Mab(l) ==  \* mutated form: MAB stays set when unlocking
  /\ portLocked' = l
  /\ portMab' = (mac_auth = "kernel")
  /\ locked' = l
SetPortLocked(l) ==
  /\ portLocked' = l
  /\ portMab' = (l /\ mac_auth = "kernel")
  /\ locked' = l
Unlocked(f) == Without(f, LockedEntries(f))
UnlockedTells(f) == Deleted(f, LockedEntries(f)) \o Link(Running)

(* driver_wired_linux_flush_port *)
Flushed(f) == Without(f, Entries(f))
FlushedTells(f) == Deleted(f, Entries(f))

-----------------------------------------------------------------------------
(* driver_wired_linux_set_sta_authorized, with ieee802_1x_set_sta_authorized *)
(* around it: the flag first, then the driver.  Its two requests to the    *)
(* kernel, and those of Newlink, are one step.                             *)

(* Mutated form: the port is unlocked before the entry is. *)
Authorize_UnlockFirst(m) ==
  LET unlock == ~multi_auth /\ locked
      f == IF unlock THEN Unlocked(fdb) ELSE fdb
      add == multi_auth \/ mac_auth = "kernel"
  IN  /\ sta' = [sta EXCEPT ![m] = "authorized"]
      /\ granted' = granted \cup {m}
      /\ IF unlock THEN SetPortLocked(FALSE)
                   ELSE UNCHANGED <<portLocked, portMab, locked>>
      /\ fdb' = IF add THEN Added(f, m) ELSE f
      /\ Tell((IF unlock THEN UnlockedTells(fdb) ELSE <<>>)
              \o (IF add THEN AddedTells(f, m) ELSE <<>>))

Authorize(m) ==
  LET add == multi_auth \/ mac_auth = "kernel"
      f == IF add THEN Added(fdb, m) ELSE fdb
      unlock == ~multi_auth /\ locked
  IN  /\ sta' = [sta EXCEPT ![m] = "authorized"]
      /\ granted' = granted \cup {m}
      /\ fdb' = IF unlock THEN Unlocked(f) ELSE f
      /\ IF unlock THEN SetPortLocked(FALSE)
                   ELSE UNCHANGED <<portLocked, portMab, locked>>
      /\ Tell((IF add THEN AddedTells(fdb, m) ELSE <<>>)
              \o (IF unlock THEN UnlockedTells(f) ELSE <<>>))

(* driver_wired_linux_del_neigh *)
DelNeigh(m) ==
  LET gone == Entries(fdb) \cap {m}
  IN  /\ fdb' = Without(fdb, gone)
      /\ granted' = granted \ {m}
      /\ Tell(Deleted(fdb, gone))
      /\ UNCHANGED <<portLocked, portMab, locked>>

LockAndFlush ==
  /\ SetPortLocked(TRUE)
  /\ fdb' = Flushed(fdb)
  /\ granted' = {}
  /\ Tell(Link(Running) \o FlushedTells(fdb))

(* With single authentication it locks the port for every station. *)
Deauthorize(m) ==
  /\ sta' = [sta EXCEPT ![m] = "unauthorized"]
  /\ \/ multi_auth /\ DelNeigh(m)
     \/ ~multi_auth /\ ~locked /\ LockAndFlush
     \/ ~multi_auth /\ locked /\ UNCHANGED <<bridge, locked, granted>>

-----------------------------------------------------------------------------
(* wired_driver_hapd_init and wired_driver_hapd_deinit.                    *)
Goto(p) == phase' = p

DropStations ==
  /\ sta' = [m \in Macs |-> "absent"] /\ mode' = [m \in Macs |-> "new"]
  /\ timer' = [m \in Macs |-> FALSE] /\ request' = [m \in Macs |-> FALSE]

(* drv is zeroed; netlink and the sockets are set up. *)
Start ==
  /\ phase = "stopped"
  /\ locked' = FALSE /\ running' = FALSE
  /\ granted' = {}
  /\ Goto("bridge")
  /\ UNCHANGED <<config, port, bridge, stations>>

AwaitBridge ==
  /\ phase = "bridge" /\ attached
  /\ Goto("lock")
  /\ UNCHANGED <<config, port, bridge, locked, running, stations, granted>>

LockPort ==
  /\ phase = "lock"
  /\ SetPortLocked(TRUE)
  /\ Tell(Link(Running))
  /\ Goto("flush")
  /\ UNCHANGED <<config, port, fdb, running, stations, granted>>

(* Mutated form: entries of an earlier run are kept. *)
FlushPort_Not ==
  /\ phase = "flush"
  /\ Goto("up")
  /\ UNCHANGED <<config, port, bridge, locked, running, stations, granted>>

FlushPort ==
  /\ phase = "flush"
  /\ fdb' = Flushed(fdb)
  /\ Tell(FlushedTells(fdb))
  /\ Goto("up")
  /\ UNCHANGED <<config, port, portLocked, portMab, locked, running, stations, granted>>

(* The kernel tells of a port that starts running. *)
SetPortUp ==
  /\ phase = "up"
  /\ up' = TRUE
  /\ Tell(IF ~up THEN Link(carrier) ELSE <<>>)
  /\ Goto("running")
  /\ UNCHANGED <<config, attached, carrier, portLocked, portMab, fdb, locked, running,
                 stations, granted>>

(* The sockets or a netlink request failed, but for the flush, whose result *)
(* is ignored, or hostapd stops: its core drops the stations first.        *)
Stop ==
  /\ phase \in {"bridge", "lock", "up", "running"}
  /\ DropStations
  /\ Goto("down")
  /\ UNCHANGED <<config, port, bridge, locked, running, granted>>

(* A port that goes down loses its entries. *)
SetPortDown ==
  /\ phase = "down"
  /\ up' = FALSE
  /\ fdb' = Flushed(fdb)
  /\ Tell(IF up THEN Link(FALSE) \o FlushedTells(fdb) ELSE <<>>)
  /\ Goto("unlock")
  /\ UNCHANGED <<config, attached, carrier, portLocked, portMab, locked, running,
                 stations, granted>>

(* Refused without a bridge; the result is ignored. *)
UnlockPort ==
  /\ phase = "unlock"
  /\ IF attached
     THEN /\ SetPortLocked(FALSE)
          /\ fdb' = Unlocked(fdb)
          /\ Tell(UnlockedTells(fdb))
     ELSE UNCHANGED <<bridge, locked>>
  /\ Goto("clear")
  /\ UNCHANGED <<config, port, running, stations, granted>>

Clear ==
  /\ phase = "clear"
  /\ fdb' = Flushed(fdb)
  /\ queue' = <<>>
  /\ Goto("stopped")
  /\ UNCHANGED <<config, port, portLocked, portMab, locked, running, stations, granted>>

(* Hostapd dies and leaves the port as it is. *)
Crash ==
  /\ phase # "stopped"
  /\ queue' = <<>>
  /\ DropStations
  /\ Goto("stopped")
  /\ UNCHANGED <<config, port, portLocked, portMab, fdb, locked, running, granted>>

-----------------------------------------------------------------------------
(* The handlers of the event loop.                                         *)
Ready == phase = "running"
Room == Len(queue) < MaxQueue

(* hostapd_event_new_sta and ieee802_1x_new_station *)
NewSta(m) ==
  IF sta[m] # "absent" THEN UNCHANGED <<sta, mode, timer>>
  ELSE /\ sta' = [sta EXCEPT ![m] = "unauthorized"]
       /\ mode' = [mode EXCEPT ![m] = "new"]
       /\ timer' = [timer EXCEPT ![m] = mac_auth # "off"]

(* Mutated form: running is updated before it is compared. *)
Newlink_UpdateFirst ==
  /\ Ready /\ queue # <<>> /\ Head(queue).kind = "link"
  /\ running' = Head(queue).running
  /\ queue' = Tail(queue)
  /\ UNCHANGED <<config, port, portLocked, portMab, fdb, phase, locked, stations, granted>>

(* driver_wired_linux_event_rtm_newlink: "lock port again when going down" *)
Newlink ==
  /\ Ready /\ queue # <<>> /\ Head(queue).kind = "link"
  /\ LET now == Head(queue).running
         down == running /\ ~now
         lock == down /\ ~multi_auth
     IN  /\ running' = now
         /\ IF lock THEN SetPortLocked(TRUE) ELSE UNCHANGED <<portLocked, portMab, locked>>
         /\ fdb' = IF down THEN Flushed(fdb) ELSE fdb
         /\ granted' = IF down THEN {} ELSE granted
         /\ queue' = Tail(queue)
                     \o (IF lock THEN Link(Running) ELSE <<>>)
                     \o (IF down THEN FlushedTells(fdb) ELSE <<>>)
  /\ UNCHANGED <<config, port, phase, stations>>

(* driver_wired_linux_event_rtm_newneigh *)
Newneigh ==
  /\ Ready /\ queue # <<>> /\ Head(queue).kind = "new"
  /\ IF Head(queue).locked THEN NewSta(Head(queue).mac)
                           ELSE UNCHANGED <<sta, mode, timer>>
  /\ queue' = Tail(queue)
  /\ UNCHANGED <<config, port, portLocked, portMab, fdb, phase, locked, running,
                 request, granted>>

(* Mutated form: "TODO: do we care?" *)
Delneigh_Ignored ==
  /\ Ready /\ queue # <<>> /\ Head(queue).kind = "del"
  /\ queue' = Tail(queue)
  /\ UNCHANGED <<config, port, portLocked, portMab, fdb, phase, locked, running,
                 stations, granted>>

(* driver_wired_linux_event_rtm_delneigh: the station is freed, with its   *)
(* timer and its request; the port is left as it is.                       *)
Delneigh ==
  /\ Ready /\ queue # <<>> /\ Head(queue).kind = "del"
  /\ LET m == Head(queue).mac
     IN  /\ sta' = [sta EXCEPT ![m] = "absent"]
         /\ mode' = [mode EXCEPT ![m] = "new"]
         /\ timer' = [timer EXCEPT ![m] = FALSE]
         /\ request' = [request EXCEPT ![m] = FALSE]
  /\ queue' = Tail(queue)
  /\ UNCHANGED <<config, port, portLocked, portMab, fdb, phase, locked, running, granted>>

HandleMessage == Newlink \/ Newneigh \/ Delneigh

(* handle_data: a frame may be read long after it came.  The core may then *)
(* ask the RADIUS server.                                                  *)
Eapol(m) ==
  /\ Ready
  /\ sta' = [sta EXCEPT ![m] = IF @ = "absent" THEN "unauthorized" ELSE @]
  /\ mode' = [mode EXCEPT ![m] = "pae"]
  /\ timer' = [timer EXCEPT ![m] = FALSE]
  /\ request' \in {request, [request EXCEPT ![m] = TRUE]}
  /\ UNCHANGED <<config, port, bridge, phase, locked, running, granted>>

(* handle_dhcp *)
Dhcp(m) ==
  /\ Ready /\ mac_auth = "software"
  /\ NewSta(m)
  /\ UNCHANGED <<config, port, bridge, phase, locked, running, request, granted>>

(* ieee802_1x_handle_eap_rx_timeout *)
EapRxTimeout(m) ==
  /\ Ready /\ timer[m]
  /\ timer' = [timer EXCEPT ![m] = FALSE]
  /\ mode' = [mode EXCEPT ![m] = "mab"]
  /\ request' = [request EXCEPT ![m] = TRUE]
  /\ UNCHANGED <<config, port, bridge, phase, locked, running, sta, granted>>

(* ieee802_1x_receive_auth of the last request, for a station that is in   *)
(* mode "mab" when the answer arrives.                                     *)
AccessAccept(m) ==
  /\ Ready /\ Room /\ request[m] /\ mode[m] = "mab"
  /\ request' = [request EXCEPT ![m] = FALSE]
  /\ Authorize(m)
  /\ UNCHANGED <<config, port, phase, running, mode, timer>>

AccessReject(m) ==
  /\ Ready /\ Room /\ request[m] /\ mode[m] = "mab"
  /\ request' = [request EXCEPT ![m] = FALSE]
  /\ Deauthorize(m)
  /\ UNCHANGED <<config, port, phase, running, mode, timer>>

(* The core's EAPOL state machine of a supplicant takes any other answer,  *)
(* and de-authorizes at a log-off, a timeout or a failed reauthentication. *)
EapolAccept(m) ==
  /\ Ready /\ Room /\ request[m] /\ mode[m] = "pae"
  /\ request' = [request EXCEPT ![m] = FALSE]
  /\ Authorize(m)
  /\ UNCHANGED <<config, port, phase, running, mode, timer>>

EapolRefuse(m) ==
  /\ Ready /\ Room /\ mode[m] = "pae"
  /\ request' = [request EXCEPT ![m] = FALSE]
  /\ Deauthorize(m)
  /\ UNCHANGED <<config, port, phase, running, mode, timer>>

-----------------------------------------------------------------------------
(* The kernel and the stations.                                            *)
(* A port stays with its master: taking it out of the bridge and back would *)
(* reset its flags, and is not a behaviour of this model.                  *)
Attach ==
  /\ ~attached /\ attached' = TRUE
  /\ UNCHANGED <<config, up, carrier, bridge, phase, locked, running, stations, granted>>

Plug ==
  /\ ~carrier /\ Room
  /\ carrier' = TRUE
  /\ Tell(IF up THEN Link(TRUE) ELSE <<>>)
  /\ UNCHANGED <<config, attached, up, portLocked, portMab, fdb, phase, locked, running,
                 stations, granted>>

(* A port that goes down loses its entries, before it is told or after. *)
Unplug ==
  /\ carrier /\ Room
  /\ carrier' = FALSE
  /\ fdb' = Flushed(fdb)
  /\ LET told == IF up THEN Link(FALSE) ELSE <<>>
     IN  Tell(told \o FlushedTells(fdb)) \/ Tell(FlushedTells(fdb) \o told)
  /\ UNCHANGED <<config, attached, up, portLocked, portMab, phase, locked, running,
                 stations, granted>>

(* A frame of a source without an entry: learned, or with MAB noted. *)
Send(m) ==
  /\ attached /\ Running /\ Room /\ fdb[m] = "none"
  /\ portLocked => portMab
  /\ fdb' = [fdb EXCEPT ![m] = IF portLocked THEN "locked" ELSE "open"]
  /\ Tell(Heard(<<Neigh("new", m, fdb'[m])>>))
  /\ UNCHANGED <<config, port, portLocked, portMab, phase, locked, running, stations,
                 granted>>

Age(m) ==
  /\ fdb[m] # "none" /\ Room
  /\ fdb' = Without(fdb, {m})
  /\ Tell(Deleted(fdb, {m}))
  /\ UNCHANGED <<config, port, portLocked, portMab, phase, locked, running, stations,
                 granted>>

Lifecycle == \/ Start \/ AwaitBridge \/ LockPort \/ FlushPort \/ SetPortUp
             \/ Stop \/ SetPortDown \/ UnlockPort \/ Clear \/ Crash

Station(m) == \/ Eapol(m) \/ Dhcp(m) \/ EapRxTimeout(m)
              \/ AccessAccept(m) \/ AccessReject(m) \/ EapolAccept(m) \/ EapolRefuse(m)

Kernel == Attach \/ Plug \/ Unplug \/ \E m \in Macs : Send(m) \/ Age(m)

Next == Lifecycle \/ HandleMessage \/ (\E m \in Macs : Station(m)) \/ Kernel

Spec == Init /\ [][Next]_vars

(* The event loop reads its netlink socket. *)
Fairness == WF_vars(HandleMessage)

FairSpec == Spec /\ Fairness

-----------------------------------------------------------------------------
(* Properties.                                                             *)

Passes(m) == attached /\ Running /\ (~portLocked \/ fdb[m] = "open")

(* From the moment the port is configured until hostapd has left it, a     *)
(* locked port passes only stations hostapd authorized, and the port is    *)
(* unlocked only after it authorized one, through restarts after a crash   *)
(* included; deinit takes the port down before it unlocks it.              *)
NoTrafficWithoutGrant ==
  phase \in {"up", "running", "unlock", "clear"} =>
    \A m \in Macs : Passes(m) => IF portLocked THEN m \in granted ELSE granted # {}

(* Kernel MAB: once its messages are read, hostapd knows of every device   *)
(* that waits behind a locked entry, so that it will try to authenticate   *)
(* it; the kernel does not report the device again.                        *)
NoForgottenDevice ==
  Ready /\ queue = <<>> => \A m \in LockedEntries(fdb) : sta[m] # "absent"

(* Kernel MAB: once its messages are read, a device authorized by its      *)
(* address is served; a session whose entry is gone has ended.             *)
AuthorizedIsServed ==
  Ready /\ queue = <<>> /\ mac_auth = "kernel" /\ Running =>
    \A m \in Macs : sta[m] = "authorized" /\ mode[m] = "mab" => Passes(m)

Departures(m) == {i \in DOMAIN queue : queue[i].kind = "del" /\ queue[i].mac = m}

(* Authorizing a station does not by itself make the kernel report that    *)
(* the station left: "unlocking the neigh first before unlocking the port, *)
(* properly keeping the STA active".                                       *)
AcceptKeepsStation ==
  [][\A m \in Macs : sta[m] # "authorized" /\ sta'[m] = "authorized"
                     => Departures(m)' = Departures(m)]_vars

(* Single authentication: every loss of the link that hostapd has not yet  *)
(* noticed locks the port, "lock port again when going down".              *)
LossLocks ==
  ~multi_auth /\ Ready /\ running /\ ~Running ~> ~Ready \/ portLocked

(* Single authentication: a port does not stay unlocked when its last      *)
(* station is deleted ("deleting the STA from hostapd, but keeping the     *)
(* port unlocked. Fix this ...").                                          *)
UnlockedHasStation ==
  ~multi_auth /\ Ready /\ queue = <<>> /\ ~portLocked =>
    \E m \in Macs : sta[m] = "authorized"
=============================================================================
