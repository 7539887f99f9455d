# A TLA+ verification of meta-bisdn-linux

`meta-bisdn-linux` is the layer from which BISDN Linux, a network operating
system for whitebox switches, is built.  Most of it is build metadata.  The
code of its own that runs on a switch is modelled here: the kernel drivers of
the Accton CSP7551 (FPGA I2C masters, CPLDs, SFP/QSFP ports), the wired 802.1X
port driver and MAC authentication patched into hostapd, the installer with
its backup of the configuration, and a few tools that switch boot modes and
controllers.  Paths below are relative to the repository; the drivers are in
`recipes-kernel/accton-csp7551-mods/files/`.

## The system

| component | state it keeps | operations | used by |
|---|---|---|---|
| FPGA SMBus masters (`fpga_driver.c`) | one semaphore per channel; the registers of each I2C core | `fpga_smbus_read`, `fpga_smbus_write` with their error paths | user processes through ioctl; kernel drivers through the i2c core (`fpga_smbus_access`) |
| FPGA life cycle (`fpga_driver.c`) | mapped BAR, adapters, char device, class | `fpga_pci_probe` with unwinding, `fpga_pci_remove`, `fpga_init_smbus` | PCI core, module loading |
| CPLD driver (`accton_i2c_cpld.c`) | list of clients under `list_lock`; per client `update_lock` | attributes for presence, module reset, raw access; `accton_i2c_cpld_read/_write` for other drivers | sysfs, SFP driver |
| QSFP/SFP ports (`x86-64-accton-csp7551-sfp.c`) | per port: presence bits, a 1.5 s cache of the module's status, `update_lock` | sysfs attributes: presence, tx fault, tx disable, rx loss, reset, low power | sysfs; calls the CPLD driver and the i2c adapter |
| SFF EEPROM file (same file) | selected page of the module | read and write at an offset, in pages and chunks | sysfs |
| hostapd `wired_linux` driver and MAB (`recipes-connectivity/hostapd/files/*.patch`) | port locked, running, station table, MAB timer; the kernel's bridge port and forwarding entries | init, deinit, netlink events, authorize a station, timer, RADIUS answers | hostapd's event loop, kernel, RADIUS server |
| backup and restore (`scripts/installer/lib/backup.sh`) | a directory with the files to keep, lists of enabled and disabled services | `create_backup`, `restore_backup` | installer |
| installer (`scripts/installer/`) | partitions, boot loader, ONIE mode | one long sequence of steps | ONIE |
| ONIE tools (`recipes-extended/onie-tools`) | ONIE boot mode, one-time boot entry, kernel arguments | upgrade, rescue, uninstall | administrator |
| controller selection (`basebox-change-config`) | configuration files, enabled and running services | local, remote | administrator |

Drivers call each other synchronously (an SFP attribute reads a CPLD register
through the i2c core, which drives an FPGA master); what they share is the
hardware's registers, guarded by different locks: the channel semaphore of the
FPGA, the CPLD's `list_lock`, each CPLD client's and each port's `update_lock`.
Hostapd is a single-threaded event loop that shares the bridge port and its
forwarding entries with the kernel and learns of the kernel's steps only
through netlink messages.  The scripts share files with whatever runs before
and after a reboot.

What is hard, component by component, is the list `hazards` of `PROJECT.json`.
In short: error paths that must give locks back and must not leave commands
behind in the hardware; polls that run out while the hardware goes on; caches
and shared bits read after the lock was given back; read-modify-write under
different locks; a crash between destructive steps; events that arrive late.

What makes each component correct, in a sentence: an FPGA channel behaves as if
each transfer were one atomic access of a slave, whatever fails; a port's
attributes describe the module that is plugged, an access changes only what it
was asked to and always returns; two drivers never undo each other's bits of a
CPLD register; an EEPROM read returns the bytes of the pages it covers; a
locked port carries no traffic of a station that is not authorized; a file the
user asked to drop is not restored and one he asked to keep is; an interrupted
upgrade leaves something that boots; one controller at most is running.

## What is modelled so far

### FPGA SMBus masters: `FpgaSmbus`, `SlaveAccess`, `FpgaSmbusRefinement`

`FpgaSmbus` models both transfer functions step by step (one action per
register access or poll that matters), any number of callers that enter through
the ioctl or through the i2c core, and the I2C core of each channel as the
environment.

* `Call`, `Refuse`: the entry points.  An access comes as the struct of the ioctl
  or as a call of the i2c core (`IoctlAccess`, `SmbusAccess`); `Transfer` is what
  becomes of it: `fpga_smbus_access` turns the size into a length, sends a block
  with its count as the first byte and passes a 16-bit address on as 8 bits.
  `Refused` are the code's checks: of length and offset in the ioctls, of address
  and channel in the transfer functions.  `Down`, `Interrupted`:
  `down_interruptible` on the channel's semaphore; a written `I2C_SMBUS_BYTE` comes
  without data, and copying them then ends the thread (`"dead"`).  `Issue`, `Load`, `Command`: the write to TXR and CR for the next
  byte.  `TipDone`, `TipTimeout`: the poll of TIP.  `AckSeen`, `NoAck`: the test
  of RxACK.  `Fetch`, `Finish`, `FinishTimeout`: the last byte and the wait for
  BUSY to clear.  `Disable`, `Enable`, `Restop`, `GiveUp`: the label
  `device_busy`.  `NackStop`, `NackStopped`, `NackTimeout`: the label `no_ack`.
  `Up`, `Return`: the way out.
* `CoreStart`, `CoreWrite`, `CoreRead`, `CoreStop` (external): the core takes
  the pending command at any later moment or never, the slave answers or not.
  The last byte of a read is a command with STOP: the byte first, then, in a step of
  its own, the STOP that clears BUSY.  That order is assumed of the hardware; what
  is checked is that the driver takes the byte only after BUSY is clear.

`Defined` excludes two kinds of requests that the checks let pass: a channel equal to
`MAX_CHANNEL`, and more bytes (129 to 255) than `MAX_BUFF_SIZE`, which overrun the
buffers of the driver and of the caller.  What happens then C does not define, so
neither the runs nor the theorems say anything of executions with such a request.

A poll loop is abstracted to its two ends, "the bit is clear" and "it was still
set when the retries ran out".  A command written while another is pending is
undefined in hardware; it either replaces it or is dropped.  That happens: after
a failed `device_busy` the STOP may still be pending when the next caller starts.
`SlaveAccess` is the abstract specification: a slave's registers change by one
atomic write of one caller's bytes, or a part of them when an error is reported.
`FpgaSmbusRefinement` maps `FpgaSmbus` onto it, with one history variable (the
slave's contents when a caller got the channel).

Not modelled: the SPI ioctls (they access raw registers under no lock), failures
of `copy_from_user`, the i2c core's own adapter lock and retries, and anything
before `fpga_init_smbus`.

### QSFP ports: `QsfpPort`

Any number of threads access the attributes of one port whose presence bit is
in one of several CPLD registers.  A thread's location `pc` names the statement
it stands before.  `LockPresent` ... `UnlockPresent` are `sfp_update_present`
and `sfp_update_present_by_port`; `TestPresent` is what every attribute does
with `data->present` after the unlock; `CheckCache` ... `UnlockStatus` are
`qsfp_update_tx_rx_status`; `Show` and `Modify` ... `UnlockSet` are the two uses
of the cache.  Environment: `Expire` (1.5 s pass), `Swap` (a module is plugged
or unplugged), `Flicker` (the link comes and goes), and the failure of any
register access.  `Disturbances` says which of them a configuration allows.

Merged into one step: taking the lock with the assignments right after it, and
the three reads of the first round in `qsfp_update_tx_rx_status`, whose results
are dropped.  A write that fails may or may not have reached the module.  Not
modelled: the SFP (MSA) variant of the cache, which no port reaches
(`sfp_device_probe` never assigns that driver type), and the EEPROM file, which
changes registers behind the cache and has a module of its own.

### CPLD registers under two drivers: `CpldRegs`

The reset, low-power and presence registers of the two CPLDs, each bit a port,
and the two drivers that read, change and write them back: the CPLD driver's
own attributes (`show_bit`, `set_1bit`, `access`, `show_presnet_all`) under the
CPLD's mutex, and the port driver's `get/set_mode_reset` and
`get/set_lp_mode_sel` under the port's mutex, through `accton_i2c_cpld_read`
and `_write`, which hold `list_lock` for one transfer each.  `Target`, `Bit`,
`Shown` and `Modified` are the two drivers' arithmetic: where a port's bit is
and with which sense, which is opposite in the two.  `Call`, `Lock`, `Find`,
`Read`, `Write`, `Unlock`, `Return` are the steps of an access, with
`ReadFails`, `WriteFails` and `...NoClient` for its failures; an error code
keeps its low byte where the code keeps it in a `u8` (`ErrorBytes`).  Each CPLD
has a life: `ProbeGroup` ... `ProbeAddClient` and `Remove` ... `RemoveClient`,
where deleting the attributes waits for the accesses inside them, as sysfs does.

The value a user writes is "0", "1" or something that does not parse.
`cpld_write_internal` tries ten times: `WriteRetry` is a try that failed but reached
the register, after which the same byte is written again; any number of them may
come before `Write` or `WriteFails`, the last try.  Tries that reached nothing, and
those of `cpld_read_internal`, change nothing and are left out.  The port driver's
writes are not retried.  The variable
`since` is history: the mutexes under which others wrote a register since a
thread read it.

### The EEPROM file: `SffEeprom`

A module's memory in the file is the lower half and a row of pages; the i2c
device shows two halves, of which the upper one is the selected page.  One
action per step of an access: `CheckPresent`, `Lock` (with the short way through
`sff_8436_page_legal`), `Probe`, then per chunk `NextChunk`, `Select`, one
`Move` per transfer of the adapter (the FPGA's adapters offer words and bytes,
so a read moves one or two bytes and a write one), `Restore`, `EndChunk`, and
`Complete`.  A chunk may be empty after a failed probe; it moves nothing
(`MoveAny`).  Every transfer may fail (`...Fails`), modules may be swapped and
another master of the bus may select a page.  Lengths are unsigned values with
`Width` values, as `size_t` is, so that an error code becomes a huge length.

A byte is told by its place: `done[t]` lists where the bytes of an access were
read from or written to, which `RightBytes` compares with what the offset names.
Presence is read in one step, which may fail, since its hazards are those of
`QsfpPort`.  A page is kept in a byte (`PageWidth` values), which matters only
beyond the end of the file, where an access gets after a failed probe.

### A bridge port under hostapd: `WiredPort`

Hostapd is one event loop: each of its handlers is one action (`Newlink`,
`Newneigh`, `Delneigh`, `Eapol`, `Dhcp`, `EapRxTimeout`, `AccessAccept`,
`AccessReject`), and so is each request of the driver's init and deinit
(`AwaitBridge` ... `SetPortUp`, `SetPortDown` ... `Clear`), during which nothing
else is handled.  What runs beside it is the kernel's bridge port: `Plug`,
`Unplug`, `Send` (a frame of a source without an entry), `Age`.  Each of these,
and each request of hostapd, appends netlink messages to `queue`, which
hostapd reads later, in order.  `Authorize` and `Deauthorize` are the driver's
`set_sta_authorized` as patch 0010 leaves it, with `ieee802_1x`'s flag before
it.  `Crash` ends hostapd at any point and leaves the port as it is.

External, modelled from what the driver relies on: a locked port passes only
sources with an entry that is not locked; a port with MAB notes other sources
as locked entries, and clearing MAB removes these; a port without a carrier
takes no new entry; setting the lock is itself reported as a link message; EAPOL
frames make no entry.  The neighbour messages reach hostapd only with kernel MAB
(`Listening`), as the driver subscribes to them only then.  The core's EAPOL
state machines are two actions that accept and end a session at any time
(`EapolAccept`, `EapolRefuse`).  Freeing a station does not de-authorize it in the
driver (commit message of patch 0010).

Left out or merged:

* two requests of one handler to the kernel are one step: lock and flush in
  `LockAndFlush` and `Newlink`, entry and unlock in `Authorize` (their messages keep
  their order);
* requests succeed, but for the unlock of a port that is not in a bridge, and
  messages arrive late but are not lost;
* a port that joined the bridge stays in it (listed as a hazard).  Taking it out and back while hostapd
  runs resets the bridge's flags of the port, and the driver, which locks it in init
  and after a loss only, would not lock it again;
* the core's other timers that free a station (Session-Timeout, inactivity).

## Runs

| run | configuration | what it asks |
|---|---|---|
| `fpga_smbus` | 2 callers, 1 channel, 1 slave, reads and writes of up to 2 data bytes by both entry points, one of them without data, one at an address that is truncated; requests that each check refuses and ones that `Defined` excludes | `TypeOK`; `OneOwner`: one thread at a time drives a core; `NoOrphanCommand`: a transfer that ended leaves no byte command to be carried out later; `CleanHandover`: the next caller finds an idle bus unless it was told of the failure before; `SuccessMeansTransferred`; `OnlyOwnerWrites`: a slave only receives bytes of a caller that holds the channel; `ImplementsSlaveAccess`; `CallReturns` |
| `qsfp_steady` | 2 threads, 2 ports in 2 registers, 2 lanes, module stays and answers, the cache expires at any time | `TypeOK`, `CacheAgrees`, `OtherLanesKept`, `SetTakesEffect`: accesses that interleave in the gap where the lock is given up leave no stale word in the cache or the module |
| `qsfp_faults` | the same ports and registers with swaps and failures of CPLD and module; presence of one port and of all, and sets | `LockDiscipline`, `NoHalfCache`, `PresenceHonest`, `SetTakesEffect`, `AccessReturns` |
| `cpld_shared` | 2 threads, two ports in one register and one of the other CPLD, sets of both drivers, raw writes, all presence registers; transfers that fail, and tries that failed but were carried out; one CPLD unbound and bound again | `TypeOK`; `LockDiscipline`: each mutex is held exactly between its lock and unlock, on every path; `NoTransferToGone`: no transfer through a client that was taken off the list, no removal under an access; `OwnLockSerialises`: what a thread is about to write is only stale because of accesses under another mutex; `SetTakesEffect`; `AccessReturns`, `RemoveEnds` |
| `sff_eeprom` | 2 threads, halves and pages of 4 bytes, 3 pages, modules with and without pages, failures of transfers and of the presence check, swaps, another master | `TypeOK`; `RightBytes`: the bytes reported are those that were asked for; `FullLength`: nothing is missing if nothing failed; `PageRestored`: page 0 is selected again on every way out; `AccessReturns` |
| `wired_port` | 2 stations, all 6 configurations, at most 3 messages before the environment waits | `TypeOK`; `NoTrafficWithoutGrant`: nothing passes that was not authorized, through restarts and crashes; `NoForgottenDevice`: no device waits behind a locked entry without hostapd knowing; `AuthorizedIsServed`; `AcceptKeepsStation`: authorizing does not make the kernel report that the station left; `LossLocks`: after a lost link the port is locked at some moment |
| `cpld_failed_read` | 2 threads | violated: see findings |
| `sff_legal` | 1 thread | violated: see findings |
| `wired_unlocked` | 1 station, single authentication, kernel MAB | violated: see findings |
| `qsfp_tx_fault` | 1 thread | violated: see findings |
| `qsfp_failed_write` | 1 thread, failing accesses | violated: see findings |
| `qsfp_absent` | 2 threads | violated: see findings |

Bounds.  Two callers are enough for the lock properties, since a third would
only wait where the second does; one channel is, since channels share nothing.
Two data bytes distinguish the first, a middle and the last byte of a frame
(the register address being the first).  Two lanes distinguish the asked lane
from another one; two presence registers distinguish the port's own from
another's.  In `CpldRegs` two ports of one register are all that a lost update
needs, and the third is in the other CPLD, whose numbers start anew.  In
`SffEeprom` a page of four bytes has a first, a last and two inner bytes, so that
chunks begin and end at each kind of place with odd and even lengths; three pages
give a page that is neither the first nor the last; 40 values of a `size_t` are
more than twice the file, so that what wraps is not a length of the file; 4 values of
a page are more than the file has, and fewer than a failed probe leads to; the
read of 8 bytes at offset 1 comes, after a failed probe, to an empty chunk.
`AccessReturns` says of such an access that it ends; in the code it has almost 2^64
bytes to go and ends long before, at a transfer that fails or a fault at the user's
buffer.  In
`WiredPort` one station is authorized while another is not; a handler may push
the queue beyond `MaxQueue`, which only stops the environment.  Symmetry is not
used, because of the liveness properties.  The proofs remove these bounds for the properties they cover.

Fairness.  `CallReturns` assumes that a thread that is not blocked is scheduled
(weak fairness of its own steps) and that the kernel's semaphore, which hands
itself to the first waiter, is not withheld from a waiter for ever (strong
fairness of `Down`).  Nothing is assumed of the hardware: it may never answer.  The
property excepts a thread that died of a `BYTE` without data, and those that wait
for the semaphore it never gave back.
`AccessReturns` assumes strong fairness of each thread's steps, the kernel mutex
handing over to waiters, and nothing of the environment; in `CpldRegs` the same
holds of the task that unbinds a CPLD (`RemoveEnds`).  `LossLocks` assumes weak
fairness of reading the next netlink message, which is what the event loop does,
and nothing of the kernel, the stations or the RADIUS server.

Every property has a mutant: an operator beside the definition it replaces,
named after it (`TipTimeout_NoReset`, `Disabled_Others`, ...) and marked as a
mutated form, which breaks the property as a plausible slip in that code would.

## Findings

* `qsfp_tx_fault`: the words of the cache are filled in the order fault,
  disable, loss, as the structure's comment says, but shown in the opposite
  order: `sfp_tx_fault` shows the loss of signal and `sfp_rx_los` the fault.
* `qsfp_failed_write`: a TX-disable write that failed stays in the cache, which
  is still marked valid: for up to 1.5 s reads show what the module never took,
  and a write of another lane sends it after all.
* `qsfp_absent`: the presence bits are zeroed (all present) at the start of a
  refresh and tested after the lock was given back, so an access sees another's
  zeros and reports a port present that holds no module.
* `cpld_failed_read`: `set_1bit` keeps the register in `value` but tests
  `status`, which still holds `kstrtol`'s 0.  After a failed read the error code's
  low byte, with the port's bit changed, is written: the seven other ports of the
  register are reset or released.  The port driver does the same with a `u8`.
* `sff_legal`: `sff_8436_page_legal` returns errors as negative values, but the
  caller keeps them in a `size_t` that is never negative.  After a failed probe the
  access goes on with a length of nearly 2^64 and moves bytes behind the end of
  the user's buffer until a transfer fails.
* `wired_unlocked`: patch 0010 describes a station deleted from hostapd while the
  port stays unlocked as the bug it fixes.  With kernel MAB and single
  authentication the same state is reached when the authorized station's entry
  ages out: `rtm_delneigh` frees the station and nothing locks the port.

Learned on the way, without a document to contradict: after `-EBUSY` from
`device_busy` the next caller's `no_ack` path may report `-ETIMEDOUT` while its
own STOP is still pending, because `fpga_smbus_check_busy` looks only at the bus.
`CleanHandover` is stated accordingly.  Sets of two ports that share a CPLD
register undo each other when they use the port driver (one mutex per port) or
the two drivers; `OwnLockSerialises` says which do not.  The `module_reset`
attribute of the CPLD driver and `sfp_mod_rst` of the port driver have opposite
senses.  The FPGA adapters announce `I2C_FUNC_SMBUS_BYTE`, but a byte to write comes
as the command, with NULL data: the copy (`fpga_driver.c:526`) kills the thread while
it holds the channel.  Lengths above 128 and channel 34 pass the ioctl's checks.  A CPLD whose list node could not be allocated is bound but invisible to
the port driver, whose sets still report success.  After a short chunk an EEPROM
access returns that chunk's count alone, not the sum.  A RADIUS answer that
arrives after the loss of the link was handled unlocks the port, with its link
down; a station with software MAB stays authorized in hostapd over a loss while
its port is locked, and its DHCP frames do not start anything, since it is known.
A station that once sent an EAPOL frame is never tried by its address again.
Without software MAB `dhcp_sock` stays 0 and deinit closes descriptor 0.

Learned from proofs that did not go through: an access that runs past a failed
probe can reach an empty chunk, for which the code's `while (count)` transfers
nothing; an earlier `SffEeprom` moved a byte there, and TLC confirmed the
counterexample to `TypeOK` once a run had such a request.  A transfer must not be
longer than the slave's address space, or it would write over its own bytes and
`SuccessMeansTransferred` would be false; no transfer that the driver's buffer holds
is, since `BuffSize` is at most `ByteSize`.

## Proofs

`FpgaSmbusProofs` proves `TypeCorrect` and `MutualExclusion` for any callers,
channels, slaves, requests and register values.  Their inductive invariant
`IInv` is `TypeOK /\ LoopInv /\ OneOwner`.  `LoopInv` says where a thread may be
in which phase of a frame and that the byte counter still fits its request
inside the loop, which is what keeps the counter from going below zero and the
indices into the caller's buffer within its length; `OneOwner` is what excludes
that two threads take a semaphore from 1 to -1, or give it back twice.

`FpgaSmbusTransferProofs` proves what a transfer leaves behind:
`NoCommandLeftBehind`, `HandoverIsClean`, `SuccessIsTransfer` and `OwnerWrites`.
`SuccessIsTransfer` holds for every length up to `BuffSize`: `Defined` leaves no longer
one in `Requests`, and none of the assumptions says more of lengths.
`TransferInv` relates the place of a channel's owner in its frame to the core's
registers, the wires and the slave:

* `ChannelOK`: the core is still `Working` on the command of the owner's phase, from
  wires that were `Ready` for it, or has `Done` it; a START that was dropped, which
  leaves the wires closed with an old RxACK, is one of the cases.
* `BytesOK`: the bytes counted as moved are those of the slave, so that a success
  at the end means that all are.
* `FreeOK`: a free channel's core is enabled and at most a STOP is pending.  It is
  what the next caller may rely on, and all that `device_busy` provides.

`FpgaSmbusRefinementProofs` proves `DriverImplementsSlaveAccess`: every step of the
driver and its cores, with the history variable, is a step of `SlaveAccess` or
leaves its variables unchanged.  An access takes effect when its caller gives the
channel back.  `SnapInv` says what is needed there: since its owner took the
channel a slave has only changed in the first n bytes of the owner's request,
where n is what it moved, or one more while the core's answer is not read yet.

`QsfpPortProofs` proves, for any threads, ports, registers, lanes and requests:

* whatever the environment does, `TypeCorrect`, `LockDisciplined` and
  `NoHalfCacheServed`.  The inductive invariant `IInv` adds `IndexInv` (each
  loop stays within its array) and `NoErrorYet` (an error is answered at once).
  The lock discipline is proved once for each way an action treats the lock
  (`AcquireKeeps`, `ReleaseKeeps`, `GotoKeeps`); that a cache is valid only when
  complete follows, since the thread that completes it is alone.
* for a module that stays plugged and answers (`Steady`), `CacheAgreesSteady`
  and `OtherLanesKeptSteady`.  Neither is inductive: a thread gives up the lock
  between refreshing the cache and changing a lane.  `SteadyInv` says what
  survives the gap: whoever is past the refresh finds the cache valid or being
  refreshed (`CacheReady`), so that when it has the lock again the word it
  changes is the module's (`ChangeReady`).  The runs show that the assumption is
  needed: `qsfp_failed_write` violates `CacheAgrees` with failing writes.
* whatever the environment does, `SetTakesEffectHolds`, because the word a thread
  is about to write has its lanes as asked until it wrote it (`WriteReady`), and
  `PresenceHonestHolds`.  There `PresenceInv` follows the refresh register by
  register: the ports whose bits say present, among the registers read so far,
  held a module at some time of the access (`Covered`).  After the lock is given
  up this holds only of an access that no other refresh disturbed, which is the
  exception the property makes and the finding `qsfp_absent` is about.

`CpldRegsProofs` proves `TypeCorrect`, `LockDisciplined`,
`NoTransferToGoneHolds`, `OwnLockSerialisesHolds` and `SetTakesEffectHolds` for
any threads, requests, error bytes and removable CPLDs, and `SameRegister`: the
port driver's table and the CPLD driver's arithmetic name the same register for
each port.  To the properties the inductive invariant adds

* `ListedLive`, only a bound CPLD is on the list.  Together with the list's
  lock, which a transfer holds and a removal needs, it gives
  `NoTransferToGone`.
* `SetInv`, what a set knows between its steps: its value parsed, the byte it
  is about to write is some byte with its bit changed, its write is to come.

`OtherStep` and `StoreNoticed` say once what another thread's step can do to a
thread: nothing, or store a byte in its register, which `since` records under
that thread's mutex.  Two threads of one mutex are excluded by the lock
discipline, which is the whole reason why an own mutex serialises.

`SffEepromProofs` proves `PageRestoredHolds` for any page size and number of
pages, any threads, accesses, modules and disturbances.  `PageRestored` speaks
of a free port only.  The inductive `PageInv` says what holds in between: while
page 0 is not selected without an excuse, the one holder of the mutex is moving
bytes of an upper page or about to restore (`Restores`).  It needs of the types
only that the locals are integers.

`SffTransferProofs` proves `TypeCorrect`, `FullLengthHolds` and `RightBytesHolds`,
over the same parameters.  It begins with the arithmetic of chunks (`Base`, `Quot`)
and of a `size_t` (`Wrap`).

* `TypeInv`.  A failed probe turns the length into the greatest `size_t`, so the
  bounds do not follow from the request.  What holds even then (`Counts`): what was
  transferred and what is pending add up to the length exactly, and no
  chunk begins after the last one.
* `AccessInv`.  For an access whose module nobody changed and whose end is known
  (`Fits`), `Working` says where it is: `Whole` between chunks, `Cut` within one,
  the bytes moved so far are the right ones (`Bytes`) and the page they need is
  selected (`Selected`).  `Reported` says what is left of it when only the mutex is
  still to be given back.  For the other accesses, which the two properties
  excuse, `Remembers` keeps why they are excused.

`WiredPortProofs` proves, for any stations (finitely many), configurations and
queue bound, first `NoTrafficWithoutGrantHolds`.  `GrantInv` adds what the order of
start and stop provides: the port is locked before it is flushed and set up, nothing
unlocks it under multiple authentication, and it is down when deinit unlocks it.
Then it proves

* `TypeCorrect`, with what `TypeOK` says of the lock: the driver's copy of it is
  the port's once it was set.  `PlaceInv` adds that a port that does not run has no
  entries (`Closed`) and hostapd has stations only while it runs.
* `NoForgottenDeviceHolds` and `AuthorizedIsServedHolds`, which speak of an empty
  queue.  `MabInv` says of every station what hostapd knows or will know when it
  has read its messages (`Known`): a device that waits has a station or the message
  that it waits is in the queue; a device that hostapd serves by its address has
  its entry or the message that it left is.  Every action of the kernel and of
  hostapd is shown to append messages that tell what it did to the entries
  (`Told`); `ToldTwice` composes those of an action that does two such things.
* `AcceptKeepsStationHolds`: authorizing a station never appends a message that
  it left.

The proofs assume the named assumptions on the constants (`FpgaAssumption`,
`QsfpAssumption`, `CpldAssumption`, `SffAssumption`, `WiredAssumption`), which
TLC evaluates in the runs.

Only model-checked are the liveness properties `CallReturns`, `AccessReturns` (of
`QsfpPort`, `CpldRegs` and `SffEeprom`), `RemoveEnds` and `LossLocks`: TLAPS as used
here cannot reason about ENABLED and fairness.  All other properties of the passing
runs are theorems.  The violations are TLC's: a counterexample needs no proof.
`SlaveAccess` has no theorem of its own; it is the specification.

## Plan

What is left, in this order; the theorems go with each module.

1. `FpgaLifecycle`: probe with an error at every step, remove with transfers under
   way.  Reading found that a probe that fails after `cdev_add` never deletes the
   device, that `free_irq` and `iounmap` depend on `INTERRUPT_SUPPORT`, and that
   remove unmaps the registers before it deletes the adapters.
2. `ConfigBackup`: what `create_backup` and `restore_backup` keep, against the
   promises of `user-backup.txt`; `Installer` on top of it, with a crash between
   any two steps.
3. `OnieTools`, `ChangeConfig`: short sequences with a failure or a reboot at
   every step.

## Not modelled, and why

The FPGA's life cycle, the probe and removal of ports, backup, installer, ONIE
tools and controller selection are not modelled yet (see the plan); their hazards
are listed.  The SFP (MSA) variants in the port driver cannot be reached.
Recipes, images and machine configurations are declarative.  The patches of
libnl, frr, systemd, ryu, iproute2 and grpc change single functions of projects
whose code is not here.  `switch_tcpdump`, the preinst runner and the platform
initialisation keep no state.  Man pages and samples are documentation.

## Running it

    tlc -workers 2 -config MCFpgaSmbus.cfg MCFpgaSmbus
    tlc -workers 2 -config MCQsfpSteady.cfg MCQsfpPort     # and the other MCQsfp*.cfg
    tlc -workers 2 -config MCCpldShared.cfg MCCpldRegs     # and MCCpldFailedRead.cfg
    tlc -workers 2 -config MCSffEeprom.cfg MCSffEeprom     # and MCSffLegal.cfg
    tlc -workers 2 -config MCWiredPort.cfg MCWiredPort     # and MCWiredUnlocked.cfg
    tlapm FpgaSmbusProofs.tla
    tlapm FpgaSmbusTransferProofs.tla
    tlapm FpgaSmbusRefinementProofs.tla
    tlapm QsfpPortProofs.tla
    tlapm CpldRegsProofs.tla
    tlapm SffEepromProofs.tla
    tlapm SffTransferProofs.tla
    tlapm WiredPortProofs.tla
