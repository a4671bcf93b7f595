# catchb: a formal model

`catchb` watches the cameras (CCTVs) of a network. It probes each camera in
turn, computes a fingerprint of what it finds, and compares that with the
fingerprint registered for the camera. A camera that shows another one is taken
for an impostor and its address is blocked at the network switch; when the right
one is back the block is lifted. This directory holds TLA+ models of that
program, the TLC configurations that check them, and TLAPS proofs about them.
All paths below are under `src/`. The repository has no design documents and
no tests: what the properties say is what the code is built to achieve.

## 1. The system

| component | source | state | operations | modelled |
|---|---|---|---|---|
| Message queue | `lib/ftm_msgq.c`, `ftm_queue.c`, `ftm_list.c` | a locked list and a counting semaphore | push, timedPop, pushQuit, destroy | `MsgQueue` |
| Camera registry (main thread) | `lib/ftm_catchb.c` | `pCCTVList`, its queue | create, delete, found in table, set state, register, set properties | `CatchB` |
| Analyzer | `lib/ftm_analyzer.c` | its own list of cameras (the *chain*), a lock | attach, detach, probe | `CatchB` |
| Detector | `lib/ftm_detector.c` | its queue | block or free an address | `CatchB`, `MsgQueue` |
| Switch access control | `lib/ftm_switch.c` | list of access controls; the switch's own rules | addAC, deleteAC, setAC | `CatchB` |
| CCTV table | `lib/ftm_db.c` | rows keyed by ID | insert, update, delete, list | `CatchB` |
| Server commands on cameras | `lib/ftm_server.c` | one command in progress per session | add, delete, set address, reset, set policy | `CatchB` |
| Server sessions | `lib/ftm_server.c`, `ftm_list.c` | slots, list of sessions, list to release | accept, serve, release, stop | `Sessions` |
| Session keys | `lib/ftm_ssid.c` | list of keys with times, initialised by its first user | create, check and note the time, expire, give up | `Keys` |
| Life of the threads | `lib/ftm_catchb.c`, `catchb/main.c`, all threads | `bStop` flags, handles, QUIT messages | start, signal, stop, join, destroy | `Daemon` |
| Packet capture | `lib/ftm_pcap.c`, `ftm_lock.c`, `ftm_analyzer.c` | a semaphore and a thread | start, capture, stop | `Daemon` |
| Notifier and alarms | `lib/ftm_notifier.c`, `ftm_catchb.c` | alarm list with one iterator, alarm table | add, delete, browse, send | `Alarms` |
| List iterator | `lib/ftm_list.c` | `pIter` | start, next, remove | `Alarms`, `Sessions` |
| Timers | `lib/ftm_timer.c` | deadlines, sorted list of events | start and stop of the thread | `Daemon`; no event is ever added |
| Switch dialogues | `lib/ftm_switch*.c`, `ftm_telnet.c`, `ftm_ssh.c` | script position, buffers | connect, step, close | no: a script that works or fails, in `CatchB` |
| Switch registry | `lib/ftm_catchb.c` | switch list | add, delete, set | no, see section 5 |
| Statistics | `lib/ftm_catchb.c` | bounded list of samples | add, cut | no, see section 5 |
| Logger | `lib/ftm_logger.c`, `ftm_log.c` | queue, retention limit | append, purge | its queue and its life only |
| Client library, CGI, shells | `lib/ftm_client.c`, `cgi/`, `lib/ftm_shell.c` | a socket | one request, one answer | no: formatting and I/O |
| Ping, port scan, score, configuration, trace, vendored code | `lib/`, `libssh`, `libtelnet` | | | no: I/O, text, third-party |

### How the parts interact

    operator -> session thread --create/delete/setIP/setStat--> [main queue]
                     |                                               |
                     | addAC                                    main thread --rows--> CCTV table
                     v                                            |     |
                 access list <---addAC/deleteAC--- detector <--[queue]  | attach / detach
                     |                                                  v   (analyzer's lock)
                  switch's rules                                    analyzer's chain
                                                                        |
                                          [main queue] <--setStat/register-- probe

* Sessions never change the registry: they post to the main thread. They do
  read it, through raw pointers, and they work on the switch's access list
  themselves (reset, set policy).
* The analyzer owns an order of its own over the same cameras. It holds its lock
  for a whole probe, which takes seconds; creating or deleting a camera waits
  for that lock in the middle of the main thread's handler. This is the only
  thing that keeps the main thread from freeing a camera that is being probed:
  `FTM_CCTV_lock` is taken by the analyzer alone.
* A finding is a message. By the time the main thread handles it the camera may
  have been deleted, added again, reset or moved.
* The detector runs scripts on the switch that take seconds and may fail, or
  fail without saying so (`FTM_SWITCH_TELNET_setAC` returns the result of
  closing the connection).
* Every session checks the key its request carries, in one list that all sessions
  share, before it does anything else; it keeps the pointer to the key's block after
  the list's lock has been given back.
* A camera that changes state makes the main thread post to the notifier, which counts
  the alarms, makes an array of that size and copies the list into it, moving the
  one iterator the list has, which sessions that look for an alarm move too.
* The main thread starts `catchb`'s thread, which starts the six others and, after a
  signal, stops them one by one in another order. The analyzer has a second thread for
  captures, which each probe wakes with a semaphore.
* Restart: the rows of the table come back as FOUND messages, which
  `FTM_CATCHB_initProcess` posts before any thread that could post another one
  runs. The list of access controls does not come back (the array read from the
  table is hidden by an inner variable of the same name) while the switch keeps
  its rules.

### What is hard, and what makes each part correct

| component | what is hard | correct if |
|---|---|---|
| queue | two critical sections per pop, a semaphore beside the list, reuse of freed addresses, time-outs | one owner per message; tokens and entries balance; FIFO, exactly once; what is queued is read |
| registry | FOUND messages are not checked; each statement of the database may fail; late findings | IDs are unique; what is in memory is in the table, with the same contents |
| analyzer | frees by another thread; its list ignores letter case, the registry's does not | a probed camera exists; every camera is in the chain once and gets its turn for ever |
| sessions | a thread per connection, joined and freed by another one; a list that shrinks under its iterator; a stop at any moment | slots balance; each session is freed once, after its thread; a stop comes to an end and leaves nothing |
| keys | a first initialisation that nothing guards, of list and lock; entries used after the lock is given back and freed meanwhile; a time that another request may just have changed | nothing is freed twice as long as the lock is not initialised while somebody holds it; an expired key is not served; a key in use stays |
| alarms | lookup and removal in two steps; blocks that are used again; one iterator for all; a table that is never deleted from, and statements whose failure nobody notices | an alarm has one owner; the iterator stays in the list; everybody is told; what is there comes back as it is, unless its INSERT failed or its name was in use |
| threads | flags that are cleared by the thread that is to obey them; a thread nobody joins | what is freed is not in use; a stop comes to an end; captures belong to probes |
| control | orders computed from pairs of states; a queue and a slow switch in between; sessions on the same list | no normal camera is blocked; an impostor is; nobody is blocked for what another did; what is blocked can be freed |

`PROJECT.json` lists every hazard at its line, with the properties aimed at it
or the reason why there is none yet.

## 2. Modules

| module | what it is |
|---|---|
| `MsgFifo` | what a queue promises: sent messages are received one at a time, in order, once |
| `MsgQueue` | the queue as coded, one step per critical section or semaphore operation; implements `MsgFifo` |
| `CatchB` | main thread, analyzer, detector, sessions, switch, table and devices together; its queues are FIFOs, which `MsgQueue` justifies; implements `Orders` |
| `Orders` | what detector and switch promise the main thread: each order to block or to free is carried out, once, in turn |
| `Connections` | what the server promises clients: a connection waits, is served (at most `MaxSession` at a time) or refused, and is closed when it is over |
| `Sessions` | the server's thread and one thread per connection; implements `Connections` |
| `Keys` | the session keys: the list, the heap, the clock and the sessions' threads |
| `Alarms` | the alarms: sessions, notifier, list with its iterator, heap, table, restart |
| `Daemon` | the main thread, `catchb`'s thread, the six workers and the capture thread, from start to destroy |
| `MCMsgQueue`, `MCCatchB`, `MCSessions`, `MCKeys`, `MCAlarms` | the sets the `.cfg` files choose from (`Daemon` needs none) |
| `ListLemmas` | what appending, joining, taking the head and `RemoveAt` do to a list, for the proofs |
| `MsgQueue_proofs` | theorems about `MsgQueue`, refinement included |
| `CatchB_proofs` | the inductive invariant of `CatchB`: types, the registry against the chain, the entry a script works on |
| `CatchB_lists_proofs` | registry and table, registry and chain, access controls and switch; who is blocked; refinement of `Orders` |
| `Sessions_proofs` | theorems about `Sessions`, refinement included |
| `Keys_proofs`, `Alarms_proofs`, `Daemon_proofs` | theorems about these modules |

Operators whose comment starts with "Variant:" are wrong versions of the one that
follows (a dropped guard, a missing reset). No specification uses them;
putting one in the place of the right one breaks the property it is listed with
under "mutants" in `PROJECT.json`, which shows that the property can fail.

### MsgQueue

A message is the heap buffer that carries it. `FTM_QUEUE_pop` reads the head
(`ListGetAt`) and then removes the entry *whose pointer is equal*
(`ListRemove`), each under the list's lock, with anything in between; freed
buffers are allocated again (`Malloc` picks any buffer that is not live), so the
ABA case is in the model. `push` is `PushEntry` then `Post`, or `PushFails`
when there is no memory for the entry. `timedPop` is `SemTimedWait` or
`Timeout`, then the two list steps, then `Repost` if either failed. `Stop` and
`Destroy` are the owner's. The queue is modelled for any number of readers;
every queue of the daemon has one.

### CatchB

| variable | in the code |
|---|---|
| `cctvs` | `FTM_CATCHB.pCCTVList`: ID, address, fingerprint, state |
| `inbox`, `detq` | `FTM_CATCHB.pMsgQ`, `FTM_DETECTOR.pMsgQ` |
| `main` | the second half of a handler that waits for the analyzer's lock |
| `chain`, `probe` | `FTM_ANALYZER.pList`; the probe in progress (`probe # None` is the lock) |
| `session` | a reset or set-policy command a session is in the middle of |
| `switching`, `acl`, `rules` | the detector's position in addAC or deleteAC; `pACList`; what the switch really blocks |
| `db` | the CCTV table |
| `world` | what a probe of an address would find now |
| `running`, `halts`, `convicted` | whether the daemon is up; ghosts: how often it ended, which addresses ever got an abnormal finding |

Each handler of the main thread is one step (`OnCreate`, `OnFound`, `OnSetStat`,
`OnRegister`, `OnSetIP`), because only the main thread changes `cctvs`; creation
and deletion are split where they wait for the lock (`Attach`; `Detach`,
`Unlist`). A probe is three steps: `ProbeBegin` takes the lock and pings,
`Scan` computes the fingerprint, `ProbeEnd` compares it with the camera *as it
reads then*, posts the finding and moves the camera to the end of the chain. The
detector's orders are `OnSetControl`, then `AddEntry`, `ApplyDeny` (the entry
first, then the switch) or `ApplyAllow`, `RemoveEntry` (the switch first, then
the entry). A script does what it says, fails and says so, or only seems to
succeed. `RequestReset` and `SessionApply` keep a peculiarity of the code: the entry
a reset adds names the camera's ID where all others name an address.

A fingerprint is a pair of the address and one opaque value, because
the code hashes a text that starts with the address: a camera that is moved
never matches what was registered before. A device that disappears during a
probe still gets a fingerprint, `HalfSeen`. `Fold` is an ID without its letter
case: the chain is searched with `strcasecmp`, the registry with `strcmp`.

Abstracted: timers (a probe may begin at any time), the contents of fingerprints,
logs, alarms and mail, properties of a camera other than its address, the
measures a switch script takes (the shipped scripts leave the daemon's own traffic
to a blocked camera through, so that probing goes on). Assumed: one switch that
stays; memory does not run out; reading the table at start does not fail; one
reset or set-policy command at a time; test mode (`xTest`) off; reads of a
freed camera through a session's raw pointer, undefined in C, change nothing.

### Sessions

| variable | in the code |
|---|---|
| `stop`, `server`, `joining` | `FTM_SERVER.bStop`; where `FTM_SERVER_process` is; the session whose thread it is in `pthread_join` for |
| `slots` | the value of `FTM_SERVER.xSemaphore` |
| `sessionList`, `iter`, `releaseList` | `xSessionList` and the place of its iterator, `xReleaseSessionList` |
| `thread`, `bStop`, `shut` | for each `FTM_SESSION`: where `FTM_SERVER_service` is, its flag, whether its socket is shut down for reading |
| `peer` | the client's end of the connection |

A session is the heap block, and a freed block serves a later connection
(`Accept` takes any that is free), so a release of a stale pointer would be seen. The server's thread goes round
`Loop`, `Accept` or `AcceptNone`, `Release`, `JoinReleased` until the list to
release is empty; after a stop `Final` and `JoinFinal` walk the session list
with its iterator, which `RemoveSession` (`FTM_LIST_remove`) takes back from
the entry it frees. A session's thread waits for a slot (`Acquire`, or `Refuse` after two
seconds), alternates `Serve`, `Recv` and `Answer`, and ends with `Enlist` and
`Post`. A refused session is not enlisted: it keeps its memory and socket
until the stop, as in the code.

Abstracted: what a request is (the commands on cameras are in `CatchB`), the
buffers, and the keys of `ftm_ssid.c` (they are in `Keys`). Assumed: socket, `listen` and `sem_init`
of the server succeed, and there is memory for list entries.

### Keys

| variable | in the code |
|---|---|
| `initialized`, `list` | `_initialized`, `_id_list` |
| `torn` | whether the semaphore `_id_list.xLock` lets two threads in at once |
| `heap` | the `FTM_SSID` blocks: allocated or not, the second each was made in, `ulTime` |
| `now` | the clock |
| `work` | where each session's thread is in `FTM_SSID_create`, `isValid`, `get` or `destroy`, with the key it was given, the `pSSID` and the `ulTime` it holds |
| `lastUse`, `fresh`, `overlapped`, `lost` | ghosts: when a key was really used last; blocks that no thread still held when they were allocated, and that got an entry; keys two requests have used at once; whether the list was initialised over its entries |

A key is a hash of the second it was made in and of the address of its block, so it is
that pair: the key of a freed block can come back only within one second. A request is
`AskCreate` or `AskWith` (any key, also one that never was), then `CheckInit`, `ResetLock`, `InitList`
and `SetInitialized`, which no lock protects. `ResetLock` is the `sem_init` of `FTM_LIST_init`: when a second
thread gets there while a third is inside an operation on the list, the post of that one leaves
the semaphore at 2, and the list is `torn` for good, as it may be when the head's pointers are
set under an operation in progress (`InitList`). Whether the third really had the semaphore, or was still before it, is left
open (`Tear`). In a torn list lookups may miss a key or find one that was
removed, and removals may fail, succeed for two, or leave the entry linked (`Found`, `RemoveKey`); what is linked is not
followed any further. `AppendFails` is that there is no memory for the entry, which
the code does not look at: the operator gets a key that is not in the list. `FindKey` and `FindAgain`, `ReadClock`,
`Compare`, `Stamp`, `RemoveKey`, `Free` are what happens in `FTM_SSID_get`, `isValid` and
`destroy`, with anything in between; a block that has been freed is read as anything and
written to no effect, a block that has been allocated again is written as what it is now.
The age is the unsigned difference of the code: a stamp later than the clock that was
read is very old (`TooOld`). Only the command that gives a key up goes on with it;
`FTM_SERVER_SSID_verify` is one more use of it.

### Alarms

| variable | in the code |
|---|---|
| `list`, `iter` | `FTM_CATCHB.pAlarmList` and its `pIter` |
| `heap`, `was`, `rows` | the `FTM_ALARM` blocks and the text in each (name, address and message); the text a freed block had, while somebody may still read it; the alarm table |
| `work`, `notifier` | where each session's thread and the notifier are |
| `pending` | SEND_ALARM messages in the notifier's queue |
| `due` | ghost: who was to be told when the notifier counted, has not been deleted and is still to be copied; nobody once somebody else moved the iterator |
| `failed`, `reworded` | ghosts: alarms whose INSERT failed; names given to an alarm while another text of that name was about |

Adding is `Malloc`, `AppendAlarm` (or `AppendFails`, and the block is freed), `InsertAlarm`: the statement is made from the block, which
may have been deleted since, used again or not. The name is the primary key, so that a second row is refused and the
first keeps its text; and any INSERT may fail, the database being locked, the disk full or a quote in the
text (`Insert`). Both are taken for a success, as `FTM_DB_addAlarm` compares the result of `sqlite3_exec`
with less than zero (`ftm_db.c:1235`), so that the branch that would take the alarm out of the list again is never
reached. Deleting is `GetAlarm`, `RemoveAlarm`, `Free`: the entry
found by name is removed by address, and only who removed it frees it. Nothing asks whether a
name is taken, and the row stays when an alarm goes (`FTM_DB_deleteAlarm` has no caller), so
a deleted alarm is back after a `Restart`, in the place of a later one of its name with another address. `FTM_LIST_remove` takes the iterator back from
the entry it frees (`UnlinkBack`). `BrowseStart` and `BrowseNext` stand for the functions that go through the alarms
for a client; `FTM_CATCHB_setAlarm` is one that ends after one step and changes nothing, as its loop
goes on while there is *no* next alarm (`!=` at `ftm_catchb.c:2996`). Abstracted: what is in a text but the
name; reading the table at a start does not fail, and there is memory for the alarms then.

### Daemon

| variable | in the code |
|---|---|
| `main`, `catchb` | where the main thread and `FTM_CATCHB_process` are |
| `thread`, `bStop`, `handle`, `quit` | for each worker: where its thread is, its flag, whether `xThread` is set, whether a QUIT is in its queue |
| `capture`, `key` | where `FTM_ANALYZER_threadPCAP` is, the value of `pPCAPLock` |
| `owed` | ghost: probes begun less captures begun |

`StartNext` and `StopNext` go through the workers in the code's two orders. Four workers
clear their flag when they begin to run (`Begin`), catchb's thread clears its own after it
has started the others (`BeginLoop`), the capture thread clears the analyzer's (`CaptureBegin`): each undoes a stop that has come
before. The analyzer's and the notifier's stop sends a QUIT as well; the detector's is
commented out. The server's and the logger's stop look at the flag, the others at the
handle (`ToStop`). A probe of the analyzer and a capture are two steps each; how a capture ends
(broken off or full) makes no difference here. `FTM_CATCHB_stop` is called in the signal's handler, and again by
`FTM_CATCHB_destroy`: `Signal` and `JoinCatchb` are whichever call is the first, the handler's or, in debug mode, where the
handler does nothing and the shell ends, `destroy`'s. It sets `xThread` to 0 after the join (`ftm_catchb.c:725`), so that
the second does nothing. Not modelled: a second signal, of the other kind, during the handler's join. What the threads do in their loops is in the other modules.

## 3. What is checked

Every run finishes its whole state space. Bounds: `MaxInbox` and `MaxDetq` limit
a queue by making whoever posts wait (the code's queues have no limit);
`MaxAcl` limits entries that operators add; `MaxHalts` the number of ends
of the process.

| run | instance | distinct states | shows |
|---|---|---|---|
| `msgqueue_safety` | 2 producers, 2 readers, 3 buffers, symmetry | 555 | `TypeOK`, `TokenBalance`, `OneOwner` |
| `msgqueue_fifo` | 2 producers, 1 reader, 3 buffers, fair | 1143 | `SingleReaderPops`, `ImplementsFifo`, `QueuedIsRead` |
| `catchb_registry` | 2 cameras, 1 address, add, delete, one end of the process | 848 thousand | registry and chain agree: `TypeOK`, `ProbedExists`, `UniqueIds`, `EachScheduledOnce` |
| `catchb_rows` | 1 camera, 2 addresses, add, delete, move, one end | 6.2 million | the table follows: `DbMirrors` |
| `catchb_dbfails` | 1 camera, add, delete, reset, every statement may fail, one end | 3.6 million | `StoredInDb` |
| `catchb_blame` | 1 camera, add, delete, reset, switch errors, one end | 5.1 million | `OnlyConvictedBlocked`, `BlocksAreListed` |
| `catchb_live` | 2 cameras, 2 addresses, 2 kinds of devices, no operators, fair | 197 thousand | `OnlyFaultyBlocked`, `AclMatchesSwitch`; `ImplementsOrders`, `ImpostorGetsBlocked`, `RecoveredGetsFreed`, `ProbedForever` |
| `catchb_policy` | 1 camera, add, reset, set policy, switch failures of both kinds | 1.1 million | `EntryInUse` |
| `sessions` | 3 sessions, 2 slots, fair | 253 thousand | `TypeOK`, `SlotBalance`, `ReleasedOnce`, `NothingLeft`; `ImplementsConnections`, `StopEnds`, `ServedIsReleased` |
| `keys` | 2 sessions, 2 blocks, 3 seconds, time-out of one, symmetry | 8.8 million | `ListedIsLive`, `ActiveKept`, `NoLateService` |
| `alarms` | 2 sessions, 2 names, one of them with 2 texts, 2 blocks, one message pending, failing INSERTs, restarts, fair | 1.7 million | `TypeOK`, `OneOwner`, `IterInList`, `ComesBack`, `NotifiesAll`; `NotifierReturns` |
| `daemon` | the daemon's threads, semaphore up to 2, fair | 160 thousand | `DestroyedAfterJoin`, `CaptureOnlyWhenProbed`; `StopEnds` |

Why the bounds are enough. Two readers are what it takes for one to come between
another's read and remove, and three buffers for an address to be reused while two
are in flight. Two cameras are what it takes for one to take the other's place in the
chain or in the table; the runs about orders and blame need one camera
because an order is computed from one camera's states, and `catchb_live`
has two so that one's orders are interleaved with the other's. An inbox of two
holds a late finding behind (or ahead of) a deletion, a creation or a reset.
Three connections over two slots are what it takes for one to be refused, or to
wait, while one is served and one is being released.
The one end of the process is what it takes to lose memory and keep table and rules.
Two sessions and two blocks let one session expire a key, and its block be made a new key, while the
other holds a pointer to it, or one of them initialise the list again while the other is in it; three seconds are a use, the time-out after it and the first second that is too late. Two alarms let one be deleted on, ahead of or behind the iterator, and its
block come back under another name, or the same with the same text or another; `MaxPending` only holds back the main thread. In `Daemon` the
capture thread can be two probes behind.

What the properties are restricted to, and why:

* `EachScheduledOnce` holds of IDs that differ in more than case; otherwise the
  second camera is never attached.
* `DbMirrors` needs statements that do not fail: the code takes a failed UPDATE
  for a success. A reset clears the fingerprint in memory only.
* `OnlyFaultyBlocked` is checked within one run of the daemon, without resets and deletions: a reset of an
  abnormal camera sends an order to block, and its later registration leads to
  "normal" without an order to free; after a restart, or when it is added again, a blocked camera starts as
  "unregistered", and becomes normal without an order too.
* `RecoveredGetsFreed` and `ImpostorGetsBlocked` speak of one run of the daemon and no operators but such as add
  cameras: a camera that recovers while the daemon is down stays blocked.
* `OnlyConvictedBlocked` excludes moving an ID to another address, which makes
  the camera's old fingerprint a wrong one.
* `ActiveKept` excepts four things the code does not guard against: two requests
  that use one key at once (the later stamp makes the earlier clock "very old"), a
  block that somebody still had in hand when it was allocated again (its time is then
  another key's), no memory for the entry, and a list initialised a second time, over its entries or into an operation on
  it. `NoLateService` excepts the second of these, and blocks without an entry, which only a torn list could hand out; it holds in a torn list too.
* `ListedIsLive` is about a list that is not torn: two that initialise it at once do no harm but
  lose entries; one that does it while another holds its lock may make two removals
  succeed for one entry, which is then freed twice.
* `ComesBack` excepts an alarm whose own INSERT failed, until one for its name is made good, and an alarm whose name was in use with
  another text: that text may be the one that comes back.
* `NotifiesAll` excepts a walk during which another thread moved the iterator: then
  the notifier may miss some and copy others twice.
* `StopEnds` of `Daemon` is about a signal that finds catchb in its loop and the detector and the
  capture thread begun: before that, catchb or the detector may clear the flag after the
  stop, and the program does not end, which is what the code does.
* `DestroyedAfterJoin` excepts the capture thread, which nobody joins, and a logger
  that has not begun to run when it is to be stopped: its flag is still set
  from its creation.
* `ImplementsOrders` is about a switch that does what it is told and one run of the daemon: a
  failed script loses its order, and after a restart an order to free finds no entry
  and is skipped.
* `AclMatchesSwitch` and `BlocksAreListed` speak of one run of the daemon, as a
  restart forgets the list; with failures that the script reports,
  `BlocksAreListed` still holds; with silent ones neither can, and neither is
  checked with them. `BlocksAreListed`
  does not hold when an operator's deny races with the detector's deleteAC.

Deadlock is checked in all `CatchB` runs, where it says little (a device may always
change); the liveness properties are what shows that nobody waits for ever.
`MsgQueue` really stops, once it has been destroyed, and so do `Sessions` and `Daemon`, once
they have been stopped: their runs do not look for deadlocks, and their `StopEnds`
say that they get to their end. (`Keys` is bounded by its clock but sessions can always ask again.)

### Fairness

`MsgQueue`: each thread goes on once it has begun (weak fairness per thread);
nothing makes a producer allocate another message. `CatchB`: weak fairness of the main
thread, analyzer, detector and of a session's command that has begun; strong
fairness of `Attach` and `Detach`, because the analyzer lets go of its
lock between two probes for the length of a 10 ms timedPop, over and over, in which
a waiting main thread gets it. Operators and devices owe nothing; the liveness
properties say under which behaviour of the device they hold. A process
that ends need not be started again, and the live runs have no ends. `Sessions`:
weak fairness of the server's thread and of each session's thread, which is that the
scheduler runs them and that a command comes to an end. `Recv` is left out of it (`OwnStep`): a thread in `recv`
goes on only when its client has closed or its socket is shut down, so clients owe
nothing, not even a request, and nothing makes anyone connect or stop the server.
`Alarms`: weak fairness of the notifier's thread alone. `NotifierReturns` holds although nothing keeps sessions
from moving the iterator at every step. `Daemon`: weak fairness of each thread but the capture
thread, which may wait for packets for ever, and no signal need come; that probes end is the
ping's and the scan's time-outs. `Keys` has no liveness property and no fairness: an expired key
that nobody asks for stays in the list for ever.

## 4. What is proved

For every value of the constants, checked by TLAPS:

| theorem | module | property |
|---|---|---|
| `TypeCorrect`, `OwnershipCorrect`, `BalanceCorrect`, `TokenMeansEntryCorrect` | `MsgQueue_proofs` | `TypeOK`, `OneOwner`, `TokenBalance`, and what follows, `TokenMeansEntry` |
| `SingleReaderCorrect` | `MsgQueue_proofs` | `SingleReaderPops` |
| `FifoRefinement` | `MsgQueue_proofs` | with one reader, `Spec => Fifo!Spec` |
| `TypeCorrect`, `ProbedExistsCorrect`, `EntryInUseCorrect` | `CatchB_proofs` | `TypeOK`, `ProbedExists`, `EntryInUse` |
| `UniqueIdsCorrect` | `CatchB_lists_proofs` | `UniqueIds` |
| `BlocksAreListedCorrect` | `CatchB_lists_proofs` | `BlocksAreListed`, under `Undisturbed` |
| `StoredInDbCorrect` | `CatchB_lists_proofs` | `StoredInDb`, whatever fails |
| `DbMirrorsCorrect` | `CatchB_lists_proofs` | `DbMirrors`, with a database that works |
| `EachScheduledOnceCorrect` | `CatchB_lists_proofs` | `EachScheduledOnce`, under `CaseMatters` |
| `AclMatchesSwitchCorrect` | `CatchB_lists_proofs` | `AclMatchesSwitch`, under `Obedient` |
| `OrdersRefinement` | `CatchB_lists_proofs` | `Spec => Switch!Spec`, under `Obedient` |
| `OnlyConvictedBlockedCorrect` | `CatchB_lists_proofs` | `OnlyConvictedBlocked`, with IDs at home and no policies set by operators |
| `BlockedForCauseCorrect` | `CatchB_lists_proofs` | who will be blocked has a faulty camera at the address (`BlockedForCause`), with IDs at home, under `Obedient`, without deletions |
| `OnlyFaultyBlockedCorrect` | `CatchB_lists_proofs` | `OnlyFaultyBlocked`, with IDs at homes of their own, under `Obedient`, without deletions |
| `TypeCorrect`, `SlotBalanceCorrect`, `ReleasedOnceCorrect`, `NothingLeftCorrect` | `Sessions_proofs` | `TypeOK`, `SlotBalance`, `ReleasedOnce`, `NothingLeft` |
| `ConnectionsRefinement` | `Sessions_proofs` | `ImplementsConnections` |
| `TypeCorrect`, `ListedIsLiveCorrect`, `NoLateServiceCorrect`, `ActiveKeptCorrect` | `Keys_proofs` | `TypeOK`, `ListedIsLive`, `NoLateService`, `ActiveKept` |
| `TypeCorrect`, `OneOwnerCorrect`, `IterInListCorrect`, `ComesBackCorrect`, `NotifiesAllCorrect` | `Alarms_proofs` | `TypeOK`, `OneOwner`, `IterInList`, `ComesBack`, `NotifiesAll` |
| `TypeCorrect`, `DestroyedAfterJoinCorrect`, `CaptureOnlyWhenProbedCorrect` | `Daemon_proofs` | `TypeOK`, `DestroyedAfterJoin`, `CaptureOnlyWhenProbed` |

The `TypeOK` of `Keys` and of `Daemon` is proved only; their runs are about the rest.

*Queue.* `QueueInv == TypeInv /\ OneOwner /\ TokenBalance` is inductive; the
balance, with cardinalities of the sets of threads inside push and pop, needs the
sets of threads to be finite (`ThreadsAssumption`). `TypeInv` adds to the types
that a thread about to append, remove or handle holds a buffer. That a token
means an entry follows from the balance. With one reader the invariant is strengthened with "the head has not
changed since it was read" (`SingleInv`), which is what makes the two-step removal of the
code the one-step `Receive` of `MsgFifo`.

*Registry and analyzer.* `IInv == TypeOK /\ ProbedExists /\ MainKnown /\ FoldDistinct /\ EntryInUse`.
`ProbedExists` alone is not inductive. Deleting a camera removes from the chain
the first ID that is equal *up to case*: that no other copy of the ID stays behind needs
`FoldDistinct` (no two IDs of the chain are equal up to case), and that attaching
does not schedule a camera that is gone needs `MainKnown` (the camera whose handler waits for the lock is in
the registry). No assumption is made of `Fold`: IDs may
differ in letter case only, which the runs, where `Fold` is the identity, do not show. `EntryInUse` needs nothing but
types: sessions only append. `ConstantsAssumption` says that IDs are finite in number
(a start posts the rows in some order) and that `HalfSeen` is a
fingerprint and `Down` is none; `InitDbAssumption` that the first table is
well-formed; `NoneAssumption` that the value for "nothing" is no probe, request or work. TLC
evaluates all three in every run.

*Unique IDs.* `UInv` adds to `IInv` that FOUND messages are new, distinct and
ahead of all others (`Announced`), and that a daemon that is down knows no camera
(`DownEmpty`), without which a start could announce what is known already.

*Blocks are listed.* `LInv` adds where the detector is: in `ApplyDeny` its entry
is there already, in `RemoveEntry` the address has been freed. `Undisturbed` is
the precondition: no silent failure of the switch, no policies set by operators; the
property itself speaks of the time before the first end of the process.

*Rows.* `DInv` is `Stored` (each camera known or announced has a row) and, when no statement
fails, `Mirror` (the row says the same, and there are no other rows). One row
belongs to one camera only because IDs are unique, so `UInv` is needed beside it. That
an announced camera still has its row when its message is read rests on announcements being
ahead of every deletion, again `UInv`. A restart brings
back exactly the rows: this is where `Mirror` of the state before becomes that of the announcements after.

*Chain.* `SInv` says that the chain is the registry less the camera whose handler waits for
the lock; that each is there once is `FoldDistinct` of `IInv`. `CaseMatters` (no two IDs are equal up to
letter case) cannot be dropped: the second of two such cameras is never attached, and deleting
it detaches the first, which is what the code does.

*Access controls.* `AInv` relates list and rules address by address, all but the one the
detector is at work on, and has one entry per address. `Obedient` says that the
daemon does not end, scripts work, and operators do not touch the list (reset, set policy). The detector skips an
order when it finds (or misses) an entry; with `AInv` this means that
the switch has what is ordered, so that skipping is `CarryOut` of `Orders` with no effect, which is
`OrdersRefinement`. The order in hand counts as not carried out up to the script's end (`InHand`).

*Blame.* `CInv(home)` follows a conviction all the way: a finding in flight, an abnormal camera,
an order queued, the detector's work, a rule. Every step of it is at one address, `home`,
per ID: after a move a late finding would convict the new address. All
failures of scripts and statements, resets, deletions and ends of the daemon are allowed.

*Who is blocked.* `WillBlock(ip)` is what the switch will do with an address when the
detector's queue is empty: the last order for it, or else the one in hand, or else the rule (`WillBlockIs` and
the lemmas after it say how adding and taking an order changes it; taking one needs
`AInv`, because orders are skipped). `BlockedForCause` is that an address that will be blocked has a camera
shown as abnormal, or one that has stopped answering after it. It is inductive with `Calm` (nothing in the
queue deletes or resets), whichever cameras share an address, for a camera that is cleared frees its address
even when another one there is at fault. `OnlyFaultyBlocked` follows when cameras do not share addresses
(`OwnHome`). The hypotheses exclude exactly what the code has no order for: a blocked camera that is deleted or
reset stays blocked, one that is moved leaves its old address blocked, and a normal
camera at the address of an abnormal one is blocked with it.

*Sessions.* `IInv == TypeOK /\ SlotBalance /\ ReleasedOnce /\ Walk`. `Walk` ties the
iterator to where the server's thread is: at the head while it accepts, releases
and between two sessions of the final walk, and on the session that it joins there. That is why
`RemoveSession` brings it back to the head each time, so that the walk ends only
when the list is empty, which is `NothingLeft`. `SlotBalance` is proved with the
cardinality of the set of sessions that hold a slot, for which their number has
to be finite (`SessionAssumption`). The limit of `Connections` follows from it.

*Keys.* `IInv == TypeOK /\ Hands /\ Made /\ Alone /\ Judged /\ Kept /\ ListedIsLive`.
`ListedIsLive` needs only `Hands`, which says in which places a thread has a block; it is claimed of a list that is
not torn, and a list never becomes whole again. The two
properties about time need what each thread knows of its block (`Judged`): from the
finding on, that the block has the key; after the comparison, that the key was in time,
or, if nobody else used it meanwhile, that it was not; and that a block's stamp is that of its
key's last use (`Made`). Both are true of blocks that nobody held when they were allocated (`fresh`),
and this is where the ghosts come from: each exception of `ActiveKept` is a step at
which `Judged` would break without it. `WorkStep` proves all steps at once that touch neither
list nor heap. Of the constants only `KeysAssumption` is used.

*Alarms.* `IInv` is `TypeOK`, `OneOwner`, `IterInList`, `WorkOK` (which
thread has a block), `Rowed` and `Same`; `OneOwner` is what makes the removal by address sound, `IterInList`
needs that `PrevOf` of an entry is another one or the head. `Rowed` and `Same` are what `ComesBack` rests on: an
alarm whose addition is over has a row of its name or counts as failed, and a name
that was not given with another text has one text in all alarms, rows and blocks that a thread may still read. That
last part, `was`, is needed because the statement may be made from a block that was freed: it must bring no text into the
table that is not accounted for. That the table has one text for a name, its primary key, is what a restart
starts from. `NotifiesAll` adds
`WalkInv`: there are a number `d` and a place `p` such that the alarms still to be told are among the first `d` of the list,
the iterator is on the `p`-th, and, as long as there are any, none of them is before it and the array has room for the `d - p`
that are left. An alarm that is added comes behind them; one that is removed
changes `d`, and `p` if it was before or under the iterator, which is where the code takes the iterator back.

*Daemon.* `Started` says which threads exist and have a handle, `Stopped` that all
workers before the one being stopped have ended, `Captures` that the semaphore's value
is the captures owed, plus the one unit it has at first until the capture thread takes it.

Only model-checked: liveness and the fairness halves of `ImplementsFifo` and `ImplementsOrders`
(temporal reasoning under fairness and `ENABLED` are out of the prover's reach). Every invariant
and step property that a run checks is proved, under the hypotheses of the table. Induction over data (an operator as
a parameter of the library's induction theorems) cannot be done with the installed
provers, and a module with a RECURSIVE operator cannot have proofs: none of
these modules has one. The least position a search returns is shown to exist from
well-foundedness of `<` on the naturals instead.

## 5. Not modelled, and what is left

* *Switch dialogues* (`ftm_switch*.c`, `ftm_telnet.c`, `ftm_ssh.c`): one thread at a time sends
  lines and waits for prompts; what the rest of the daemon sees of it is a result
  that may be false, and that is in `CatchB`.
* *Switch registry*: sessions destroy a switch with its list while the detector or
  another session may be inside one of its scripts. Nothing keeps them apart, so that every
  interesting behaviour goes on with freed memory and no property holds of it.
* *Statistics*: `FTM_CATCHB_setStatisticsMaxCount` frees the first sample and leaves it in the
  list, and deletions by position take two critical sections; the same applies.
* *Logger*: its queue is `MsgQueue`'s, its life is `Daemon`'s; the retention limit is one
  DELETE statement.
* *Timer events*: the only call that would add one is inside `#if 0` (`ftm_catchb.c:1068`).
* *Two sessions' commands at once* in `CatchB` (one reset or set-policy at a time), more than one
  switch, test mode, and what a session reads through a camera's pointer after the camera is gone.
* *Client library, CGI programs, shells, configuration, ping, port scan, score, mail*: one
  request and one answer, text, sockets; no state that outlives a call.
* *Vendored code* (`libssh`, `libtelnet`, `cJSON`, AES, gzip, SHA-1) is most of the lines of the
  repository. It is third-party code, none of which the models depend on but through a
  result, so that the share of all lines that is mapped stays small.

Left to do: what remains true of blocks when cameras are deleted, moved or reset (a camera that is
deleted while it is blocked keeps its rule); two sessions' commands at once.
